---------------------------- MODULE MoCADocProofs ----------------------------
(* What is proved about the decoding of documents. *)
EXTENDS MoCADoc, TLAPS

(* The parts of the assumption that a document is made of. *)
LEMMA Shape ==
    ASSUME NEW blob \in Blob, blob.unpacks
    PROVE  /\ blob.map \in Seq(Field)
           /\ Distinct(blob.map)
           /\ {blob.map[k].key : k \in DOMAIN blob.map} = Header \cup {"moca"}
           /\ \A k \in DOMAIN blob.map :
                /\ blob.map[k].map \in Seq(Setting)
                /\ blob.map[k].type = "map" <=> blob.map[k].key = "moca"
                /\ Distinct(blob.map[k].map)
                /\ \A l \in DOMAIN blob.map[k].map :
                    <<blob.map[k].map[l].key, "Enable">> \notin Begins
<1>1. blob.map \in Seq(Field)
  BY DocAssumption
<1>2. ASSUME NEW k \in DOMAIN blob.map PROVE blob.map[k].map \in Seq(Setting)
  <2>1. blob.map[k] \in Field
    BY <1>1
  <2> QED
    BY <2>1 DEF Field
<1> QED
  BY <1>1, <1>2, DocAssumption

(* Each of the names is found, where it stands and nowhere else. *)
LEMMA Finds ==
    ASSUME NEW blob \in Blob, blob.unpacks, NEW k \in DOMAIN blob.map
    PROVE  finder_comp(blob.map[k].key, "map", blob.map) = {k}
<1> DEFINE map == blob.map
           Hits(item) == IF item.type = "map" THEN match(item, map[k].key)
                         ELSE starts(item, map[k].key)
<1>1. \A l \in DOMAIN map : map[l].key \in Header \cup {"moca"}
  BY Shape
<1>2. \A l \in DOMAIN map : Hits(map[l]) <=> map[l].key = map[k].key
  BY <1>1, DocAssumption DEF match, starts
<1>3. \A l \in DOMAIN map : Hits(map[l]) <=> l = k
  BY <1>2, Shape DEF Distinct
<1>4. \A l \in DOMAIN map : \A m \in 1 .. l - 1 : m \in DOMAIN map /\ m # l
  BY Shape
<1>5. finder_comp(map[k].key, "map", map) =
          {l \in DOMAIN map : Hits(map[l]) /\ \A m \in 1 .. l - 1 : ~Hits(map[m])}
  BY DEF finder_comp
<1> QED
  BY <1>3, <1>4, <1>5

(* The first boolean that is taken for Enable is the only one. *)
LEMMA Takes ==
    ASSUME NEW map \in Seq(Setting), Distinct(map), NEW enable \in BOOLEAN,
           \A l \in DOMAIN map : <<map[l].key, "Enable">> \notin Begins
    PROVE  process_mocaparams(map, enable) <=>
               \E l \in DOMAIN map :
                   map[l] = [key |-> "Enable", type |-> "boolean", val |-> enable]
<1> DEFINE Hits(item) == item.type = "boolean" /\ match(item, "Enable")
<1>1. \A l \in DOMAIN map : Hits(map[l]) <=> map[l].type = "boolean" /\ map[l].key = "Enable"
  BY DEF match
<1>2. \A l \in DOMAIN map : \A m \in 1 .. l - 1 : m \in DOMAIN map /\ m # l
  OBVIOUS
<1>3. \A l \in DOMAIN map : Hits(map[l]) => \A m \in 1 .. l - 1 : ~Hits(map[m])
  BY <1>1, <1>2 DEF Distinct
<1>4. \A l \in DOMAIN map :
        Hits(map[l]) /\ enable = map[l].val <=>
            map[l] = [key |-> "Enable", type |-> "boolean", val |-> enable]
  <2> TAKE l \in DOMAIN map
  <2>1. map[l] \in Setting
    OBVIOUS
  <2>2. map[l] = [key |-> map[l].key, type |-> map[l].type, val |-> map[l].val]
    BY <2>1 DEF Setting
  <2>3. Hits(map[l]) /\ enable = map[l].val =>
            map[l] = [key |-> "Enable", type |-> "boolean", val |-> enable]
    BY <1>1, <2>2
  <2>4. map[l] = [key |-> "Enable", type |-> "boolean", val |-> enable] =>
            map[l].key = "Enable" /\ map[l].type = "boolean" /\ map[l].val = enable
    OBVIOUS
  <2> QED
    BY <1>1, <2>3, <2>4
<1>5. process_mocaparams(map, enable) <=>
          \E l \in DOMAIN map : /\ Hits(map[l]) /\ \A m \in 1 .. l - 1 : ~Hits(map[m])
                                /\ enable = map[l].val
  BY DEF process_mocaparams
<1> QED
  BY <1>3, <1>4, <1>5

(* A document becomes a request exactly if it says what to set Enable to,   *)
(* and for that value, in whatever order its parts come and whatever other  *)
(* settings it holds: neither comparing names up to the length of one of    *)
(* them nor looking for strings as if they were maps does harm.             *)
THEOREM DecodingIsRight ==
    ASSUME NEW blob \in Blob, NEW enable \in BOOLEAN
    PROVE  CosaDmlmocaUnpack(blob, enable) <=> enable \in Says(blob)
<1>1. CASE ~blob.unpacks
  BY <1>1 DEF CosaDmlmocaUnpack, Says
<1>2. CASE blob.unpacks
  <2>1. PICK k \in DOMAIN blob.map : blob.map[k].key = "moca"
    <3>1. "moca" \in {blob.map[k].key : k \in DOMAIN blob.map}
      BY <1>2, Shape
    <3> QED
      BY <3>1
  <2>2. \A l \in DOMAIN blob.map : blob.map[l].key = "moca" <=> l = k
    BY <1>2, <2>1, Shape DEF Distinct
  <2>3. finder_comp("moca", "map", blob.map) = {k}
    BY <1>2, <2>1, Finds
  <2>4. \A name \in Header : finder_comp(name, "map", blob.map) # {}
    <3> TAKE name \in Header
    <3>1. PICK l \in DOMAIN blob.map : blob.map[l].key = name
      BY <1>2, Shape
    <3> QED
      BY <1>2, <3>1, Finds
  <2>5. CosaDmlmocaUnpack(blob, enable) <=> process_mocaparams(blob.map[k].map, enable)
    BY <1>2, <2>3, <2>4
    DEF CosaDmlmocaUnpack, mocadoc_convert, comp_helper_convert, process_mocadoc
  <2>6. enable \in Says(blob) <=>
            \E l \in DOMAIN blob.map[k].map :
                blob.map[k].map[l] = [key |-> "Enable", type |-> "boolean", val |-> enable]
    BY <1>2, <2>1, <2>2 DEF Says
  <2>7. /\ blob.map[k].map \in Seq(Setting) /\ Distinct(blob.map[k].map)
        /\ \A l \in DOMAIN blob.map[k].map :
            <<blob.map[k].map[l].key, "Enable">> \notin Begins
    BY <1>2, Shape
  <2> QED
    BY <2>5, <2>6, <2>7, Takes
<1> QED
  BY <1>1, <1>2, DocAssumption

=============================================================================
