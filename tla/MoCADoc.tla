------------------------------- MODULE MoCADoc -------------------------------
(***************************************************************************)
(* How a WebConfig document becomes a mocadoc_t: the msgpack map that      *)
(* CosaDmlmocaUnpack gets, searched for "moca" by the helpers, and the map *)
(* behind that, searched for "Enable".  base64 and msgpack are external.   *)
(*                                                                         *)
(* Names are compared up to the length of one of them, so Begins says      *)
(* which names begin others.  Of a value only what is looked at is kept:   *)
(* its type, what a boolean says, and the items of a map.                  *)
(***************************************************************************)
EXTENDS Naturals, Sequences

CONSTANTS
    Name,       \* keys of the maps
    Begins,     \* pairs of names: the first one begins the second one
    Blob        \* documents that may come

Type == {"map", "str", "boolean", "integer"}

(* An item of the inner map; val is FALSE where it is no boolean. *)
Setting == [key : Name, type : Type \ {"map"}, val : BOOLEAN]

(* An item of the outer map. *)
Field == [key : Name, type : Type, map : Seq(Setting)]

Distinct(map) == \A k, l \in DOMAIN map : map[k].key = map[l].key => k = l

Header == {"subdoc_name", "version", "transaction_id"}

(* Documents hold what WebConfig puts into them: each key once, around the  *)
(* settings a header, and no setting whose name is a beginning of "Enable". *)
(* (A document without a header or without its "moca" would be followed     *)
(* through a NULL pointer.)                                                 *)
ASSUME DocAssumption ==
    /\ Header \cup {"moca", "Enable"} \subseteq Name
    /\ Begins \subseteq Name \X Name
    /\ \A m, n \in Header \cup {"moca"} : <<m, n>> \notin Begins
    /\ Blob \subseteq [unpacks : BOOLEAN, map : Seq(Field)]
    /\ \A blob \in Blob : blob.unpacks =>
        /\ Distinct(blob.map)
        /\ {blob.map[k].key : k \in DOMAIN blob.map} = Header \cup {"moca"}
        /\ \A k \in DOMAIN blob.map :
            /\ blob.map[k].type = "map" <=> blob.map[k].key = "moca"
            /\ Distinct(blob.map[k].map)
            /\ \A l \in DOMAIN blob.map[k].map :
                <<blob.map[k].map[l].key, "Enable">> \notin Begins

-----------------------------------------------------------------------------
(* strncmp with the length of the key: the key may be shorter. *)
match(item, name) == item.key = name \/ <<item.key, name>> \in Begins

(* strncmp with the length of the name: the key may be longer. *)
starts(item, name) == item.key = name \/ <<name, item.key>> \in Begins

(* __finder_comp: where the first item of that name is, if there is one.    *)
finder_comp(name, expect, map) ==
    LET Hits(item) == IF item.type = expect THEN match(item, name) ELSE starts(item, name)
    IN {k \in DOMAIN map : Hits(map[k]) /\ \A l \in 1 .. k - 1 : ~Hits(map[l])}

(* process_mocaparams: the first boolean of that name is taken; without one *)
(* the document is refused.                                                 *)
process_mocaparams(map, enable) ==
    LET Hits(item) == item.type = "boolean" /\ match(item, "Enable")
    IN \E k \in DOMAIN map : /\ Hits(map[k]) /\ \A l \in 1 .. k - 1 : ~Hits(map[l])
                             /\ enable = map[k].val

(* process_mocadoc: the header goes to the framework. *)
process_mocadoc(inner, header, enable) ==
    /\ \A name \in Header : header[name] # {}
    /\ process_mocaparams(inner.map, enable)

(* The header is looked for as if it were made of maps, too. *)
comp_helper_convert(map, wrapper, expect, enable) ==
    \E k \in finder_comp(wrapper, expect, map) :
        process_mocadoc(map[k], [name \in Header |-> finder_comp(name, expect, map)], enable)

mocadoc_convert(map, enable) == comp_helper_convert(map, "moca", "map", enable)

(* CosaDmlmocaUnpack: blob becomes a request to set enable.  Otherwise      *)
(* nothing is asked of the WebConfig thread, whether the bus is told that   *)
(* the document is corrupted or, as for one without Enable, that all is     *)
(* well.                                                                    *)
CosaDmlmocaUnpack(blob, enable) == blob.unpacks /\ mocadoc_convert(blob.map, enable)

-----------------------------------------------------------------------------
(* What a document says of Enable, whatever stands where in it: a value or  *)
(* nothing.                                                                 *)
Says(blob) ==
    {enable \in BOOLEAN :
        /\ blob.unpacks
        /\ \E k \in DOMAIN blob.map :
            /\ blob.map[k].key = "moca"
            /\ \E l \in DOMAIN blob.map[k].map :
                blob.map[k].map[l] = [key |-> "Enable", type |-> "boolean", val |-> enable]}

=============================================================================
