----------------------------- MODULE MRDProofs -----------------------------
(***************************************************************************)
(* Proofs about MRD, for every set of addresses, all sizes and all bounds. *)
(***************************************************************************)
EXTENDS MRD, SequenceTheorems, FiniteSetTheorems, FunctionTheorems, TLAPS

USE MRDAssumption DEF Fault, Side, Pc, Pointer

-----------------------------------------------------------------------------
(* Tables. *)

(* What is known of a table. *)
LEMMA TableFacts ==
    ASSUME NEW S, NEW table \in Seq(S)
    PROVE  /\ DOMAIN table = 1 .. Len(table) /\ Len(table) \in Nat
           /\ \A k \in 1 .. Len(table) : table[k] \in S
BY LenProperties, ElementOfSeq

(* A slot is overwritten. *)
LEMMA SlotWritten ==
    ASSUME NEW S, NEW table \in Seq(S), NEW k \in 1 .. Len(table), NEW e \in S
    PROVE  /\ [table EXCEPT ![k] = e] \in Seq(S)
           /\ Len([table EXCEPT ![k] = e]) = Len(table)
           /\ \A l \in 1 .. Len(table) :
                [table EXCEPT ![k] = e][l] = IF l = k THEN e ELSE table[l]
BY ExceptSeq

(* An entry is added. *)
LEMMA EntryAdded ==
    ASSUME NEW S, NEW table \in Seq(S), NEW e \in S
    PROVE  /\ Append(table, e) \in Seq(S)
           /\ Len(Append(table, e)) = Len(table) + 1
           /\ \A l \in 1 .. Len(table) + 1 :
                Append(table, e)[l] = IF l <= Len(table) THEN table[l] ELSE e
<1>1. Len(table) \in Nat
  BY LenProperties
<1> QED
  BY <1>1, AppendProperties

(* An entry is deleted: the last one takes its slot. *)
LEMMA SlotDropped ==
    ASSUME NEW S, NEW table \in Seq(S), NEW k \in 1 .. Len(table)
    PROVE  /\ WithoutSlot(table, k) \in Seq(S)
           /\ Len(WithoutSlot(table, k)) = Len(table) - 1
           /\ \A l \in 1 .. Len(table) - 1 :
                WithoutSlot(table, k)[l] = IF l = k THEN table[Len(table)]
                                           ELSE table[l]
<1> DEFINE last == table[Len(table)]
           moved == [table EXCEPT ![k] = last]
<1>1. Len(table) \in Nat /\ Len(table) \in 1 .. Len(table)
  BY LenProperties
<1>2. last \in S
  BY <1>1, ElementOfSeq
<1> HIDE DEF last
<1>3. /\ moved \in Seq(S) /\ Len(moved) = Len(table)
      /\ \A l \in 1 .. Len(table) : moved[l] = IF l = k THEN last ELSE table[l]
  BY <1>2, SlotWritten
<1> HIDE DEF moved
<1> DEFINE n == Len(table) - 1
<1>4. n \in Nat /\ n <= Len(table)
  BY <1>1
<1>5. \A l \in 1 .. n : l \in 1 .. Len(table)
  BY <1>1
<1>6. \A l \in 1 .. n : moved[l] \in S
  BY <1>3, <1>5, ElementOfSeq
<1> HIDE DEF n
<1>7. /\ SubSeq(moved, 1, n) \in Seq(S)
      /\ Len(SubSeq(moved, 1, n)) = n
      /\ \A l \in 1 .. n : SubSeq(moved, 1, n)[l] = moved[l]
  BY <1>3, <1>4, <1>6, SubSeqProperties
<1>8. WithoutSlot(table, k) = SubSeq(moved, 1, n)
  BY DEF WithoutSlot, moved, last, n
<1> QED
  BY <1>3, <1>5, <1>7, <1>8 DEF n, last

(* The slot of a tracked address. *)
LEMMA SlotFound ==
    ASSUME NEW S, NEW table \in Seq(S), NEW a \in Tracked(table)
    PROVE  Slot(table, a) \in 1 .. Len(table) /\ table[Slot(table, a)].ipAddr = a
<1>1. DOMAIN table = 1 .. Len(table)
  BY LenProperties
<1>2. \E k \in DOMAIN table : table[k].ipAddr = a
  BY DEF Tracked
<1> QED
  BY <1>1, <1>2 DEF Slot

-----------------------------------------------------------------------------
(* How a step may change a table: nothing, an entry overwritten by one with *)
(* the same address, an entry of an untracked address added where there is  *)
(* room, an entry deleted, the table emptied.                               *)
Same(t, u) == u = t

Wrote(t, u, k) ==
    /\ k \in 1 .. Len(t) /\ Len(u) = Len(t)
    /\ u[k].ipAddr = t[k].ipAddr
    /\ \A l \in 1 .. Len(t) : l # k => u[l] = t[l]

Added(t, u) ==
    /\ Len(t) < MAX_MCAST_ENTRIES /\ Len(u) = Len(t) + 1
    /\ \A l \in 1 .. Len(t) : u[l] = t[l]
    /\ \A l \in 1 .. Len(t) : t[l].ipAddr # u[Len(u)].ipAddr

Dropped(t, u, k) ==
    /\ k \in 1 .. Len(t) /\ Len(u) = Len(t) - 1
    /\ \A l \in 1 .. Len(u) : u[l] = IF l = k THEN t[Len(t)] ELSE t[l]

Distinct(t) == \A k, l \in 1 .. Len(t) : t[k].ipAddr = t[l].ipAddr => k = l

Emptied(u) == u = << >>

(* Each keeps the addresses distinct. *)
LEMMA ChangeKeepsDistinct ==
    ASSUME NEW S, NEW t \in Seq(S), NEW u \in Seq(S), Distinct(t),
           \/ Same(t, u) \/ Added(t, u) \/ Emptied(u)
           \/ \E k \in 1 .. Len(t) : Wrote(t, u, k) \/ Dropped(t, u, k)
    PROVE  Distinct(u)
<1>0. Len(t) \in Nat /\ Len(u) \in Nat
  BY LenProperties
<1>1. CASE Same(t, u)
  BY <1>1 DEF Same
<1>2. CASE Added(t, u)
  <2>1. \A k \in 1 .. Len(u) : k \in 1 .. Len(t) \/ k = Len(u)
    BY <1>0, <1>2 DEF Added
  <2>2. \A l \in 1 .. Len(t) : u[l].ipAddr # u[Len(u)].ipAddr
    BY <1>2 DEF Added
  <2> QED
    BY <1>2, <2>1, <2>2 DEF Added, Distinct
<1>3. CASE Emptied(u)
  BY <1>3 DEF Emptied, Distinct
<1>4. ASSUME NEW k \in 1 .. Len(t), Wrote(t, u, k) PROVE Distinct(u)
  <2>1. \A l \in 1 .. Len(t) : u[l].ipAddr = t[l].ipAddr
    BY <1>4 DEF Wrote
  <2> QED
    BY <1>4, <2>1 DEF Wrote, Distinct
<1>5. ASSUME NEW k \in 1 .. Len(t), Dropped(t, u, k) PROVE Distinct(u)
  <2>1. \A l \in 1 .. Len(u) : l \in 1 .. Len(t) /\ l # Len(t)
    BY <1>0, <1>5 DEF Dropped
  <2>2. Len(t) \in 1 .. Len(t)
    BY <1>0
  <2> QED
    BY <1>5, <2>1, <2>2 DEF Dropped, Distinct
<1> QED
  BY <1>1, <1>2, <1>3, <1>4, <1>5

-----------------------------------------------------------------------------
(* What the operators of the daemon do to a table. *)
Entry(a, flag) ==
    [ipAddr |-> a, mcastStatus |-> flag, mcastAliveCount |-> MAX_MLIFE]

(* What WanEntered does to the table: the entry of the source is written, or added. *)
LEMMA WanEnteredTable ==
    ASSUME WanMCastTable \in Seq(WanEntry), NEW a \in Addr, NEW flag \in BOOLEAN
    PROVE  /\ WanEntered(a, flag) \in Seq(WanEntry)
           /\ \/ /\ a \in Tracked(WanMCastTable)
                 /\ LET k == Slot(WanMCastTable, a)
                    IN /\ Wrote(WanMCastTable, WanEntered(a, flag), k)
                       /\ WanEntered(a, flag)[k] = Entry(a, flag)
                       /\ WanMCastTable[k].ipAddr = a
              \/ /\ a \notin Tracked(WanMCastTable)
                 /\ Added(WanMCastTable, WanEntered(a, flag))
                 /\ WanEntered(a, flag)[Len(WanMCastTable) + 1] = Entry(a, flag)
              \/ /\ a \notin Tracked(WanMCastTable)
                 /\ ~(Len(WanMCastTable) < MAX_MCAST_ENTRIES)
                 /\ WanEntered(a, flag) = WanMCastTable
<1> DEFINE t == WanMCastTable
           e == Entry(a, flag)
           u == WanEntered(a, flag)
<1>0. /\ e \in WanEntry /\ e.ipAddr = a
      /\ DOMAIN t = 1 .. Len(t) /\ Len(t) \in Nat
  BY TableFacts DEF Entry, WanEntry
<1>1. CASE a \in Tracked(t)
  <2> DEFINE k == Slot(t, a)
  <2>1. k \in 1 .. Len(t) /\ t[k].ipAddr = a
    BY <1>1, SlotFound
  <2>2. u = [t EXCEPT ![k] = e]
    BY <1>1 DEF WanEntered, Entry
  <2> HIDE DEF u, e, k
  <2>3. /\ u \in Seq(WanEntry) /\ Len(u) = Len(t)
        /\ \A l \in 1 .. Len(t) : u[l] = IF l = k THEN e ELSE t[l]
    BY <1>0, <2>1, <2>2, SlotWritten
  <2>4. Wrote(t, u, k) /\ u[k] = e
    BY <1>0, <2>1, <2>3 DEF Wrote
  <2> QED
    BY <1>1, <2>1, <2>3, <2>4 DEF u, e, k
<1>2. CASE a \notin Tracked(t) /\ Len(t) < MAX_MCAST_ENTRIES
  <2>1. u = Append(t, e)
    BY <1>2 DEF WanEntered, Entry
  <2>2. \A l \in 1 .. Len(t) : t[l].ipAddr # a
    BY <1>0, <1>2 DEF Tracked
  <2> HIDE DEF u, e
  <2>3. /\ u \in Seq(WanEntry) /\ Len(u) = Len(t) + 1
        /\ \A l \in 1 .. Len(t) + 1 : u[l] = IF l <= Len(t) THEN t[l] ELSE e
    BY <1>0, <2>1, EntryAdded
  <2>4. u[Len(t) + 1] = e /\ \A l \in 1 .. Len(t) : u[l] = t[l]
    <3>1. /\ Len(t) + 1 \in 1 .. Len(t) + 1 /\ ~(Len(t) + 1 <= Len(t))
          /\ \A l \in 1 .. Len(t) : l \in 1 .. Len(t) + 1 /\ l <= Len(t)
      BY <1>0
    <3> QED
      BY <2>3, <3>1
  <2>5. Added(t, u)
    BY <1>0, <1>2, <2>2, <2>3, <2>4 DEF Added
  <2> QED
    BY <1>2, <2>3, <2>4, <2>5 DEF u, e
<1>3. CASE a \notin Tracked(t) /\ ~(Len(t) < MAX_MCAST_ENTRIES)
  BY <1>3 DEF WanEntered
<1> QED
  BY <1>1, <1>2, <1>3

(* What Aged does to a table: one entry loses a life, or its last one and its place. *)
LEMMA AgedTable ==
    ASSUME NEW S \in {LanEntry, WanEntry}, NEW t \in Seq(S), i \in 1 .. Len(t)
    PROVE  /\ Aged(t) \in Seq(S)
           /\ \/ /\ Wrote(t, Aged(t), i) /\ t[i].mcastAliveCount > 1
                 /\ Aged(t)[i] = [t[i] EXCEPT !.mcastAliveCount = @ - 1]
              \/ Dropped(t, Aged(t), i) /\ t[i].mcastAliveCount = 1
<1> DEFINE e == [t[i] EXCEPT !.mcastAliveCount = @ - 1]
           u == Aged(t)
<1>1. t[i] \in S /\ S \in {LanEntry, WanEntry}
  BY TableFacts
<1>2. t[i].mcastAliveCount \in 1 .. MAX_MLIFE
  <2>1. CASE S = LanEntry
    BY <1>1, <2>1 DEF LanEntry
  <2>2. CASE S = WanEntry
    BY <1>1, <2>2 DEF WanEntry
  <2> QED
    BY <1>1, <2>1, <2>2
<1>3. CASE t[i].mcastAliveCount > 1
  <2>1. e \in S /\ e.ipAddr = t[i].ipAddr
    <3>0. \A c \in 1 .. MAX_MLIFE : c > 1 => c - 1 \in 1 .. MAX_MLIFE
      OBVIOUS
    <3>1. t[i].mcastAliveCount - 1 \in 1 .. MAX_MLIFE
      BY <1>2, <1>3, <3>0
    <3>2. CASE S = LanEntry
      BY <1>1, <3>1, <3>2 DEF LanEntry
    <3>3. CASE S = WanEntry
      BY <1>1, <3>1, <3>3 DEF WanEntry
    <3> QED
      BY <1>1, <3>2, <3>3
  <2>2. u = [t EXCEPT ![i] = e]
    BY <1>3 DEF Aged
  <2> HIDE DEF u, e
  <2>3. /\ u \in Seq(S) /\ Len(u) = Len(t)
        /\ \A l \in 1 .. Len(t) : u[l] = IF l = i THEN e ELSE t[l]
    BY <2>1, <2>2, SlotWritten
  <2>4. Wrote(t, u, i) /\ u[i] = e
    BY <2>1, <2>3 DEF Wrote
  <2> QED
    BY <1>3, <2>3, <2>4 DEF u, e
<1>4. CASE ~(t[i].mcastAliveCount > 1)
  <2>1. t[i].mcastAliveCount = 1
    BY <1>2, <1>4
  <2>2. u = WithoutSlot(t, i)
    BY <1>4 DEF Aged
  <2> HIDE DEF u
  <2>3. u \in Seq(S) /\ Dropped(t, u, i)
    <3> DEFINE w == WithoutSlot(t, i)
    <3>1. /\ w \in Seq(S) /\ Len(w) = Len(t) - 1
          /\ \A l \in 1 .. Len(t) - 1 : w[l] = IF l = i THEN t[Len(t)] ELSE t[l]
      BY SlotDropped
    <3> HIDE DEF w
    <3>2. Dropped(t, w, i)
      BY <3>1 DEF Dropped
    <3> QED
      BY <2>2, <3>1, <3>2 DEF w
  <2> QED
    BY <2>1, <2>3 DEF u
<1> QED
  BY <1>3, <1>4

(* What a LAN line does. *)
LEMMA LanLineTable ==
    ASSUME LanMCastTable \in Seq(LanEntry), NEW a \in Addr, LanLine(a)
    PROVE  /\ LanMCastTable' \in Seq(LanEntry)
           /\ \/ /\ a \notin Tracked(LanMCastTable)
                 /\ ~(Len(LanMCastTable) < MAX_MCAST_ENTRIES)
                 /\ Same(LanMCastTable, LanMCastTable')
              \/ /\ a \notin Tracked(LanMCastTable)
                 /\ Added(LanMCastTable, LanMCastTable')
                 /\ LanMCastTable'[Len(LanMCastTable) + 1].ipAddr = a
              \/ /\ a \in Tracked(LanMCastTable)
                 /\ \E k \in 1 .. Len(LanMCastTable) :
                        Wrote(LanMCastTable, LanMCastTable', k)
<1> DEFINE t == LanMCastTable
           e == [ipAddr |-> a, mcastAliveCount |-> MAX_MLIFE]
<1>0. /\ e \in LanEntry /\ e.ipAddr = a
      /\ DOMAIN t = 1 .. Len(t) /\ Len(t) \in Nat
  BY TableFacts DEF LanEntry
<1>1. CASE a \in Tracked(t)
  <2> DEFINE k == Slot(t, a)
  <2>1. k \in 1 .. Len(t) /\ t[k].ipAddr = a
    BY <1>1, SlotFound
  <2>2. t' = [t EXCEPT ![k] = e]
    BY <1>1 DEF LanLine
  <2> HIDE DEF e, k
  <2>3. /\ t' \in Seq(LanEntry) /\ Len(t') = Len(t)
        /\ \A l \in 1 .. Len(t) : t'[l] = IF l = k THEN e ELSE t[l]
    BY <1>0, <2>1, <2>2, SlotWritten
  <2> QED
    BY <1>0, <1>1, <2>1, <2>3 DEF Wrote
<1>2. CASE a \notin Tracked(t) /\ Len(t) < MAX_MCAST_ENTRIES
  <2>1. t' = Append(t, e)
    BY <1>2 DEF LanLine
  <2>2. \A l \in 1 .. Len(t) : t[l].ipAddr # a
    BY <1>0, <1>2 DEF Tracked
  <2> HIDE DEF e
  <2>3. /\ t' \in Seq(LanEntry) /\ Len(t') = Len(t) + 1
        /\ \A l \in 1 .. Len(t) + 1 : t'[l] = IF l <= Len(t) THEN t[l] ELSE e
    BY <1>0, <2>1, EntryAdded
  <2>4. t'[Len(t) + 1] = e /\ \A l \in 1 .. Len(t) : t'[l] = t[l]
    <3>1. /\ Len(t) + 1 \in 1 .. Len(t) + 1 /\ ~(Len(t) + 1 <= Len(t))
          /\ \A l \in 1 .. Len(t) : l \in 1 .. Len(t) + 1 /\ l <= Len(t)
      BY <1>0
    <3> QED
      BY <2>3, <3>1
  <2> QED
    BY <1>0, <1>2, <2>2, <2>3, <2>4 DEF Added
<1>3. CASE a \notin Tracked(t) /\ ~(Len(t) < MAX_MCAST_ENTRIES)
  BY <1>3 DEF LanLine, Same
<1> QED
  BY <1>1, <1>2, <1>3

-----------------------------------------------------------------------------
(* The inductive invariant. *)

(* The mapping.  A segment whose identifier is not 0 is detached before it  *)
(* is attached anew.                                                        *)
MapInv ==
    /\ pc # "exited" /\ mrd_wlist = "mapped" => maps > 0
    /\ wlist_stat = -1 => mrd_wlist # "mapped"
    /\ pc = "start" => wlist_stat = -1
    /\ ShmId > 0 =>
        /\ mrd_wlist = "mapped" => shmid = ShmId /\ maps <= 1
        /\ mrd_wlist # "mapped" => maps = 0
        /\ pc = "attach" => mrd_wlist # "mapped"

(* The ageing loops begin with the first entry. *)
IndexInv == pc \in {"ageWan", "ageLan"} => i > 0

(* The life left of an entry at position k, the ageing passes since its last *)
(* line and the position itself are bounded together, but for the entries    *)
(* the running pass has not reached: they have been counted, not reduced.    *)
Lives(e, passes, k, extra) ==
    e.mcastAliveCount + passes[e.ipAddr] + k <= MAX_MLIFE + MAX_MCAST_ENTRIES + extra

Ahead(k) == IF pc = "ageWan" /\ k >= i THEN 1 ELSE 0

LifeInv ==
    /\ Len(WanMCastTable) <= MAX_MCAST_ENTRIES
    /\ \A k \in 1 .. Len(WanMCastTable) : Lives(WanMCastTable[k], age, k, Ahead(k))

BaseInv == TypeOK /\ IndexInv /\ MapInv

USE DEF tables, shmVars, loopVars, routes, netVars, xupnpVars

(* The steps that may write a table. *)
WanSteps == \/ \E a \in Addr : WanLine(a)
            \/ AgeWan \/ Start \/ RetryInit \/ Restart

LanSteps == (\E a \in Addr : LanLine(a)) \/ AgeLan \/ Restart

(* mrd_flag is a Boolean. *)
LEMMA FlagTyped ==
    ASSUME NEW a
    PROVE  mrd_flag(a) \subseteq BOOLEAN
<1>1. mrdnode_lookup(a) \subseteq BOOLEAN
  <2>1. CASE mrd_wlist = "mapped"
    BY <2>1 DEF mrdnode_lookup
  <2>2. CASE mrd_wlist = "detached"
    BY <2>2 DEF mrdnode_lookup
  <2>3. CASE mrd_wlist # "mapped" /\ mrd_wlist # "detached"
    BY <2>3 DEF mrdnode_lookup
  <2> QED
    BY <2>1, <2>2, <2>3
<1> QED
  BY <1>1 DEF mrd_flag

(* The steps that are not WanSteps leave the MoCA table alone. *)
LEMMA WanTableKept ==
    ASSUME [Next]_vars, ~WanSteps
    PROVE  WanMCastTable' = WanMCastTable
<1>1. CASE LanOpen \/ LanEof \/ WanOpen \/ WanEof
  BY <1>1 DEF LanOpen, WanOpen, Open, LanEof, WanEof
<1>2. CASE \E a \in Addr : LanLine(a)
  BY <1>2 DEF LanLine
<1>3. CASE AgeLan \/ Sleep \/ Refresh \/ Attach
  BY <1>3 DEF AgeLan, Sleep, Refresh, Attach
<1>4. CASE OpenFails \/ LookupFaults
  BY <1>4 DEF OpenFails, LookupFaults, Die
<1>5. CASE SegmentChange \/ UNCHANGED vars
  BY <1>5 DEF SegmentChange, vars
<1>6. ASSUME NEW s \in Side, NEW a \in Addr,
             Talk(s, a) \/ NeighbourFails(s, a) \/ WhitelistChange(a)
      PROVE  WanMCastTable' = WanMCastTable
  BY <1>6 DEF Talk, NeighbourFails, WhitelistChange
<1> QED
  BY <1>1, <1>2, <1>3, <1>4, <1>5, <1>6 DEF WanSteps, Next, Loop, Environment

(* The steps that are not LanSteps leave the LAN table alone. *)
LEMMA LanTableKept ==
    ASSUME [Next]_vars, ~LanSteps
    PROVE  LanMCastTable' = LanMCastTable
<1>1. CASE LanOpen \/ LanEof \/ WanOpen \/ WanEof
  BY <1>1 DEF LanOpen, WanOpen, Open, LanEof, WanEof
<1>2. CASE \E a \in Addr : WanLine(a)
  BY <1>2 DEF WanLine
<1>3. CASE AgeWan \/ Sleep \/ Refresh \/ Attach \/ Start \/ RetryInit
  BY <1>3 DEF AgeWan, Sleep, Refresh, Attach, Start, RetryInit
<1>4. CASE OpenFails \/ LookupFaults
  BY <1>4 DEF OpenFails, LookupFaults, Die
<1>5. CASE SegmentChange \/ UNCHANGED vars
  BY <1>5 DEF SegmentChange, vars
<1>6. ASSUME NEW s \in Side, NEW a \in Addr,
             Talk(s, a) \/ NeighbourFails(s, a) \/ WhitelistChange(a)
      PROVE  LanMCastTable' = LanMCastTable
  BY <1>6 DEF Talk, NeighbourFails, WhitelistChange
<1> QED
  BY <1>1, <1>2, <1>3, <1>4, <1>5, <1>6 DEF LanSteps, Next, Loop, Environment

(* Every step changes the MoCA table in one of the ways above. *)
LEMMA WanTableStep ==
    ASSUME TypeOK, IndexInv, [Next]_vars
    PROVE  /\ WanMCastTable' \in Seq(WanEntry)
           /\ \/ Same(WanMCastTable, WanMCastTable')
              \/ Added(WanMCastTable, WanMCastTable')
              \/ Emptied(WanMCastTable')
              \/ \E k \in 1 .. Len(WanMCastTable) :
                    \/ Wrote(WanMCastTable, WanMCastTable', k)
                    \/ Dropped(WanMCastTable, WanMCastTable', k)
<1> DEFINE t == WanMCastTable
<1>0. t \in Seq(WanEntry) /\ i \in Nat /\ Len(t) \in Nat
  BY TableFacts DEF TypeOK
<1>1. CASE t' = t
  BY <1>0, <1>1 DEF Same
<1>2. CASE t' = << >>
  BY <1>2 DEF Emptied
<1>3. ASSUME NEW a \in Addr, WanLine(a)
      PROVE  /\ t' \in Seq(WanEntry)
             /\ \/ Same(t, t') \/ Added(t, t')
                \/ \E k \in 1 .. Len(t) : Wrote(t, t', k)
  <2>1. PICK flag \in mrd_flag(a) : t' = WanEntered(a, flag)
    BY <1>3 DEF WanLine
  <2>2. flag \in BOOLEAN
    BY <2>1, FlagTyped
  <2>3. CASE a \in Tracked(t)
    <3>1. Slot(t, a) \in 1 .. Len(t)
      BY <1>0, <2>3, SlotFound
    <3> QED
      BY <1>0, <2>1, <2>2, <2>3, <3>1, WanEnteredTable
  <2>4. CASE a \notin Tracked(t)
    BY <1>0, <2>1, <2>2, <2>4, WanEnteredTable DEF Same
  <2> QED
    BY <2>3, <2>4
<1>4. CASE AgeWan
  <2>1. CASE i <= Len(t)
    <3>1. t' = Aged(t) /\ i \in 1 .. Len(t)
      BY <1>0, <1>4, <2>1 DEF AgeWan, IndexInv
    <3> QED
      BY <1>0, <3>1, AgedTable
  <2>2. CASE ~(i <= Len(t))
    BY <1>1, <1>4, <2>2 DEF AgeWan
  <2> QED
    BY <2>1, <2>2
<1>5. CASE Start \/ RetryInit \/ Restart
  BY <1>1, <1>2, <1>5 DEF Start, RetryInit, mrd_wlistInit, Restart
<1>6. CASE ~WanSteps
  BY <1>1, <1>6, WanTableKept
<1> QED
  BY <1>3, <1>4, <1>5, <1>6 DEF WanSteps

(* What a step may do to the LAN table. *)
LEMMA LanTableStep ==
    ASSUME TypeOK, IndexInv, [Next]_vars
    PROVE  /\ LanMCastTable' \in Seq(LanEntry)
           /\ \/ Same(LanMCastTable, LanMCastTable')
              \/ Added(LanMCastTable, LanMCastTable')
              \/ Emptied(LanMCastTable')
              \/ \E k \in 1 .. Len(LanMCastTable) :
                    \/ Wrote(LanMCastTable, LanMCastTable', k)
                    \/ Dropped(LanMCastTable, LanMCastTable', k)
<1> DEFINE t == LanMCastTable
<1>0. t \in Seq(LanEntry) /\ i \in Nat /\ Len(t) \in Nat
  BY TableFacts DEF TypeOK
<1>1. CASE t' = t
  BY <1>0, <1>1 DEF Same
<1>2. CASE t' = << >>
  BY <1>2 DEF Emptied
<1>3. CASE \E a \in Addr : LanLine(a)
  BY <1>0, <1>3, LanLineTable
<1>4. CASE AgeLan
  <2>1. CASE i <= Len(t)
    <3>1. t' = Aged(t) /\ i \in 1 .. Len(t)
      BY <1>0, <1>4, <2>1 DEF AgeLan, IndexInv
    <3> QED
      BY <1>0, <3>1, AgedTable
  <2>2. CASE ~(i <= Len(t))
    BY <1>1, <1>4, <2>2 DEF AgeLan
  <2> QED
    BY <2>1, <2>2
<1>5. CASE Restart
  BY <1>2, <1>5 DEF Restart
<1>6. CASE ~LanSteps
  BY <1>1, <1>6, LanTableKept
<1> QED
  BY <1>3, <1>4, <1>5, <1>6 DEF LanSteps

-----------------------------------------------------------------------------
(* TypeOK without the tables. *)
LoopOK ==
    /\ pc \in Pc
    /\ todo \in [Addr -> Nat] /\ i \in Nat
    /\ shmrefreshCount \in 1 .. MAX_SHMRCOUNT /\ cnt \in 0 .. 3
    /\ age \in [Addr -> Nat]
    /\ used \in [Fault -> Nat]
    /\ lanRoute \in SUBSET Addr /\ mocaRoute \in SUBSET Addr

NetOK ==
    /\ talking \in [Side -> SUBSET Addr] /\ neighbour \in [Side -> SUBSET Addr]

ShmOK ==
    /\ wlist_stat \in {0, -1} /\ mrd_wlist \in Pointer
    /\ shmid \in {-1, 0, ShmId}
    /\ segment \in BOOLEAN /\ whitelist \in SUBSET Addr
    /\ view \in SUBSET Addr /\ shared \in BOOLEAN /\ maps \in Nat

(* TypeOK in parts. *)
LEMMA TypeParts ==
    TypeOK <=> /\ LanMCastTable \in Seq(LanEntry) /\ WanMCastTable \in Seq(WanEntry)
               /\ LoopOK /\ NetOK /\ ShmOK
BY DEF TypeOK, LoopOK, NetOK, ShmOK

(* Counting a fault keeps the counters natural numbers. *)
LEMMA SpendTyped ==
    ASSUME NEW f \in Fault, used \in [Fault -> Nat], Spend(f)
    PROVE  used' \in [Fault -> Nat]
BY DEF Spend

(* mrd_shmattach only counts a fault. *)
LEMMA AttachTyped ==
    ASSUME NEW ret, mrd_shmattach(ret), used \in [Fault -> Nat]
    PROVE  used' \in [Fault -> Nat]
BY SpendTyped DEF mrd_shmattach

(* mrd_wlistInit keeps the types of the counters and the routes. *)
LEMMA InitTyped ==
    ASSUME mrd_wlistInit, used \in [Fault -> Nat], mocaRoute \in SUBSET Addr
    PROVE  used' \in [Fault -> Nat] /\ mocaRoute' \in SUBSET Addr
BY AttachTyped DEF mrd_wlistInit

(* The addresses that a table tracks are addresses. *)
LEMMA TrackedTyped ==
    ASSUME NEW S \in {LanEntry, WanEntry}, NEW t \in Seq(S)
    PROVE  Tracked(t) \subseteq Addr
<1>1. \A k \in DOMAIN t : t[k] \in S
  BY TableFacts
<1>2. CASE S = LanEntry
  BY <1>1, <1>2 DEF Tracked, LanEntry
<1>3. CASE S = WanEntry
  BY <1>1, <1>3 DEF Tracked, WanEntry
<1> QED
  BY <1>2, <1>3

(* Reading a line keeps the numbers of lines natural. *)
LEMMA ReadTyped ==
    ASSUME todo \in [Addr -> Nat], NEW a \in Addr, Read(a)
    PROVE  todo' \in [Addr -> Nat]
<1>1. todo[a] - 1 \in Nat
  BY DEF Read
<1> QED
  BY <1>1 DEF Read

(* The steps of the main loop keep the base invariant. *)
LEMMA LoopTyped ==
    ASSUME TypeOK, IndexInv, [Next]_vars
    PROVE  LoopOK' /\ IndexInv'
<1>0. /\ LoopOK
      /\ \A a \in Addr : {a} \cap LinkLocal \in SUBSET Addr
  BY TypeParts
<1> USE DEF LoopOK, IndexInv
<1>1. CASE LanOpen \/ WanOpen
  <2>1. todo' \in [Addr -> Nat]
    BY <1>1 DEF LanOpen, WanOpen, Open
  <2> QED
    BY <1>0, <1>1, <2>1 DEF LanOpen, WanOpen, Open
<1>2. CASE LanEof \/ WanEof
  BY <1>0, <1>2 DEF LanEof, WanEof
<1>3. ASSUME NEW a \in Addr, LanLine(a) PROVE LoopOK' /\ IndexInv'
  <2>1. todo' \in [Addr -> Nat]
    BY <1>0, <1>3, ReadTyped DEF LanLine
  <2>2. lanRoute' \in SUBSET Addr
    BY <1>0, <1>3 DEF LanLine
  <2> QED
    BY <1>0, <1>3, <2>1, <2>2 DEF LanLine
<1>4. ASSUME NEW a \in Addr, WanLine(a) PROVE LoopOK' /\ IndexInv'
  <2>1. todo' \in [Addr -> Nat]
    BY <1>0, <1>4, ReadTyped DEF WanLine
  <2>2. mocaRoute' \in SUBSET Addr
    BY <1>0, <1>4 DEF WanLine
  <2>3. age' \in [Addr -> Nat]
    BY <1>0, <1>4 DEF WanLine
  <2> QED
    BY <1>0, <1>4, <2>1, <2>2, <2>3 DEF WanLine
<1>5. CASE AgeWan \/ AgeLan
  <2>1. lanRoute' \in SUBSET Addr /\ mocaRoute' \in SUBSET Addr
    BY <1>0, <1>5 DEF AgeWan, AgeLan
  <2>2. \/ pc' = pc /\ i' = i + 1
        \/ pc' = "ageLan" /\ i' = 1
        \/ pc' = "sleep" /\ i' = 0
    BY <1>5 DEF AgeWan, AgeLan
  <2>3. UNCHANGED <<todo, shmrefreshCount, cnt, age, used>>
    BY <1>5 DEF AgeWan, AgeLan
  <2>4. /\ pc' \in Pc /\ i' \in Nat
        /\ pc' \in {"ageWan", "ageLan"} => i' > 0
    BY <1>0, <2>2
  <2> QED
    BY <1>0, <2>1, <2>3, <2>4
<1>6. CASE Sleep
  <2>1. cnt' \in 0 .. 3
    BY <1>0, <1>6 DEF Sleep, CountAfter, PingsDue
  <2>2. shmrefreshCount' \in 1 .. MAX_SHMRCOUNT /\ pc' \in {"refresh", "init"}
    BY <1>0, <1>6 DEF Sleep
  <2> QED
    BY <1>0, <1>6, <2>1, <2>2 DEF Sleep
<1>7. CASE Refresh
  BY <1>0, <1>7 DEF Refresh
<1>8. CASE Attach
  <2>1. used' \in [Fault -> Nat]
    BY <1>0, <1>8, AttachTyped DEF Attach
  <2> QED
    BY <1>0, <1>8, <2>1 DEF Attach
<1>9. CASE Start \/ RetryInit
  <2>1. used' \in [Fault -> Nat] /\ mocaRoute' \in SUBSET Addr
    BY <1>0, <1>9, InitTyped DEF Start, RetryInit
  <2> QED
    BY <1>0, <1>9, <2>1 DEF Start, RetryInit
<1>10. CASE OpenFails \/ LookupFaults
  <2>1. used' \in [Fault -> Nat]
    BY <1>0, <1>10, SpendTyped DEF OpenFails, LookupFaults
  <2> QED
    BY <1>0, <1>10, <2>1 DEF OpenFails, LookupFaults, Die
<1>11. ASSUME NEW s \in Side, NEW a \in Addr,
              Talk(s, a) \/ NeighbourFails(s, a) \/ WhitelistChange(a)
       PROVE  LoopOK' /\ IndexInv'
  <2>1. used' \in [Fault -> Nat]
    BY <1>0, <1>11, SpendTyped DEF Talk, NeighbourFails, WhitelistChange
  <2> QED
    BY <1>0, <1>11, <2>1 DEF Talk, NeighbourFails, WhitelistChange
<1>12. CASE SegmentChange
  <2>1. used' \in [Fault -> Nat]
    BY <1>0, <1>12, SpendTyped DEF SegmentChange
  <2> QED
    BY <1>0, <1>12, <2>1 DEF SegmentChange
<1>13. CASE Restart
  <2>1. used' \in [Fault -> Nat] /\ NoLines \in [Addr -> Nat]
    BY <1>0, <1>13, SpendTyped DEF Restart, NoLines
  <2>2. /\ todo' \in [Addr -> Nat] /\ age' \in [Addr -> Nat]
        /\ lanRoute' \in SUBSET Addr /\ mocaRoute' \in SUBSET Addr
        /\ i' = 0 /\ cnt' = 0 /\ shmrefreshCount' = MAX_SHMRCOUNT /\ pc' = "start"
    BY <1>0, <1>13, <2>1 DEF Restart
  <2>3. MAX_SHMRCOUNT \in 1 .. MAX_SHMRCOUNT
    OBVIOUS
  <2> QED
    BY <2>1, <2>2, <2>3
<1>14. CASE UNCHANGED vars
  BY <1>0, <1>14 DEF vars
<1> QED
  BY <1>1, <1>2, <1>3, <1>4, <1>5, <1>6, <1>7, <1>8, <1>9, <1>10, <1>11, <1>12,
     <1>13, <1>14 DEF Next, Loop, Environment

(* So do the steps of the segments and of the neighbours. *)
LEMMA NetTyped ==
    ASSUME TypeOK, [Next]_vars
    PROVE  NetOK'
<1>0. NetOK
  BY TypeParts
<1> USE DEF NetOK
<1>1. CASE Sleep
  <2>1. \A s \in Side : \A t : Pinged(s, t) \subseteq Addr
    BY <1>0 DEF Pinged, Pingable
  <2> QED
    BY <1>0, <1>1, <2>1 DEF Sleep
<1>2. ASSUME NEW s \in Side, NEW a \in Addr, Talk(s, a) \/ NeighbourFails(s, a)
      PROVE  NetOK'
  BY <1>0, <1>2 DEF Talk, NeighbourFails
<1>3. CASE UNCHANGED netVars
  BY <1>0, <1>3
<1>4. ~Sleep /\ (\A s \in Side, a \in Addr : ~Talk(s, a) /\ ~NeighbourFails(s, a))
      => UNCHANGED netVars
  BY DEF Next, Loop, Environment, Start, LanOpen, LanEof, WanOpen, WanEof, Open,
         LanLine, WanLine, AgeWan, AgeLan, Refresh, Attach, RetryInit, OpenFails,
         LookupFaults, Die, WhitelistChange, SegmentChange, Restart, vars
<1> QED
  BY <1>1, <1>2, <1>3, <1>4

(* The shared memory, with its bookkeeping. *)
LEMMA AttachShm ==
    ASSUME ShmOK, NEW ret \in {0, -1}, mrd_shmattach(ret)
    PROVE  /\ mrd_wlist' \in Pointer /\ shmid' \in {-1, 0, ShmId}
           /\ view' \in SUBSET Addr /\ shared' \in BOOLEAN /\ maps' \in Nat
           /\ ret = 0 => mrd_wlist' = "mapped" /\ maps' = maps + 1 /\ shmid' = ShmId
           /\ ret = -1 => /\ mrd_wlist' \in {mrd_wlist, "failed"} /\ maps' = maps
<1> USE DEF ShmOK
<1>1. CASE ret = 0
  BY <1>1 DEF mrd_shmattach
<1>2. CASE ret = -1 /\ segment
  <2>1. /\ shmid' = ShmId /\ mrd_wlist' = "failed"
        /\ view' = view /\ shared' = shared /\ maps' = maps
    BY <1>2 DEF mrd_shmattach
  <2> QED
    BY <1>2, <2>1
<1>3. CASE ret = -1 /\ ~segment
  <2>1. /\ shmid' \in {shmid, -1} /\ mrd_wlist' = mrd_wlist
        /\ view' = view /\ shared' = shared /\ maps' = maps
    BY <1>3 DEF mrd_shmattach
  <2> QED
    BY <1>3, <2>1
<1> QED
  BY <1>1, <1>2, <1>3

(* So do the steps on the shared memory. *)
LEMMA ShmTyped ==
    ASSUME TypeOK, MapInv, [Next]_vars
    PROVE  ShmOK' /\ MapInv'
<1>0. ShmOK /\ pc \in Pc
  BY TypeParts DEF LoopOK
<1> USE DEF ShmOK, MapInv
<1>1. CASE (Start \/ RetryInit) /\ wlist_stat # 0
  <2>1. /\ mrd_wlistInit /\ mrd_wlist # "mapped" /\ pc' = "lanOpen"
        /\ UNCHANGED xupnpVars /\ pc # "exited"
    BY <1>0, <1>1 DEF Start, RetryInit
  <2>2. PICK ret \in {0, -1} : mrd_shmattach(ret) /\ wlist_stat' = ret
    BY <2>1 DEF mrd_wlistInit
  <2> QED
    BY <1>0, <2>1, <2>2, AttachShm
<1>2. CASE (Start \/ RetryInit) /\ wlist_stat = 0
  BY <1>0, <1>2 DEF Start, RetryInit
<1>3. CASE Refresh
  <2>1. /\ pc = "refresh" /\ pc' = "attach" /\ wlist_stat' = wlist_stat
        /\ segment' = segment /\ whitelist' = whitelist
    BY <1>3 DEF Refresh
  <2>2. CASE mrd_wlist = "mapped" /\ shmid > 0
    <3>1. /\ shmid' = 0 /\ mrd_wlist' = "detached" /\ maps' = maps - 1
          /\ view' = {} /\ shared' = FALSE
      BY <1>3, <2>2 DEF Refresh
    <3>2. maps \in Nat /\ maps > 0
      BY <1>0, <2>1, <2>2
    <3>3. maps - 1 \in Nat /\ (maps <= 1 => maps - 1 = 0)
      BY <3>2
    <3> QED
      BY <1>0, <2>1, <2>2, <3>1, <3>3
  <2>3. CASE ~(mrd_wlist = "mapped" /\ shmid > 0)
    <3>1. /\ shmid' \in {shmid, 0} /\ mrd_wlist' = mrd_wlist /\ maps' = maps
          /\ view' = view /\ shared' = shared
          /\ mrd_wlist = "mapped" => shmid' = shmid
      BY <1>3, <2>3 DEF Refresh
    <3> QED
      BY <1>0, <2>1, <2>3, <3>1
  <2> QED
    BY <2>2, <2>3
<1>4. CASE Attach
  <2>1. CASE wlist_stat = 0
    <3>1. PICK ret \in {0, -1} : mrd_shmattach(ret)
      BY <1>4, <2>1 DEF Attach
    <3> QED
      BY <1>0, <1>4, <2>1, <3>1, AttachShm DEF Attach
  <2>2. CASE wlist_stat # 0
    BY <1>0, <1>4, <2>2 DEF Attach
  <2> QED
    BY <2>1, <2>2
<1>5. CASE OpenFails \/ LookupFaults
  <2>1. Die
    BY <1>5 DEF OpenFails, LookupFaults
  <2>2. /\ pc' = "exited" /\ maps' = 0 /\ shared' = FALSE
        /\ wlist_stat' = wlist_stat /\ mrd_wlist' = mrd_wlist /\ shmid' = shmid
        /\ view' = view /\ segment' = segment /\ whitelist' = whitelist
    BY <2>1 DEF Die
  <2>3. ShmOK'
    BY <1>0, <2>2
  <2>4. MapInv'
    BY <1>0, <2>2
  <2> QED
    BY <2>3, <2>4
<1>6. ASSUME NEW a \in Addr, WhitelistChange(a) PROVE ShmOK' /\ MapInv'
  BY <1>0, <1>6 DEF WhitelistChange
<1>7. CASE SegmentChange
  BY <1>0, <1>7 DEF SegmentChange
<1>8. CASE Restart
  BY <1>0, <1>8 DEF Restart
<1>9. CASE LanOpen \/ LanEof \/ WanOpen \/ WanEof
  BY <1>0, <1>9 DEF LanOpen, WanOpen, Open, LanEof, WanEof
<1>10. CASE AgeWan \/ AgeLan
  BY <1>0, <1>10 DEF AgeWan, AgeLan
<1>11. CASE Sleep
  BY <1>0, <1>11 DEF Sleep
<1>12. ASSUME NEW a \in Addr, LanLine(a) \/ WanLine(a) PROVE ShmOK' /\ MapInv'
  BY <1>0, <1>12 DEF LanLine, WanLine
<1>13. ASSUME NEW s \in Side, NEW a \in Addr, Talk(s, a) \/ NeighbourFails(s, a)
       PROVE  ShmOK' /\ MapInv'
  BY <1>0, <1>13 DEF Talk, NeighbourFails
<1>14. CASE UNCHANGED vars
  BY <1>0, <1>14 DEF vars
<1> QED
  BY <1>0, <1>1, <1>2, <1>3, <1>4, <1>5, <1>6, <1>7, <1>8, <1>9, <1>10, <1>11,
     <1>12, <1>13, <1>14 DEF Next, Loop, Environment

(* The base invariant holds initially ... *)
LEMMA BaseInit ==
    ASSUME Init
    PROVE  BaseInv
<1>1. LanMCastTable \in Seq(LanEntry) /\ WanMCastTable \in Seq(WanEntry)
  BY DEF Init
<1>2. NoLines \in [Addr -> Nat] /\ used \in [Fault -> Nat]
  BY DEF Init, NoLines
<1>3. LoopOK
  BY <1>2 DEF Init, LoopOK
<1>4. NetOK
  BY DEF Init, NetOK
<1>5. ShmOK
  BY DEF Init, ShmOK
<1> QED
  BY <1>1, <1>3, <1>4, <1>5, TypeParts DEF Init, BaseInv, IndexInv, MapInv

(* ... every step keeps it ... *)
LEMMA BaseStep ==
    ASSUME BaseInv, [Next]_vars
    PROVE  BaseInv'
<1>1. LanMCastTable' \in Seq(LanEntry) /\ WanMCastTable' \in Seq(WanEntry)
  BY WanTableStep, LanTableStep DEF BaseInv
<1>2. LoopOK' /\ IndexInv'
  BY LoopTyped DEF BaseInv
<1>3. NetOK'
  BY NetTyped DEF BaseInv
<1>4. ShmOK' /\ MapInv'
  BY ShmTyped DEF BaseInv
<1>5. TypeOK'
  BY <1>1, <1>2, <1>3, <1>4 DEF TypeOK, LoopOK, NetOK, ShmOK
<1> QED
  BY <1>2, <1>4, <1>5 DEF BaseInv

(* ... and so it always holds. *)
LEMMA Base == Spec => []BaseInv
<1>1. Init => BaseInv
  BY BaseInit
<1>2. BaseInv /\ [Next]_vars => BaseInv'
  BY BaseStep
<1> QED
  BY <1>1, <1>2, PTL DEF Spec

(* Every variable keeps its type; an entry of a table always has some life  *)
(* left.                                                                    *)
THEOREM TypeCorrect == Spec => []TypeOK
<1>1. BaseInv => TypeOK
  BY DEF BaseInv
<1> QED
  BY <1>1, Base, PTL

(* The pointer.  Only a removed segment leaves it at memory that was given  *)
(* back beyond the refresh, since an attached segment is still there.       *)
LookupInv ==
    /\ wlist_stat = -1 => mrd_wlist # "detached"
    /\ Without({"remove"}) =>
        /\ wlist_stat = 0 => segment
        /\ mrd_wlist = "detached" => pc \in {"attach", "exited"}

(* Spending another fault leaves the count of removals alone. *)
LEMMA RemovalsKept ==
    ASSUME used \in [Fault -> Nat], NEW f \in Fault, f # "remove", Spend(f)
    PROVE  Without({"remove"})' <=> Without({"remove"})
<1>1. used'["remove"] = used["remove"]
  BY DEF Spend, Fault
<1> QED
  BY <1>1 DEF Without

(* Attaching leaves a pointer that is mapped or failed, or finds no segment. *)
LEMMA AttachLookup ==
    ASSUME TypeOK, NEW ret \in {0, -1}, mrd_shmattach(ret)
    PROVE  /\ Without({"remove"})' <=> Without({"remove"})
           /\ segment => mrd_wlist' # "detached"
           /\ ret = 0 => segment
           /\ mrd_wlist' = "detached" => mrd_wlist = "detached"
<1>1. CASE Spend("shmat") /\ ret = -1 /\ segment /\ mrd_wlist' = "failed"
  BY <1>1, RemovalsKept DEF TypeOK, Fault
<1>2. CASE used' = used /\ ret = 0 /\ segment /\ mrd_wlist' = "mapped"
  BY <1>2 DEF Without
<1>3. CASE used' = used /\ ret = -1 /\ ~segment /\ mrd_wlist' = mrd_wlist
  BY <1>3 DEF Without
<1> QED
  BY <1>1, <1>2, <1>3 DEF mrd_shmattach

(* Every step keeps it. *)
LEMMA LookupStep ==
    ASSUME BaseInv, LookupInv, [Next]_vars
    PROVE  LookupInv'
<1>0. /\ TypeOK /\ wlist_stat \in {0, -1} /\ used \in [Fault -> Nat]
      /\ wlist_stat = -1 => mrd_wlist # "mapped"
      /\ pc = "start" => wlist_stat = -1
  BY DEF BaseInv, MapInv, TypeOK
<1> USE DEF LookupInv
<1>1. CASE (Start \/ RetryInit) /\ wlist_stat # 0
  <2>1. mrd_wlistInit /\ segment' = segment
    BY <1>0, <1>1 DEF Start, RetryInit, xupnpVars
  <2>2. PICK ret \in {0, -1} : mrd_shmattach(ret) /\ wlist_stat' = ret
    BY <2>1 DEF mrd_wlistInit
  <2> QED
    BY <1>0, <1>1, <2>1, <2>2, AttachLookup
<1>2. CASE (Start \/ RetryInit) /\ wlist_stat = 0
  <2>1. /\ pc = "init" /\ pc' = "lanOpen"
        /\ UNCHANGED <<wlist_stat, mrd_wlist, used, segment>>
    BY <1>0, <1>2 DEF Start, RetryInit, shmVars, xupnpVars
  <2> QED
    BY <2>1 DEF Without
<1>3. CASE Refresh
  <2>1. /\ pc = "refresh" /\ pc' = "attach"
        /\ UNCHANGED <<wlist_stat, used, segment>>
        /\ mrd_wlist' = "detached" => mrd_wlist \in {"mapped", "detached"}
    BY <1>3 DEF Refresh, xupnpVars
  <2> QED
    BY <1>0, <2>1 DEF Without
<1>4. CASE Attach
  <2>1. pc = "attach" /\ pc' = "init" /\ UNCHANGED <<wlist_stat, segment>>
    BY <1>4 DEF Attach, xupnpVars
  <2>2. CASE wlist_stat = 0
    <3>1. PICK ret \in {0, -1} : mrd_shmattach(ret)
      BY <1>4, <2>2 DEF Attach
    <3> QED
      BY <1>0, <2>1, <2>2, <3>1, AttachLookup
  <2>3. CASE wlist_stat # 0
    <3>1. UNCHANGED <<mrd_wlist, used>>
      BY <1>4, <2>3 DEF Attach
    <3> QED
      BY <1>0, <2>1, <2>3, <3>1 DEF Without
  <2> QED
    BY <2>2, <2>3
<1>5. CASE OpenFails \/ LookupFaults
  <2>1. pc' = "exited" /\ UNCHANGED <<wlist_stat, mrd_wlist, segment>>
    BY <1>5 DEF OpenFails, LookupFaults, Die, xupnpVars
  <2>2. Without({"remove"})' <=> Without({"remove"})
    BY <1>0, <1>5, RemovalsKept DEF OpenFails, LookupFaults, Without, Fault
  <2> QED
    BY <2>1, <2>2
<1>6. ASSUME NEW a \in Addr, WhitelistChange(a) PROVE LookupInv'
  <2>1. UNCHANGED <<pc, wlist_stat, mrd_wlist, segment>>
    BY <1>6 DEF WhitelistChange
  <2>2. Without({"remove"})' <=> Without({"remove"})
    BY <1>0, <1>6, RemovalsKept DEF WhitelistChange, Fault
  <2> QED
    BY <2>1, <2>2
<1>7. CASE SegmentChange
  <2>1. UNCHANGED <<pc, wlist_stat, mrd_wlist>>
    BY <1>7 DEF SegmentChange
  <2>2. CASE segment' /\ (Spend("create") \/ Spend("replace"))
    BY <1>0, <2>1, <2>2, RemovalsKept DEF Fault
  <2>3. CASE Spend("remove")
    <3>1. used["remove"] \in Nat /\ used'["remove"] = used["remove"] + 1
      BY <1>0, <2>3 DEF Spend, Fault
    <3> QED
      BY <2>1, <3>1 DEF Without
  <2> QED
    BY <1>7, <2>2, <2>3 DEF SegmentChange
<1>8. CASE Restart
  BY <1>8 DEF Restart
<1>9. CASE LanOpen \/ LanEof \/ WanOpen \/ WanEof
  <2>1. /\ pc \in {"lanOpen", "lan", "wanOpen", "wan"}
        /\ UNCHANGED <<wlist_stat, mrd_wlist, used, segment>>
    BY <1>9 DEF LanOpen, WanOpen, Open, LanEof, WanEof, shmVars, xupnpVars
  <2> QED
    BY <2>1 DEF Without
<1>10. CASE AgeWan \/ AgeLan
  <2>1. /\ pc \in {"ageWan", "ageLan"}
        /\ UNCHANGED <<wlist_stat, mrd_wlist, used, segment>>
    BY <1>10 DEF AgeWan, AgeLan, shmVars, xupnpVars
  <2> QED
    BY <2>1 DEF Without
<1>11. CASE Sleep
  <2>1. pc = "sleep" /\ UNCHANGED <<wlist_stat, mrd_wlist, used, segment>>
    BY <1>11 DEF Sleep, shmVars, xupnpVars
  <2> QED
    BY <2>1 DEF Without
<1>12. ASSUME NEW a \in Addr, LanLine(a) \/ WanLine(a) PROVE LookupInv'
  <2>1. UNCHANGED <<pc, wlist_stat, mrd_wlist, used, segment>>
    BY <1>12 DEF LanLine, WanLine, shmVars, xupnpVars
  <2> QED
    BY <2>1 DEF Without
<1>13. ASSUME NEW s \in Side, NEW a \in Addr, Talk(s, a) \/ NeighbourFails(s, a)
       PROVE  LookupInv'
  <2>1. UNCHANGED <<pc, wlist_stat, mrd_wlist, segment>>
    BY <1>13 DEF Talk, NeighbourFails, shmVars, xupnpVars
  <2>2. PICK f \in {"lanTalk", "wanTalk", "neighbour"} : Spend(f)
    BY <1>13 DEF Talk, NeighbourFails
  <2>3. Without({"remove"})' <=> Without({"remove"})
    BY <1>0, <2>2, RemovalsKept DEF Fault
  <2> QED
    BY <2>1, <2>3
<1>14. CASE UNCHANGED vars
  BY <1>14 DEF vars, shmVars, xupnpVars, Without
<1> QED
  BY <1>1, <1>2, <1>3, <1>4, <1>5, <1>6, <1>7, <1>8, <1>9, <1>10, <1>11, <1>12,
     <1>13, <1>14 DEF Next, Loop, Environment

(* However often the white list is attached anew, and whichever of the      *)
(* attempts fail, MRD holds one mapping at most and looks up in none that   *)
(* it gave back, as long as the segment is not removed.                     *)
THEOREM SegmentIsMapped == Spec => []SegmentMapped
<1>1. Init => LookupInv
  BY DEF Init, LookupInv
<1>2. BaseInv /\ LookupInv /\ [Next]_vars => LookupInv'
  BY LookupStep
<1>3. BaseInv /\ LookupInv => SegmentMapped
  BY DEF BaseInv, MapInv, LookupInv, SegmentMapped, SingleMapping, LookupMapped, TypeOK
<1> QED
  BY <1>1, <1>2, <1>3, Base, PTL DEF Spec

-----------------------------------------------------------------------------
(* The addresses of a table stay distinct. *)
UniqueInv == Distinct(LanMCastTable) /\ Distinct(WanMCastTable)

(* Every step keeps the entries of the MoCA table distinct. *)
LEMMA UniqueStep ==
    ASSUME BaseInv, BaseInv', UniqueInv, [Next]_vars
    PROVE  UniqueInv'
<1>1. /\ LanMCastTable \in Seq(LanEntry) /\ LanMCastTable' \in Seq(LanEntry)
      /\ WanMCastTable \in Seq(WanEntry) /\ WanMCastTable' \in Seq(WanEntry)
  BY DEF BaseInv, TypeOK
<1>2. Distinct(LanMCastTable')
  BY <1>1, LanTableStep, ChangeKeepsDistinct DEF BaseInv, UniqueInv
<1>3. Distinct(WanMCastTable')
  BY <1>1, WanTableStep, ChangeKeepsDistinct DEF BaseInv, UniqueInv
<1> QED
  BY <1>2, <1>3 DEF UniqueInv, Distinct

(* Distinct entries are what UniqueEntries says. *)
LEMMA UniqueMeans ==
    ASSUME TypeOK
    PROVE  UniqueInv <=> UniqueEntries
<1>1. /\ DOMAIN LanMCastTable = 1 .. Len(LanMCastTable)
      /\ DOMAIN WanMCastTable = 1 .. Len(WanMCastTable)
  BY TableFacts DEF TypeOK
<1> QED
  BY <1>1 DEF UniqueInv, UniqueEntries, Distinct

-----------------------------------------------------------------------------
(* The life time of an entry. *)

(* An entry and its arithmetic. *)
LEMMA LivesMeans ==
    ASSUME NEW e \in WanEntry, NEW passes \in [Addr -> Nat]
    PROVE  /\ e.ipAddr \in Addr
           /\ \E c \in 1 .. MAX_MLIFE, g \in Nat :
                /\ e.mcastAliveCount = c /\ passes[e.ipAddr] = g
                /\ \A k, extra : Lives(e, passes, k, extra) <=>
                        c + g + k <= MAX_MLIFE + MAX_MCAST_ENTRIES + extra
<1>1. e.ipAddr \in Addr /\ e.mcastAliveCount \in 1 .. MAX_MLIFE
  BY DEF WanEntry
<1> QED
  BY <1>1 DEF Lives

(* It lives on when its passes are forgotten. *)
LEMMA LivesForgotten ==
    ASSUME NEW e \in WanEntry, NEW p \in [Addr -> Nat], NEW q \in [Addr -> Nat],
           NEW k \in Nat, Lives(e, p, k, 0), q[e.ipAddr] \in {p[e.ipAddr], 0}
    PROVE  Lives(e, q, k, 0)
<1>1. PICK c \in 1 .. MAX_MLIFE, g \in Nat :
        e.mcastAliveCount = c /\ p[e.ipAddr] = g
        /\ c + g + k <= MAX_MLIFE + MAX_MCAST_ENTRIES + 0
  BY LivesMeans
<1>2. PICK h \in {0, g} :
        Lives(e, q, k, 0) <=> c + h + k <= MAX_MLIFE + MAX_MCAST_ENTRIES + 0
  BY <1>1 DEF Lives
<1>3. c + h + k <= MAX_MLIFE + MAX_MCAST_ENTRIES + 0
  BY <1>1, <1>2
<1> QED
  BY <1>2, <1>3

(* A line gives it its whole life. *)
LEMMA LivesAnew ==
    ASSUME NEW a \in Addr, NEW flag, NEW q \in [Addr -> Nat], q[a] = 0,
           NEW k \in Nat, k <= MAX_MCAST_ENTRIES
    PROVE  Lives(Entry(a, flag), q, k, 0)
<1>1. Lives(Entry(a, flag), q, k, 0) <=>
        MAX_MLIFE + 0 + k <= MAX_MLIFE + MAX_MCAST_ENTRIES + 0
  BY DEF Lives, Entry
<1> QED
  BY <1>1

(* A pass is counted ... *)
LEMMA LivesCounted ==
    ASSUME NEW e \in WanEntry, NEW p \in [Addr -> Nat], NEW q \in [Addr -> Nat],
           NEW k \in Nat, Lives(e, p, k, 0), q[e.ipAddr] = p[e.ipAddr] + 1
    PROVE  Lives(e, q, k, 1)
<1>1. PICK c \in 1 .. MAX_MLIFE, g \in Nat :
        e.mcastAliveCount = c /\ p[e.ipAddr] = g
        /\ c + g + k <= MAX_MLIFE + MAX_MCAST_ENTRIES + 0
  BY LivesMeans
<1>2. Lives(e, q, k, 1) <=> c + (g + 1) + k <= MAX_MLIFE + MAX_MCAST_ENTRIES + 1
  BY <1>1 DEF Lives
<1> QED
  BY <1>1, <1>2

(* ... and taken from the life. *)
LEMMA LivesReduced ==
    ASSUME NEW e \in WanEntry, NEW p \in [Addr -> Nat], NEW k \in Nat,
           Lives(e, p, k, 1)
    PROVE  Lives([e EXCEPT !.mcastAliveCount = @ - 1], p, k, 0)
<1>1. PICK c \in 1 .. MAX_MLIFE, g \in Nat :
        e.mcastAliveCount = c /\ p[e.ipAddr] = g
        /\ c + g + k <= MAX_MLIFE + MAX_MCAST_ENTRIES + 1
  BY LivesMeans
<1> DEFINE f == [e EXCEPT !.mcastAliveCount = @ - 1]
<1>2. f.mcastAliveCount = c - 1 /\ f.ipAddr = e.ipAddr
  BY <1>1 DEF WanEntry
<1> HIDE DEF f
<1>3. Lives(f, p, k, 0) <=> (c - 1) + g + k <= MAX_MLIFE + MAX_MCAST_ENTRIES + 0
  BY <1>1, <1>2 DEF Lives
<1>4. Lives(f, p, k, 0)
  BY <1>1, <1>3
<1> QED
  BY <1>4 DEF f

(* An entry that moves towards the front may be passed over. *)
LEMMA LivesMoved ==
    ASSUME NEW e \in WanEntry, NEW p \in [Addr -> Nat], NEW k \in Nat, NEW l \in Nat,
           Lives(e, p, l, 1), k < l
    PROVE  Lives(e, p, k, 0)
<1>1. PICK c \in 1 .. MAX_MLIFE, g \in Nat :
        /\ c + g + l <= MAX_MLIFE + MAX_MCAST_ENTRIES + 1
        /\ Lives(e, p, k, 0) <=> c + g + k <= MAX_MLIFE + MAX_MCAST_ENTRIES + 0
  BY LivesMeans
<1> QED
  BY <1>1

(* What is allowed to an entry ahead is not refused. *)
LEMMA LivesBound ==
    ASSUME NEW e \in WanEntry, NEW p \in [Addr -> Nat], NEW k \in Nat, k > 0,
           NEW extra \in {0, 1}, Lives(e, p, k, extra)
    PROVE  p[e.ipAddr] < MAX_MLIFE + MAX_MCAST_ENTRIES /\ Lives(e, p, k, 1)
<1>1. PICK c \in 1 .. MAX_MLIFE, g \in Nat :
        /\ p[e.ipAddr] = g
        /\ c + g + k <= MAX_MLIFE + MAX_MCAST_ENTRIES + extra
        /\ Lives(e, p, k, 1) <=> c + g + k <= MAX_MLIFE + MAX_MCAST_ENTRIES + 1
  BY LivesMeans
<1>2. g < MAX_MLIFE + MAX_MCAST_ENTRIES
  BY <1>1
<1>3. c + g + k <= MAX_MLIFE + MAX_MCAST_ENTRIES + 1
  BY <1>1
<1> QED
  BY <1>1, <1>2, <1>3

(* What every step of the proof needs to know. *)
LEMMA LifeTypes ==
    ASSUME TypeOK
    PROVE  /\ WanMCastTable \in Seq(WanEntry) /\ Len(WanMCastTable) \in Nat
           /\ \A k \in 1 .. Len(WanMCastTable) : WanMCastTable[k] \in WanEntry
           /\ i \in Nat /\ age \in [Addr -> Nat]
BY TableFacts DEF TypeOK

(* A step that leaves table and passes alone. *)
LEMMA LifeQuiet ==
    ASSUME LifeInv, WanMCastTable' = WanMCastTable, age' = age, pc # "ageWan",
           pc' # "ageWan"
    PROVE  LifeInv'
BY DEF LifeInv, Ahead, Lives

(* Steps that leave the table and the position alone keep the bound. *)
LEMMA LifeStill ==
    ASSUME LifeInv, WanMCastTable' = WanMCastTable, age' = age, pc' = pc, i' = i
    PROVE  LifeInv'
BY DEF LifeInv, Ahead, Lives

(* A line. *)
LEMMA LifeLine ==
    ASSUME TypeOK, TypeOK', LifeInv, NEW a \in Addr, WanLine(a)
    PROVE  LifeInv'
<1> DEFINE t == WanMCastTable
<1>1. PICK flag \in BOOLEAN : t' = WanEntered(a, flag)
  BY FlagTyped DEF WanLine
<1>2. /\ pc = "wan" /\ pc' = "wan" /\ age' \in [Addr -> Nat] /\ age \in [Addr -> Nat]
      /\ age'[a] = 0 /\ \A b \in Addr : age'[b] \in {age[b], 0}
  BY DEF WanLine, TypeOK
<1>3. /\ t \in Seq(WanEntry) /\ Len(t) \in Nat /\ Len(t) <= MAX_MCAST_ENTRIES
      /\ \A k \in 1 .. Len(t) : t[k] \in WanEntry /\ Lives(t[k], age, k, 0)
  BY <1>2, LifeTypes DEF LifeInv, Ahead
<1>4. \A k \in 1 .. Len(t) : Lives(t[k], age', k, 0)
  <2> SUFFICES ASSUME NEW k \in 1 .. Len(t) PROVE Lives(t[k], age', k, 0)
    OBVIOUS
  <2>1. t[k].ipAddr \in Addr
    BY <1>3 DEF WanEntry
  <2>2. k \in Nat
    BY <1>3
  <2> QED
    BY <1>2, <1>3, <2>1, <2>2, LivesForgotten
<1>5. \A k \in 1 .. MAX_MCAST_ENTRIES : Lives(Entry(a, flag), age', k, 0)
  BY <1>2, LivesAnew
<1>6. Len(t') <= MAX_MCAST_ENTRIES /\ \A k \in 1 .. Len(t') : Lives(t'[k], age', k, 0)
  <2>1. CASE a \in Tracked(t)
    <3> DEFINE s == Slot(t, a)
    <3>1. Wrote(t, t', s) /\ t'[s] = Entry(a, flag)
      BY <1>1, <1>3, <2>1, WanEnteredTable
    <3> HIDE DEF s
    <3>2. /\ Len(t') = Len(t)
          /\ \A l \in 1 .. Len(t) : l \in 1 .. MAX_MCAST_ENTRIES
          /\ \A l \in 1 .. Len(t) : t'[l] = t[l] \/ t'[l] = Entry(a, flag)
      BY <1>3, <3>1 DEF Wrote
    <3> QED
      BY <1>3, <1>4, <1>5, <3>2
  <2>2. CASE Added(t, t') /\ t'[Len(t) + 1] = Entry(a, flag)
    <3>1. /\ Len(t') = Len(t) + 1 /\ Len(t) + 1 <= MAX_MCAST_ENTRIES
          /\ \A l \in 1 .. Len(t) : t'[l] = t[l]
      BY <1>3, <2>2 DEF Added
    <3>2. /\ \A l \in 1 .. Len(t') : l \in 1 .. Len(t) \/ l = Len(t) + 1
          /\ Len(t) + 1 \in 1 .. MAX_MCAST_ENTRIES
      BY <1>3, <3>1
    <3> QED
      BY <1>4, <1>5, <2>2, <3>1, <3>2
  <2>3. CASE t' = t
    BY <1>3, <1>4, <2>3
  <2> QED
    BY <1>1, <1>3, <2>1, <2>2, <2>3, WanEnteredTable
<1>7. \A k \in 1 .. Len(t') : Ahead(k)' = 0
  BY <1>2 DEF Ahead
<1> QED
  BY <1>6, <1>7 DEF LifeInv, Lives

(* The end of the lines: a pass begins. *)
LEMMA LifeEof ==
    ASSUME TypeOK, TypeOK', LifeInv, WanEof
    PROVE  LifeInv'
<1> DEFINE t == WanMCastTable
<1>1. /\ pc = "wan" /\ pc' = "ageWan" /\ i' = 1 /\ t' = t
      /\ \A b \in Addr : b \in Tracked(t) => age'[b] = age[b] + 1
  BY DEF WanEof
<1>2. /\ t \in Seq(WanEntry) /\ Len(t) \in Nat /\ Len(t) <= MAX_MCAST_ENTRIES
      /\ \A k \in 1 .. Len(t) : t[k] \in WanEntry /\ Lives(t[k], age, k, 0)
      /\ age \in [Addr -> Nat] /\ age' \in [Addr -> Nat]
  BY <1>1, LifeTypes DEF LifeInv, Ahead, TypeOK
<1>3. ASSUME NEW k \in 1 .. Len(t) PROVE Lives(t[k], age', k, 1) /\ Ahead(k)' = 1
  <2>1. t[k].ipAddr \in Tracked(t) /\ t[k].ipAddr \in Addr
    <3>1. DOMAIN t = 1 .. Len(t)
      BY <1>2, TableFacts
    <3>2. t[k].ipAddr \in Addr
      BY <1>2 DEF WanEntry
    <3> QED
      BY <3>1, <3>2 DEF Tracked
  <2>2. k \in Nat /\ k >= 1
    BY <1>2
  <2> QED
    BY <1>1, <1>2, <2>1, <2>2, LivesCounted DEF Ahead
<1> QED
  BY <1>1, <1>2, <1>3 DEF LifeInv, Lives

(* A step of the pass. *)
LEMMA LifeAge ==
    ASSUME TypeOK, TypeOK', IndexInv, LifeInv, AgeWan
    PROVE  LifeInv'
<1> DEFINE t == WanMCastTable
           n == Len(t)
<1>0. /\ n \in Nat /\ n <= MAX_MCAST_ENTRIES /\ i \in Nat /\ i > 0
      /\ t \in Seq(WanEntry) /\ age \in [Addr -> Nat] /\ pc = "ageWan" /\ age' = age
  BY LifeTypes DEF LifeInv, AgeWan, IndexInv
<1>1. \A k \in 1 .. n : /\ t[k] \in WanEntry /\ k \in Nat
                        /\ k >= i => Lives(t[k], age, k, 1)
                        /\ ~(k >= i) => Lives(t[k], age, k, 0)
  BY <1>0, LifeTypes DEF LifeInv, Ahead
<1>2. SUFFICES /\ Len(t') <= MAX_MCAST_ENTRIES
               /\ \A k \in 1 .. Len(t') : Lives(t'[k], age, k, Ahead(k)')
  BY <1>0 DEF LifeInv, Lives
<1>3. CASE i <= n
  <2>1. t' = Aged(t) /\ i' = i + 1 /\ pc' = pc /\ i \in 1 .. n
    BY <1>0, <1>3 DEF AgeWan
  <2>2. \A k \in Nat : Ahead(k)' = IF k >= i /\ k # i THEN 1 ELSE 0
    BY <1>0, <2>1 DEF Ahead
  <2>3. CASE Wrote(t, t', i) /\ t'[i] = [t[i] EXCEPT !.mcastAliveCount = @ - 1]
    <3>1. Len(t') = n /\ \A l \in 1 .. n : l # i => t'[l] = t[l]
      BY <2>3 DEF Wrote
    <3>2. ASSUME NEW k \in 1 .. n, k = i PROVE Lives(t'[k], age, k, Ahead(k)')
      <4>1. Lives([t[i] EXCEPT !.mcastAliveCount = @ - 1], age, i, 0)
        <5>1. i >= i /\ t[i] \in WanEntry /\ Lives(t[i], age, i, 1)
          BY <1>0, <1>1, <2>1
        <5> QED
          BY <1>0, <5>1, LivesReduced
      <4>2. Ahead(k)' = 0
        BY <1>0, <2>2, <3>2
      <4> QED
        BY <2>3, <3>2, <4>1, <4>2
    <3>3. ASSUME NEW k \in 1 .. n, k # i PROVE Lives(t'[k], age, k, Ahead(k)')
      BY <1>1, <2>2, <3>1, <3>3
    <3> QED
      <4>1. Len(t') <= MAX_MCAST_ENTRIES /\ Len(t') = Len(t)
        BY <1>0, <3>1
      <4> QED
        BY <3>2, <3>3, <4>1
  <2>4. CASE Dropped(t, t', i)
    <3>1. /\ Len(t') = n - 1 /\ n - 1 <= MAX_MCAST_ENTRIES
          /\ \A l \in 1 .. n - 1 : t'[l] = IF l = i THEN t[n] ELSE t[l]
      <4>1. n - 1 <= MAX_MCAST_ENTRIES
        BY <1>0
      <4>2. Len(t') = Len(t) - 1
        BY <2>4 DEF Dropped
      <4>3. \A l \in 1 .. Len(t') : t'[l] = IF l = i THEN t[Len(t)] ELSE t[l]
        BY <2>4 DEF Dropped
      <4> QED
        BY <4>1, <4>2, <4>3
    <3>2. ASSUME NEW k \in 1 .. n - 1, k = i
          PROVE  Lives(t'[k], age, k, Ahead(k)')
      <4>1. n \in 1 .. n /\ n >= i /\ k < n /\ k \in Nat
        BY <1>0, <1>3, <3>2
      <4>2. Ahead(k)' = 0 /\ t'[k] = t[n]
        BY <2>2, <3>1, <3>2, <4>1
      <4>3. t[n] \in WanEntry /\ Lives(t[n], age, n, 1)
        BY <1>1, <4>1
      <4>4. Lives(t[n], age, k, 0)
        BY <1>0, <4>1, <4>3, LivesMoved
      <4> QED
        BY <4>2, <4>4
    <3>3. ASSUME NEW k \in 1 .. n - 1, k # i
          PROVE  Lives(t'[k], age, k, Ahead(k)')
      <4>1. k \in 1 .. n
        BY <1>0
      <4> QED
        BY <1>1, <2>2, <3>1, <3>3, <4>1
    <3> QED
      BY <3>1, <3>2, <3>3
  <2> QED
    BY <1>0, <2>1, <2>3, <2>4, AgedTable
<1>4. CASE ~(i <= n)
  <2>1. t' = t /\ pc' = "ageLan"
    BY <1>4 DEF AgeWan
  <2>2. \A k \in 1 .. n : ~(k >= i) /\ Ahead(k)' = 0
    BY <1>0, <1>4, <2>1 DEF Ahead
  <2> QED
    BY <1>0, <1>1, <2>1, <2>2
<1> QED
  BY <1>3, <1>4

(* Every step. *)
LEMMA LifeStep ==
    ASSUME BaseInv, BaseInv', LifeInv, [Next]_vars
    PROVE  LifeInv'
<1> USE DEF BaseInv
<1>1. CASE (\E a \in Addr : WanLine(a)) \/ WanEof \/ AgeWan
  BY <1>1, LifeLine, LifeEof, LifeAge
<1>2. CASE WanMCastTable' = << >>
  <2>1. Len(WanMCastTable') = 0
    BY <1>2
  <2> QED
    BY <2>1 DEF LifeInv
<1>3. CASE Start \/ RetryInit
  <2>1. /\ WanMCastTable' \in {WanMCastTable, << >>} /\ age' = age
        /\ pc # "ageWan" /\ pc' # "ageWan"
    BY <1>3 DEF Start, RetryInit, mrd_wlistInit
  <2> QED
    BY <1>2, <2>1, LifeQuiet
<1>4. CASE Restart
  BY <1>2, <1>4 DEF Restart
<1>5. CASE LanOpen \/ LanEof \/ WanOpen
  BY <1>5, LifeQuiet DEF LanOpen, WanOpen, Open, LanEof
<1>6. CASE (\E a \in Addr : LanLine(a)) \/ AgeLan \/ Sleep \/ Refresh \/ Attach
  BY <1>6, LifeQuiet DEF LanLine, AgeLan, Sleep, Refresh, Attach
<1>7. CASE OpenFails \/ LookupFaults
  BY <1>7, LifeQuiet DEF OpenFails, LookupFaults, Die
<1>8. CASE SegmentChange \/ UNCHANGED vars
  BY <1>8, LifeStill DEF SegmentChange, vars
<1>9. ASSUME NEW s \in Side, NEW a \in Addr,
             Talk(s, a) \/ NeighbourFails(s, a) \/ WhitelistChange(a)
      PROVE  LifeInv'
  BY <1>9, LifeStill DEF Talk, NeighbourFails, WhitelistChange
<1>10. ASSUME NEW a \in Addr, WhitelistChange(a) PROVE LifeInv'
  BY <1>10, LifeStill DEF WhitelistChange
<1> QED
  BY <1>1, <1>3, <1>4, <1>5, <1>6, <1>7, <1>8, <1>9, <1>10 DEF Next, Loop, Environment

(* No address is tracked twice. *)
THEOREM EntriesAreUnique == Spec => []UniqueEntries
<1>1. Init => UniqueInv
  BY DEF Init, UniqueInv, Distinct
<1>2. BaseInv /\ BaseInv' /\ UniqueInv /\ [Next]_vars => UniqueInv'
  BY UniqueStep
<1>3. BaseInv /\ UniqueInv => UniqueEntries
  BY UniqueMeans DEF BaseInv
<1> QED
  BY <1>1, <1>2, <1>3, Base, PTL DEF Spec

(* A source that has fallen silent is dropped from the MoCA table within    *)
(* fewer passes than the life time and the size of the table together.      *)
THEOREM StaleEntriesBounded == Spec => []StaleBound
<1>1. Init => LifeInv
  BY DEF Init, LifeInv
<1>2. BaseInv /\ BaseInv' /\ LifeInv /\ [Next]_vars => LifeInv'
  BY LifeStep
<1>3. BaseInv /\ LifeInv => StaleBound
  <2> SUFFICES ASSUME TypeOK, LifeInv, NEW k \in DOMAIN WanMCastTable
               PROVE  age[WanMCastTable[k].ipAddr] < MAX_MLIFE + MAX_MCAST_ENTRIES
    BY DEF BaseInv, StaleBound
  <2>1. k \in 1 .. Len(WanMCastTable)
    BY TableFacts DEF TypeOK
  <2>2. /\ WanMCastTable[k] \in WanEntry /\ k \in Nat /\ k > 0
        /\ age \in [Addr -> Nat] /\ Ahead(k) \in {0, 1}
        /\ Lives(WanMCastTable[k], age, k, Ahead(k))
    BY <2>1, LifeTypes DEF LifeInv, Ahead
  <2> QED
    BY <2>2, LivesBound
<1> QED
  BY <1>1, <1>2, <1>3, Base, PTL DEF Spec

-----------------------------------------------------------------------------
(* How long a route is kept: the bound of an entry's life from below.  An   *)
(* entry that is passed over gains a pass, and none loses two lives in one. *)
Lasts(e, passes, extra) ==
    MAX_MLIFE + extra <= e.mcastAliveCount + passes[e.ipAddr]

LastsInv ==
    \A k \in 1 .. Len(WanMCastTable) : Lasts(WanMCastTable[k], age, Ahead(k))

(* An entry and its arithmetic. *)
LEMMA LastsMeans ==
    ASSUME NEW e \in WanEntry, NEW passes \in [Addr -> Nat]
    PROVE  /\ e.ipAddr \in Addr
           /\ \E c \in 1 .. MAX_MLIFE, g \in Nat :
                /\ e.mcastAliveCount = c /\ passes[e.ipAddr] = g
                /\ \A extra : Lasts(e, passes, extra) <=> MAX_MLIFE + extra <= c + g
<1>1. e.ipAddr \in Addr /\ e.mcastAliveCount \in 1 .. MAX_MLIFE
  BY DEF WanEntry
<1> QED
  BY <1>1 DEF Lasts

(* A line gives it its whole life, whatever the passes. *)
LEMMA LastsAnew ==
    ASSUME NEW a \in Addr, NEW flag, NEW q \in [Addr -> Nat]
    PROVE  Lasts(Entry(a, flag), q, 0)
<1>1. q[a] \in Nat /\ (Lasts(Entry(a, flag), q, 0) <=> MAX_MLIFE + 0 <= MAX_MLIFE + q[a])
  BY DEF Lasts, Entry
<1> QED
  BY <1>1

(* A pass is counted ... *)
LEMMA LastsCounted ==
    ASSUME NEW e \in WanEntry, NEW p \in [Addr -> Nat], NEW q \in [Addr -> Nat],
           Lasts(e, p, 0), q[e.ipAddr] = p[e.ipAddr] + 1
    PROVE  Lasts(e, q, 1)
<1>1. PICK c \in 1 .. MAX_MLIFE, g \in Nat :
        e.mcastAliveCount = c /\ p[e.ipAddr] = g /\ MAX_MLIFE + 0 <= c + g
  BY LastsMeans
<1>2. Lasts(e, q, 1) <=> MAX_MLIFE + 1 <= c + (g + 1)
  BY <1>1 DEF Lasts
<1> QED
  BY <1>1, <1>2

(* ... and taken from the life. *)
LEMMA LastsReduced ==
    ASSUME NEW e \in WanEntry, NEW p \in [Addr -> Nat], Lasts(e, p, 1)
    PROVE  Lasts([e EXCEPT !.mcastAliveCount = @ - 1], p, 0)
<1>1. PICK c \in 1 .. MAX_MLIFE, g \in Nat :
        e.mcastAliveCount = c /\ p[e.ipAddr] = g /\ MAX_MLIFE + 1 <= c + g
  BY LastsMeans
<1> DEFINE f == [e EXCEPT !.mcastAliveCount = @ - 1]
<1>2. f.mcastAliveCount = c - 1 /\ f.ipAddr = e.ipAddr
  BY <1>1 DEF WanEntry
<1> HIDE DEF f
<1>3. Lasts(f, p, 0) <=> MAX_MLIFE + 0 <= (c - 1) + g
  BY <1>1, <1>2 DEF Lasts
<1>4. Lasts(f, p, 0)
  BY <1>1, <1>3
<1> QED
  BY <1>4 DEF f

(* An entry that is passed over, or whose pass is over, has more to spare. *)
LEMMA LastsSpared ==
    ASSUME NEW e \in WanEntry, NEW p \in [Addr -> Nat], Lasts(e, p, 1)
    PROVE  Lasts(e, p, 0)
<1>1. PICK c \in 1 .. MAX_MLIFE, g \in Nat :
        /\ MAX_MLIFE + 1 <= c + g
        /\ Lasts(e, p, 0) <=> MAX_MLIFE + 0 <= c + g
  BY LastsMeans
<1> QED
  BY <1>1

(* A line: no other entry has its address. *)
LEMMA LastsLine ==
    ASSUME TypeOK, TypeOK', UniqueInv, LastsInv, NEW a \in Addr, WanLine(a)
    PROVE  LastsInv'
<1> DEFINE t == WanMCastTable
<1>1. PICK flag \in BOOLEAN : t' = WanEntered(a, flag)
  BY FlagTyped DEF WanLine
<1>2. /\ pc = "wan" /\ pc' = "wan" /\ age' \in [Addr -> Nat] /\ age \in [Addr -> Nat]
      /\ \A b \in Addr : b # a => age'[b] = age[b]
  BY DEF WanLine, TypeOK
<1>3. /\ t \in Seq(WanEntry) /\ Len(t) \in Nat /\ DOMAIN t = 1 .. Len(t)
      /\ \A k \in 1 .. Len(t) : /\ t[k] \in WanEntry /\ t[k].ipAddr \in Addr
                                /\ Lasts(t[k], age, 0)
  <2>1. \A k \in 1 .. Len(t) : t[k] \in WanEntry /\ Lasts(t[k], age, 0)
    BY <1>2, LifeTypes DEF LastsInv, Ahead
  <2> QED
    BY <2>1, LifeTypes, TableFacts DEF WanEntry
<1>4. \A k \in 1 .. Len(t) : t[k].ipAddr # a => Lasts(t[k], age', 0)
  BY <1>2, <1>3 DEF Lasts
<1>5. Lasts(Entry(a, flag), age', 0)
  BY <1>2, LastsAnew
<1>6. \A k \in 1 .. Len(t') : Lasts(t'[k], age', 0)
  <2>1. CASE a \in Tracked(t)
    <3> DEFINE s == Slot(t, a)
    <3>1. /\ Wrote(t, t', s) /\ t'[s] = Entry(a, flag) /\ t[s].ipAddr = a
      BY <1>1, <1>3, <2>1, WanEnteredTable
    <3> HIDE DEF s
    <3>2. /\ Len(t') = Len(t) /\ s \in 1 .. Len(t)
          /\ \A l \in 1 .. Len(t) : l # s => t'[l] = t[l]
      BY <3>1 DEF Wrote
    <3>3. \A l \in 1 .. Len(t) : l # s => t[l].ipAddr # a
      BY <3>1, <3>2 DEF UniqueInv, Distinct
    <3> QED
      BY <1>4, <1>5, <3>1, <3>2, <3>3
  <2>2. CASE a \notin Tracked(t)
    <3>1. \A k \in 1 .. Len(t) : t[k].ipAddr # a
      BY <1>3, <2>2 DEF Tracked
    <3>2. CASE Added(t, t') /\ t'[Len(t) + 1] = Entry(a, flag)
      <4>1. /\ Len(t') = Len(t) + 1
            /\ \A l \in 1 .. Len(t) : t'[l] = t[l]
        BY <3>2 DEF Added
      <4>2. \A l \in 1 .. Len(t') : l \in 1 .. Len(t) \/ l = Len(t) + 1
        BY <1>3, <4>1
      <4> QED
        BY <1>4, <1>5, <3>1, <3>2, <4>1, <4>2
    <3>3. CASE t' = t
      BY <1>4, <3>1, <3>3
    <3> QED
      BY <1>1, <1>3, <2>2, <3>2, <3>3, WanEnteredTable
  <2> QED
    BY <2>1, <2>2
<1>7. \A k \in 1 .. Len(t') : Ahead(k)' = 0
  BY <1>2 DEF Ahead
<1> QED
  BY <1>6, <1>7 DEF LastsInv, Lasts

(* The end of the lines: a pass begins. *)
LEMMA LastsEof ==
    ASSUME TypeOK, TypeOK', LastsInv, WanEof
    PROVE  LastsInv'
<1> DEFINE t == WanMCastTable
<1>1. /\ pc = "wan" /\ pc' = "ageWan" /\ i' = 1 /\ t' = t
      /\ \A b \in Addr : b \in Tracked(t) => age'[b] = age[b] + 1
  BY DEF WanEof
<1>2. /\ t \in Seq(WanEntry) /\ Len(t) \in Nat /\ DOMAIN t = 1 .. Len(t)
      /\ \A k \in 1 .. Len(t) : t[k] \in WanEntry /\ Lasts(t[k], age, 0)
      /\ age \in [Addr -> Nat] /\ age' \in [Addr -> Nat]
  BY <1>1, LifeTypes, TableFacts DEF LastsInv, Ahead, TypeOK
<1>3. ASSUME NEW k \in 1 .. Len(t) PROVE Lasts(t[k], age', 1) /\ Ahead(k)' = 1
  <2>1. t[k].ipAddr \in Addr
    BY <1>2 DEF WanEntry
  <2>2. k \in DOMAIN t /\ k >= 1
    BY <1>2
  <2>3. t[k].ipAddr \in Tracked(t)
    BY <2>2 DEF Tracked
  <2> QED
    BY <1>1, <1>2, <2>1, <2>2, <2>3, LastsCounted DEF Ahead
<1> QED
  BY <1>1, <1>3 DEF LastsInv, Lasts

(* A step of the pass. *)
LEMMA LastsAge ==
    ASSUME TypeOK, TypeOK', IndexInv, LastsInv, AgeWan
    PROVE  LastsInv'
<1> DEFINE t == WanMCastTable
           n == Len(t)
<1>0. /\ n \in Nat /\ i \in Nat /\ i > 0
      /\ t \in Seq(WanEntry) /\ age \in [Addr -> Nat] /\ pc = "ageWan" /\ age' = age
  BY LifeTypes DEF AgeWan, IndexInv
<1>1. \A k \in 1 .. n : /\ t[k] \in WanEntry
                        /\ k >= i => Lasts(t[k], age, 1)
                        /\ Lasts(t[k], age, 0)
  <2>1. \A k \in 1 .. n : /\ t[k] \in WanEntry
                          /\ k >= i => Lasts(t[k], age, 1)
                          /\ ~(k >= i) => Lasts(t[k], age, 0)
    BY <1>0, LifeTypes DEF LastsInv, Ahead
  <2> QED
    BY <1>0, <2>1, LastsSpared
<1>2. SUFFICES \A k \in 1 .. Len(t') : Lasts(t'[k], age, Ahead(k)')
  BY <1>0 DEF LastsInv, Lasts
<1>3. CASE i <= n
  <2>1. t' = Aged(t) /\ i' = i + 1 /\ pc' = pc /\ i \in 1 .. n
    BY <1>0, <1>3 DEF AgeWan
  <2>2. \A k \in Nat : Ahead(k)' = IF k >= i /\ k # i THEN 1 ELSE 0
    BY <1>0, <2>1 DEF Ahead
  <2>3. CASE Wrote(t, t', i) /\ t'[i] = [t[i] EXCEPT !.mcastAliveCount = @ - 1]
    <3>1. Len(t') = n /\ \A l \in 1 .. n : l # i => t'[l] = t[l]
      BY <2>3 DEF Wrote
    <3>2. ASSUME NEW k \in 1 .. n, k = i PROVE Lasts(t'[k], age, Ahead(k)')
      <4>1. t[i] \in WanEntry /\ Lasts(t[i], age, 1)
        BY <1>0, <1>1, <2>1
      <4>2. Lasts([t[i] EXCEPT !.mcastAliveCount = @ - 1], age, 0)
        BY <1>0, <4>1, LastsReduced
      <4>3. Ahead(k)' = 0
        BY <1>0, <2>2, <3>2
      <4> QED
        BY <2>3, <3>2, <4>2, <4>3
    <3>3. ASSUME NEW k \in 1 .. n, k # i PROVE Lasts(t'[k], age, Ahead(k)')
      BY <1>1, <2>2, <3>1, <3>3
    <3>4. \A k \in 1 .. n : Lasts(t'[k], age, Ahead(k)')
      BY <3>2, <3>3
    <3> HIDE DEF n, t
    <3> QED
      BY <3>1, <3>4
  <2>4. CASE Dropped(t, t', i)
    <3>1. /\ Len(t') = n - 1
          /\ \A l \in 1 .. n - 1 : t'[l] = IF l = i THEN t[n] ELSE t[l]
      BY <2>4 DEF Dropped
    <3>2. ASSUME NEW k \in 1 .. n - 1, k = i
          PROVE  Lasts(t'[k], age, Ahead(k)')
      <4>1. n \in 1 .. n
        BY <1>0, <1>3
      <4>2. Ahead(k)' = 0 /\ t'[k] = t[n]
        BY <1>0, <2>2, <3>1, <3>2
      <4> QED
        BY <1>1, <4>1, <4>2
    <3>3. ASSUME NEW k \in 1 .. n - 1, k # i
          PROVE  Lasts(t'[k], age, Ahead(k)')
      <4>1. k \in 1 .. n
        BY <1>0
      <4> QED
        BY <1>1, <2>2, <3>1, <3>3, <4>1
    <3>4. \A k \in 1 .. n - 1 : Lasts(t'[k], age, Ahead(k)')
      BY <3>2, <3>3
    <3> HIDE DEF n, t
    <3> QED
      BY <3>1, <3>4
  <2> QED
    BY <1>0, <2>1, <2>3, <2>4, AgedTable
<1>4. CASE ~(i <= n)
  <2>1. t' = t /\ pc' = "ageLan"
    BY <1>4 DEF AgeWan
  <2>2. \A k \in 1 .. n : Ahead(k)' = 0
    BY <2>1 DEF Ahead
  <2> QED
    BY <1>1, <2>1, <2>2
<1> QED
  BY <1>3, <1>4

(* A step that leaves table and passes alone. *)
LEMMA LastsQuiet ==
    ASSUME LastsInv, WanMCastTable' = WanMCastTable, age' = age,
           \/ pc # "ageWan" /\ pc' # "ageWan"
           \/ pc' = pc /\ i' = i
    PROVE  LastsInv'
BY DEF LastsInv, Ahead, Lasts

(* Every step. *)
LEMMA LastsStep ==
    ASSUME BaseInv, BaseInv', UniqueInv, LastsInv, [Next]_vars
    PROVE  LastsInv'
<1> USE DEF BaseInv
<1>1. CASE (\E a \in Addr : WanLine(a)) \/ WanEof \/ AgeWan
  BY <1>1, LastsLine, LastsEof, LastsAge
<1>2. CASE WanMCastTable' = << >>
  <2>1. Len(WanMCastTable') = 0
    BY <1>2
  <2> QED
    BY <2>1 DEF LastsInv
<1>3. CASE Start \/ RetryInit
  <2>1. /\ WanMCastTable' \in {WanMCastTable, << >>} /\ age' = age
        /\ pc # "ageWan" /\ pc' # "ageWan"
    BY <1>3 DEF Start, RetryInit, mrd_wlistInit
  <2> QED
    BY <1>2, <2>1, LastsQuiet
<1>4. CASE Restart
  BY <1>2, <1>4 DEF Restart
<1>5. CASE LanOpen \/ LanEof \/ WanOpen
  BY <1>5, LastsQuiet DEF LanOpen, WanOpen, Open, LanEof
<1>6. CASE (\E a \in Addr : LanLine(a)) \/ AgeLan \/ Sleep \/ Refresh \/ Attach
  BY <1>6, LastsQuiet DEF LanLine, AgeLan, Sleep, Refresh, Attach
<1>7. CASE OpenFails \/ LookupFaults
  BY <1>7, LastsQuiet DEF OpenFails, LookupFaults, Die
<1>8. CASE SegmentChange \/ UNCHANGED vars
  BY <1>8, LastsQuiet DEF SegmentChange, vars
<1>9. ASSUME NEW s \in Side, NEW a \in Addr,
             Talk(s, a) \/ NeighbourFails(s, a) \/ WhitelistChange(a)
      PROVE  LastsInv'
  BY <1>9, LastsQuiet DEF Talk, NeighbourFails, WhitelistChange
<1>10. ASSUME NEW a \in Addr, WhitelistChange(a) PROVE LastsInv'
  BY <1>10, LastsQuiet DEF WhitelistChange
<1> QED
  BY <1>1, <1>3, <1>4, <1>5, <1>6, <1>7, <1>8, <1>9, <1>10 DEF Next, Loop, Environment

(* The route of an entry whose life ends. *)
LEMMA KeptByAge ==
    ASSUME TypeOK, IndexInv, LastsInv, AgeWan, NEW a \in mocaRoute \ mocaRoute'
    PROVE  RouteMayGo(a)
<1> DEFINE t == WanMCastTable
<1>1. i <= Len(t) /\ a \in Ended(t) /\ pc = "ageWan" /\ i > 0
  BY DEF AgeWan, IndexInv
<1>2. i \in 1 .. Len(t) /\ age \in [Addr -> Nat]
  BY <1>1, LifeTypes
<1>3. ~(t[i].mcastAliveCount > 1) /\ a = t[i].ipAddr
  BY <1>1 DEF Ended
<1>4. t[i] \in WanEntry /\ Lasts(t[i], age, 1)
  <2>1. Ahead(i) = 1
    BY <1>1, <1>2 DEF Ahead
  <2> QED
    BY <1>2, <2>1, LifeTypes DEF LastsInv
<1>5. PICK c \in 1 .. MAX_MLIFE, g \in Nat :
        t[i].mcastAliveCount = c /\ age[a] = g /\ MAX_MLIFE + 1 <= c + g
  BY <1>2, <1>3, <1>4, LastsMeans
<1>6. g >= MAX_MLIFE
  BY <1>3, <1>5
<1> QED
  BY <1>1, <1>5, <1>6 DEF RouteMayGo

(* The route of an address that is read and denied. *)
LEMMA KeptByLine ==
    ASSUME TypeOK, NEW b \in Addr, WanLine(b), NEW a \in mocaRoute \ mocaRoute'
    PROVE  RouteMayGo(a)
<1>1. PICK flag \in mrd_flag(b) :
        mocaRoute' = IF ~News(b, flag) \/ b \notin LinkLocal THEN mocaRoute
                     ELSE IF flag THEN mocaRoute \cup {b} ELSE mocaRoute \ {b}
  BY DEF WanLine
<1>2. a = b /\ flag = FALSE
  <2>1. flag \in BOOLEAN
    BY FlagTyped
  <2> QED
    BY <1>1, <2>1
<1>3. todo'[b] < todo[b] /\ pc = "wan"
  <2>1. todo \in [Addr -> Nat] /\ todo' = [todo EXCEPT ![b] = @ - 1] /\ pc = "wan"
    BY DEF TypeOK, WanLine, Read
  <2>2. todo'[b] = todo[b] - 1 /\ todo[b] \in Nat
    BY <2>1
  <2> QED
    BY <2>1, <2>2
<1> QED
  BY <1>1, <1>2, <1>3 DEF RouteMayGo, ReadDenied

(* A step takes away no other route. *)
LEMMA KeptStep ==
    ASSUME BaseInv, LastsInv, [Next]_vars, NEW a \in mocaRoute \ mocaRoute'
    PROVE  RouteMayGo(a)
<1> USE DEF BaseInv
<1>1. CASE AgeWan
  BY <1>1, KeptByAge
<1>2. ASSUME NEW b \in Addr, WanLine(b) PROVE RouteMayGo(a)
  BY <1>2, KeptByLine
<1>3. CASE Start \/ RetryInit
  <2>1. wlist_stat' = 0
    BY <1>3 DEF Start, RetryInit, mrd_wlistInit
  <2>2. wlist_stat = -1
    BY <1>3, <2>1 DEF Start, RetryInit, MapInv, TypeOK
  <2> QED
    BY <2>1, <2>2 DEF RouteMayGo, FirstAttached
<1>4. CASE LanOpen \/ LanEof \/ WanOpen \/ WanEof
  BY <1>4 DEF LanOpen, WanOpen, Open, LanEof, WanEof
<1>5. CASE (\E b \in Addr : LanLine(b)) \/ AgeLan \/ Sleep \/ Refresh \/ Attach
  BY <1>5 DEF LanLine, AgeLan, Sleep, Refresh, Attach
<1>6. CASE OpenFails \/ LookupFaults
  BY <1>6 DEF OpenFails, LookupFaults, Die
<1>7. CASE SegmentChange \/ Restart \/ UNCHANGED vars
  BY <1>7 DEF SegmentChange, Restart, vars
<1>8. ASSUME NEW s \in Side, NEW b \in Addr,
             Talk(s, b) \/ NeighbourFails(s, b)
      PROVE  RouteMayGo(a)
  BY <1>8 DEF Talk, NeighbourFails
<1>9. ASSUME NEW b \in Addr, WhitelistChange(b) PROVE RouteMayGo(a)
  BY <1>9 DEF WhitelistChange
<1> QED
  BY <1>1, <1>2, <1>3, <1>4, <1>5, <1>6, <1>7, <1>8, <1>9 DEF Next, Loop, Environment

(* A route outlives the last line of its source by at least its life time,  *)
(* however the entries change their places.                                 *)
THEOREM RoutesKeptForLife == Spec => KeptForLife
<1>1. Init => UniqueInv /\ LastsInv
  BY DEF Init, UniqueInv, Distinct, LastsInv
<1>2. BaseInv /\ BaseInv' /\ UniqueInv /\ [Next]_vars => UniqueInv'
  BY UniqueStep
<1>3. BaseInv /\ BaseInv' /\ UniqueInv /\ LastsInv /\ [Next]_vars => LastsInv'
  BY LastsStep
<1>4. BaseInv /\ LastsInv /\ [Next]_vars
        => [\A a \in mocaRoute \ mocaRoute' : RouteMayGo(a)]_vars
  BY KeptStep
<1> QED
  BY <1>1, <1>2, <1>3, <1>4, Base, PTL DEF Spec, KeptForLife

-----------------------------------------------------------------------------
(* Entries and routes: the status of an entry says what the kernel has. *)
Routed(e, r) == e.ipAddr \in r <=> e.mcastStatus /\ e.ipAddr \in LinkLocal

RoutedInv ==
    /\ mocaRoute \subseteq LinkLocal
    /\ \A k \in 1 .. Len(WanMCastTable) : Routed(WanMCastTable[k], mocaRoute)

(* What a step that changes an entry leaves to the others. *)
LEMMA RoutedElsewhere ==
    ASSUME NEW e, NEW r, NEW q, Routed(e, r), NEW a, e.ipAddr # a, r \ {a} = q \ {a}
    PROVE  Routed(e, q)
<1>1. e.ipAddr \in r <=> e.ipAddr \in q
  OBVIOUS
<1> QED
  BY <1>1 DEF Routed

(* A line. *)
LEMMA RoutedLine ==
    ASSUME TypeOK, UniqueInv, RoutedInv, NEW a \in Addr, WanLine(a)
    PROVE  RoutedInv'
<1> DEFINE t == WanMCastTable
<1>1. PICK flag \in BOOLEAN :
        /\ t' = WanEntered(a, flag)
        /\ mocaRoute' = IF ~News(a, flag) \/ a \notin LinkLocal THEN mocaRoute
                        ELSE IF flag THEN mocaRoute \cup {a} ELSE mocaRoute \ {a}
  BY FlagTyped DEF WanLine
<1>2. t \in Seq(WanEntry) /\ Len(t) \in Nat /\ DOMAIN t = 1 .. Len(t)
  BY TableFacts DEF TypeOK
<1>3. mocaRoute \ {a} = mocaRoute' \ {a} /\ mocaRoute' \subseteq LinkLocal
  BY <1>1 DEF RoutedInv
<1>4. \A k \in 1 .. Len(t) : t[k].ipAddr # a => Routed(t[k], mocaRoute')
  BY <1>3, RoutedElsewhere DEF RoutedInv
<1>5. CASE a \in Tracked(t)
  <2> DEFINE s == Slot(t, a)
  <2>1. s \in 1 .. Len(t) /\ t[s].ipAddr = a
    BY <1>2, <1>5, SlotFound
  <2>2. /\ Wrote(t, t', s) /\ t'[s] = Entry(a, flag)
    BY <1>1, <1>2, <1>5, WanEnteredTable
  <2>3. News(a, flag) <=> t[s].mcastStatus # flag
    BY <1>5 DEF News
  <2> HIDE DEF s
  <2>4. Routed(Entry(a, flag), mocaRoute')
    <3>1. CASE News(a, flag)
      BY <1>1, <3>1 DEF Routed, Entry, RoutedInv
    <3>2. CASE ~News(a, flag)
      <4>1. Routed(t[s], mocaRoute) /\ t[s].mcastStatus = flag
        BY <2>1, <2>3, <3>2 DEF RoutedInv
      <4>2. mocaRoute' = mocaRoute
        BY <1>1, <3>2
      <4> QED
        BY <2>1, <4>1, <4>2 DEF Routed, Entry
    <3> QED
      BY <3>1, <3>2
  <2>5. \A k \in 1 .. Len(t) : k # s => t'[k] = t[k] /\ t[k].ipAddr # a
    BY <2>1, <2>2 DEF UniqueInv, Distinct, Wrote
  <2>6. Len(t') = Len(t)
    BY <2>2 DEF Wrote
  <2> QED
    BY <1>3, <1>4, <2>2, <2>4, <2>5, <2>6 DEF RoutedInv
<1>6. CASE a \notin Tracked(t)
  <2>1. \A k \in 1 .. Len(t) : Routed(t[k], mocaRoute')
    BY <1>2, <1>4, <1>6 DEF Tracked
  <2>2. CASE Added(t, t') /\ t'[Len(t) + 1] = Entry(a, flag)
    <3>1. News(a, flag)
      BY <1>6 DEF News
    <3>2. Routed(Entry(a, flag), mocaRoute')
      BY <1>1, <3>1 DEF Routed, Entry, RoutedInv
    <3>3. /\ Len(t') = Len(t) + 1
          /\ \A l \in 1 .. Len(t) : t'[l] = t[l]
      BY <2>2 DEF Added
    <3>4. \A l \in 1 .. Len(t') : l \in 1 .. Len(t) \/ l = Len(t) + 1
      BY <1>2, <3>3
    <3> QED
      BY <1>3, <2>1, <2>2, <3>2, <3>3, <3>4 DEF RoutedInv
  <2>3. CASE t' = t
    BY <1>3, <2>1, <2>3 DEF RoutedInv
  <2> QED
    BY <1>1, <1>2, <1>6, <2>2, <2>3, WanEnteredTable
<1> QED
  BY <1>5, <1>6

(* A step of the ageing pass. *)
LEMMA RoutedAge ==
    ASSUME TypeOK, IndexInv, UniqueInv, RoutedInv, AgeWan
    PROVE  RoutedInv'
<1> DEFINE t == WanMCastTable
           n == Len(t)
<1>0. n \in Nat /\ i \in Nat /\ i > 0 /\ t \in Seq(WanEntry)
  BY LifeTypes DEF AgeWan, IndexInv
<1>1. CASE i <= n
  <2>1. t' = Aged(t) /\ mocaRoute' = mocaRoute \ Ended(t) /\ i \in 1 .. n
    BY <1>0, <1>1 DEF AgeWan
  <2>2. CASE /\ Wrote(t, t', i) /\ t[i].mcastAliveCount > 1
             /\ t'[i] = [t[i] EXCEPT !.mcastAliveCount = @ - 1]
    <3>1. mocaRoute' = mocaRoute
      BY <2>1, <2>2 DEF Ended
    <3>2. t[i] \in WanEntry
      BY <1>0, <2>1, TableFacts
    <3>3. t'[i].mcastStatus = t[i].mcastStatus /\ t'[i].ipAddr = t[i].ipAddr
      BY <2>2, <3>2 DEF WanEntry
    <3>4. Len(t') = Len(t) /\ \A l \in 1 .. Len(t) : l # i => t'[l] = t[l]
      BY <2>2 DEF Wrote
    <3> QED
      BY <3>1, <3>3, <3>4 DEF RoutedInv, Routed
  <2>3. CASE Dropped(t, t', i) /\ t[i].mcastAliveCount = 1
    <3>1. mocaRoute' = mocaRoute \ {t[i].ipAddr}
      BY <2>1, <2>3 DEF Ended
    <3>2. \A l \in 1 .. n : l # i => Routed(t[l], mocaRoute')
      <4> SUFFICES ASSUME NEW l \in 1 .. n, l # i PROVE Routed(t[l], mocaRoute')
        OBVIOUS
      <4>1. t[l].ipAddr # t[i].ipAddr
        BY <2>1 DEF UniqueInv, Distinct
      <4>2. Routed(t[l], mocaRoute)
        BY DEF RoutedInv
      <4> QED
        BY <3>1, <4>1, <4>2 DEF Routed
    <3>3. /\ Len(t') = Len(t) - 1
          /\ \A l \in 1 .. Len(t') : t'[l] = IF l = i THEN t[Len(t)] ELSE t[l]
      BY <2>3 DEF Dropped
    <3>4. ASSUME NEW l \in 1 .. n - 1
          PROVE  l \in 1 .. n /\ n \in 1 .. n /\ (l = i => n # i)
      BY <1>0
    <3> QED
      BY <3>1, <3>2, <3>3, <3>4 DEF RoutedInv
  <2> QED
    BY <1>0, <2>1, <2>2, <2>3, AgedTable
<1>2. CASE ~(i <= n)
  BY <1>2 DEF AgeWan, RoutedInv
<1> QED
  BY <1>1, <1>2

(* Every step. *)
LEMMA RoutedStep ==
    ASSUME BaseInv, UniqueInv, RoutedInv, [Next]_vars
    PROVE  RoutedInv'
<1> USE DEF BaseInv
<1>1. CASE (\E a \in Addr : WanLine(a)) \/ AgeWan
  BY <1>1, RoutedLine, RoutedAge
<1>2. CASE WanMCastTable' = << >> /\ mocaRoute' \subseteq mocaRoute
  <2>1. Len(WanMCastTable') = 0
    BY <1>2
  <2> QED
    BY <1>2, <2>1 DEF RoutedInv
<1>3. CASE WanMCastTable' = WanMCastTable /\ mocaRoute' = mocaRoute
  BY <1>3 DEF RoutedInv
<1>4. CASE Start \/ RetryInit
  BY <1>2, <1>3, <1>4 DEF Start, RetryInit, mrd_wlistInit
<1>5. CASE Restart
  BY <1>2, <1>5 DEF Restart
<1>6. CASE LanOpen \/ LanEof \/ WanOpen \/ WanEof
  BY <1>3, <1>6 DEF LanOpen, WanOpen, Open, LanEof, WanEof
<1>7. CASE (\E a \in Addr : LanLine(a)) \/ AgeLan \/ Sleep \/ Refresh \/ Attach
  BY <1>3, <1>7 DEF LanLine, AgeLan, Sleep, Refresh, Attach
<1>8. CASE OpenFails \/ LookupFaults \/ SegmentChange \/ UNCHANGED vars
  BY <1>3, <1>8 DEF OpenFails, LookupFaults, Die, SegmentChange, vars
<1>9. ASSUME NEW s \in Side, NEW a \in Addr, Talk(s, a) \/ NeighbourFails(s, a)
      PROVE  RoutedInv'
  BY <1>3, <1>9 DEF Talk, NeighbourFails
<1>10. ASSUME NEW a \in Addr, WhitelistChange(a) PROVE RoutedInv'
  BY <1>3, <1>10 DEF WhitelistChange
<1> QED
  BY <1>1, <1>4, <1>5, <1>6, <1>7, <1>8, <1>9, <1>10 DEF Next, Loop, Environment

(* Whatever fails, an entry of the MoCA table that says it is routed has    *)
(* its route.                                                               *)
THEOREM ListedAreRouted == Spec => []ListedRouted
<1>1. Init => UniqueInv /\ RoutedInv
  BY DEF Init, UniqueInv, Distinct, RoutedInv
<1>2. BaseInv /\ BaseInv' /\ UniqueInv /\ RoutedInv /\ [Next]_vars
        => UniqueInv' /\ RoutedInv'
  BY UniqueStep, RoutedStep
<1>3. BaseInv /\ RoutedInv => ListedRouted
  <2> SUFFICES ASSUME TypeOK, RoutedInv PROVE ListedRouted
    BY DEF BaseInv
  <2>1. DOMAIN WanMCastTable = 1 .. Len(WanMCastTable)
    BY TableFacts DEF TypeOK
  <2> QED
    BY <2>1 DEF RoutedInv, Routed, ListedRouted, Listed
<1> QED
  BY <1>1, <1>2, <1>3, Base, PTL DEF Spec

-----------------------------------------------------------------------------
(* The routes belong to entries.  No more addresses were ever met on a side *)
(* than sources came to it: those that talk, those whose lines are not read *)
(* yet and those in the table.  So a source finds room if all that came     *)
(* would.                                                                   *)
Pending(s) == IF pc = s THEN {a \in Addr : todo[a] > 0} ELSE {}

Met(s, table) == talking[s] \cup Pending(s) \cup Tracked(table)

Few(S, n) == IsFiniteSet(S) /\ Cardinality(S) <= n

MetInv ==
    /\ Few(Met("lan", LanMCastTable), used["lanTalk"])
    /\ Few(Met("wan", WanMCastTable), used["wanTalk"])

LEMMA FewLess ==
    ASSUME NEW S, NEW n \in Nat, Few(S, n), NEW T \in SUBSET S, NEW m \in Nat, n <= m
    PROVE  Few(T, m)
<1>1. IsFiniteSet(T) /\ Cardinality(T) <= Cardinality(S)
  BY FS_Subset DEF Few
<1>2. Cardinality(S) \in Nat /\ Cardinality(T) \in Nat
  BY <1>1, FS_CardinalityType DEF Few
<1> QED
  BY <1>1, <1>2 DEF Few

LEMMA FewMore ==
    ASSUME NEW S, NEW n \in Nat, Few(S, n), NEW a
    PROVE  Few(S \cup {a}, n + 1)
<1>1. /\ IsFiniteSet(S \cup {a})
      /\ Cardinality(S \cup {a}) = IF a \in S THEN Cardinality(S) ELSE Cardinality(S) + 1
  BY FS_AddElement DEF Few
<1>2. Cardinality(S) \in Nat /\ Cardinality(S) <= n
  BY FS_CardinalityType DEF Few
<1> QED
  BY <1>1, <1>2 DEF Few

(* A table of distinct addresses has as many entries as it has addresses. *)
LEMMA RoomLeft ==
    ASSUME NEW Q, NEW t \in Seq(Q), Distinct(t), NEW S, NEW n \in Nat, Few(S, n),
           Tracked(t) \subseteq S, NEW a \in S, a \notin Tracked(t)
    PROVE  Len(t) < n
<1> DEFINE f == [k \in 1 .. Len(t) |-> t[k].ipAddr]
           T == S \ {a}
<1>1. Len(t) \in Nat /\ DOMAIN t = 1 .. Len(t)
  BY TableFacts
<1>2. /\ IsFiniteSet(T) /\ Cardinality(T) = Cardinality(S) - 1
      /\ Cardinality(S) \in Nat /\ Cardinality(S) <= n
  BY FS_RemoveElement, FS_CardinalityType DEF Few
<1>3. \A k \in 1 .. Len(t) : t[k].ipAddr \in T
  BY <1>1 DEF Tracked
<1>4. f \in [1 .. Len(t) -> T]
  BY <1>3
<1>5. \A k, l \in 1 .. Len(t) : f[k] = f[l] => k = l
  BY DEF Distinct
<1> HIDE DEF f, T
<1>6. f \in Injection(1 .. Len(t), T)
  BY <1>4, <1>5, Fun_IsInj
<1>7. Cardinality(1 .. Len(t)) <= Cardinality(T)
  BY <1>2, <1>6, FS_Injection
<1>8. Cardinality(1 .. Len(t)) = IF 1 > Len(t) THEN 0 ELSE Len(t) - 1 + 1
  <2>1. 1 \in Int /\ Len(t) \in Int
    BY <1>1
  <2> QED
    BY <2>1, FS_Interval
<1> QED
  BY <1>1, <1>2, <1>7, <1>8

(* The addresses of a table after each of the changes. *)
LEMMA AddressesAfter ==
    ASSUME NEW Q, NEW t \in Seq(Q), NEW u \in Seq(Q)
    PROVE  /\ Same(t, u) \/ Emptied(u) => Tracked(u) \subseteq Tracked(t)
           /\ \A k \in 1 .. Len(t) :
                /\ Wrote(t, u, k) => Tracked(u) = Tracked(t)
                /\ Dropped(t, u, k) => Tracked(u) \subseteq Tracked(t)
                /\ Dropped(t, u, k) /\ Distinct(t) => Tracked(u) = Tracked(t) \ {t[k].ipAddr}
           /\ Added(t, u) => Tracked(u) = Tracked(t) \cup {u[Len(t) + 1].ipAddr}
<1>0. /\ DOMAIN t = 1 .. Len(t) /\ Len(t) \in Nat
      /\ DOMAIN u = 1 .. Len(u) /\ Len(u) \in Nat
  BY TableFacts
<1>1. Same(t, u) \/ Emptied(u) => Tracked(u) \subseteq Tracked(t)
  BY DEF Same, Emptied, Tracked
<1>2. ASSUME NEW k \in 1 .. Len(t), Wrote(t, u, k) PROVE Tracked(u) = Tracked(t)
  <2>1. Len(u) = Len(t) /\ \A l \in 1 .. Len(t) : u[l].ipAddr = t[l].ipAddr
    BY <1>2 DEF Wrote
  <2> QED
    BY <1>0, <2>1 DEF Tracked
<1>3. ASSUME NEW k \in 1 .. Len(t), Dropped(t, u, k)
      PROVE  /\ Tracked(u) \subseteq Tracked(t)
             /\ Distinct(t) => Tracked(u) = Tracked(t) \ {t[k].ipAddr}
  <2>0. /\ Len(u) = Len(t) - 1
        /\ \A l \in 1 .. Len(u) : u[l] = IF l = k THEN t[Len(t)] ELSE t[l]
    BY <1>3 DEF Dropped
  <2>1. /\ Len(t) \in 1 .. Len(t)
        /\ \A l \in 1 .. Len(u) : l \in 1 .. Len(t) /\ l # Len(t)
        /\ \A l \in 1 .. Len(t) : l # Len(t) => l \in 1 .. Len(u)
        /\ \A l \in 1 .. Len(u) : u[l] = IF l = k THEN t[Len(t)] ELSE t[l]
    <3>1. Len(t) \in Nat /\ Len(u) = Len(t) - 1
      BY <1>0, <2>0
    <3>2. k \in 1 .. Len(t)
      OBVIOUS
    <3>3. Len(t) \in 1 .. Len(t)
      BY <3>1, <3>2
    <3> QED
      BY <2>0, <3>1, <3>3
  <2>2. Tracked(u) \subseteq Tracked(t)
    BY <1>0, <2>1 DEF Tracked
  <2>3. ASSUME Distinct(t) PROVE t[k].ipAddr \notin Tracked(u)
    <3>1. \A l \in 1 .. Len(u) : u[l].ipAddr # t[k].ipAddr
      BY <2>1, <2>3 DEF Distinct
    <3> QED
      BY <1>0, <3>1 DEF Tracked
  <2>4. ASSUME NEW l \in 1 .. Len(t), t[l].ipAddr # t[k].ipAddr
        PROVE  t[l].ipAddr \in Tracked(u)
    <3>1. CASE l = Len(t)
      <4>1. k \in 1 .. Len(u) /\ u[k] = t[l]
        BY <2>1, <2>4, <3>1
      <4> QED
        BY <1>0, <4>1 DEF Tracked
    <3>2. CASE l # Len(t)
      <4>1. l \in 1 .. Len(u) /\ u[l] = t[l]
        BY <2>1, <2>4, <3>2
      <4> QED
        BY <1>0, <4>1 DEF Tracked
    <3> QED
      BY <3>1, <3>2
  <2>5. Tracked(t) \ {t[k].ipAddr} \subseteq Tracked(u)
    BY <1>0, <2>4 DEF Tracked
  <2> QED
    BY <2>2, <2>3, <2>5
<1>4. ASSUME Added(t, u) PROVE Tracked(u) = Tracked(t) \cup {u[Len(t) + 1].ipAddr}
  <2>1. /\ Len(u) = Len(t) + 1 /\ \A l \in 1 .. Len(t) : u[l] = t[l]
        /\ \A l \in 1 .. Len(u) : l \in 1 .. Len(t) \/ l = Len(t) + 1
        /\ Len(t) + 1 \in 1 .. Len(u) /\ \A l \in 1 .. Len(t) : l \in 1 .. Len(u)
    BY <1>0, <1>4 DEF Added
  <2> QED
    BY <1>0, <2>1 DEF Tracked
<1> QED
  BY <1>1, <1>2, <1>3, <1>4

(* The counters of the environment grow. *)
LEMMA UsedGrows ==
    ASSUME TypeOK, TypeOK', [Next]_vars
    PROVE  \A f \in Fault : used[f] \in Nat /\ used'[f] \in Nat /\ used[f] <= used'[f]
<1>0. \A f \in Fault : used[f] \in Nat /\ used'[f] \in Nat
  BY DEF TypeOK
<1>1. CASE used' = used
  BY <1>0, <1>1
<1>2. ASSUME NEW g \in Fault, Spend(g) PROVE \A f \in Fault : used[f] <= used'[f]
  <2>1. used' = [used EXCEPT ![g] = @ + 1] /\ used \in [Fault -> Nat]
    BY <1>2 DEF Spend, TypeOK
  <2> HIDE DEF Fault
  <2> QED
    BY <1>0, <2>1
<1>3. CASE LanOpen \/ LanEof \/ WanOpen \/ WanEof \/ AgeWan \/ AgeLan \/ Sleep \/ Refresh
           \/ LookupFaults \/ UNCHANGED vars
  BY <1>1, <1>3 DEF LanOpen, WanOpen, Open, LanEof, WanEof, AgeWan, AgeLan, Sleep, Refresh,
     LookupFaults, vars
<1>4. ASSUME NEW a \in Addr, LanLine(a) \/ WanLine(a) PROVE used' = used
  BY <1>4 DEF LanLine, WanLine
<1>5. CASE Start \/ RetryInit \/ Attach
  <2>1. used' = used \/ Spend("shmat")
    BY <1>5 DEF Start, RetryInit, Attach, mrd_wlistInit, mrd_shmattach
  <2>2. "shmat" \in Fault
    BY DEF Fault
  <2> QED
    BY <1>0, <1>1, <1>2, <2>1, <2>2
<1>6. CASE OpenFails \/ SegmentChange \/ Restart
  <2>1. PICK g \in {"popen", "create", "replace", "remove", "restart"} : Spend(g)
    BY <1>6 DEF OpenFails, SegmentChange, Restart
  <2>2. g \in Fault
    BY DEF Fault
  <2> QED
    BY <1>0, <1>2, <2>1, <2>2
<1>7. ASSUME NEW s \in Side, NEW a \in Addr,
             Talk(s, a) \/ NeighbourFails(s, a)
      PROVE  \A f \in Fault : used[f] <= used'[f]
  <2>1. PICK g \in {"lanTalk", "wanTalk", "neighbour"} : Spend(g)
    BY <1>7 DEF Talk, NeighbourFails
  <2>2. g \in Fault
    BY DEF Fault
  <2> QED
    BY <1>2, <2>1, <2>2
<1>8. ASSUME NEW a \in Addr, WhitelistChange(a) PROVE \A f \in Fault : used[f] <= used'[f]
  <2>1. Spend("whitelist") /\ "whitelist" \in Fault
    BY <1>8 DEF WhitelistChange, Fault
  <2> QED
    BY <1>2, <2>1
<1> QED
  BY <1>0, <1>1, <1>3, <1>4, <1>5, <1>6, <1>7, <1>8 DEF Next, Loop, Environment

(* Lines come from sources that talk when the script is started. *)
LEMMA SourcesKept ==
    ASSUME TypeOK, [Next]_vars, NEW s \in Side, \A a \in Addr : ~Talk(s, a)
    PROVE  talking'[s] = talking[s] /\ Pending(s)' \subseteq talking[s] \cup Pending(s)
<1>1. ASSUME NEW r \in Side, Open(r), pc' = r
      PROVE  talking'[s] = talking[s] /\ Pending(s)' \subseteq talking[s]
  BY <1>1 DEF Open, Polled, Pending
<1>2. ASSUME NEW a \in Addr, LanLine(a) \/ WanLine(a)
      PROVE  talking'[s] = talking[s] /\ Pending(s)' \subseteq Pending(s)
  <2>1. /\ pc' = pc /\ talking' = talking /\ todo' = [todo EXCEPT ![a] = @ - 1]
        /\ todo[a] > 0
    BY <1>2 DEF LanLine, WanLine, Read
  <2>2. \A b \in Addr : todo'[b] > 0 => todo[b] > 0
    BY <2>1 DEF TypeOK
  <2> QED
    BY <2>1, <2>2 DEF Pending
<1>3. CASE pc' \notin Side /\ talking' = talking
  BY <1>3 DEF Pending
<1>4. CASE pc' = pc /\ todo' = todo /\ talking'[s] = talking[s]
  BY <1>4 DEF Pending
<1>5. CASE LanEof \/ WanEof \/ Start \/ Sleep \/ Refresh \/ Attach \/ RetryInit \/ AgeWan \/ AgeLan
  <2>1. talking' = talking
    BY <1>5 DEF LanEof, WanEof, Start, Sleep, Refresh, Attach, RetryInit, AgeWan, AgeLan
  <2>2. pc' \notin Side
    BY <1>5 DEF LanEof, WanEof, Start, Sleep, Refresh, Attach, RetryInit, AgeWan, AgeLan
  <2> QED
    BY <1>3, <2>1, <2>2
<1>6. CASE OpenFails \/ LookupFaults \/ Restart
  BY <1>3, <1>6 DEF OpenFails, LookupFaults, Die, Restart
<1>7. CASE SegmentChange \/ UNCHANGED vars
  BY <1>4, <1>7 DEF SegmentChange, vars
<1>8. ASSUME NEW r \in Side, NEW a \in Addr, Talk(r, a) \/ NeighbourFails(r, a)
      PROVE  pc' = pc /\ todo' = todo /\ talking'[s] = talking[s]
  <2>1. CASE Talk(r, a)
    <3>1. r # s
      BY <2>1
    <3> QED
      BY <2>1, <3>1 DEF Talk, TypeOK
  <2>2. CASE NeighbourFails(r, a)
    BY <2>2 DEF NeighbourFails
  <2> QED
    BY <1>8, <2>1, <2>2
<1>9. ASSUME NEW a \in Addr, WhitelistChange(a)
      PROVE  pc' = pc /\ todo' = todo /\ talking'[s] = talking[s]
  BY <1>9 DEF WhitelistChange
<1>10. CASE LanOpen \/ WanOpen
  BY <1>1, <1>10 DEF LanOpen, WanOpen
<1> QED
  BY <1>2, <1>4, <1>5, <1>6, <1>7, <1>8, <1>9, <1>10 DEF Next, Loop, Environment

(* Only addresses that have a line are entered. *)
LEMMA LanFromLines ==
    ASSUME BaseInv, BaseInv', [Next]_vars
    PROVE  Tracked(LanMCastTable') \subseteq Tracked(LanMCastTable) \cup Pending("lan")
<1> DEFINE t == LanMCastTable
<1>0. t \in Seq(LanEntry) /\ t' \in Seq(LanEntry) /\ i \in Nat /\ Len(t) \in Nat
  BY TableFacts DEF BaseInv, TypeOK
<1>1. CASE Same(t, t') \/ Emptied(t')
  BY <1>0, <1>1, AddressesAfter
<1>2. ASSUME NEW k \in 1 .. Len(t), Wrote(t, t', k) \/ Dropped(t, t', k)
      PROVE  Tracked(t') \subseteq Tracked(t)
  BY <1>0, <1>2, AddressesAfter
<1>3. ASSUME NEW a \in Addr, LanLine(a)
      PROVE  Tracked(t') \subseteq Tracked(t) \cup Pending("lan")
  <2>1. a \in Pending("lan")
    BY <1>3 DEF LanLine, Read, Pending
  <2>2. CASE Added(t, t') /\ t'[Len(t) + 1].ipAddr = a
    BY <1>0, <2>1, <2>2, AddressesAfter
  <2> QED
    BY <1>0, <1>1, <1>2, <1>3, <2>2, LanLineTable
<1>4. CASE AgeLan
  <2>1. CASE i <= Len(t)
    <3>1. t' = Aged(t) /\ i \in 1 .. Len(t)
      BY <1>0, <1>4, <2>1 DEF AgeLan, BaseInv, IndexInv
    <3> QED
      BY <1>0, <1>2, <3>1, AgedTable
  <2>2. CASE ~(i <= Len(t))
    BY <1>1, <1>4, <2>2 DEF AgeLan, Same
  <2> QED
    BY <2>1, <2>2
<1>5. CASE Restart
  BY <1>1, <1>5 DEF Restart, Emptied
<1>6. CASE ~LanSteps
  BY <1>1, <1>6, LanTableKept DEF Same
<1> QED
  BY <1>3, <1>4, <1>5, <1>6 DEF LanSteps

LEMMA WanFromLines ==
    ASSUME BaseInv, BaseInv', [Next]_vars
    PROVE  Tracked(WanMCastTable') \subseteq Tracked(WanMCastTable) \cup Pending("wan")
<1> DEFINE t == WanMCastTable
<1>0. t \in Seq(WanEntry) /\ t' \in Seq(WanEntry) /\ i \in Nat /\ Len(t) \in Nat
  BY TableFacts DEF BaseInv, TypeOK
<1>1. CASE Same(t, t') \/ Emptied(t')
  BY <1>0, <1>1, AddressesAfter
<1>2. ASSUME NEW k \in 1 .. Len(t), Wrote(t, t', k) \/ Dropped(t, t', k)
      PROVE  Tracked(t') \subseteq Tracked(t)
  BY <1>0, <1>2, AddressesAfter
<1>3. ASSUME NEW a \in Addr, WanLine(a)
      PROVE  Tracked(t') \subseteq Tracked(t) \cup Pending("wan")
  <2>1. a \in Pending("wan")
    BY <1>3 DEF WanLine, Read, Pending
  <2>2. PICK flag \in BOOLEAN : t' = WanEntered(a, flag)
    BY <1>3, FlagTyped DEF WanLine
  <2>3. CASE a \in Tracked(t)
    <3>1. Slot(t, a) \in 1 .. Len(t)
      BY <1>0, <2>3, SlotFound
    <3> QED
      BY <1>0, <1>2, <2>2, <2>3, <3>1, WanEnteredTable
  <2>4. CASE Added(t, t') /\ t'[Len(t) + 1] = Entry(a, flag)
    <3>1. t'[Len(t) + 1].ipAddr = a
      BY <2>4 DEF Entry
    <3> QED
      BY <1>0, <2>1, <2>4, <3>1, AddressesAfter
  <2>5. CASE t' = t
    BY <1>1, <2>5 DEF Same
  <2> QED
    BY <1>0, <2>2, <2>3, <2>4, <2>5, WanEnteredTable
<1>4. CASE AgeWan
  <2>1. CASE i <= Len(t)
    <3>1. t' = Aged(t) /\ i \in 1 .. Len(t)
      BY <1>0, <1>4, <2>1 DEF AgeWan, BaseInv, IndexInv
    <3> QED
      BY <1>0, <1>2, <3>1, AgedTable
  <2>2. CASE ~(i <= Len(t))
    BY <1>1, <1>4, <2>2 DEF AgeWan, Same
  <2> QED
    BY <2>1, <2>2
<1>5. CASE Start \/ RetryInit \/ Restart
  BY <1>1, <1>5 DEF Start, RetryInit, mrd_wlistInit, Restart, Same, Emptied
<1>6. CASE ~WanSteps
  BY <1>1, <1>6, WanTableKept DEF Same
<1> QED
  BY <1>3, <1>4, <1>5, <1>6 DEF WanSteps

LEMMA MetStep ==
    ASSUME BaseInv, BaseInv', MetInv, [Next]_vars
    PROVE  MetInv'
<1>0. \A f \in Fault : used[f] \in Nat /\ used'[f] \in Nat /\ used[f] <= used'[f]
  BY UsedGrows DEF BaseInv
<1>1. ASSUME NEW s \in Side, NEW t, NEW u, NEW f \in {"lanTalk", "wanTalk"},
             f = IF s = "lan" THEN "lanTalk" ELSE "wanTalk",
             Few(talking[s] \cup Pending(s) \cup Tracked(t), used[f]),
             Tracked(u) \subseteq Tracked(t) \cup Pending(s)
      PROVE  Few(talking'[s] \cup Pending(s)' \cup Tracked(u), used'[f])
  <2> DEFINE M == talking[s] \cup Pending(s) \cup Tracked(t)
             N == talking'[s] \cup Pending(s)' \cup Tracked(u)
  <2>1. CASE \A a \in Addr : ~Talk(s, a)
    <3>1. N \subseteq M
      BY <1>1, <2>1, SourcesKept DEF BaseInv
    <3> HIDE DEF M, N
    <3>2. Few(M, used[f])
      BY <1>1 DEF M
    <3>3. Few(N, used'[f])
      BY <1>0, <3>1, <3>2, FewLess
    <3> QED
      BY <3>3 DEF N
  <2>2. ASSUME NEW a \in Addr, Talk(s, a) PROVE Few(N, used'[f])
    <3>a. talking'[s] \subseteq talking[s] \cup {a} /\ Pending(s)' = Pending(s)
      <4>1. talking \in [Side -> SUBSET Addr] /\ pc' = pc /\ todo' = todo
        BY <2>2 DEF Talk, BaseInv, TypeOK
      <4>2. \/ talking' = [talking EXCEPT ![s] = @ \ {a}]
            \/ talking' = [talking EXCEPT ![s] = @ \cup {a}]
        BY <2>2 DEF Talk
      <4>3. talking'[s] \subseteq talking[s] \cup {a}
        BY <4>1, <4>2
      <4> QED
        BY <4>1, <4>3 DEF Pending
    <3>b. /\ used' = [used EXCEPT ![f] = @ + 1]
          /\ used \in [Fault -> Nat] /\ f \in Fault
      BY <1>1, <2>2 DEF Talk, Spend, BaseInv, TypeOK
    <3>c. used'[f] = used[f] + 1
      BY <3>b
    <3>1. /\ talking'[s] \subseteq talking[s] \cup {a} /\ Pending(s)' = Pending(s)
          /\ used'[f] = used[f] + 1
      BY <3>a, <3>c
    <3>2. N \subseteq M \cup {a}
      BY <1>1, <3>1
    <3> HIDE DEF M, N
    <3>3. Few(M, used[f])
      BY <1>1 DEF M
    <3>4. Few(M \cup {a}, used[f] + 1)
      BY <1>0, <3>3, FewMore
    <3> QED
      BY <1>0, <3>1, <3>2, <3>4, FewLess
  <2> QED
    BY <2>1, <2>2
<1>2. Few(Met("lan", LanMCastTable), used["lanTalk"])'
  BY <1>1, LanFromLines DEF MetInv, Met
<1>3. Few(Met("wan", WanMCastTable), used["wanTalk"])'
  BY <1>1, WanFromLines DEF MetInv, Met
<1> QED
  BY <1>2, <1>3 DEF MetInv

(* Enough room: the hypothesis of RoutesListed. *)
Enough == /\ Without({"restart"})
          /\ used["lanTalk"] <= MAX_MCAST_ENTRIES
          /\ used["wanTalk"] <= MAX_MCAST_ENTRIES

Backed(r, t) == /\ r \in LinkLocal
                /\ \E k \in 1 .. Len(t) : t[k].ipAddr = r /\ t[k].mcastStatus

BackedInv == \A r \in mocaRoute : Backed(r, WanMCastTable)

LanRouteInv == lanRoute = Tracked(LanMCastTable) \cap LinkLocal

ListInv == Enough => BackedInv /\ LanRouteInv

(* The counters only grow, so there was enough room before. *)
LEMMA EnoughBefore ==
    ASSUME TypeOK, TypeOK', [Next]_vars, Enough'
    PROVE  Enough /\ ~Restart
<1>1. \A f \in Fault : used[f] \in Nat /\ used'[f] \in Nat /\ used[f] <= used'[f]
  BY UsedGrows
<1>2. /\ used'["restart"] = 0
      /\ used'["lanTalk"] <= MAX_MCAST_ENTRIES /\ used'["wanTalk"] <= MAX_MCAST_ENTRIES
  BY DEF Enough, Without
<1>3. "restart" \in Fault /\ "lanTalk" \in Fault /\ "wanTalk" \in Fault
  BY DEF Fault
<1>4. /\ used["restart"] \in Nat /\ used["restart"] <= used'["restart"]
      /\ used["lanTalk"] \in Nat /\ used["lanTalk"] <= used'["lanTalk"]
      /\ used["wanTalk"] \in Nat /\ used["wanTalk"] <= used'["wanTalk"]
      /\ used'["lanTalk"] \in Nat /\ used'["wanTalk"] \in Nat
  BY <1>1, <1>3
<1>5. ~Restart
  <2>1. SUFFICES ASSUME Restart PROVE FALSE
    OBVIOUS
  <2>2. used' = [used EXCEPT !["restart"] = @ + 1] /\ used \in [Fault -> Nat]
    BY <2>1 DEF Restart, Spend, TypeOK
  <2>3. used'["restart"] = used["restart"] + 1
    BY <1>3, <2>2
  <2> QED
    BY <1>2, <1>4, <2>3
<1> QED
  BY <1>2, <1>4, <1>5 DEF Enough, Without

(* A source finds room. *)
LEMMA WanRoom ==
    ASSUME TypeOK, UniqueInv, MetInv, Enough, NEW a \in Addr, WanLine(a),
           a \notin Tracked(WanMCastTable)
    PROVE  Len(WanMCastTable) < MAX_MCAST_ENTRIES
<1> DEFINE S == Met("wan", WanMCastTable)
<1>1. a \in S /\ Tracked(WanMCastTable) \subseteq S
  BY DEF WanLine, Read, Pending, Met
<1>2. used["wanTalk"] \in Nat /\ used["wanTalk"] <= MAX_MCAST_ENTRIES
  BY DEF TypeOK, Enough
<1>3. Few(S, used["wanTalk"])
  BY DEF MetInv
<1>4. WanMCastTable \in Seq(WanEntry) /\ Distinct(WanMCastTable)
  BY DEF TypeOK, UniqueInv
<1> HIDE DEF S
<1>5. Len(WanMCastTable) < used["wanTalk"]
  BY <1>1, <1>2, <1>3, <1>4, RoomLeft
<1> QED
  BY <1>2, <1>4, <1>5, TableFacts

LEMMA LanRoom ==
    ASSUME TypeOK, UniqueInv, MetInv, Enough, NEW a \in Addr, LanLine(a),
           a \notin Tracked(LanMCastTable)
    PROVE  Len(LanMCastTable) < MAX_MCAST_ENTRIES
<1> DEFINE S == Met("lan", LanMCastTable)
<1>1. a \in S /\ Tracked(LanMCastTable) \subseteq S
  BY DEF LanLine, Read, Pending, Met
<1>2. used["lanTalk"] \in Nat /\ used["lanTalk"] <= MAX_MCAST_ENTRIES
  BY DEF TypeOK, Enough
<1>3. Few(S, used["lanTalk"])
  BY DEF MetInv
<1>4. LanMCastTable \in Seq(LanEntry) /\ Distinct(LanMCastTable)
  BY DEF TypeOK, UniqueInv
<1> HIDE DEF S
<1>5. Len(LanMCastTable) < used["lanTalk"]
  BY <1>1, <1>2, <1>3, <1>4, RoomLeft
<1> QED
  BY <1>2, <1>4, <1>5, TableFacts

(* A line of the MoCA side: a route is set together with the status. *)
LEMMA BackedLine ==
    ASSUME TypeOK, UniqueInv, BackedInv, NEW a \in Addr, WanLine(a),
           a \in Tracked(WanMCastTable) \/ Len(WanMCastTable) < MAX_MCAST_ENTRIES
    PROVE  BackedInv'
<1> DEFINE t == WanMCastTable
<1>1. PICK flag \in BOOLEAN :
        /\ t' = WanEntered(a, flag)
        /\ mocaRoute' = IF ~News(a, flag) \/ a \notin LinkLocal THEN mocaRoute
                        ELSE IF flag THEN mocaRoute \cup {a} ELSE mocaRoute \ {a}
  BY FlagTyped DEF WanLine
<1>2. t \in Seq(WanEntry) /\ Len(t) \in Nat /\ DOMAIN t = 1 .. Len(t)
  BY TableFacts DEF TypeOK
<1>3. /\ Entry(a, flag).ipAddr = a /\ Entry(a, flag).mcastStatus = flag
  BY DEF Entry
<1>4. SUFFICES ASSUME NEW r \in mocaRoute' PROVE Backed(r, t')
  BY DEF BackedInv
<1>5. CASE a \in Tracked(t)
  <2> DEFINE s == Slot(t, a)
  <2>1. s \in 1 .. Len(t) /\ t[s].ipAddr = a
    BY <1>2, <1>5, SlotFound
  <2>2. /\ Wrote(t, t', s) /\ t'[s] = Entry(a, flag)
    BY <1>1, <1>2, <1>5, WanEnteredTable
  <2>3. News(a, flag) <=> t[s].mcastStatus # flag
    BY <1>5 DEF News
  <2> HIDE DEF s
  <2>4. Len(t') = Len(t) /\ \A k \in 1 .. Len(t) : k # s => t'[k] = t[k]
    BY <2>2 DEF Wrote
  <2>5. CASE r # a
    <3>1. PICK k \in 1 .. Len(t) : r \in LinkLocal /\ t[k].ipAddr = r /\ t[k].mcastStatus
      BY <1>1, <2>5 DEF BackedInv, Backed
    <3>2. k # s
      BY <2>1, <2>5, <3>1
    <3> QED
      BY <2>4, <3>1, <3>2 DEF Backed
  <2>6. CASE r = a
    <3>1. CASE News(a, flag) /\ a \in LinkLocal
      <4>1. flag
        BY <1>1, <2>6, <3>1
      <4> QED
        BY <1>3, <2>1, <2>2, <2>4, <2>6, <3>1, <4>1 DEF Backed
    <3>2. CASE ~(News(a, flag) /\ a \in LinkLocal)
      <4>1. Backed(a, t)
        BY <1>1, <2>6, <3>2 DEF BackedInv
      <4>2. PICK k \in 1 .. Len(t) : t[k].ipAddr = a /\ t[k].mcastStatus
        BY <4>1 DEF Backed
      <4>3. k = s
        BY <2>1, <4>2 DEF UniqueInv, Distinct
      <4>4. t[s].mcastStatus /\ t[s].mcastStatus = flag
        BY <2>3, <3>2, <4>1, <4>2, <4>3 DEF Backed
      <4> QED
        BY <1>3, <2>1, <2>2, <2>4, <2>6, <4>1, <4>4 DEF Backed
    <3> QED
      BY <3>1, <3>2
  <2> QED
    BY <2>5, <2>6
<1>6. CASE a \notin Tracked(t)
  <2>1. Added(t, t') /\ t'[Len(t) + 1] = Entry(a, flag)
    BY <1>1, <1>2, <1>6, WanEnteredTable
  <2>2. /\ Len(t') = Len(t) + 1
        /\ \A l \in 1 .. Len(t) : t'[l] = t[l]
    BY <2>1 DEF Added
  <2>3. Len(t) + 1 \in 1 .. Len(t') /\ \A l \in 1 .. Len(t) : l \in 1 .. Len(t')
    BY <1>2, <2>2
  <2>4. CASE r # a
    <3>1. Backed(r, t)
      BY <1>1, <2>4 DEF BackedInv
    <3> QED
      BY <2>2, <2>3, <3>1 DEF Backed
  <2>5. CASE r = a
    <3>1. ~Backed(a, t)
      BY <1>2, <1>6 DEF Tracked, Backed
    <3>2. a \notin mocaRoute
      BY <3>1 DEF BackedInv
    <3>3. a \in LinkLocal /\ flag
      BY <1>1, <2>5, <3>2
    <3> QED
      BY <1>3, <2>1, <2>3, <2>5, <3>3 DEF Backed
  <2> QED
    BY <2>4, <2>5
<1> QED
  BY <1>5, <1>6

(* A step of the ageing pass: the route goes with the entry. *)
LEMMA BackedAge ==
    ASSUME TypeOK, IndexInv, BackedInv, AgeWan
    PROVE  BackedInv'
<1> DEFINE t == WanMCastTable
           n == Len(t)
<1>0. n \in Nat /\ i \in Nat /\ i > 0 /\ t \in Seq(WanEntry)
  BY LifeTypes DEF AgeWan, IndexInv
<1>1. CASE i <= n
  <2>1. t' = Aged(t) /\ mocaRoute' = mocaRoute \ Ended(t) /\ i \in 1 .. n
    BY <1>0, <1>1 DEF AgeWan
  <2>2. CASE /\ Wrote(t, t', i) /\ t[i].mcastAliveCount > 1
             /\ t'[i] = [t[i] EXCEPT !.mcastAliveCount = @ - 1]
    <3>1. mocaRoute' \subseteq mocaRoute
      BY <2>1
    <3>2. t[i] \in WanEntry
      BY <1>0, <2>1, TableFacts
    <3>3. t'[i].mcastStatus = t[i].mcastStatus /\ t'[i].ipAddr = t[i].ipAddr
      BY <2>2, <3>2 DEF WanEntry
    <3>4. Len(t') = Len(t) /\ \A l \in 1 .. Len(t) : l # i => t'[l] = t[l]
      BY <2>2 DEF Wrote
    <3>5. \A l \in 1 .. Len(t) :
            t'[l].mcastStatus = t[l].mcastStatus /\ t'[l].ipAddr = t[l].ipAddr
      BY <3>3, <3>4
    <3> QED
      BY <3>1, <3>4, <3>5 DEF BackedInv, Backed
  <2>3. CASE Dropped(t, t', i) /\ t[i].mcastAliveCount = 1
    <3>1. mocaRoute' = mocaRoute \ {t[i].ipAddr}
      BY <2>1, <2>3 DEF Ended
    <3>2. /\ Len(t') = Len(t) - 1
          /\ \A l \in 1 .. Len(t') : t'[l] = IF l = i THEN t[Len(t)] ELSE t[l]
      BY <2>3 DEF Dropped
    <3>3. SUFFICES ASSUME NEW r \in mocaRoute' PROVE Backed(r, t')
      BY DEF BackedInv
    <3>4. PICK k \in 1 .. n : r \in LinkLocal /\ t[k].ipAddr = r /\ t[k].mcastStatus
      BY <3>1 DEF BackedInv, Backed
    <3>5. k # i
      BY <3>1, <3>4
    <3>6. CASE k = n
      <4>1. i \in 1 .. Len(t') /\ t'[i] = t[k]
        BY <1>0, <2>1, <3>2, <3>5, <3>6
      <4> QED
        BY <3>4, <4>1 DEF Backed
    <3>7. CASE k # n
      <4>1. k \in 1 .. Len(t') /\ t'[k] = t[k]
        BY <1>0, <3>2, <3>5, <3>7
      <4> QED
        BY <3>4, <4>1 DEF Backed
    <3> QED
      BY <3>6, <3>7
  <2> QED
    BY <1>0, <2>1, <2>2, <2>3, AgedTable
<1>2. CASE ~(i <= n)
  BY <1>2 DEF AgeWan, BackedInv
<1> QED
  BY <1>1, <1>2

(* Every step that finds room. *)
LEMMA BackedStep ==
    ASSUME BaseInv, UniqueInv, MetInv, Enough, BackedInv, [Next]_vars, ~Restart
    PROVE  BackedInv'
<1> USE DEF BaseInv
<1>1. ASSUME NEW a \in Addr, WanLine(a) PROVE BackedInv'
  <2>1. a \in Tracked(WanMCastTable) \/ Len(WanMCastTable) < MAX_MCAST_ENTRIES
    BY <1>1, WanRoom
  <2> QED
    BY <1>1, <2>1, BackedLine
<1>2. CASE mocaRoute' = {}
  BY <1>2 DEF BackedInv
<1>3. CASE WanMCastTable' = WanMCastTable /\ mocaRoute' = mocaRoute
  BY <1>3 DEF BackedInv
<1>4. CASE Start \/ RetryInit
  <2>1. mocaRoute \subseteq Tracked(WanMCastTable)
    <3>1. DOMAIN WanMCastTable = 1 .. Len(WanMCastTable)
      BY TableFacts DEF TypeOK
    <3> QED
      BY <3>1 DEF BackedInv, Backed, Tracked
  <2>2. \/ mocaRoute' = mocaRoute \ Tracked(WanMCastTable)
        \/ WanMCastTable' = WanMCastTable /\ mocaRoute' = mocaRoute
    BY <1>4 DEF Start, RetryInit, mrd_wlistInit
  <2> QED
    BY <1>2, <1>3, <2>1, <2>2
<1>5. CASE AgeWan
  BY <1>5, BackedAge
<1>6. CASE LanOpen \/ LanEof \/ WanOpen \/ WanEof
  BY <1>3, <1>6 DEF LanOpen, WanOpen, Open, LanEof, WanEof
<1>7. CASE (\E a \in Addr : LanLine(a)) \/ AgeLan \/ Sleep \/ Refresh \/ Attach
  BY <1>3, <1>7 DEF LanLine, AgeLan, Sleep, Refresh, Attach
<1>8. CASE OpenFails \/ LookupFaults \/ SegmentChange \/ UNCHANGED vars
  BY <1>3, <1>8 DEF OpenFails, LookupFaults, Die, SegmentChange, vars
<1>9. ASSUME NEW s \in Side, NEW a \in Addr, Talk(s, a) \/ NeighbourFails(s, a)
      PROVE  BackedInv'
  BY <1>3, <1>9 DEF Talk, NeighbourFails
<1>10. ASSUME NEW a \in Addr, WhitelistChange(a) PROVE BackedInv'
  BY <1>3, <1>10 DEF WhitelistChange
<1> QED
  BY <1>1, <1>4, <1>5, <1>6, <1>7, <1>8, <1>9, <1>10 DEF Next, Loop, Environment

(* The LAN side, where each address has a route. *)
LEMMA LanRouteStep ==
    ASSUME BaseInv, BaseInv', UniqueInv, MetInv, Enough, LanRouteInv, [Next]_vars, ~Restart
    PROVE  LanRouteInv'
<1> DEFINE t == LanMCastTable
<1>0. t \in Seq(LanEntry) /\ t' \in Seq(LanEntry) /\ i \in Nat /\ Len(t) \in Nat
      /\ Distinct(t)
  BY TableFacts DEF BaseInv, TypeOK, UniqueInv
<1>1. ASSUME NEW a \in Addr, LanLine(a) PROVE LanRouteInv'
  <2>1. CASE a \notin Tracked(t) /\ Added(t, t') /\ t'[Len(t) + 1].ipAddr = a
    <3>1. Tracked(t') = Tracked(t) \cup {a}
      BY <1>0, <2>1, AddressesAfter
    <3>2. Len(t) < MAX_MCAST_ENTRIES
      BY <1>1, <2>1, LanRoom DEF BaseInv
    <3>3. lanRoute' = lanRoute \cup ({a} \cap LinkLocal)
      BY <1>1, <2>1, <3>2 DEF LanLine
    <3> QED
      BY <3>1, <3>3 DEF LanRouteInv
  <2>2. ASSUME a \in Tracked(t), NEW k \in 1 .. Len(t), Wrote(t, t', k)
        PROVE  LanRouteInv'
    <3>1. Tracked(t') = Tracked(t)
      BY <1>0, <2>2, AddressesAfter
    <3>2. lanRoute' = lanRoute
      BY <1>1, <2>2 DEF LanLine
    <3> QED
      BY <3>1, <3>2 DEF LanRouteInv
  <2>3. ~(a \notin Tracked(t) /\ ~(Len(t) < MAX_MCAST_ENTRIES))
    BY <1>1, LanRoom DEF BaseInv
  <2> QED
    BY <1>0, <1>1, <2>1, <2>2, <2>3, LanLineTable
<1>2. CASE t' = t /\ lanRoute' = lanRoute
  BY <1>2 DEF LanRouteInv
<1>3. CASE AgeLan
  <2>1. CASE i <= Len(t)
    <3>1. /\ t' = Aged(t) /\ lanRoute' = lanRoute \ Ended(t) /\ i \in 1 .. Len(t)
      BY <1>0, <1>3, <2>1 DEF AgeLan, BaseInv, IndexInv
    <3>2. CASE Wrote(t, t', i) /\ t[i].mcastAliveCount > 1
      <4>1. Tracked(t') = Tracked(t) /\ Ended(t) = {}
        BY <1>0, <3>1, <3>2, AddressesAfter DEF Ended
      <4> QED
        BY <3>1, <4>1 DEF LanRouteInv
    <3>3. CASE Dropped(t, t', i) /\ t[i].mcastAliveCount = 1
      <4>1. Tracked(t') = Tracked(t) \ {t[i].ipAddr}
        BY <1>0, <3>1, <3>3, AddressesAfter
      <4>2. Ended(t) = {t[i].ipAddr}
        BY <3>3 DEF Ended
      <4> QED
        BY <3>1, <4>1, <4>2 DEF LanRouteInv
    <3> QED
      BY <1>0, <3>1, <3>2, <3>3, AgedTable
  <2>2. CASE ~(i <= Len(t))
    BY <1>2, <1>3, <2>2 DEF AgeLan
  <2> QED
    BY <2>1, <2>2
<1>4. CASE Start \/ RetryInit \/ AgeWan \/ Sleep \/ Refresh \/ Attach
  BY <1>2, <1>4 DEF Start, RetryInit, AgeWan, Sleep, Refresh, Attach
<1>5. CASE (\E a \in Addr : WanLine(a)) \/ LanOpen \/ LanEof \/ WanOpen \/ WanEof
  BY <1>2, <1>5 DEF WanLine, LanOpen, WanOpen, Open, LanEof, WanEof
<1>6. CASE OpenFails \/ LookupFaults \/ SegmentChange \/ UNCHANGED vars
  BY <1>2, <1>6 DEF OpenFails, LookupFaults, Die, SegmentChange, vars
<1>7. ASSUME NEW s \in Side, NEW a \in Addr, Talk(s, a) \/ NeighbourFails(s, a)
      PROVE  LanRouteInv'
  BY <1>2, <1>7 DEF Talk, NeighbourFails
<1>8. ASSUME NEW a \in Addr, WhitelistChange(a) PROVE LanRouteInv'
  BY <1>2, <1>8 DEF WhitelistChange
<1> QED
  BY <1>1, <1>3, <1>4, <1>5, <1>6, <1>7, <1>8 DEF Next, Loop, Environment

(* Initially no address is met. *)
LEMMA MetInit ==
    ASSUME Init
    PROVE  MetInv
<1>1. /\ Met("lan", LanMCastTable) = {} /\ Met("wan", WanMCastTable) = {}
      /\ used["lanTalk"] = 0 /\ used["wanTalk"] = 0
  BY DEF Init, Met, Pending, Tracked
<1>2. Few({}, 0)
  BY FS_EmptySet DEF Few
<1> QED
  BY <1>1, <1>2 DEF MetInv

(* While the tables can hold all sources that ever came and the process is  *)
(* not restarted, every route, on either side, belongs to an entry that     *)
(* ageing will remove together with it.                                     *)
THEOREM RoutesAreListed == Spec => []RoutesListed
<1>1. Init => UniqueInv /\ MetInv /\ ListInv
  <2>1. SUFFICES ASSUME Init PROVE UniqueInv /\ MetInv /\ ListInv
    OBVIOUS
  <2>2. UniqueInv /\ BackedInv /\ LanRouteInv
    BY <2>1 DEF Init, UniqueInv, Distinct, BackedInv, LanRouteInv, Tracked
  <2> QED
    BY <2>1, <2>2, MetInit DEF ListInv
<1>2. BaseInv /\ BaseInv' /\ UniqueInv /\ MetInv /\ ListInv /\ [Next]_vars
        => UniqueInv' /\ MetInv' /\ ListInv'
  <2>1. SUFFICES ASSUME BaseInv, BaseInv', UniqueInv, MetInv, ListInv, [Next]_vars
                 PROVE  UniqueInv' /\ MetInv' /\ ListInv'
    OBVIOUS
  <2>2. ASSUME Enough' PROVE BackedInv' /\ LanRouteInv'
    <3>1. Enough /\ ~Restart
      BY <2>1, <2>2, EnoughBefore DEF BaseInv
    <3>2. BackedInv /\ LanRouteInv
      BY <2>1, <3>1 DEF ListInv
    <3> QED
      BY <2>1, <3>1, <3>2, BackedStep, LanRouteStep
  <2> QED
    BY <2>1, <2>2, UniqueStep, MetStep DEF ListInv
<1>3. BaseInv /\ ListInv => RoutesListed
  <2>1. SUFFICES ASSUME TypeOK, ListInv, Enough
                 PROVE  /\ mocaRoute \subseteq Listed \cap LinkLocal
                        /\ lanRoute = Tracked(LanMCastTable) \cap LinkLocal
    BY DEF BaseInv, RoutesListed, Enough
  <2>2. DOMAIN WanMCastTable = 1 .. Len(WanMCastTable)
    BY <2>1, TableFacts DEF TypeOK
  <2>3. BackedInv /\ LanRouteInv
    BY <2>1 DEF ListInv
  <2> QED
    BY <2>2, <2>3 DEF BackedInv, Backed, LanRouteInv, Listed
<1> QED
  BY <1>1, <1>2, <1>3, Base, PTL DEF Spec

-----------------------------------------------------------------------------
(* Both sides implement MulticastRoutes.  What the abstract sets become when *)
(* a table changes:                                                         *)
ListedIn(t) == {t[k].ipAddr : k \in {l \in DOMAIN t : t[l].mcastStatus}}

(* A table of distinct addresses is as long as they are many. *)
LEMMA TrackedCount ==
    ASSUME NEW Q, NEW t \in Seq(Q), Distinct(t)
    PROVE  Cardinality(Tracked(t)) = Len(t)
<1> DEFINE f == [k \in 1 .. Len(t) |-> t[k].ipAddr]
           T == Tracked(t)
<1>1. Len(t) \in Nat /\ DOMAIN t = 1 .. Len(t)
  BY TableFacts
<1>2. f \in [1 .. Len(t) -> T] /\ \A a \in T : \E k \in 1 .. Len(t) : f[k] = a
  BY <1>1 DEF Tracked
<1>3. \A k, l \in 1 .. Len(t) : f[k] = f[l] => k = l
  BY DEF Distinct
<1> HIDE DEF f, T
<1>4. f \in Bijection(1 .. Len(t), T)
  BY <1>2, <1>3, Fun_IsBij
<1>5. ExistsBijection(1 .. Len(t), T)
  BY <1>4, Fun_ExistsBij
<1>6. Cardinality(T) = Len(t)
  BY <1>1, <1>5, FS_CountingElements
<1> QED
  BY <1>6 DEF T

(* The abstract module counts as this one does. *)
LEMMA SameCount ==
    ASSUME NEW S
    PROVE  Moca!Cardinality(S) = Cardinality(S) /\ Lan!Cardinality(S) = Cardinality(S)
BY DEF Cardinality, Moca!Cardinality, Lan!Cardinality

(* Among distinct addresses, the listed ones are told by their status. *)
LEMMA ListedStatus ==
    ASSUME NEW t \in Seq(WanEntry), Distinct(t)
    PROVE  /\ ListedIn(t) \subseteq Tracked(t)
           /\ \A k \in 1 .. Len(t) : t[k].ipAddr \in ListedIn(t) <=> t[k].mcastStatus
<1>1. DOMAIN t = 1 .. Len(t)
  BY TableFacts
<1>2. ListedIn(t) \subseteq Tracked(t)
  BY DEF ListedIn, Tracked
<1>3. ASSUME NEW k \in 1 .. Len(t) PROVE t[k].ipAddr \in ListedIn(t) <=> t[k].mcastStatus
  <2>1. ASSUME t[k].mcastStatus PROVE t[k].ipAddr \in ListedIn(t)
    BY <1>1, <2>1 DEF ListedIn
  <2>2. ASSUME t[k].ipAddr \in ListedIn(t) PROVE t[k].mcastStatus
    <3>1. PICK l \in 1 .. Len(t) : t[l].mcastStatus /\ t[l].ipAddr = t[k].ipAddr
      BY <1>1, <2>2 DEF ListedIn
    <3>2. l = k
      BY <3>1 DEF Distinct
    <3> QED
      BY <3>1, <3>2
  <2> QED
    BY <2>1, <2>2
<1> QED
  BY <1>2, <1>3

(* Two tables that agree but for the address a have the same listed ones    *)
(* but for a.                                                               *)
LEMMA ListedAgree ==
    ASSUME NEW t \in Seq(WanEntry), NEW u \in Seq(WanEntry), NEW a,
           \A k \in 1 .. Len(t) : t[k].ipAddr # a =>
               \E l \in 1 .. Len(u) : u[l].ipAddr = t[k].ipAddr
                                      /\ (t[k].mcastStatus => u[l].mcastStatus)
    PROVE  ListedIn(t) \ {a} \subseteq ListedIn(u)
<1>1. DOMAIN t = 1 .. Len(t) /\ DOMAIN u = 1 .. Len(u)
  BY TableFacts
<1> SUFFICES ASSUME NEW b \in ListedIn(t), b # a PROVE b \in ListedIn(u)
  OBVIOUS
<1>2. PICK k \in 1 .. Len(t) : t[k].mcastStatus /\ t[k].ipAddr = b
  BY <1>1 DEF ListedIn
<1>3. PICK l \in 1 .. Len(u) : u[l].ipAddr = b /\ u[l].mcastStatus
  BY <1>2
<1> QED
  BY <1>1, <1>3 DEF ListedIn

(* An entry written or added: its status decides about its address. *)
LEMMA ListedEntered ==
    ASSUME NEW t \in Seq(WanEntry), NEW u \in Seq(WanEntry), Distinct(t), Distinct(u),
           NEW a, NEW flag \in BOOLEAN, NEW k \in 1 .. Len(u), u[k] = Entry(a, flag),
           \/ Wrote(t, u, k)
           \/ Added(t, u) /\ k = Len(t) + 1
    PROVE  ListedIn(u) = IF flag THEN ListedIn(t) \cup {a} ELSE ListedIn(t) \ {a}
<1>0. Len(t) \in Nat /\ Len(u) \in Nat
  BY TableFacts
<1>1. u[k].ipAddr = a /\ u[k].mcastStatus = flag
  BY DEF Entry
<1>2. a \in ListedIn(u) <=> flag
  BY <1>1, ListedStatus
<1>3. /\ \A l \in 1 .. Len(t) : l # k => l \in 1 .. Len(u) /\ u[l] = t[l]
      /\ \A l \in 1 .. Len(u) : l # k => l \in 1 .. Len(t) /\ t[l] = u[l]
      /\ \A l \in 1 .. Len(t) : l = k => t[l].ipAddr = a
  <2>1. CASE Wrote(t, u, k)
    BY <1>1, <2>1 DEF Wrote
  <2>2. CASE Added(t, u) /\ k = Len(t) + 1
    <3>1. Len(u) = Len(t) + 1 /\ \A l \in 1 .. Len(t) : u[l] = t[l]
      BY <2>2 DEF Added
    <3>2. /\ \A l \in 1 .. Len(t) : l # k /\ l \in 1 .. Len(u)
          /\ \A l \in 1 .. Len(u) : l # k => l \in 1 .. Len(t)
      BY <1>0, <2>2, <3>1
    <3> QED
      BY <3>1, <3>2
  <2> QED
    BY <2>1, <2>2
<1>4. ListedIn(t) \ {a} \subseteq ListedIn(u)
  BY <1>3, ListedAgree
<1>5. ListedIn(u) \ {a} \subseteq ListedIn(t)
  <2>1. \A l \in 1 .. Len(u) : u[l].ipAddr # a => l \in 1 .. Len(t) /\ t[l] = u[l]
    BY <1>1, <1>3
  <2>2. \A l \in 1 .. Len(u) : u[l].ipAddr # a =>
            \E m \in 1 .. Len(t) : t[m].ipAddr = u[l].ipAddr
                                   /\ (u[l].mcastStatus => t[m].mcastStatus)
    BY <2>1
  <2> QED
    BY <2>2, ListedAgree
<1> QED
  BY <1>2, <1>4, <1>5

(* An entry dropped: its address is listed no more, the others as before. *)
LEMMA ListedDropped ==
    ASSUME NEW t \in Seq(WanEntry), NEW u \in Seq(WanEntry), Distinct(t),
           NEW k \in 1 .. Len(t), Dropped(t, u, k)
    PROVE  ListedIn(u) = ListedIn(t) \ {t[k].ipAddr}
<1> DEFINE a == t[k].ipAddr
<1>0. Len(t) \in Nat /\ Len(u) \in Nat
  BY TableFacts
<1>1. Len(u) = Len(t) - 1 /\ \A l \in 1 .. Len(u) : u[l] = IF l = k THEN t[Len(t)] ELSE t[l]
  BY DEF Dropped
<1>2. /\ \A l \in 1 .. Len(t) : l # Len(t) => l \in 1 .. Len(u)
      /\ \A l \in 1 .. Len(u) : l \in 1 .. Len(t) /\ l # Len(t)
      /\ Len(t) \in 1 .. Len(t)
  BY <1>0, <1>1
<1>3. \A l \in 1 .. Len(t) : t[l].ipAddr # a => \E m \in 1 .. Len(u) : u[m] = t[l]
  <2> SUFFICES ASSUME NEW l \in 1 .. Len(t), t[l].ipAddr # a
               PROVE  \E m \in 1 .. Len(u) : u[m] = t[l]
    OBVIOUS
  <2>1. l # k
    OBVIOUS
  <2>2. CASE l = Len(t)
    BY <1>1, <1>2, <2>1, <2>2
  <2>3. CASE l # Len(t)
    BY <1>1, <1>2, <2>1, <2>3
  <2> QED
    BY <2>2, <2>3
<1>4. ListedIn(t) \ {a} \subseteq ListedIn(u)
  <2>1. \A l \in 1 .. Len(t) : t[l].ipAddr # a =>
            \E m \in 1 .. Len(u) : u[m].ipAddr = t[l].ipAddr
                                   /\ (t[l].mcastStatus => u[m].mcastStatus)
    BY <1>3
  <2> HIDE DEF a
  <2> QED
    BY <2>1, ListedAgree
<1>5. \A m \in 1 .. Len(u) : \E l \in 1 .. Len(t) : t[l] = u[m]
  BY <1>1, <1>2
<1>6. ListedIn(u) \ {a} \subseteq ListedIn(t)
  <2>1. \A m \in 1 .. Len(u) : u[m].ipAddr # a =>
            \E l \in 1 .. Len(t) : t[l].ipAddr = u[m].ipAddr
                                   /\ (u[m].mcastStatus => t[l].mcastStatus)
    BY <1>5
  <2> HIDE DEF a
  <2> QED
    BY <2>1, ListedAgree
<1>7. a \notin ListedIn(u)
  <2>1. DOMAIN u = 1 .. Len(u)
    BY TableFacts
  <2>2. \A m \in 1 .. Len(u) : u[m].ipAddr # a
    BY <1>1, <1>2 DEF Distinct
  <2> QED
    BY <2>1, <2>2 DEF ListedIn
<1> HIDE DEF a
<1>8. ListedIn(u) = ListedIn(t) \ {a}
  BY <1>4, <1>6, <1>7
<1> QED
  BY <1>8 DEF a

(* The states of a table that the abstract one tells apart. *)
MocaKept ==
    /\ Tracked(WanMCastTable)' = Tracked(WanMCastTable)
    /\ Listed' = Listed /\ mocaRoute' = mocaRoute

LanKept == Tracked(LanMCastTable)' = Tracked(LanMCastTable) /\ lanRoute' = lanRoute

(* A line of the MoCA side. *)
LEMMA MocaLine ==
    ASSUME TypeOK, TypeOK', UniqueInv, UniqueInv', RoutedInv, NEW a \in Addr, WanLine(a)
    PROVE  Moca!Next
<1> DEFINE t == WanMCastTable
<1>1. PICK flag \in BOOLEAN :
        /\ t' = WanEntered(a, flag)
        /\ mocaRoute' = IF ~News(a, flag) \/ a \notin LinkLocal THEN mocaRoute
                        ELSE IF flag THEN mocaRoute \cup {a} ELSE mocaRoute \ {a}
  BY FlagTyped DEF WanLine
<1>2. /\ t \in Seq(WanEntry) /\ t' \in Seq(WanEntry) /\ Distinct(t) /\ Distinct(t')
      /\ Len(t) \in Nat /\ Listed = ListedIn(t) /\ Listed' = ListedIn(t')
  <2>1. t \in Seq(WanEntry) /\ t' \in Seq(WanEntry)
    BY DEF TypeOK
  <2> QED
    BY <2>1, TableFacts DEF UniqueInv, Distinct, Listed, ListedIn
<1>3. Moca!SetRoute(a, flag)
  <2>1. CASE a \notin LinkLocal
    BY <1>1, <2>1 DEF Moca!SetRoute, RoutedInv
  <2>2. CASE a \in LinkLocal /\ News(a, flag)
    BY <1>1, <2>2 DEF Moca!SetRoute
  <2>3. CASE a \in LinkLocal /\ ~News(a, flag)
    <3> DEFINE s == Slot(t, a)
    <3>1. a \in Tracked(t) /\ t[s].mcastStatus = flag
      BY <2>3 DEF News
    <3>2. s \in 1 .. Len(t) /\ t[s].ipAddr = a
      BY <1>2, <3>1, SlotFound
    <3> HIDE DEF s
    <3>3. a \in mocaRoute <=> flag
      BY <2>3, <3>1, <3>2 DEF RoutedInv, Routed
    <3>4. mocaRoute' = mocaRoute
      BY <1>1, <2>3
    <3> QED
      BY <3>3, <3>4 DEF Moca!SetRoute
  <2> QED
    BY <2>1, <2>2, <2>3
<1>4. Moca!Room <=> Len(t) < MAX_MCAST_ENTRIES
  BY <1>2, TrackedCount, SameCount DEF Moca!Room
<1>5. CASE a \in Tracked(t)
  <2> DEFINE s == Slot(t, a)
  <2>1. Wrote(t, t', s) /\ t'[s] = Entry(a, flag) /\ s \in 1 .. Len(t)
    BY <1>1, <1>2, <1>5, WanEnteredTable, SlotFound
  <2> HIDE DEF s
  <2>2. Tracked(t') = Tracked(t)
    BY <1>2, <2>1, AddressesAfter
  <2>3. s \in 1 .. Len(t')
    BY <2>1 DEF Wrote
  <2>4. Listed' = IF flag THEN Listed \cup {a} ELSE Listed \ {a}
    BY <1>2, <2>1, <2>3, ListedEntered
  <2>5. Tracked(t)' = Tracked(t')
    BY DEF Tracked
  <2>6. Moca!Line(a, flag)
    BY <1>3, <1>5, <2>2, <2>4, <2>5 DEF Moca!Line
  <2> QED
    BY <2>6 DEF Moca!Next
<1>6. CASE a \notin Tracked(t) /\ Len(t) < MAX_MCAST_ENTRIES
  <2> DEFINE k == Len(t) + 1
  <2>1. Added(t, t') /\ t'[k] = Entry(a, flag)
    BY <1>1, <1>2, <1>6, WanEnteredTable
  <2>2. Len(t') = Len(t) + 1
    BY <2>1 DEF Added
  <2>3. k \in 1 .. Len(t') /\ t'[k].ipAddr = a
    BY <1>2, <2>1, <2>2 DEF Entry
  <2>4. Tracked(t') = Tracked(t) \cup {t'[Len(t) + 1].ipAddr}
    BY <1>2, <2>1, AddressesAfter
  <2>5. Tracked(t') = Tracked(t) \cup {a}
    BY <2>3, <2>4
  <2>6. Listed' = IF flag THEN Listed \cup {a} ELSE Listed \ {a}
    BY <1>2, <2>1, <2>3, ListedEntered
  <2>7. Tracked(t)' = Tracked(t')
    BY DEF Tracked
  <2>8. Moca!Line(a, flag)
    BY <1>3, <1>4, <1>6, <2>5, <2>6, <2>7 DEF Moca!Line
  <2> QED
    BY <2>8 DEF Moca!Next
<1>7. CASE a \notin Tracked(t) /\ ~(Len(t) < MAX_MCAST_ENTRIES)
  <2>1. t' = t
    BY <1>1, <1>7 DEF WanEntered
  <2>2. Tracked(t)' = Tracked(t) /\ Listed' = Listed
    BY <2>1 DEF Tracked, Listed
  <2>3. Moca!LineWithoutRoom(a, flag)
    BY <1>3, <1>4, <1>7, <2>2 DEF Moca!LineWithoutRoom
  <2> QED
    BY <2>3 DEF Moca!Next
<1> QED
  BY <1>5, <1>6, <1>7

(* A step of the ageing pass over the MoCA side. *)
LEMMA MocaAge ==
    ASSUME TypeOK, TypeOK', IndexInv, UniqueInv, UniqueInv', AgeWan
    PROVE  Moca!Next \/ MocaKept
<1> DEFINE t == WanMCastTable
           a == t[i].ipAddr
<1>0. /\ t \in Seq(WanEntry) /\ t' \in Seq(WanEntry) /\ Len(t) \in Nat
      /\ i \in Nat /\ i > 0 /\ Distinct(t)
      /\ Listed = ListedIn(t) /\ Listed' = ListedIn(t') /\ Tracked(t)' = Tracked(t')
  <2>1. t \in Seq(WanEntry) /\ t' \in Seq(WanEntry)
    BY DEF TypeOK
  <2> QED
    BY <2>1, LifeTypes DEF AgeWan, IndexInv, UniqueInv, Listed, ListedIn, Tracked
<1>1. CASE i <= Len(t)
  <2>1. t' = Aged(t) /\ mocaRoute' = mocaRoute \ Ended(t) /\ i \in 1 .. Len(t)
    BY <1>0, <1>1 DEF AgeWan
  <2>2. CASE /\ Wrote(t, t', i) /\ t[i].mcastAliveCount > 1
             /\ t'[i] = [t[i] EXCEPT !.mcastAliveCount = @ - 1]
    <3>1. mocaRoute' = mocaRoute
      BY <2>1, <2>2 DEF Ended
    <3>2. Tracked(t') = Tracked(t)
      BY <1>0, <2>1, <2>2, AddressesAfter
    <3>3. /\ Len(t') = Len(t)
          /\ \A l \in 1 .. Len(t) : /\ t'[l].ipAddr = t[l].ipAddr
                                    /\ t'[l].mcastStatus = t[l].mcastStatus
      <4>1. t[i] \in WanEntry
        BY <1>0, <2>1, TableFacts
      <4>2. t'[i].mcastStatus = t[i].mcastStatus /\ t'[i].ipAddr = t[i].ipAddr
        BY <2>2, <4>1 DEF WanEntry
      <4> QED
        BY <2>2, <4>2 DEF Wrote
    <3>4. ListedIn(t') = ListedIn(t)
      <4>1. DOMAIN t = 1 .. Len(t) /\ DOMAIN t' = 1 .. Len(t)
        BY <1>0, <3>3, TableFacts
      <4> QED
        BY <3>3, <4>1 DEF ListedIn
    <3> QED
      BY <1>0, <3>1, <3>2, <3>4 DEF MocaKept
  <2>3. CASE Dropped(t, t', i) /\ t[i].mcastAliveCount = 1
    <3>1. mocaRoute' = mocaRoute \ {a}
      BY <2>1, <2>3 DEF Ended
    <3>2. Tracked(t') = Tracked(t) \ {a}
      BY <1>0, <2>1, <2>3, AddressesAfter
    <3>3. ListedIn(t') = ListedIn(t) \ {a}
      BY <1>0, <2>1, <2>3, ListedDropped
    <3>4. a \in Tracked(t) /\ a \in Addr
      <4>1. t[i] \in WanEntry /\ DOMAIN t = 1 .. Len(t)
        BY <1>0, <2>1, TableFacts
      <4> QED
        BY <2>1, <4>1 DEF Tracked, WanEntry
    <3> HIDE DEF a
    <3>5. Moca!Forget(a)
      BY <1>0, <3>1, <3>2, <3>3, <3>4 DEF Moca!Forget
    <3> QED
      BY <3>4, <3>5 DEF Moca!Next
  <2> QED
    BY <1>0, <2>1, <2>2, <2>3, AgedTable
<1>2. CASE ~(i <= Len(t))
  BY <1>2 DEF AgeWan, MocaKept, Tracked, Listed
<1> QED
  BY <1>1, <1>2

(* Every step of the MoCA side. *)
LEMMA MocaStep ==
    ASSUME BaseInv, BaseInv', UniqueInv, UniqueInv', RoutedInv, [Next]_vars
    PROVE  Moca!Next \/ MocaKept
<1> USE DEF BaseInv
<1>1. CASE (\E a \in Addr : WanLine(a)) \/ AgeWan
  BY <1>1, MocaLine, MocaAge
<1>2. CASE WanMCastTable' = WanMCastTable /\ mocaRoute' = mocaRoute
  BY <1>2 DEF MocaKept, Tracked, Listed
<1>3. ASSUME WanMCastTable' = << >> PROVE Tracked(WanMCastTable)' = {} /\ Listed' = {}
  <2>1. DOMAIN WanMCastTable' = {}
    BY <1>3
  <2> QED
    BY <2>1 DEF Tracked, Listed
<1>4. CASE Start \/ RetryInit
  <2>1. \/ /\ WanMCastTable' = << >>
           /\ mocaRoute' = mocaRoute \ Tracked(WanMCastTable)
        \/ WanMCastTable' = WanMCastTable /\ mocaRoute' = mocaRoute
    BY <1>4 DEF Start, RetryInit, mrd_wlistInit
  <2>2. CASE /\ WanMCastTable' = << >>
             /\ mocaRoute' = mocaRoute \ Tracked(WanMCastTable)
    <3>1. Moca!StartOver
      BY <1>3, <2>2 DEF Moca!StartOver
    <3> QED
      BY <3>1 DEF Moca!Next
  <2> QED
    BY <1>2, <2>1, <2>2
<1>5. CASE Restart
  <2>1. Moca!Killed
    BY <1>3, <1>5 DEF Restart, Moca!Killed
  <2> QED
    BY <2>1 DEF Moca!Next
<1>6. CASE LanOpen \/ LanEof \/ WanOpen \/ WanEof
  BY <1>2, <1>6 DEF LanOpen, WanOpen, Open, LanEof, WanEof
<1>7. CASE (\E a \in Addr : LanLine(a)) \/ AgeLan \/ Sleep \/ Refresh \/ Attach
  BY <1>2, <1>7 DEF LanLine, AgeLan, Sleep, Refresh, Attach
<1>8. CASE OpenFails \/ LookupFaults \/ SegmentChange \/ UNCHANGED vars
  BY <1>2, <1>8 DEF OpenFails, LookupFaults, Die, SegmentChange, vars
<1>9. ASSUME NEW s \in Side, NEW a \in Addr, Talk(s, a) \/ NeighbourFails(s, a)
      PROVE  Moca!Next \/ MocaKept
  BY <1>2, <1>9 DEF Talk, NeighbourFails
<1>10. ASSUME NEW a \in Addr, WhitelistChange(a) PROVE Moca!Next \/ MocaKept
  BY <1>2, <1>10 DEF WhitelistChange
<1> QED
  BY <1>1, <1>4, <1>5, <1>6, <1>7, <1>8, <1>9, <1>10 DEF Next, Loop, Environment

(* Every step of the LAN side, where each source is admitted and a route is *)
(* touched only with its entry.                                             *)
LEMMA LanStep ==
    ASSUME BaseInv, BaseInv', UniqueInv, [Next]_vars
    PROVE  Lan!Next \/ LanKept
<1> DEFINE t == LanMCastTable
<1>0. /\ t \in Seq(LanEntry) /\ t' \in Seq(LanEntry) /\ Len(t) \in Nat /\ i \in Nat
      /\ IndexInv /\ Distinct(t) /\ Tracked(t)' = Tracked(t')
  <2>1. t \in Seq(LanEntry) /\ t' \in Seq(LanEntry) /\ i \in Nat
    BY DEF BaseInv, TypeOK
  <2> QED
    BY <2>1, TableFacts DEF BaseInv, UniqueInv, Tracked
<1>1. CASE t' = t /\ lanRoute' = lanRoute
  BY <1>0, <1>1 DEF LanKept
<1>2. ASSUME NEW a \in Addr, LanLine(a) PROVE Lan!Next \/ LanKept
  <2>1. CASE a \in Tracked(t)
    <3>1. lanRoute' = lanRoute /\ Tracked(t') = Tracked(t)
      BY <1>0, <1>2, <2>1, LanLineTable, AddressesAfter DEF LanLine
    <3> QED
      BY <1>0, <3>1 DEF LanKept
  <2>2. CASE a \notin Tracked(t) /\ ~(Len(t) < MAX_MCAST_ENTRIES)
    BY <1>1, <1>2, <2>2 DEF LanLine
  <2>3. CASE a \notin Tracked(t) /\ Len(t) < MAX_MCAST_ENTRIES
    <3>1. lanRoute' = lanRoute \cup ({a} \cap LinkLocal)
      BY <1>2, <2>3 DEF LanLine
    <3>2. Added(t, t') /\ t'[Len(t) + 1].ipAddr = a
      BY <1>0, <1>2, <2>3, LanLineTable
    <3>3. Tracked(t') = Tracked(t) \cup {t'[Len(t) + 1].ipAddr}
      BY <1>0, <3>2, AddressesAfter
    <3>4. Tracked(t)' = Tracked(t) \cup {a}
      BY <1>0, <3>2, <3>3
    <3>5. Lan!Room
      BY <1>0, <2>3, TrackedCount, SameCount DEF Lan!Room
    <3>6. Lan!Line(a, TRUE)
      BY <3>1, <3>4, <3>5 DEF Lan!Line, Lan!SetRoute
    <3> QED
      BY <3>6 DEF Lan!Next
  <2> QED
    BY <2>1, <2>2, <2>3
<1>3. CASE AgeLan
  <2>1. CASE i <= Len(t)
    <3>1. t' = Aged(t) /\ lanRoute' = lanRoute \ Ended(t) /\ i \in 1 .. Len(t)
      BY <1>0, <1>3, <2>1 DEF AgeLan, IndexInv
    <3>2. CASE Wrote(t, t', i) /\ t[i].mcastAliveCount > 1
      <4>1. lanRoute' = lanRoute /\ Tracked(t') = Tracked(t)
        BY <1>0, <3>1, <3>2, AddressesAfter DEF Ended
      <4> QED
        BY <1>0, <4>1 DEF LanKept
    <3>3. CASE Dropped(t, t', i) /\ t[i].mcastAliveCount = 1
      <4> DEFINE a == t[i].ipAddr
      <4>1. lanRoute' = lanRoute \ {a}
        BY <3>1, <3>3 DEF Ended
      <4>2. Tracked(t') = Tracked(t) \ {a}
        BY <1>0, <3>1, <3>3, AddressesAfter
      <4>3. a \in Tracked(t) /\ a \in Addr
        <5>1. t[i] \in LanEntry /\ DOMAIN t = 1 .. Len(t)
          BY <1>0, <3>1, TableFacts
        <5> QED
          BY <3>1, <5>1 DEF Tracked, LanEntry
      <4> HIDE DEF a
      <4>4. Lan!Forget(a)
        BY <1>0, <4>1, <4>2, <4>3 DEF Lan!Forget
      <4> QED
        BY <4>3, <4>4 DEF Lan!Next
    <3> QED
      BY <1>0, <3>1, <3>2, <3>3, AgedTable
  <2>2. CASE ~(i <= Len(t))
    BY <1>1, <1>3, <2>2 DEF AgeLan
  <2> QED
    BY <2>1, <2>2
<1>4. CASE Restart
  <2>1. DOMAIN t' = {} /\ lanRoute' = lanRoute
    BY <1>4 DEF Restart
  <2>2. Tracked(t)' = {}
    BY <2>1 DEF Tracked
  <2>3. Lan!Killed
    BY <2>1, <2>2 DEF Lan!Killed
  <2> QED
    BY <2>3 DEF Lan!Next
<1>5. CASE Start \/ RetryInit \/ AgeWan \/ Sleep \/ Refresh \/ Attach
  BY <1>1, <1>5 DEF Start, RetryInit, AgeWan, Sleep, Refresh, Attach
<1>6. CASE LanOpen \/ LanEof \/ WanOpen \/ WanEof
  BY <1>1, <1>6 DEF LanOpen, WanOpen, Open, LanEof, WanEof
<1>7. CASE \E a \in Addr : WanLine(a)
  BY <1>1, <1>7 DEF WanLine
<1>8. CASE OpenFails \/ LookupFaults \/ SegmentChange \/ UNCHANGED vars
  BY <1>1, <1>8 DEF OpenFails, LookupFaults, Die, SegmentChange, vars
<1>9. ASSUME NEW s \in Side, NEW a \in Addr, Talk(s, a) \/ NeighbourFails(s, a)
      PROVE  Lan!Next \/ LanKept
  BY <1>1, <1>9 DEF Talk, NeighbourFails
<1>10. ASSUME NEW a \in Addr, WhitelistChange(a) PROVE Lan!Next \/ LanKept
  BY <1>1, <1>10 DEF WhitelistChange
<1> QED
  BY <1>2, <1>3, <1>4, <1>5, <1>6, <1>7, <1>8, <1>9, <1>10 DEF Next, Loop, Environment

(* On both bridges the daemon implements MulticastRoutes: whatever the      *)
(* order of the entries, and although a route is touched only when an entry *)
(* is new or changes, each line acts on the route of its source as if it    *)
(* were carried out at once, and nothing else touches a route but the end   *)
(* of an entry's life and the first attaching.                              *)
THEOREM RoutesAreFollowed == Spec => RoutesFollowLines
<1>1. Init => UniqueInv /\ RoutedInv /\ Moca!Init /\ Lan!Init
  <2> SUFFICES ASSUME Init
               PROVE  UniqueInv /\ RoutedInv /\ Moca!Init /\ Lan!Init
    OBVIOUS
  <2>1. UniqueInv /\ RoutedInv
    BY DEF Init, UniqueInv, Distinct, RoutedInv
  <2>2. DOMAIN WanMCastTable = {} /\ DOMAIN LanMCastTable = {}
    BY DEF Init
  <2> QED
    BY <2>1, <2>2 DEF Init, Moca!Init, Lan!Init, Tracked, Listed
<1>2. BaseInv /\ BaseInv' /\ UniqueInv /\ RoutedInv /\ [Next]_vars
        => UniqueInv' /\ RoutedInv'
  BY UniqueStep, RoutedStep
<1>3. BaseInv /\ BaseInv' /\ UniqueInv /\ UniqueInv' /\ RoutedInv /\ [Next]_vars
        => [Moca!Next]_(Moca!routeVars)
  BY MocaStep DEF MocaKept, Moca!routeVars
<1>4. BaseInv /\ BaseInv' /\ UniqueInv /\ [Next]_vars => [Lan!Next]_(Lan!routeVars)
  BY LanStep DEF LanKept, Lan!routeVars
<1> QED
  BY <1>1, <1>2, <1>3, <1>4, Base, PTL DEF Spec, RoutesFollowLines, Moca!Spec, Lan!Spec

=============================================================================
