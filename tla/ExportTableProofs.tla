-------------------------- MODULE ExportTableProofs --------------------------
(***************************************************************************)
(* Proofs about the export table, for any number of exporting and          *)
(* receiving tasks, any key space and any hashing of keys to shards.       *)
(***************************************************************************)
EXTENDS ExportTable, TLAPS

USE TasksAssumption, KeysAssumption, ShardAssumption, BoundsAssumption

(* The counter does not wrap below the bound on exported objects.           *)
LEMMA NoWrap ==
    ASSUME NEW a \in Nat, a < MaxKey
    PROVE  (a + 1) % KeySpace = a + 1
  OBVIOUS

(* The table starts in the invariant: no entry, no task, keys from 1.       *)
LEMMA InitInv == Init => Inv
  BY DEF Init, Inv, TypeOK, Keys, Task, PcValues, InitialKey, FreshAbove,
     ReservationsExclusive, AnnouncedByCall, IssuedResolve, AnnouncedUnique,
     Holding

(* A task that has nothing more to insert is not the one that an announced  *)
(* position waits for: with the map as it is, positions resolve as before.  *)
LEMMA ResolveKept ==
    ASSUME IssuedResolve, UNCHANGED <<map, announced, issued>>,
           \A t \in Task : pc[t] \in {"called", "panicked"} =>
               /\ pc'[t] \in {"called", "panicked"}
               /\ key'[t] = key[t] /\ obj'[t] = obj[t]
    PROVE  IssuedResolve'
  <1>1. \A e \in announced : NotInserted(e) => NotInserted(e)'
    BY DEF NotInserted
  <1> QED BY <1>1 DEF IssuedResolve

(* KeyMap::reserve hands out a key nobody has seen.                         *)
LEMMA ReserveInv ==
    ASSUME Inv, NEW t \in Task, NEW o \in Objects, Reserve(t, o)
    PROVE  Inv'
  <1> USE DEF Inv
  <1>1. current_key \in Nat /\ current_key' = current_key + 1 /\ current_key' <= MaxKey
    BY NoWrap DEF Reserve, NextKey, TypeOK, Keys
  <1>2. current_key' \in Keys /\ current_key \in Keys
    BY <1>1 DEF Keys, TypeOK
  <1>3. TypeOK'
    BY <1>2 DEF TypeOK, Reserve, PcValues
  <1>4. FreshAbove'
    BY <1>1, <1>2 DEF FreshAbove, Reserve, TypeOK, Holding, Keys
  <1>5. ReservationsExclusive'
    BY <1>1, <1>2 DEF ReservationsExclusive, FreshAbove, Reserve, TypeOK, Holding, Keys
  <1>6. AnnouncedByCall'
    BY <1>1, <1>2 DEF AnnouncedByCall, FreshAbove, Reserve, TypeOK, Holding
  <1>7. IssuedResolve'
    BY ResolveKept DEF Reserve, MayExport, TypeOK
  <1>8. AnnouncedUnique'
    BY DEF AnnouncedUnique, Reserve
  <1> QED BY <1>3, <1>4, <1>5, <1>6, <1>7, <1>8

(* The callback is given a key that was announced for no other object, and  *)
(* its entry is empty; if it panics, it stays so.                           *)
LEMMA ExportedInv ==
    ASSUME Inv, NEW t \in Task, Exported(t) \/ ExportedPanics(t)
    PROVE  Inv'
  <1> USE DEF Inv
  <1>1. /\ Holding(t) /\ key[t] \in Keys /\ obj[t] \in Objects
        /\ key[t] # 0 /\ key[t] < current_key /\ map[key[t]] = NoObject
    BY DEF Exported, ExportedPanics, Holding, FreshAbove, ReservationsExclusive, TypeOK, Keys
  <1>2. /\ pc[t] = "reserved"
        /\ announced' = announced \cup {<<key[t], obj[t]>>}
        /\ pc' = [pc EXCEPT ![t] = "called"] \/ pc' = [pc EXCEPT ![t] = "panicked"]
        /\ guard' \in [Receivers -> Keys \cup {NoKey}]
        /\ UNCHANGED <<current_key, map, key, obj, deliveries, issued>>
    BY DEF Exported, ExportedPanics, TypeOK
  <1>3. TypeOK'
    BY <1>1, <1>2 DEF TypeOK, PcValues
  <1>4. FreshAbove'
    <2>1. \A e \in announced' : e[1] < current_key'
      BY <1>1, <1>2 DEF FreshAbove
    <2> QED BY <1>2, <2>1 DEF FreshAbove, TypeOK, Holding
  <1>5. ReservationsExclusive'
    BY <1>1, <1>2 DEF ReservationsExclusive, TypeOK, Holding
  <1>6. AnnouncedByCall'
    BY <1>1, <1>2 DEF AnnouncedByCall, ReservationsExclusive, TypeOK, Holding
  <1>7. IssuedResolve'
    <2>1. NotInserted(<<key[t], obj[t]>>)'
      BY <1>2 DEF NotInserted, TypeOK
    <2>2. \A e \in announced : NotInserted(e) => NotInserted(e)'
      BY <1>2 DEF NotInserted, TypeOK
    <2> QED BY <1>1, <1>2, <2>1, <2>2 DEF IssuedResolve
  <1>8. AnnouncedUnique'
    BY <1>1, <1>2 DEF AnnouncedUnique, AnnouncedByCall
  <1> QED BY <1>3, <1>4, <1>5, <1>6, <1>7, <1>8

(* Reservation::finalize fills an empty entry that no one else holds.       *)
LEMMA FinalizeInv ==
    ASSUME Inv, NEW t \in Task, Finalize(t)
    PROVE  Inv'
  <1> USE DEF Inv
  <1>1. /\ Holding(t) /\ key[t] \in Keys /\ obj[t] \in Objects
        /\ key[t] < current_key /\ map[key[t]] = NoObject
    BY DEF Finalize, Holding, FreshAbove, ReservationsExclusive, TypeOK, Keys
  <1>2. TypeOK'
    BY <1>1 DEF TypeOK, Finalize, PcValues
  <1>3. FreshAbove'
    BY <1>1 DEF FreshAbove, Finalize, TypeOK, Holding
  <1>4. ReservationsExclusive'
    BY <1>1 DEF ReservationsExclusive, Finalize, TypeOK, Holding
  <1>5. AnnouncedByCall'
    BY DEF AnnouncedByCall, Finalize, TypeOK
  <1>6. IssuedResolve'
    <2>1. <<key[t], obj[t]>> \in announced
      BY DEF Finalize, AnnouncedByCall
    <2>2. /\ map' = [map EXCEPT ![key[t]] = obj[t]] /\ announced' = announced
          /\ issued' = issued \cup {<<key[t], obj[t]>>}
      BY DEF Finalize
    <2>3. ASSUME NEW e \in announced
          PROVE  map'[e[1]] = e[2] \/ (map'[e[1]] = NoObject /\ NotInserted(e)')
      <3>1. CASE e[1] = key[t]
        <4>1. e[2] = obj[t]
          BY <2>1, <3>1 DEF AnnouncedUnique
        <4> QED BY <1>1, <2>2, <3>1, <4>1 DEF TypeOK
      <3>2. CASE e[1] # key[t]
        <4>1. map'[e[1]] = map[e[1]]
          BY <2>2, <3>2 DEF TypeOK
        <4>2. NotInserted(e) => NotInserted(e)'
          BY <3>2 DEF NotInserted, Finalize, TypeOK
        <4> QED BY <4>1, <4>2 DEF IssuedResolve
      <3> QED BY <3>1, <3>2
    <2>4. \A e \in issued' : map'[e[1]] = e[2]
      BY <1>1, <2>2 DEF IssuedResolve, TypeOK
    <2> QED BY <2>2, <2>3, <2>4 DEF IssuedResolve
  <1>7. AnnouncedUnique'
    BY DEF AnnouncedUnique, Finalize
  <1> QED BY <1>2, <1>3, <1>4, <1>5, <1>6, <1>7

(* Deliveries read the table: what a receiver does moves only its Ref and   *)
(* its program counter.                                                     *)
LEMMA DeliveryInv ==
    ASSUME Inv, NEW r \in Receivers, NEW pos \in Keys,
           Lookup(r, pos) \/ Await(r) \/ Resume(r) \/ Return(r) \/ DeliverPanics(r)
    PROVE  Inv'
  <1> USE DEF Inv, Lookup, Await, Resume, Return, DeliverPanics
  <1>1. /\ UNCHANGED <<current_key, map, key, obj, announced, issued>>
        /\ \A t \in Task : pc'[t] \in {"reserved", "called"} => pc'[t] = pc[t]
    BY DEF TypeOK
  <1>2. TypeOK'
    BY DEF TypeOK, PcValues, Task
  <1>3. FreshAbove'
    BY <1>1 DEF FreshAbove, Holding
  <1>4. ReservationsExclusive'
    BY <1>1 DEF ReservationsExclusive, Holding
  <1>5. AnnouncedByCall'
    BY <1>1 DEF AnnouncedByCall
  <1>6. IssuedResolve'
    <2>1. \A t \in Task : pc[t] \in {"called", "panicked"} => pc'[t] = pc[t]
      BY DEF TypeOK
    <2> QED BY <1>1, <2>1, ResolveKept
  <1>7. AnnouncedUnique'
    BY <1>1 DEF AnnouncedUnique
  <1> QED BY <1>2, <1>3, <1>4, <1>5, <1>6, <1>7

(* Every step of the table preserves the invariant.                         *)
LEMMA NextInv == Inv /\ [Next]_vars => Inv'
  <1> SUFFICES ASSUME Inv, [Next]_vars PROVE Inv'
    OBVIOUS
  <1>1. ASSUME NEW t \in Task, NEW o \in Objects, Reserve(t, o) PROVE Inv'
    BY <1>1, ReserveInv
  <1>2. ASSUME NEW t \in Task, Exported(t) PROVE Inv'
    BY <1>2, ExportedInv
  <1>3. ASSUME NEW t \in Task, ExportedPanics(t) PROVE Inv'
    BY <1>3, ExportedInv
  <1>4. ASSUME NEW t \in Task, Finalize(t) PROVE Inv'
    BY <1>4, FinalizeInv
  <1>5. ASSUME NEW r \in Receivers, NEW pos \in Keys \ {0}, Lookup(r, pos) PROVE Inv'
    BY <1>5, DeliveryInv
  <1>6. ASSUME NEW r \in Receivers, Await(r) \/ Resume(r) \/ Return(r) \/ DeliverPanics(r)
        PROVE  Inv'
    <2>1. 0 \in Keys
      BY DEF Keys
    <2> QED BY <1>6, <2>1, DeliveryInv
  <1>7. CASE UNCHANGED vars
    BY <1>7 DEF vars, Inv, TypeOK, FreshAbove, ReservationsExclusive,
       AnnouncedByCall, IssuedResolve, NotInserted, AnnouncedUnique, Holding
  <1> QED BY <1>1, <1>2, <1>3, <1>4, <1>5, <1>6, <1>7 DEF Next

(* The inductive invariant holds in every state of every export table.      *)
THEOREM Invariance == Spec => []Inv
  <1> QED BY InitInv, NextInv, PTL DEF Spec

(* The counter, the map and the tasks always have their types.              *)
THEOREM TypeCorrect == Spec => []TypeOK
  <1>1. Inv => TypeOK
    BY DEF Inv
  <1> QED BY <1>1, Invariance, PTL

(* However exports, panics and deliveries interleave, a position that       *)
(* export_object returned is answered by the object it was returned for,    *)
(* and one that was only announced by that object or, until it is inserted, *)
(* by none.                                                                 *)
THEOREM PositionsResolve == Spec => []IssuedResolve
  <1>1. Inv => IssuedResolve
    BY DEF Inv
  <1> QED BY <1>1, Invariance, PTL

(* Two `exported` callbacks are never given one position, and none is       *)
(* given the bootstrap object's.                                            *)
THEOREM CallbacksDistinct == Spec => []AnnouncedUnique
  <1>1. Inv => AnnouncedUnique
    BY DEF Inv
  <1> QED BY <1>1, Invariance, PTL

(* finalize never drops an object another export inserted.                  *)
THEOREM ReservationExclusion == Spec => []ReservationsExclusive
  <1>1. Inv => ReservationsExclusive
    BY DEF Inv
  <1> QED BY <1>1, Invariance, PTL

(* An entry of the table, once made, is never replaced or removed.          *)
THEOREM StablePositions == Spec => PositionsStable
  <1>1. Inv /\ [Next]_vars => [\A k \in Keys : map[k] # NoObject => map'[k] = map[k]]_vars
    <2> SUFFICES ASSUME Inv, Next, NEW k \in Keys, map[k] # NoObject
                 PROVE  map'[k] = map[k]
      OBVIOUS
    <2>1. ASSUME NEW t \in Task, Finalize(t) PROVE map'[k] = map[k]
      BY <2>1 DEF Finalize, Inv, TypeOK, ReservationsExclusive, Holding
    <2>2. ASSUME ~(\E t \in Task : Finalize(t)) PROVE map' = map
      BY <2>2 DEF Next, Reserve, Exported, ExportedPanics, Lookup, Await, Resume, Return,
         DeliverPanics
    <2> QED BY <2>1, <2>2
  <1> QED BY <1>1, Invariance, PTL DEF Spec, PositionsStable
=============================================================================
