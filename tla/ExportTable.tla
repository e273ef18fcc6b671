----------------------------- MODULE ExportTable -----------------------------
(***************************************************************************)
(* The table of objects one side of a CapTP session exports to the other.  *)
(*                                                                         *)
(* Code: src/src/captp/session/keymap.rs (KeyMap, Reservation), the        *)
(* ExportManager of session/internal.rs, and the part of recv_event that   *)
(* looks a delivery's target up and runs the object's handler.             *)
(*                                                                         *)
(* KeyMap is a sharded hash map (dashmap::DashMap) beside an atomic        *)
(* counter.  export_object is synchronous: it takes a key (fetch_add),     *)
(* calls the object's `exported` callback with it, and only then inserts   *)
(* the object, for which it needs the write lock of the key's shard.       *)
(* recv_event keeps the Ref that DashMap::get returned, i.e. a read lock   *)
(* on the target's shard, while it awaits the object's handler.  A thread  *)
(* that waits for a shard lock does not yield to the runtime, so it keeps  *)
(* its worker thread.                                                      *)
(***************************************************************************)
EXTENDS Integers, FiniteSets

CONSTANTS
    Exporters,       \* tasks of the application that call export_object
    Receivers,       \* tasks that run recv_event
    Objects,         \* objects the application exports
    NoObject,        \* no entry in the map
    NoKey,           \* no key
    KeySpace,        \* number of values of the key counter: 2^64 in the code
    MaxKey,          \* bound: the counter is not advanced past this key
    MaxDeliveries,   \* bound: deliveries taken off the wire
    Shards,          \* shards of the DashMap
    ShardOf,         \* the shard a key hashes to
    Workers          \* worker threads of the async runtime

Task == Exporters \cup Receivers
Keys == 0..(KeySpace - 1)

ASSUME TasksAssumption ==
    /\ Exporters \cap Receivers = {}
    /\ NoObject \notin Objects
    /\ NoKey \notin Keys

(* Fewer than 2^64 - 1 objects are exported in the life of a session.      *)
ASSUME KeysAssumption ==
    /\ KeySpace \in Nat
    /\ MaxKey \in Nat
    /\ MaxKey < KeySpace
    /\ 1 <= MaxKey

ASSUME ShardAssumption == ShardOf \in [Keys -> Shards]

ASSUME BoundsAssumption ==
    /\ MaxDeliveries \in Nat
    /\ Workers \in Nat \ {0}

VARIABLES
    current_key,   \* KeyMap.current_key
    map,           \* KeyMap.map
    pc,            \* where each task is
    key,           \* key of the Reservation a task holds
    obj,           \* object a task is exporting
    guard,         \* key whose shard a receiver read-locks through its Ref
    deliveries,    \* deliveries taken off the wire so far
    announced,     \* history: <<key, object>> passed to Object::exported
    issued         \* history: <<key, object>> returned by export_object

vars == <<current_key, map, pc, key, obj, guard, deliveries, announced, issued>>

-----------------------------------------------------------------------------
(* A task is on a worker thread unless it is idle, gone, or suspended at    *)
(* the await of a handler.                                                  *)
OnWorker(t) == pc[t] \in {"reserved", "called", "deliver", "finish"}
FreeWorker == Cardinality({t \in Task : OnWorker(t)}) < Workers

(* DashMap::insert blocks while any Ref into the key's shard is alive.      *)
ReadLocked(k) ==
    \E r \in Receivers : guard[r] # NoKey /\ ShardOf[guard[r]] = ShardOf[k]

NextKey == (current_key + 1) % KeySpace

(* ExportManager::new: the bootstrap object answers at position 0 and is    *)
(* not in the map, so the keys start at 1.                                  *)
InitialKey == 1

Init ==
    /\ current_key = InitialKey
    /\ map = [k \in Keys |-> NoObject]
    /\ pc = [t \in Task |-> "idle"]
    /\ key = [t \in Task |-> NoKey]
    /\ obj = [t \in Task |-> NoObject]
    /\ guard = [r \in Receivers |-> NoKey]
    /\ deliveries = 0
    /\ announced = {}
    /\ issued = {}

-----------------------------------------------------------------------------
(* export_object may be called by an application task, or by the handler    *)
(* of a delivered object through the session it is given.                   *)
MayExport(t) ==
    \/ t \in Exporters /\ pc[t] = "idle" /\ FreeWorker
    \/ t \in Receivers /\ pc[t] = "deliver"

(* Mutant: the key is the size of the map instead of a ticket.              *)
ReserveBySize(t, o) ==
    /\ MayExport(t)
    /\ current_key < MaxKey
    /\ key' = [key EXCEPT ![t] = 1 + Cardinality({k \in Keys : map[k] # NoObject})]
    /\ obj' = [obj EXCEPT ![t] = o]
    /\ current_key' = NextKey
    /\ pc' = [pc EXCEPT ![t] = "reserved"]
    /\ UNCHANGED <<map, guard, deliveries, announced, issued>>

(* Mutant: the reservation does not remember its key.                       *)
ReserveWithoutKey(t, o) ==
    /\ MayExport(t)
    /\ current_key < MaxKey
    /\ obj' = [obj EXCEPT ![t] = o]
    /\ current_key' = NextKey
    /\ pc' = [pc EXCEPT ![t] = "reserved"]
    /\ UNCHANGED <<map, key, guard, deliveries, announced, issued>>

(* KeyMap::reserve.                                                         *)
Reserve(t, o) ==
    /\ MayExport(t)
    /\ current_key < MaxKey
    /\ key' = [key EXCEPT ![t] = current_key]
    /\ obj' = [obj EXCEPT ![t] = o]
    /\ current_key' = NextKey
    /\ pc' = [pc EXCEPT ![t] = "reserved"]
    /\ UNCHANGED <<map, guard, deliveries, announced, issued>>

(* obj.exported(&remote_vkey, reserve.key()), before the object is in the   *)
(* map.                                                                     *)
Exported(t) ==
    /\ pc[t] = "reserved"
    /\ announced' = announced \cup {<<key[t], obj[t]>>}
    /\ pc' = [pc EXCEPT ![t] = "called"]
    /\ UNCHANGED <<current_key, map, key, obj, guard, deliveries, issued>>

(* Mutant: a dropped Reservation gives its key back.                        *)
ExportedPanicsReleasing(t) ==
    /\ pc[t] = "reserved"
    /\ announced' = announced \cup {<<key[t], obj[t]>>}
    /\ pc' = [pc EXCEPT ![t] = "panicked"]
    /\ guard' = [r \in Receivers |-> IF r = t THEN NoKey ELSE guard[r]]
    /\ current_key' = current_key - 1
    /\ UNCHANGED <<map, key, obj, deliveries, issued>>

(* The callback is application code and may panic, after it has made use of *)
(* the position.  Reservation has no Drop: the key stays taken and its      *)
(* entry stays empty.  Unwinding out of recv_event drops the receiver's     *)
(* Ref.                                                                     *)
ExportedPanics(t) ==
    /\ pc[t] = "reserved"
    /\ announced' = announced \cup {<<key[t], obj[t]>>}
    /\ pc' = [pc EXCEPT ![t] = "panicked"]
    /\ guard' = [r \in Receivers |-> IF r = t THEN NoKey ELSE guard[r]]
    /\ UNCHANGED <<current_key, map, key, obj, deliveries, issued>>

(* Mutant: an insertion that finds the shard locked is given up.            *)
TryFinalize(t) ==
    /\ pc[t] = "called"
    /\ map' = IF ReadLocked(key[t]) THEN map ELSE [map EXCEPT ![key[t]] = obj[t]]
    /\ issued' = issued \cup {<<key[t], obj[t]>>}
    /\ pc' = [pc EXCEPT ![t] = IF t \in Receivers THEN "deliver" ELSE "idle"]
    /\ UNCHANGED <<current_key, key, obj, guard, deliveries, announced>>

(* Reservation::finalize, and the return of the position to the caller.     *)
Finalize(t) ==
    /\ pc[t] = "called"
    /\ ~ReadLocked(key[t])
    /\ map' = [map EXCEPT ![key[t]] = obj[t]]
    /\ issued' = issued \cup {<<key[t], obj[t]>>}
    /\ pc' = [pc EXCEPT ![t] = IF t \in Receivers THEN "deliver" ELSE "idle"]
    /\ UNCHANGED <<current_key, key, obj, guard, deliveries, announced>>

-----------------------------------------------------------------------------
(* recv_event takes an op:deliver or op:deliver-only for a position other   *)
(* than 0 and looks it up.  The remote names any position it likes.  A      *)
(* missing target ends recv_event with UnknownTarget.                       *)
Lookup(r, pos) ==
    /\ pc[r] = "idle"
    /\ FreeWorker
    /\ deliveries < MaxDeliveries
    /\ deliveries' = deliveries + 1
    /\ \/ /\ map[pos] # NoObject
          /\ guard' = [guard EXCEPT ![r] = pos]
          /\ pc' = [pc EXCEPT ![r] = "deliver"]
       \/ /\ map[pos] = NoObject
          /\ UNCHANGED <<guard, pc>>
    /\ UNCHANGED <<current_key, map, key, obj, announced, issued>>

(* The future of Object::deliver is pending: recv_event is suspended with   *)
(* its Ref alive and gives its worker back.  A handler awaits once here.    *)
Await(r) ==
    /\ pc[r] = "deliver"
    /\ pc' = [pc EXCEPT ![r] = "await"]
    /\ UNCHANGED <<current_key, map, key, obj, guard, deliveries, announced, issued>>

Resume(r) ==
    /\ pc[r] = "await"
    /\ FreeWorker
    /\ pc' = [pc EXCEPT ![r] = "finish"]
    /\ UNCHANGED <<current_key, map, key, obj, guard, deliveries, announced, issued>>

(* Mutant: the Ref outlives the match arm.                                  *)
ReturnKeepingRef(r) ==
    /\ pc[r] \in {"deliver", "finish"}
    /\ pc' = [pc EXCEPT ![r] = "idle"]
    /\ UNCHANGED <<current_key, map, key, obj, guard, deliveries, announced, issued>>

(* The handler is done; the Ref is dropped at the end of the match arm.     *)
Return(r) ==
    /\ pc[r] \in {"deliver", "finish"}
    /\ pc' = [pc EXCEPT ![r] = "idle"]
    /\ guard' = [guard EXCEPT ![r] = NoKey]
    /\ UNCHANGED <<current_key, map, key, obj, deliveries, announced, issued>>

(* The handler panics, as those that impl_object generates do: unwinding    *)
(* ends recv_event and drops the Ref.                                       *)
DeliverPanics(r) ==
    /\ pc[r] \in {"deliver", "finish"}
    /\ pc' = [pc EXCEPT ![r] = "panicked"]
    /\ guard' = [guard EXCEPT ![r] = NoKey]
    /\ UNCHANGED <<current_key, map, key, obj, deliveries, announced, issued>>

-----------------------------------------------------------------------------
Next ==
    \/ \E t \in Task :
          \/ \E o \in Objects : Reserve(t, o)
          \/ Exported(t)
          \/ ExportedPanics(t)
          \/ Finalize(t)
    \/ \E r \in Receivers :
          \/ \E pos \in Keys \ {0} : Lookup(r, pos)
          \/ Await(r)
          \/ Resume(r)
          \/ Return(r)
          \/ DeliverPanics(r)

Spec == Init /\ [][Next]_vars

(* The runtime keeps polling a task that can run, a handler's future        *)
(* becomes ready, and a thread that waits for a free shard lock gets it.    *)
Fairness ==
    /\ \A t \in Task : WF_vars(Exported(t)) /\ WF_vars(Finalize(t))
    /\ \A r \in Receivers : WF_vars(Resume(r)) /\ WF_vars(Return(r))

FairSpec == Spec /\ Fairness

-----------------------------------------------------------------------------
PcValues == {"idle", "reserved", "called", "deliver", "await", "finish", "panicked"}

(* Type invariant: the counter, the map and the tasks of the export table.  *)
TypeOK ==
    /\ current_key \in Keys
    /\ map \in [Keys -> Objects \cup {NoObject}]
    /\ pc \in [Task -> PcValues]
    /\ key \in [Task -> Keys \cup {NoKey}]
    /\ obj \in [Task -> Objects \cup {NoObject}]
    /\ guard \in [Receivers -> Keys \cup {NoKey}]
    /\ deliveries \in Nat
    /\ announced \subseteq Keys \X Objects
    /\ issued \subseteq Keys \X Objects

(* The export that announced a position for an object is about to insert    *)
(* it, or will never do so because the callback panicked.                   *)
NotInserted(e) ==
    \E t \in Task : key[t] = e[1] /\ obj[t] = e[2] /\ pc[t] \in {"called", "panicked"}

(* A position that export_object has returned, and which may therefore be   *)
(* on its way to the remote, names the object it was returned for: neither  *)
(* a concurrent export, nor a panicking callback, nor a handler that        *)
(* exports makes recv_event answer UnknownTarget for it or run another      *)
(* object.  A position that only the callback was told of may not resolve   *)
(* yet, but never resolves to another object, and no longer fails to once   *)
(* its export is past the insertion.                                        *)
IssuedResolve ==
    /\ \A e \in issued : map[e[1]] = e[2]
    /\ \A e \in announced :
          map[e[1]] = e[2] \/ (map[e[1]] = NoObject /\ NotInserted(e))

(* A position means one object for the whole session: whatever exports run  *)
(* concurrently, an entry of the map is never replaced or emptied, so a     *)
(* delivery that was sent for one object cannot reach another.              *)
PositionsStable ==
    [][\A k \in Keys : map[k] # NoObject => map'[k] = map[k]]_vars

(* The `exported` callbacks of two objects are never given the same         *)
(* position, even when an earlier export of that position panicked before   *)
(* it was inserted, and never position 0, where deliveries go to the        *)
(* bootstrap object instead of the map.                                     *)
AnnouncedUnique ==
    \A d, e \in announced : d[1] # 0 /\ (d[1] = e[1] => d[2] = e[2])

(* A task between reserve and finalize.                                     *)
Holding(t) == pc[t] \in {"reserved", "called"}

(* No two exports in progress hold the same key, and nobody else can have   *)
(* put an object where a reservation will put its own: finalize always      *)
(* finds the entry empty, so what it overwrites (and drops) is nothing.     *)
ReservationsExclusive ==
    \A t \in Task : Holding(t) =>
        /\ key[t] \in Keys
        /\ map[key[t]] = NoObject
        /\ \A u \in Task \ {t} : Holding(u) => key[u] # key[t]

(* Everything the counter has not handed out yet is untouched.              *)
FreshAbove ==
    /\ 1 <= current_key /\ current_key <= MaxKey
    /\ \A k \in Keys : map[k] # NoObject => k < current_key
    /\ \A t \in Task : Holding(t) => key[t] \in 1..(current_key - 1) /\ obj[t] \in Objects
    /\ \A e \in announced : e[1] < current_key

(* A key whose callback has not run yet has been announced for no object,   *)
(* and one whose callback has run for the object that is being exported.    *)
AnnouncedByCall ==
    \A t \in Task :
        /\ pc[t] = "reserved" => \A e \in announced : e[1] # key[t]
        /\ pc[t] = "called" => <<key[t], obj[t]>> \in announced

(* The inductive invariant of ExportTableProofs: every part is preserved    *)
(* by every step of the table given the others.                             *)
Inv ==
    /\ TypeOK
    /\ FreshAbove
    /\ ReservationsExclusive
    /\ AnnouncedByCall
    /\ IssuedResolve
    /\ AnnouncedUnique

-----------------------------------------------------------------------------
(* t waits to insert into a shard that r has locked through its Ref.        *)
WaitsFor(t, r) ==
    pc[t] = "called" /\ guard[r] # NoKey /\ ShardOf[guard[r]] = ShardOf[key[t]]

(* A set of threads that wait for Refs of each other (of their own, if a    *)
(* handler exports), or of handlers that are suspended and cannot resume    *)
(* because the waiting threads occupy every worker.                         *)
Deadlocked(t) ==
    \E S \in SUBSET Task :
        /\ t \in S
        /\ \A x \in S : \E r \in Receivers :
              /\ WaitsFor(x, r)
              /\ r \in S \/ (pc[r] = "await" /\ Cardinality(S) >= Workers)

(* An export that has reached the insertion gets through unless it is part  *)
(* of such a deadlock: the Ref that recv_event holds across the await of a  *)
(* handler can hold up an insertion forever in these two ways only.         *)
ExportsComplete ==
    \A t \in Task :
        [](pc[t] = "called" => <>(pc[t] # "called" \/ []Deadlocked(t)))

=============================================================================
