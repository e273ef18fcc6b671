-------------------------------- MODULE Promise --------------------------------
(***************************************************************************)
(* The promise behind one deliver_and: its Resolver, exported before the   *)
(* message goes out, the deliveries that settle it, and the caller.        *)
(*                                                                         *)
(* Code: Resolver and Answer (object.rs), CapTpDeliver::deliver_and        *)
(* (session/traits.rs), GenericResolver (session/resolver.rs), DescImport  *)
(* (msg.rs), the targets of an op:deliver-only in recv_event               *)
(* (session/internal.rs), the generated deliver_only (rexa-proc/lib.rs).   *)
(*                                                                         *)
(* GenericResolver is Clone and recv_event runs in any number of tasks, so *)
(* deliveries to one Resolver may overlap.  resolve takes the sender out   *)
(* of its mutex and sends after it; a delivery that comes too late breaks  *)
(* the promise named by its own resolve_me_desc, at the remote.  How a     *)
(* delivery finds the method it names is left to its caller.               *)
(***************************************************************************)
EXTENDS Naturals

CONSTANTS
    Deliveries,   \* calls of Resolver's fulfill and break_promise
    None,         \* no delivery
    Positions,    \* positions a resolve_me_desc may name, 0 the bootstrap
    Generated     \* those at which the remote exports an impl_object object

ASSUME PromiseAssumption ==
    /\ None \notin Deliveries
    /\ {"pending", "abandoned"} \cap Deliveries = {}
    /\ Positions \subseteq Nat
    /\ Generated \subseteq Positions \ {0}

VARIABLES
    sender,     \* Resolver.sender is Some
    slot,       \* the oneshot channel: the delivery whose result is in it
    caller,     \* the deliver_and: sending its message, waiting for the
                \* Answer, or how it ended
    got,        \* the delivery whose result deliver_and returned
    pc,         \* where each delivery is
    method,     \* the method a delivery calls
    resolve_me, \* position in the resolve_me_desc of a delivery
    breaks,     \* op:deliver-only messages on their way: the deliveries' breaks
    reader      \* the remote's recv_event: reading, or panicked

vars == <<sender, slot, caller, got, pc, method, resolve_me, breaks, reader>>

Methods == {"fulfill", "break"}

-----------------------------------------------------------------------------
(* DescImport::default.                                                     *)
DefaultDesc == 0

(* Resolver::new, and deliver_and's export of it: done before deliver_and   *)
(* is first polled.                                                         *)
Init ==
    /\ sender = TRUE
    /\ slot = None
    /\ caller = "sending"
    /\ got = None
    /\ pc = [d \in Deliveries |-> "idle"]
    /\ method = [d \in Deliveries |-> "fulfill"]
    /\ resolve_me = [d \in Deliveries |-> DefaultDesc]
    /\ breaks = {}
    /\ reader = "reading"

(* The Answer, with the oneshot receiver in it, lives until deliver_and     *)
(* returns or is dropped.                                                   *)
ReceiverAlive == caller \in {"sending", "waiting"}

(* deliver_and: self.deliver(..).await? returns.                            *)
Delivered(ok) ==
    /\ caller = "sending"
    /\ caller' = IF ok THEN "waiting" ELSE "send_error"
    /\ UNCHANGED <<sender, slot, got, pc, method, resolve_me, breaks, reader>>

(* The application drops the future of deliver_and.                         *)
Cancel ==
    /\ ReceiverAlive
    /\ caller' = "cancelled"
    /\ UNCHANGED <<sender, slot, got, pc, method, resolve_me, breaks, reader>>

(* The oneshot sender is gone: not in the Resolver, which stays exported,   *)
(* nor in the hands of a delivery.                                          *)
SenderDropped == ~sender /\ \A d \in Deliveries : pc[d] # "taken"

(* deliver_and: answer.await? and map_err(DeliverError::Broken).            *)
Poll ==
    /\ caller = "waiting"
    /\ slot # None \/ SenderDropped
    /\ got' = slot
    /\ slot' = None
    /\ caller' = IF slot = None THEN "recv_error"
                 ELSE IF method[slot] = "fulfill" THEN "fulfilled" ELSE "broken"
    /\ UNCHANGED <<sender, pc, method, resolve_me, breaks, reader>>

-----------------------------------------------------------------------------
(* Mutant: resolve drops the sender it took before it sends.                *)
DropSender(d) ==
    /\ pc' = [pc EXCEPT ![d] = "refused"]
    /\ sender' = FALSE

(* resolve: self.sender.lock().take().                                      *)
TakeSender(d) ==
    /\ pc' = [pc EXCEPT ![d] = IF sender THEN "taken" ELSE "refused"]
    /\ sender' = FALSE

(* Mutant: the position is off by one.                                      *)
ResolveNextPosition(d, m, p) ==
    /\ pc[d] = "idle"
    /\ method' = [method EXCEPT ![d] = m]
    /\ resolve_me' = [resolve_me EXCEPT ![d] = p + 1]
    /\ TakeSender(d)
    /\ UNCHANGED <<slot, caller, got, breaks, reader>>

(* Mutant: break_promise has nothing to resolve the promise with.           *)
ResolveFulfilledOnly(d, m, p) ==
    /\ pc[d] = "idle"
    /\ method' = [method EXCEPT ![d] = m]
    /\ resolve_me' = [resolve_me EXCEPT ![d] = p]
    /\ IF m = "fulfill" THEN TakeSender(d)
       ELSE pc' = [pc EXCEPT ![d] = "failed"] /\ UNCHANGED sender
    /\ UNCHANGED <<slot, caller, got, breaks, reader>>

(* Resolver::fulfill and break_promise up to the end of the mutex guard.    *)
Resolve(d, m, p) ==
    /\ pc[d] = "idle"
    /\ method' = [method EXCEPT ![d] = m]
    /\ resolve_me' = [resolve_me EXCEPT ![d] = p]
    /\ TakeSender(d)
    /\ UNCHANGED <<slot, caller, got, breaks, reader>>

(* Mutant: a result for a receiver that is gone counts as delivered.        *)
SendBlindly(d) ==
    /\ pc[d] = "taken"
    /\ slot' = IF ReceiverAlive THEN d ELSE slot
    /\ pc' = [pc EXCEPT ![d] = "accepted"]
    /\ UNCHANGED <<sender, caller, got, method, resolve_me, breaks, reader>>

(* resolve: sender.send(res), which fails when the receiver is gone.        *)
Send(d) ==
    /\ pc[d] = "taken"
    /\ IF ReceiverAlive
       THEN /\ slot' = d
            /\ pc' = [pc EXCEPT ![d] = "accepted"]
       ELSE /\ UNCHANGED slot
            /\ pc' = [pc EXCEPT ![d] = "refused"]
    /\ UNCHANGED <<sender, caller, got, method, resolve_me, breaks, reader>>

(* Mutant: the position is not taken from the descriptor.                   *)
PositionIgnored(d) == DefaultDesc

(* GenericResolver::position: an object's and a promise's alike.            *)
Position(d) == resolve_me[d]

(* The Err arm of fulfill and break_promise: resolver.break_promise sends   *)
(* an op:deliver-only, or its SendError is returned.                        *)
BreakOwn(d) ==
    /\ pc[d] = "refused"
    /\ \/ /\ breaks' = breaks \cup {d}
          /\ pc' = [pc EXCEPT ![d] = "told"]
       \/ /\ UNCHANGED breaks
          /\ pc' = [pc EXCEPT ![d] = "failed"]
    /\ UNCHANGED <<sender, slot, caller, got, method, resolve_me, reader>>

(* bootstrap_deliver_only: todo!() whatever the arguments.                  *)
BootstrapPanics(p) == p = 0

(* The deliver_only that impl_object generates: todo!().  Among the objects *)
(* that have it are the Resolvers a remote's own deliver_and and            *)
(* fulfill_and name in resolve_me_desc.                                     *)
ObjectPanics(p) == p \in Generated

(* recv_event at the remote: an op:deliver-only to the bootstrap object, to *)
(* an exported object, whose deliver_only runs in place, or to a position   *)
(* where there is none, which is an UnknownTarget and no panic.             *)
RecvBreak(d) ==
    /\ reader = "reading" /\ d \in breaks
    /\ breaks' = breaks \ {d}
    /\ reader' = IF BootstrapPanics(Position(d)) \/ ObjectPanics(Position(d))
                 THEN "panicked" ELSE "reading"
    /\ UNCHANGED <<sender, slot, caller, got, pc, method, resolve_me>>

Next ==
    \/ \E ok \in BOOLEAN : Delivered(ok)
    \/ Cancel
    \/ Poll
    \/ \E d \in Deliveries :
          \/ \E m \in Methods, p \in Positions : Resolve(d, m, p)
          \/ Send(d) \/ BreakOwn(d) \/ RecvBreak(d)

Spec == Init /\ [][Next]_vars

(* A delivery that has taken the sender goes on without awaiting anything,  *)
(* and the runtime polls a future whose channel has woken it.               *)
Fairness ==
    /\ WF_vars(Poll)
    /\ \A d \in Deliveries : WF_vars(Send(d))

FairSpec == Spec /\ Fairness

-----------------------------------------------------------------------------
CallerValues == {"sending", "waiting", "fulfilled", "broken", "send_error",
                 "recv_error", "cancelled"}
PcValues == {"idle", "taken", "accepted", "refused", "told", "failed"}

(* Type invariant of the promise, its deliveries and the two ends.          *)
TypeOK ==
    /\ sender \in BOOLEAN
    /\ slot \in Deliveries \cup {None}
    /\ caller \in CallerValues
    /\ got \in Deliveries \cup {None}
    /\ pc \in [Deliveries -> PcValues]
    /\ method \in [Deliveries -> Methods]
    /\ resolve_me \in [Deliveries -> Positions \cup {DefaultDesc}]
    /\ breaks \subseteq Deliveries
    /\ reader \in {"reading", "panicked"}

(* Has the sender, or had it and got its result across.                     *)
Claims(d) == pc[d] \in {"taken", "accepted"}

Winner == IF \E d \in Deliveries : Claims(d)
          THEN CHOOSE d \in Deliveries : Claims(d) ELSE None

Told == [d \in Deliveries |->
            CASE pc[d] = "accepted" -> "accepted"
              [] pc[d] \in {"refused", "told", "failed"} -> "refused"
              [] OTHER -> "pending"]

Outcome == IF got # None THEN got ELSE IF ReceiverAlive THEN "pending" ELSE "abandoned"

S == INSTANCE Settlement WITH winner <- Winner, told <- Told, answer <- Outcome

(* Resolver implements a promise (object.rs:104-142): however deliveries,   *)
(* the caller's wait and its end overlap, one delivery at most is accepted, *)
(* deliver_and returns that one's result, and nobody is refused unless      *)
(* another was first or the caller is gone.                                 *)
IsSettlement == S!Spec

(* deliver_and never returns DeliverError::Recv (object.rs:178): the sender *)
(* is never dropped without a result while the caller waits.                *)
NeverRecvError == caller # "recv_error"

(* The break of d reaches a todo!() at the remote.                          *)
Fatal(d) == resolve_me[d] \in {0} \cup Generated

(* The remote's reader dies of a promise only if two things went wrong: one *)
(* of its deliveries came too late, because another had claimed the promise *)
(* or the caller had gone (object.rs:107-110), and that delivery named the  *)
(* bootstrap object, as DescImport::default does, or an impl_object object  *)
(* in resolve_me_desc.  A delivery that is the only one never harms the     *)
(* remote while the caller waits, nor does one that names any other target. *)
PanicsByLateDelivery ==
    reader = "panicked" =>
        \E d \in Deliveries :
            /\ pc[d] = "told" /\ Fatal(d)
            /\ ~ReceiverAlive \/ \E e \in Deliveries \ {d} : Claims(e)

(* Whoever waits for a promise that a delivery tries to settle gets an end  *)
(* of it (traits.rs:115), also when the delivery that came first is         *)
(* overtaken by others before it sends.                                     *)
SettledEnds ==
    caller = "waiting" /\ (\E d \in Deliveries : pc[d] # "idle") ~> caller # "waiting"

=============================================================================
