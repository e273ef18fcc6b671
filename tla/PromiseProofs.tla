----------------------------- MODULE PromiseProofs -----------------------------
(***************************************************************************)
(* Proofs about promises, for any number of deliveries that race to settle *)
(* one, and that Resolver implements Settlement.                           *)
(***************************************************************************)
EXTENDS Promise, TLAPS

USE PromiseAssumption

(* One delivery at most has claimed the promise, and only without a sender. *)
OneClaim ==
    /\ \A d, e \in Deliveries : Claims(d) /\ Claims(e) => d = e
    /\ \A d \in Deliveries : pc[d] # "idle" => ~sender

(* A result in the channel, or returned, is that of an accepted delivery.   *)
Carried ==
    /\ slot # None => pc[slot] = "accepted"
    /\ got # None => pc[got] = "accepted" /\ ~ReceiverAlive

(* While the caller can still be answered, a sender that is gone is in a    *)
(* delivery's hands or has left its result in the channel.                  *)
NotLost ==
    /\ ~sender /\ ReceiverAlive => slot # None \/ \E d \in Deliveries : pc[d] = "taken"
    /\ caller # "recv_error"

(* A delivery is refused only because another one has the promise, or       *)
(* because the caller is gone, and that does not change any more.           *)
LateForCause ==
    \A d \in Deliveries : pc[d] \in {"refused", "told", "failed"} =>
        ~ReceiverAlive \/ \E e \in Deliveries \ {d} : Claims(e)

(* A break goes out only for a delivery that was refused, and ends the      *)
(* reader only where it reaches a todo!().                                  *)
BreaksTold ==
    /\ \A d \in breaks : pc[d] = "told"
    /\ reader = "panicked" => \E d \in Deliveries : pc[d] = "told" /\ Fatal(d)

Inv == TypeOK /\ OneClaim /\ Carried /\ NotLost /\ LateForCause /\ BreaksTold

(* A promise just made: it has its sender, and nothing has happened.        *)
LEMMA InitInv == Init => Inv
  BY DEF Init, Inv, TypeOK, CallerValues, PcValues, Methods, DefaultDesc, OneClaim, Claims,
     Carried, NotLost, ReceiverAlive, LateForCause, BreaksTold

(* The caller waits, or gives up.                                           *)
LEMMA CallerInv ==
    ASSUME Inv, (\E ok \in BOOLEAN : Delivered(ok)) \/ Cancel
    PROVE  Inv'
  <1>1. /\ UNCHANGED <<sender, slot, got, pc, method, resolve_me, breaks, reader>>
        /\ caller' \in {"waiting", "send_error", "cancelled"}
        /\ ReceiverAlive
    BY DEF Delivered, Cancel, ReceiverAlive
  <1>2. TypeOK' BY <1>1 DEF Inv, TypeOK, CallerValues
  <1>3. OneClaim' /\ BreaksTold'
    BY <1>1 DEF Inv, OneClaim, Claims, BreaksTold, Fatal
  <1>4. Carried' /\ NotLost' /\ LateForCause'
    BY <1>1 DEF Inv, Carried, NotLost, LateForCause, ReceiverAlive, Claims
  <1> QED BY <1>2, <1>3, <1>4 DEF Inv

(* The caller takes the result.                                             *)
LEMMA PollInv ==
    ASSUME Inv, Poll
    PROVE  Inv'
  <1>1. slot # None /\ slot \in Deliveries /\ ReceiverAlive
    BY DEF Poll, Inv, NotLost, SenderDropped, ReceiverAlive, TypeOK
  <1>2. /\ caller' \in {"fulfilled", "broken"} /\ got' = slot /\ slot' = None
        /\ UNCHANGED <<sender, pc, method, resolve_me, breaks, reader>>
    BY <1>1 DEF Poll
  <1>3. TypeOK' BY <1>1, <1>2 DEF Inv, TypeOK, CallerValues
  <1>4. OneClaim' /\ BreaksTold'
    BY <1>2 DEF Inv, OneClaim, Claims, BreaksTold, Fatal
  <1>5. Carried' /\ NotLost' /\ LateForCause'
    BY <1>1, <1>2 DEF Inv, Carried, NotLost, LateForCause, ReceiverAlive, Claims
  <1> QED BY <1>3, <1>4, <1>5 DEF Inv

(* A delivery takes the sender, or finds it gone.                           *)
LEMMA ResolveInv ==
    ASSUME Inv, NEW d \in Deliveries, NEW m \in Methods, NEW p \in Positions, Resolve(d, m, p)
    PROVE  Inv'
  <1>1. /\ pc[d] = "idle" /\ sender' = FALSE
        /\ pc' = [pc EXCEPT ![d] = IF sender THEN "taken" ELSE "refused"]
        /\ method' = [method EXCEPT ![d] = m]
        /\ resolve_me' = [resolve_me EXCEPT ![d] = p]
        /\ UNCHANGED <<slot, caller, got, breaks, reader>>
    BY DEF Resolve, TakeSender
  <1>2. TypeOK' BY <1>1 DEF Inv, TypeOK, PcValues
  <1>3. OneClaim' BY <1>1 DEF Inv, TypeOK, OneClaim, Claims
  <1>4. Carried' BY <1>1 DEF Inv, TypeOK, Carried, ReceiverAlive
  <1>5. NotLost' BY <1>1 DEF Inv, TypeOK, NotLost, ReceiverAlive
  <1>6. BreaksTold' BY <1>1 DEF Inv, TypeOK, BreaksTold, Fatal
  <1>7. LateForCause'
    <2>1. /\ \A e \in Deliveries : Claims(e) => e # d /\ Claims(e)'
          /\ ReceiverAlive' <=> ReceiverAlive
      BY <1>1 DEF Claims, ReceiverAlive, Inv, TypeOK
    <2>2. ~sender => ~ReceiverAlive \/ \E e \in Deliveries \ {d} : Claims(e)
      BY <1>1 DEF Inv, TypeOK, NotLost, Carried, Claims
    <2>3. \A e \in Deliveries : pc'[e] \in {"refused", "told", "failed"} =>
             (e = d /\ ~sender) \/ pc[e] \in {"refused", "told", "failed"}
      BY <1>1 DEF Inv, TypeOK
    <2> QED BY <2>1, <2>2, <2>3 DEF Inv, LateForCause
  <1> QED BY <1>2, <1>3, <1>4, <1>5, <1>6, <1>7 DEF Inv

(* A delivery leaves its result, or finds the receiver gone.                *)
LEMMA SendInv ==
    ASSUME Inv, NEW d \in Deliveries, Send(d)
    PROVE  Inv'
  <1>1. /\ pc[d] = "taken"
        /\ UNCHANGED <<sender, caller, got, method, resolve_me, breaks, reader>>
        /\ \/ ReceiverAlive /\ slot' = d /\ pc' = [pc EXCEPT ![d] = "accepted"]
           \/ ~ReceiverAlive /\ slot' = slot /\ pc' = [pc EXCEPT ![d] = "refused"]
    BY DEF Send
  <1>2. TypeOK' BY <1>1 DEF Inv, TypeOK, PcValues
  <1>3. OneClaim' BY <1>1 DEF Inv, TypeOK, OneClaim, Claims
  <1>4. Carried' BY <1>1 DEF Inv, TypeOK, Carried, ReceiverAlive
  <1>5. NotLost' BY <1>1 DEF Inv, TypeOK, NotLost, ReceiverAlive
  <1>6. BreaksTold' BY <1>1 DEF Inv, TypeOK, BreaksTold, Fatal
  <1>7. LateForCause' BY <1>1 DEF Inv, TypeOK, LateForCause, ReceiverAlive, Claims
  <1> QED BY <1>2, <1>3, <1>4, <1>5, <1>6, <1>7 DEF Inv

(* A refused delivery breaks the promise of its own resolver, and the       *)
(* remote reads the break.                                                  *)
LEMMA BreakInv ==
    ASSUME Inv, NEW d \in Deliveries, BreakOwn(d) \/ RecvBreak(d)
    PROVE  Inv'
  <1>1. CASE BreakOwn(d)
    <2>1. /\ pc[d] = "refused" /\ breaks' \subseteq breaks \cup {d}
          /\ \/ pc' = [pc EXCEPT ![d] = "told"]
             \/ pc' = [pc EXCEPT ![d] = "failed"] /\ breaks' = breaks
          /\ UNCHANGED <<sender, slot, caller, got, method, resolve_me, reader>>
      BY <1>1 DEF BreakOwn
    <2>2. TypeOK' BY <2>1 DEF Inv, TypeOK, PcValues
    <2>3. OneClaim' BY <2>1 DEF Inv, TypeOK, OneClaim, Claims
    <2>4. Carried' /\ NotLost' BY <2>1 DEF Inv, TypeOK, Carried, NotLost, ReceiverAlive
    <2>5. BreaksTold' BY <2>1 DEF Inv, TypeOK, BreaksTold, Fatal
    <2>6. LateForCause' BY <2>1 DEF Inv, TypeOK, LateForCause, ReceiverAlive, Claims
    <2> QED BY <2>2, <2>3, <2>4, <2>5, <2>6 DEF Inv
  <1>2. CASE RecvBreak(d)
    <2>1. /\ d \in breaks /\ breaks' = breaks \ {d}
          /\ reader' = IF Fatal(d) THEN "panicked" ELSE "reading"
          /\ UNCHANGED <<sender, slot, caller, got, pc, method, resolve_me>>
      BY <1>2 DEF RecvBreak, Position, BootstrapPanics, ObjectPanics, Fatal
    <2>2. TypeOK' BY <2>1 DEF Inv, TypeOK
    <2>3. OneClaim' /\ Carried' /\ NotLost' /\ LateForCause'
      BY <2>1 DEF Inv, OneClaim, Claims, Carried, NotLost, LateForCause, ReceiverAlive
    <2>4. BreaksTold'
      BY <2>1 DEF Inv, TypeOK, BreaksTold, Fatal
    <2> QED BY <2>2, <2>3, <2>4 DEF Inv
  <1> QED BY <1>1, <1>2

(* Every step keeps the invariant.                                          *)
LEMMA StepInv == Inv /\ [Next]_vars => Inv'
  <1> SUFFICES ASSUME Inv, [Next]_vars PROVE Inv' OBVIOUS
  <1>1. CASE UNCHANGED vars
    BY <1>1 DEF vars, Inv, TypeOK, OneClaim, Claims, Carried, NotLost, ReceiverAlive,
       LateForCause, BreaksTold, Fatal
  <1>2. CASE Next
    BY <1>2, CallerInv, PollInv, ResolveInv, SendInv, BreakInv DEF Next
  <1> QED BY <1>1, <1>2

(* The inductive invariant holds of every promise.                          *)
THEOREM Invariance == Spec => []Inv
  BY InitInv, StepInv, PTL DEF Spec

(* The promise, its deliveries and the two ends keep their types.           *)
THEOREM TypeCorrect == Spec => []TypeOK
  <1>1. Inv => TypeOK BY DEF Inv
  <1> QED BY Invariance, <1>1, PTL

(* deliver_and never returns DeliverError::Recv.                            *)
THEOREM AnswerNotLost == Spec => []NeverRecvError
  <1>1. Inv => NeverRecvError BY DEF Inv, NotLost, NeverRecvError
  <1> QED BY Invariance, <1>1, PTL

(* The remote's reader panics only by the break of a delivery that came too *)
(* late and named the bootstrap or an impl_object object.                   *)
THEOREM PanicsForCause == Spec => []PanicsByLateDelivery
  <1>1. Inv => PanicsByLateDelivery
    BY DEF Inv, LateForCause, BreaksTold, PanicsByLateDelivery
  <1> QED BY Invariance, <1>1, PTL

-----------------------------------------------------------------------------
(* The delivery that claims the promise is the one CHOOSE finds.            *)
LEMMA WinnerIs ==
    ASSUME Inv, NEW d \in Deliveries, Claims(d)
    PROVE  Winner = d
  <1>1. \A e \in Deliveries : Claims(e) => e = d BY DEF Inv, OneClaim
  <1>2. (CHOOSE e \in Deliveries : Claims(e)) = d BY <1>1
  <1> QED BY <1>2 DEF Winner

(* Nobody has claimed the promise: the outcome is nobody's.                 *)
LEMMA NoWinner ==
    ASSUME \A d \in Deliveries : ~Claims(d)
    PROVE  Winner = None
  BY DEF Winner

(* A delivery that finds no sender is refused for a reason.                 *)
LEMMA RefusedForCause ==
    ASSUME Inv, NEW d \in Deliveries, ~Claims(d), ~sender
    PROVE  Winner \notin {None, d} \/ Outcome = "abandoned"
  <1>1. CASE \E e \in Deliveries : Claims(e)
    <2>1. PICK e \in Deliveries : Claims(e) BY <1>1
    <2> QED BY <2>1, WinnerIs
  <1>2. CASE ~\E e \in Deliveries : Claims(e)
    <2>1. got = None /\ slot = None
      BY <1>2 DEF Inv, Carried, Claims, TypeOK
    <2>2. ~ReceiverAlive
      BY <1>2, <2>1 DEF Inv, NotLost, Claims
    <2> QED BY <2>1, <2>2 DEF Outcome
  <1> QED BY <1>1, <1>2

(* The initial states map to initial states.                                *)
LEMMA SettlementInit == Init => S!Init
  <1> SUFFICES ASSUME Init PROVE S!Init OBVIOUS
  <1>1. Winner = None BY NoWinner DEF Init, Claims
  <1>2. Told = [d \in Deliveries |-> "pending"] BY DEF Init, Told
  <1>3. Outcome = "pending" BY DEF Init, Outcome, ReceiverAlive
  <1> QED BY <1>1, <1>2, <1>3 DEF S!Init

(* Steps of the caller: it goes on waiting, or stops.                       *)
LEMMA CallerSettles ==
    ASSUME Inv, (\E ok \in BOOLEAN : Delivered(ok)) \/ Cancel
    PROVE  [S!Next]_S!vars
  <1>1. /\ UNCHANGED <<sender, slot, got, pc>> /\ ReceiverAlive
        /\ got = None
    BY DEF Delivered, Cancel, ReceiverAlive, Inv, Carried
  <1>2. Winner' = Winner /\ Told' = Told BY <1>1 DEF Winner, Claims, Told
  <1>3. Outcome = "pending" /\ Outcome' \in {"pending", "abandoned"}
    BY <1>1 DEF Outcome
  <1> QED BY <1>2, <1>3 DEF S!Next, S!Abandon, S!vars

(* The caller's result is that of the delivery that was accepted.           *)
LEMMA PollSettles ==
    ASSUME Inv, Poll
    PROVE  S!Next
  <1> DEFINE d == slot
  <1>1. /\ d \in Deliveries /\ pc[d] = "accepted" /\ ReceiverAlive /\ got = None
        /\ UNCHANGED pc /\ got' = d
    BY DEF Poll, Inv, NotLost, SenderDropped, ReceiverAlive, TypeOK, Carried
  <1>2. Winner = d BY <1>1, WinnerIs DEF Claims
  <1>3. Winner' = Winner /\ Told' = Told BY <1>1 DEF Winner, Claims, Told
  <1>4. Told[d] = "accepted" BY <1>1 DEF Told
  <1>5. Outcome = "pending" /\ Outcome' = d BY <1>1 DEF Outcome
  <1>6. S!Answer(d) BY <1>2, <1>3, <1>4, <1>5 DEF S!Answer
  <1> QED BY <1>1, <1>6 DEF S!Next

(* Taking the sender claims the promise; finding none is a refusal.         *)
LEMMA ResolveSettles ==
    ASSUME Inv, NEW d \in Deliveries, NEW m \in Methods, NEW p \in Positions, Resolve(d, m, p)
    PROVE  S!Next
  <1>1. /\ pc[d] = "idle" /\ pc \in [Deliveries -> PcValues]
        /\ pc' = [pc EXCEPT ![d] = IF sender THEN "taken" ELSE "refused"]
        /\ UNCHANGED <<slot, caller, got>>
    BY DEF Resolve, TakeSender, Inv, TypeOK
  <1>2. Inv' BY ResolveInv
  <1>3. Outcome' = Outcome BY <1>1 DEF Outcome, ReceiverAlive
  <1>4. Told[d] = "pending" BY <1>1 DEF Told
  <1>5. CASE sender
    <2>1. \A e \in Deliveries : ~Claims(e) BY <1>5 DEF Inv, OneClaim, Claims
    <2>2. Winner = None BY <2>1, NoWinner
    <2>3. Claims(d)' BY <1>1, <1>5 DEF Claims
    <2>4. Winner' = d
      <3>1. \A e \in Deliveries : Claims(e)' => e = d BY <1>1, <2>1 DEF Claims
      <3>2. (CHOOSE e \in Deliveries : Claims(e)') = d BY <3>1, <2>3
      <3> QED BY <2>3, <3>2 DEF Winner
    <2>5. Told' = Told BY <1>1, <1>5 DEF Told, PcValues
    <2>6. S!Claim(d) BY <2>2, <2>4, <2>5, <1>3, <1>4 DEF S!Claim
    <2> QED BY <2>6 DEF S!Next
  <1>6. CASE ~sender
    <2>1. Winner \notin {None, d} \/ Outcome = "abandoned"
      BY <1>1, <1>6, RefusedForCause DEF Claims
    <2>2. \A e \in Deliveries : Claims(e)' <=> Claims(e) BY <1>1, <1>6 DEF Claims
    <2>3. Winner' = Winner BY <2>2 DEF Winner
    <2>4. Winner # d
      <3>1. CASE \E e \in Deliveries : Claims(e) BY <3>1, <1>1, WinnerIs DEF Claims
      <3>2. CASE ~\E e \in Deliveries : Claims(e) BY <3>2, NoWinner
      <3> QED BY <3>1, <3>2
    <2>5. Told' = [Told EXCEPT ![d] = "refused"] BY <1>1, <1>6 DEF Told, PcValues
    <2>6. S!Refuse(d) BY <2>1, <2>3, <2>4, <2>5, <1>3, <1>4 DEF S!Refuse
    <2> QED BY <2>6 DEF S!Next
  <1> QED BY <1>5, <1>6

(* Sending the result: accepted while the receiver lives, else refused.     *)
LEMMA SendSettles ==
    ASSUME Inv, NEW d \in Deliveries, Send(d)
    PROVE  S!Next
  <1>1. /\ pc[d] = "taken" /\ pc \in [Deliveries -> PcValues]
        /\ UNCHANGED <<caller, got>>
        /\ \/ ReceiverAlive /\ pc' = [pc EXCEPT ![d] = "accepted"]
           \/ ~ReceiverAlive /\ pc' = [pc EXCEPT ![d] = "refused"]
    BY DEF Send, Inv, TypeOK
  <1>2. Winner = d BY <1>1, WinnerIs DEF Claims
  <1>3. Told[d] = "pending" BY <1>1 DEF Told
  <1>4. got = None BY <1>1 DEF Inv, Carried, OneClaim, Claims, TypeOK
  <1>5. Outcome' = Outcome BY <1>1 DEF Outcome, ReceiverAlive
  <1>6. CASE ReceiverAlive
    <2>1. \A e \in Deliveries : Claims(e)' <=> Claims(e) BY <1>1, <1>6 DEF Claims
    <2>2. Winner' = Winner BY <2>1 DEF Winner
    <2>3. Told' = [Told EXCEPT ![d] = "accepted"] BY <1>1, <1>6 DEF Told, PcValues
    <2>4. Outcome = "pending" BY <1>4, <1>6 DEF Outcome
    <2>5. S!Accept(d) BY <1>2, <1>3, <1>5, <2>2, <2>3, <2>4 DEF S!Accept
    <2> QED BY <2>5 DEF S!Next
  <1>7. CASE ~ReceiverAlive
    <2>1. \A e \in Deliveries : ~Claims(e)'
      BY <1>1, <1>7 DEF Claims, Inv, OneClaim
    <2>2. Winner' = None BY <2>1 DEF Winner
    <2>3. Told' = [Told EXCEPT ![d] = "refused"] BY <1>1, <1>7 DEF Told, PcValues
    <2>4. Outcome = "abandoned" BY <1>4, <1>7 DEF Outcome
    <2>5. S!Refuse(d) BY <1>2, <1>3, <1>5, <2>2, <2>3, <2>4 DEF S!Refuse
    <2> QED BY <2>5 DEF S!Next
  <1> QED BY <1>6, <1>7

(* What the losers and the remote do with a refusal is not the promise's.   *)
LEMMA BreakSettles ==
    ASSUME Inv, NEW d \in Deliveries, BreakOwn(d) \/ RecvBreak(d)
    PROVE  UNCHANGED S!vars
  <1>1. /\ pc \in [Deliveries -> PcValues] /\ UNCHANGED <<caller, got>>
        /\ \/ pc' = pc
           \/ pc[d] = "refused" /\ \E r \in {"told", "failed"} : pc' = [pc EXCEPT ![d] = r]
    BY DEF BreakOwn, RecvBreak, Inv, TypeOK
  <1>2. \A e \in Deliveries : Claims(e)' <=> Claims(e) BY <1>1 DEF Claims
  <1>3. Winner' = Winner BY <1>2 DEF Winner
  <1>4. Told' = Told BY <1>1 DEF Told
  <1>5. Outcome' = Outcome BY <1>1 DEF Outcome, ReceiverAlive
  <1> QED BY <1>3, <1>4, <1>5 DEF S!vars

(* Every step maps to a step of Settlement or to none.                      *)
LEMMA SettlementStep == Inv /\ [Next]_vars => [S!Next]_S!vars
  <1> SUFFICES ASSUME Inv, [Next]_vars PROVE [S!Next]_S!vars OBVIOUS
  <1>1. CASE UNCHANGED vars
    BY <1>1 DEF vars, S!vars, Winner, Claims, Told, Outcome, ReceiverAlive
  <1>2. CASE Next
    BY <1>2, CallerSettles, PollSettles, ResolveSettles, SendSettles, BreakSettles DEF Next
  <1> QED BY <1>1, <1>2

(* Resolver, its deliveries and deliver_and implement Settlement: at most   *)
(* one delivery is accepted, the caller gets that one's result, and the     *)
(* others are refused for a reason.                                         *)
THEOREM Implements == Spec => IsSettlement
  <1>1. Spec => S!Init BY SettlementInit DEF Spec
  <1> QED BY <1>1, Invariance, SettlementStep, PTL DEF Spec, IsSettlement, S!Spec

=============================================================================
