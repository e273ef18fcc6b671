----------------------------- MODULE SessionProofs -----------------------------
(***************************************************************************)
(* Proofs about sessions, for any number of sessions, callers and          *)
(* receivers, any menu of messages and any capacity of the connections.    *)
(***************************************************************************)
EXTENDS Session, TLAPS

USE PeersAssumption, MenuAssumption

(* A message is never half-way through both send_msg and its caller, and    *)
(* the send of an abort is always followed by local_abort.                  *)
LEMMA AfterSendPc ==
    ASSUME NEW t \in Task, NEW ok \in BOOLEAN
    PROVE  /\ AfterSend(t, ok) \in {"recv", "store", "answer", "idle"}
           /\ t \in Callers /\ msg[t] = "abort" => AfterSend(t, ok) # "idle"
  BY DEF AfterSend, Task, AwaitsAnswer

(* A task that moves on has not returned from an abort by that, unless the  *)
(* abort is what it was in.                                                 *)
LEMMA NotReturned ==
    ASSUME TypeOK, NEW t \in Task, NEW next \in PcValues,
           pc' = [pc EXCEPT ![t] = next], calls' = calls,
           \A u \in Task \ {t} : msg'[u] = msg[u],
           t \in Callers /\ msg'[t] = "abort" => next # "idle"
    PROVE  \A u \in Callers : AbortReturned(u)' => AbortReturned(u)
  BY DEF AbortReturned, TypeOK, Task

(* A new session: nothing written, nobody inside a guard, no flag up.       *)
LEMMA InitInv == Init => Inv
  BY DEF Init, Inv, TypeOK, PcValues, Msgs, LocksOwned, Accounted, LateCounted,
     SilentAfterAbort, DeafAfterAbort, InOrder, Aborted, Sending, Receiving, InHandOf, Task,
     AbortReturned

(* The steps that only move a task on, without touching flags, stream or    *)
(* history, keep the safety properties if the task does not get past a      *)
(* check of an aborted session that way.                                    *)
LEMMA MoveInv ==
    ASSUME Inv, NEW t \in Task, NEW next \in PcValues,
           pc' = [pc EXCEPT ![t] = next],
           UNCHANGED <<flags, stream, hand, history>>,
           pc[t] # "dispatch", next # "dispatch",
           next \in {"lock", "write"} => Sending(t) \/ ~Aborted(PeerOf[t]),
           next \in {"rlock", "read"} => Receiving(t) \/ ~Aborted(PeerOf[t]),
           \A u \in Callers : AbortReturned(u)' => AbortReturned(u)
    PROVE  /\ Accounted' /\ LateCounted' /\ InOrder'
           /\ SilentAfterAbort' /\ DeafAfterAbort'
  <1> USE DEF Inv, flags, stream, history
  <1>1. \A r \in Receivers, p \in Peers : InHandOf(r, p)' <=> InHandOf(r, p)
    BY DEF InHandOf, TypeOK, Task
  <1>2. /\ \A p \in Peers : Aborted(p)' <=> Aborted(p)
        /\ \A u \in Task : PeerOf[u] \in Peers
    BY DEF Aborted
  <1>3. \A u \in Task : Sending(u)' => Sending(u) \/ ~Aborted(PeerOf[u])
    BY DEF Sending, TypeOK
  <1>4. \A u \in Task : Receiving(u)' => Receiving(u) \/ ~Aborted(PeerOf[u])
    BY DEF Receiving, TypeOK
  <1>5. Accounted' /\ InOrder'
    BY <1>1 DEF Accounted, InOrder
  <1>6. LateCounted'
    BY <1>2, <1>4 DEF LateCounted
  <1>7. SilentAfterAbort'
    BY <1>2, <1>3 DEF SilentAfterAbort, TypeOK
  <1>8. DeafAfterAbort'
    BY <1>2, <1>4 DEF DeafAfterAbort, Aborted, Task
  <1> QED BY <1>5, <1>6, <1>7, <1>8

(* A caller begins to send.                                                 *)
LEMMA CallInv ==
    ASSUME Inv, NEW t \in Callers, NEW m \in Msgs, Call(t, m)
    PROVE  Inv'
  <1> USE DEF Inv, Call
  <1>1. TypeOK'
    BY DEF TypeOK, PcValues, Task, flags, stream, history
  <1>2. LocksOwned'
    BY DEF LocksOwned, TypeOK, Task
  <1>3. \A u \in Callers : AbortReturned(u)' => AbortReturned(u)
    BY DEF AbortReturned, TypeOK, Task
  <1> QED BY <1>1, <1>2, <1>3, MoveInv DEF PcValues, Task

(* send_msg's check lets only a task of a live session through.             *)
LEMMA SendCheckInv ==
    ASSUME Inv, NEW t \in Task, SendCheck(t)
    PROVE  Inv'
  <1> DEFINE next == IF Aborted(PeerOf[t]) THEN AfterSend(t, FALSE) ELSE "lock"
  <1>1. /\ next \in {"recv", "store", "answer", "idle", "lock"}
        /\ t \in Callers /\ msg[t] = "abort" => next # "idle"
    BY AfterSendPc
  <1>2. next = "lock" => ~Aborted(PeerOf[t])
    BY AfterSendPc
  <1>3. pc' = [pc EXCEPT ![t] = next] /\ pc[t] = "check"
    BY DEF SendCheck
  <1>4. UNCHANGED <<flags, writer, reader, stream, msg, hand, calls, history>>
    BY DEF SendCheck
  <1> HIDE DEF next
  <1> USE DEF Inv
  <1>5. TypeOK'
    BY <1>1, <1>3, <1>4 DEF TypeOK, PcValues, flags, stream, history
  <1>6. LocksOwned'
    BY <1>1, <1>3, <1>4 DEF LocksOwned, TypeOK
  <1>7. \A u \in Callers : AbortReturned(u)' => AbortReturned(u)
    BY <1>1, <1>3, <1>4, NotReturned DEF PcValues
  <1> QED BY <1>1, <1>2, <1>3, <1>4, <1>5, <1>6, <1>7, MoveInv DEF PcValues

(* The writer's mutex goes to one of the tasks that wait for it.            *)
LEMMA LockWriterInv ==
    ASSUME Inv, NEW t \in Task, LockWriter(t)
    PROVE  Inv'
  <1> USE DEF Inv, LockWriter
  <1>1. TypeOK'
    BY DEF TypeOK, PcValues, flags, stream, history
  <1>2. LocksOwned'
    BY DEF LocksOwned, TypeOK
  <1>3. \A u \in Callers : AbortReturned(u)' => AbortReturned(u)
    BY NotReturned DEF PcValues
  <1> QED BY <1>1, <1>2, <1>3, MoveInv DEF PcValues, Sending

(* A task that writes leaves the guard and has its one late message behind  *)
(* it if the session was aborted meanwhile.                                 *)
LEMMA WriteInv ==
    ASSUME Inv, NEW t \in Task, Write(t)
    PROVE  Inv'
  <1> DEFINE p == PeerOf[t]
             next == AfterSend(t, TRUE)
  <1>1. /\ next \in {"recv", "store", "answer", "idle"}
        /\ t \in Callers /\ msg[t] = "abort" => next # "idle"
    BY AfterSendPc
  <1>2. /\ pc[t] = "write"
        /\ written' = [written EXCEPT ![p] = Append(@, msg[t])]
        /\ writer' = [writer EXCEPT ![p] = NoTask]
        /\ pc' = [pc EXCEPT ![t] = next]
        /\ lateSent' = [lateSent EXCEPT ![t] = IF Aborted(p) THEN @ + 1 ELSE @]
        /\ UNCHANGED <<flags, reader, nread, msg, hand, calls, done, lateDone>>
    BY DEF Write
  <1>3. p \in Peers /\ t \in Task
    BY DEF Task
  <1> HIDE DEF next, p
  <1> USE DEF Inv, flags
  <1>4. TypeOK'
    BY <1>1, <1>2, <1>3 DEF TypeOK, PcValues
  <1>5. LocksOwned'
    BY <1>1, <1>2, <1>3 DEF LocksOwned, TypeOK, p
  <1>6. \A r \in Receivers, q \in Peers : InHandOf(r, q)' <=> InHandOf(r, q)
    BY <1>1, <1>2 DEF InHandOf, TypeOK, Task
  <1>7. \A q \in Peers : Len(written[q]) <= Len(written'[q])
    BY <1>2, <1>3 DEF TypeOK
  <1>8. Accounted'
    <2>1. \A q \in Peers : nread'[q] <= Len(written'[Remote[q]])
      BY <1>2, <1>4, <1>7 DEF Accounted, TypeOK
    <2>2. nread' = nread /\ done' = done /\ hand' = hand
      BY <1>2
    <2> QED BY <1>6, <2>1, <2>2 DEF Accounted
  <1>9. InOrder'
    BY <1>2, <1>6 DEF InOrder
  <1>10. /\ \A q \in Peers : Aborted(q)' <=> Aborted(q)
         /\ \A u \in Task : Receiving(u)' => Receiving(u)
         /\ \A u \in Task : Sending(u)' => u # t /\ Sending(u)
         /\ Sending(t)
    BY <1>1, <1>2 DEF Aborted, Receiving, Sending, TypeOK
  <1>11. LateCounted'
    BY <1>2, <1>3, <1>10 DEF LateCounted, TypeOK, p
  <1>12. SilentAfterAbort'
    <2>1. \A u \in Callers : AbortReturned(u)' => AbortReturned(u)
      BY <1>1, <1>2, NotReturned DEF PcValues
    <2>2. \A u \in Task : lateSent'[u] + (IF Aborted(PeerOf[u])' /\ Sending(u)' THEN 1 ELSE 0) <= 1
      BY <1>2, <1>3, <1>10 DEF SilentAfterAbort, TypeOK, p
    <2> QED BY <1>2, <2>1, <2>2 DEF SilentAfterAbort
  <1>13. DeafAfterAbort'
    BY <1>2, <1>10 DEF DeafAfterAbort, Task
  <1> QED BY <1>4, <1>5, <1>8, <1>9, <1>11, <1>12, <1>13

(* A task whose write fails leaves the guard.                               *)
LEMMA WriteFailsInv ==
    ASSUME Inv, NEW t \in Task, WriteFails(t)
    PROVE  Inv'
  <1> DEFINE next == AfterSend(t, FALSE)
  <1>1. /\ next \in {"recv", "store", "answer", "idle"}
        /\ t \in Callers /\ msg[t] = "abort" => next # "idle"
    BY AfterSendPc
  <1>2. /\ pc[t] = "write"
        /\ pc' = [pc EXCEPT ![t] = next]
        /\ writer' = [writer EXCEPT ![PeerOf[t]] = NoTask]
        /\ UNCHANGED <<flags, reader, stream, msg, hand, calls, history>>
    BY DEF WriteFails
  <1> HIDE DEF next
  <1> USE DEF Inv
  <1>3. TypeOK'
    BY <1>1, <1>2 DEF TypeOK, PcValues, flags, stream, history
  <1>4. LocksOwned'
    BY <1>1, <1>2 DEF LocksOwned, TypeOK
  <1>5. \A u \in Callers : AbortReturned(u)' => AbortReturned(u)
    BY <1>1, <1>2, NotReturned DEF PcValues
  <1> QED BY <1>1, <1>2, <1>3, <1>4, <1>5, MoveInv DEF PcValues

(* local_abort: every task of the session has at most one message on its    *)
(* way out and one on its way in at this instant.                           *)
LEMMA LocalAbortInv ==
    ASSUME Inv, NEW t \in Callers, LocalAbort(t)
    PROVE  Inv'
  <1> USE DEF Inv, LocalAbort, stream, history
  <1>1. TypeOK'
    BY DEF TypeOK, PcValues, Task
  <1>2. LocksOwned'
    BY DEF LocksOwned, TypeOK, Task
  <1>3. \A r \in Receivers, q \in Peers : InHandOf(r, q)' <=> InHandOf(r, q)
    BY DEF InHandOf, TypeOK, Task
  <1>4. Accounted' /\ InOrder'
    BY <1>3 DEF Accounted, InOrder
  <1>5. /\ \A q \in Peers : Aborted(q) => Aborted(q)'
        /\ \A u \in Task : (Receiving(u)' <=> Receiving(u)) /\ (Sending(u)' <=> Sending(u))
    BY DEF Aborted, Receiving, Sending, TypeOK, Task
  <1>6. LateCounted'
    BY <1>5 DEF LateCounted
  <1>7. SilentAfterAbort'
    <2>1. \A u \in Task : lateSent'[u] + (IF Aborted(PeerOf[u])' /\ Sending(u)' THEN 1 ELSE 0) <= 1
      BY <1>5 DEF SilentAfterAbort, LateCounted, TypeOK
    <2>2. \A u \in Callers : AbortReturned(u)' => u = t \/ AbortReturned(u)
      BY DEF AbortReturned, TypeOK, Task
    <2>3. \A u \in Callers : AbortReturned(u)' => aborted_locally'[PeerOf[u]]
      BY <2>2 DEF SilentAfterAbort, TypeOK, Task
    <2> QED BY <2>1, <2>3 DEF SilentAfterAbort
  <1>8. DeafAfterAbort'
    BY <1>5 DEF DeafAfterAbort, TypeOK, Task
  <1> QED BY <1>1, <1>2, <1>4, <1>6, <1>7, <1>8

(* recv_event is called, and recv_msg's check lets only a task of a live    *)
(* session through.                                                         *)
LEMMA RecvInv ==
    ASSUME Inv, NEW t \in Receivers, RecvEvent(t) \/ RecvCheck(t) \/ LockReader(t)
    PROVE  Inv'
  <1> USE DEF Inv
  <1>0. \A u \in Callers : AbortReturned(u)' => AbortReturned(u)
    BY DEF RecvEvent, RecvCheck, LockReader, AbortReturned, TypeOK, Task
  <1>1. CASE RecvEvent(t)
    <2>1. TypeOK'
      BY <1>1 DEF RecvEvent, TypeOK, PcValues, Task, flags, stream, history
    <2>2. LocksOwned'
      BY <1>1 DEF RecvEvent, LocksOwned, TypeOK, Task
    <2> QED BY <1>0, <1>1, <2>1, <2>2, MoveInv DEF RecvEvent, PcValues, Task
  <1>2. CASE RecvCheck(t)
    <2> DEFINE next == IF Aborted(PeerOf[t]) THEN "idle" ELSE "rlock"
    <2>1. /\ next \in {"idle", "rlock"}
          /\ next = "rlock" => ~Aborted(PeerOf[t])
          /\ pc' = [pc EXCEPT ![t] = next] /\ pc[t] = "recv"
          /\ UNCHANGED <<flags, writer, reader, stream, msg, hand, calls, history>>
      BY <1>2 DEF RecvCheck
    <2> HIDE DEF next
    <2>2. TypeOK'
      BY <2>1 DEF TypeOK, PcValues, Task, flags, stream, history
    <2>3. LocksOwned'
      BY <2>1 DEF LocksOwned, TypeOK, Task
    <2> QED BY <1>0, <2>1, <2>2, <2>3, MoveInv DEF PcValues, Task
  <1>3. CASE LockReader(t)
    <2>1. TypeOK'
      BY <1>3 DEF LockReader, TypeOK, PcValues, Task, flags, stream, history
    <2>2. LocksOwned'
      BY <1>3 DEF LockReader, LocksOwned, TypeOK, Task
    <2> QED BY <1>0, <1>3, <2>1, <2>2, MoveInv DEF LockReader, PcValues, Task, Receiving
  <1> QED BY <1>1, <1>2, <1>3

(* The message a receiver takes is the next one, which nobody has seen.     *)
LEMMA ReadInv ==
    ASSUME Inv, NEW t \in Receivers, Read(t)
    PROVE  Inv'
  <1> DEFINE p == PeerOf[t]
  <1>1. /\ pc[t] = "read"
        /\ nread[p] < Len(written[Remote[p]])
        /\ nread' = [nread EXCEPT ![p] = @ + 1]
        /\ hand' = [hand EXCEPT ![t] = nread[p] + 1]
        /\ reader' = [reader EXCEPT ![p] = NoTask]
        /\ pc' = [pc EXCEPT ![t] = "dispatch"]
        /\ UNCHANGED <<flags, writer, written, msg, calls, history>>
    BY DEF Read
  <1>2. p \in Peers /\ t \in Task
    BY DEF Task
  <1> USE DEF Inv, flags, history
  <1>3. TypeOK'
    BY <1>1, <1>2 DEF TypeOK, PcValues
  <1>4. LocksOwned'
    BY <1>1, <1>2 DEF LocksOwned, TypeOK
  <1>5. \A r \in Receivers, q \in Peers :
           InHandOf(r, q)' <=> (r = t /\ q = p) \/ InHandOf(r, q)
    BY <1>1, <1>2 DEF InHandOf, TypeOK, Task
  <1>6. /\ \A r \in Receivers \ {t} : hand'[r] = hand[r]
        /\ hand'[t] = nread[p] + 1
    BY <1>1, <1>2 DEF TypeOK, Task
  <1>7. /\ done' = done /\ written' = written
        /\ nread \in [Peers -> Nat] /\ nread'[p] = nread[p] + 1
        /\ \A q \in Peers \ {p} : nread'[q] = nread[q]
        /\ \A q \in Peers : ~InHandOf(t, q)
    BY <1>1, <1>2 DEF TypeOK, InHandOf
  <1> HIDE DEF p
  <1>8. Accounted'
    <2> SUFFICES ASSUME NEW q \in Peers PROVE
           /\ nread'[q] <= Len(written'[Remote[q]])
           /\ done'[q] \subseteq 1..nread'[q]
           /\ \A r \in Receivers : InHandOf(r, q)' => hand'[r] \in 1..nread'[q]
           /\ \A j \in 1..nread'[q] :
                 j \in done'[q] \/ \E r \in Receivers : InHandOf(r, q)' /\ hand'[r] = j
      BY DEF Accounted
    <2>1. nread[q] \in Nat /\ nread'[q] \in Nat /\ nread[q] <= nread'[q]
      BY <1>7
    <2>2. nread'[q] <= Len(written'[Remote[q]])
      <3>1. Remote[q] \in Peers /\ Remote[p] \in Peers /\ Len(written[Remote[q]]) \in Nat
        BY <1>2 DEF TypeOK
      <3>2. nread[q] <= Len(written[Remote[q]])
        BY DEF Accounted
      <3> QED BY <1>1, <1>7, <3>1, <3>2
    <2>3. done'[q] \subseteq 1..nread'[q]
      BY <1>7, <2>1 DEF Accounted
    <2>4. ASSUME NEW r \in Receivers, InHandOf(r, q)' PROVE hand'[r] \in 1..nread'[q]
      <3>1. CASE r = t
        BY <1>2, <1>5, <1>6, <1>7, <2>1, <2>4, <3>1
      <3>2. CASE r # t
        <4>1. hand[r] \in 1..nread[q]
          BY <1>5, <2>4, <3>2 DEF Accounted
        <4> QED BY <1>6, <2>1, <3>2, <4>1
      <3> QED BY <3>1, <3>2
    <2>5. ASSUME NEW j \in 1..nread'[q], j \notin done'[q]
          PROVE  \E r \in Receivers : InHandOf(r, q)' /\ hand'[r] = j
      <3>1. CASE j \in 1..nread[q]
        <4>1. PICK r \in Receivers : InHandOf(r, q) /\ hand[r] = j
          BY <1>7, <2>5, <3>1 DEF Accounted
        <4>2. r # t
          BY <1>7, <4>1
        <4> QED BY <1>5, <1>6, <4>1, <4>2
      <3>2. CASE j \notin 1..nread[q]
        <4>1. q = p /\ j = nread[p] + 1
          BY <1>7, <2>1, <3>2
        <4> QED BY <1>5, <1>6, <4>1
      <3> QED BY <3>1, <3>2
    <2> QED BY <2>2, <2>3, <2>4, <2>5
  <1>9. InOrder'
    <2>1. ASSUME NEW q \in Peers, NEW i \in done'[q], NEW j \in 1..nread'[q], j < i
          PROVE  j \in done'[q] \/ \E r \in Receivers : InHandOf(r, q)' /\ hand'[r] = j
      BY <1>8, <2>1 DEF Accounted
    <2>2. \A r \in Receivers : InHandOf(r, p) => hand[r] # nread[p] + 1
      BY <1>2, <1>7 DEF Accounted
    <2>3. nread[p] + 1 \notin done[p]
      BY <1>2, <1>7 DEF Accounted
    <2>4. ASSUME NEW r \in Receivers, NEW q \in Peers, InHandOf(r, q)'
          PROVE  hand'[r] \notin done'[q]
      <3>1. CASE r = t
        BY <1>5, <1>6, <1>7, <2>3, <2>4, <3>1
      <3>2. CASE r # t
        BY <1>5, <1>6, <1>7, <2>4, <3>2 DEF InOrder
      <3> QED BY <3>1, <3>2
    <2>5. ASSUME NEW r \in Receivers, NEW q \in Peers, InHandOf(r, q)',
                 NEW u \in Receivers \ {r}, InHandOf(u, q)'
          PROVE  hand'[u] # hand'[r]
      <3>1. CASE r = t \/ u = t
        BY <1>5, <1>6, <1>7, <2>2, <2>5, <3>1
      <3>2. CASE r # t /\ u # t
        BY <1>5, <1>6, <2>5, <3>2 DEF InOrder
      <3> QED BY <3>1, <3>2
    <2> QED BY <2>1, <2>4, <2>5 DEF InOrder
  <1>10. /\ \A q \in Peers : Aborted(q)' <=> Aborted(q)
        /\ \A u \in Task : (Receiving(u)' <=> Receiving(u)) /\ (Sending(u)' <=> Sending(u))
    BY <1>1, <1>2 DEF Aborted, Receiving, Sending, TypeOK
  <1>11. LateCounted' /\ SilentAfterAbort'
    <2>1. \A u \in Callers : AbortReturned(u)' => AbortReturned(u)
      BY <1>1 DEF AbortReturned, TypeOK, Task
    <2> QED BY <1>1, <1>10, <2>1 DEF LateCounted, SilentAfterAbort
  <1>12. DeafAfterAbort'
    BY <1>1, <1>10 DEF DeafAfterAbort, Task
  <1> QED BY <1>3, <1>4, <1>8, <1>9, <1>11, <1>12

(* What a dispatch does to the state, whatever the message: the task leaves *)
(* the hand, and only op:abort raises a flag.                               *)
LEMMA DispatchFacts ==
    ASSUME Inv, NEW t \in Receivers, Dispatch(t)
    PROVE  /\ pc[t] = "dispatch"
           /\ \E next \in {"idle", "panicked", "recv", "check"} :
                 pc' = [pc EXCEPT ![t] = next]
           /\ aborted_locally' = aborted_locally
           /\ \/ aborted_by_remote' = aborted_by_remote
              \/ aborted_by_remote' = [aborted_by_remote EXCEPT ![PeerOf[t]] = TRUE]
           /\ msg' \in [Task -> Msgs]
           /\ \A u \in Callers : msg'[u] = msg[u]
           /\ done' = [done EXCEPT ![PeerOf[t]] = @ \cup {hand[t]}]
           /\ lateDone' = [lateDone EXCEPT ![t] = IF Aborted(PeerOf[t]) THEN @ + 1 ELSE @]
           /\ UNCHANGED <<writer, reader, stream, hand, calls, lateSent>>
  <1> DEFINE m == written[Remote[PeerOf[t]]][hand[t]]
  <1>1. pc[t] = "dispatch" /\ msg \in [Task -> Msgs]
    BY DEF Dispatch, Inv, TypeOK
  <1>2. \A use \in Replies : ReplyTo(m, use) \in Msgs
    BY DEF ReplyTo, Msgs
  <1> HIDE DEF m
  <1>3. msg' = msg \/ \E use \in Replies : msg' = [msg EXCEPT ![t] = ReplyTo(m, use)]
    BY DEF Dispatch, m
  <1>4. msg' \in [Task -> Msgs] /\ \A u \in Callers : msg'[u] = msg[u]
    BY <1>1, <1>2, <1>3 DEF Task
  <1>5. \/ aborted_by_remote' = aborted_by_remote
        \/ aborted_by_remote' = [aborted_by_remote EXCEPT ![PeerOf[t]] = TRUE]
    BY DEF Dispatch, SetRemoteAbort
  <1>6. \E next \in {"idle", "panicked", "recv", "check"} : pc' = [pc EXCEPT ![t] = next]
    BY DEF Dispatch
  <1>7. /\ aborted_locally' = aborted_locally
        /\ done' = [done EXCEPT ![PeerOf[t]] = @ \cup {hand[t]}]
        /\ lateDone' = [lateDone EXCEPT ![t] = IF Aborted(PeerOf[t]) THEN @ + 1 ELSE @]
        /\ UNCHANGED <<writer, reader, stream, hand, calls, lateSent>>
    BY DEF Dispatch
  <1> QED BY <1>1, <1>4, <1>5, <1>6, <1>7

(* A dispatch moves one message from a hand to the dispatched ones, and the *)
(* receiver has no other on its way in.                                     *)
LEMMA DispatchInv ==
    ASSUME Inv, NEW t \in Receivers, Dispatch(t)
    PROVE  Inv'
  <1> DEFINE p == PeerOf[t]
  <1>1. PICK next \in {"idle", "panicked", "recv", "check"} :
           pc' = [pc EXCEPT ![t] = next]
    BY DispatchFacts
  <1>2. /\ pc[t] = "dispatch"
        /\ aborted_locally' = aborted_locally
        /\ \/ aborted_by_remote' = aborted_by_remote
           \/ aborted_by_remote' = [aborted_by_remote EXCEPT ![p] = TRUE]
        /\ msg' \in [Task -> Msgs]
        /\ \A u \in Callers : msg'[u] = msg[u]
        /\ done' = [done EXCEPT ![p] = @ \cup {hand[t]}]
        /\ lateDone' = [lateDone EXCEPT ![t] = IF Aborted(p) THEN @ + 1 ELSE @]
        /\ UNCHANGED <<writer, reader, stream, hand, calls, lateSent>>
    BY DispatchFacts
  <1>3. p \in Peers /\ t \in Task
    BY DEF Task
  <1> USE DEF Inv, stream
  <1>4. TypeOK'
    <2>1. aborted_by_remote' \in [Peers -> BOOLEAN]
      BY <1>2, <1>3 DEF TypeOK
    <2>2. done' \in [Peers -> SUBSET Nat]
      BY <1>2, <1>3 DEF TypeOK
    <2>3. lateDone' \in [Task -> Nat]
      BY <1>2, <1>3 DEF TypeOK
    <2>4. pc' \in [Task -> PcValues]
      BY <1>1, <1>3 DEF TypeOK, PcValues
    <2> QED BY <1>2, <2>1, <2>2, <2>3, <2>4 DEF TypeOK
  <1>5. LocksOwned'
    BY <1>1, <1>2, <1>3 DEF LocksOwned, TypeOK
  <1>6. /\ InHandOf(t, p)
        /\ \A r \in Receivers, q \in Peers : InHandOf(r, q)' <=> r # t /\ InHandOf(r, q)
        /\ \A q \in Peers : q # p => ~InHandOf(t, q)
    BY <1>1, <1>2, <1>3 DEF InHandOf, TypeOK, Task
  <1>7. /\ done'[p] = done[p] \cup {hand[t]}
        /\ \A q \in Peers \ {p} : done'[q] = done[q]
        /\ hand' = hand /\ nread' = nread /\ written' = written
    BY <1>2, <1>3 DEF TypeOK
  <1>8. hand[t] \in 1..nread[p]
    BY <1>3, <1>6 DEF Accounted
  <1>9. /\ \A q \in Peers : Aborted(q) => Aborted(q)'
        /\ \A q \in Peers \ {p} : Aborted(q)' <=> Aborted(q)
        /\ \A u \in Task : Sending(u)' => Sending(u)
        /\ \A u \in Task : Receiving(u)' <=> u # t /\ Receiving(u)
        /\ Receiving(t)
    BY <1>1, <1>2, <1>3 DEF Aborted, Sending, Receiving, TypeOK
  <1>10. LateCounted'
    <2>1. /\ \A u \in Task \ {t} : lateDone'[u] = lateDone[u]
          /\ lateSent' = lateSent
          /\ ~Aborted(p) => lateDone'[t] = lateDone[t]
      BY <1>2, <1>3 DEF TypeOK
    <2>2. \A u \in Task : ~Aborted(PeerOf[u])' => ~Aborted(PeerOf[u])
      BY <1>9
    <2> QED BY <1>9, <2>1, <2>2 DEF LateCounted
  <1>11. SilentAfterAbort'
    <2>1. \A u \in Task : lateSent'[u] + (IF Aborted(PeerOf[u])' /\ Sending(u)' THEN 1 ELSE 0) <= 1
      BY <1>2, <1>9 DEF SilentAfterAbort, LateCounted, TypeOK
    <2>2. \A u \in Callers : AbortReturned(u)' => AbortReturned(u)
      BY <1>1, <1>2 DEF AbortReturned, TypeOK, Task
    <2> QED BY <1>2, <2>1, <2>2 DEF SilentAfterAbort
  <1>12. DeafAfterAbort'
    <2>1. lateDone[t] = 0
      BY <1>3, <1>9 DEF LateCounted
    <2>2. /\ \A u \in Receivers \ {t} : lateDone'[u] = lateDone[u]
          /\ lateDone'[t] = IF Aborted(p) THEN 1 ELSE 0
      BY <1>2, <1>3, <2>1 DEF TypeOK, Task
    <2>3. \A u \in Receivers : lateDone'[u] <= 1
      BY <2>2 DEF DeafAfterAbort
    <2>4. ASSUME NEW q \in Peers, aborted_by_remote'[q], ~aborted_locally'[q]
          PROVE  \E r \in Receivers : PeerOf[r] = q /\ lateDone'[r] = 0 /\ ~Receiving(r)'
      <3>1. CASE aborted_by_remote[q]
        <4>1. PICK r \in Receivers : PeerOf[r] = q /\ lateDone[r] = 0 /\ ~Receiving(r)
          BY <1>2, <2>4, <3>1 DEF DeafAfterAbort
        <4> QED BY <1>9, <2>2, <4>1 DEF Task
      <3>2. CASE ~aborted_by_remote[q]
        <4>1. q = p
          BY <1>2, <2>4, <3>2 DEF TypeOK
        <4>2. ~Aborted(p)
          BY <1>2, <2>4, <3>2, <4>1 DEF Aborted
        <4> QED BY <1>3, <1>9, <2>2, <4>1, <4>2
      <3> QED BY <3>1, <3>2
    <2> QED BY <2>3, <2>4 DEF DeafAfterAbort
  <1> HIDE DEF p
  <1>13. Accounted'
    <2>1. ASSUME NEW q \in Peers, NEW j \in 1..nread'[q], j \notin done'[q]
          PROVE  \E r \in Receivers : InHandOf(r, q)' /\ hand'[r] = j
      <3>1. j \notin done[q]
        BY <1>7, <2>1
      <3>2. PICK r \in Receivers : InHandOf(r, q) /\ hand[r] = j
        BY <1>7, <2>1, <3>1 DEF Accounted
      <3>3. r # t
        BY <1>6, <1>7, <2>1, <3>2
      <3> QED BY <1>6, <1>7, <3>2, <3>3
    <2>2. \A q \in Peers : done'[q] \subseteq 1..nread'[q]
      BY <1>7, <1>8 DEF Accounted
    <2>3. \A q \in Peers, r \in Receivers : InHandOf(r, q)' => hand'[r] \in 1..nread'[q]
      BY <1>6, <1>7 DEF Accounted
    <2>4. \A q \in Peers : nread'[q] <= Len(written'[Remote[q]])
      BY <1>7 DEF Accounted
    <2> QED BY <2>1, <2>2, <2>3, <2>4 DEF Accounted
  <1>14. InOrder'
    <2>1. \A q \in Peers : \A i \in done'[q], j \in 1..nread'[q] :
             j < i => j \in done'[q] \/ \E r \in Receivers : InHandOf(r, q)' /\ hand'[r] = j
      BY <1>13 DEF Accounted
    <2>2. ASSUME NEW q \in Peers, NEW r \in Receivers, InHandOf(r, q)'
          PROVE  /\ hand'[r] \notin done'[q]
                 /\ \A u \in Receivers \ {r} : InHandOf(u, q)' => hand'[u] # hand'[r]
      BY <1>3, <1>6, <1>7, <2>2 DEF InOrder
    <2> QED BY <2>1, <2>2 DEF InOrder
  <1> QED BY <1>4, <1>5, <1>10, <1>11, <1>12, <1>13, <1>14

(* Every step of every task preserves the invariant.                        *)
LEMMA NextInv == Inv /\ [Next]_vars => Inv'
  <1> SUFFICES ASSUME Inv, [Next]_vars PROVE Inv'
    OBVIOUS
  <1>1. ASSUME NEW t \in Callers, NEW m \in Msgs, Call(t, m) PROVE Inv'
    BY <1>1, CallInv
  <1>2. ASSUME NEW t \in Task,
               SendCheck(t) \/ LockWriter(t) \/ Write(t) \/ WriteFails(t)
        PROVE  Inv'
    BY <1>2, SendCheckInv, LockWriterInv, WriteInv, WriteFailsInv
  <1>3. ASSUME NEW t \in Callers, LocalAbort(t) PROVE Inv'
    BY <1>3, LocalAbortInv
  <1>4. ASSUME NEW t \in Receivers,
               RecvEvent(t) \/ RecvCheck(t) \/ LockReader(t) \/ Read(t) \/ Dispatch(t)
        PROVE  Inv'
    BY <1>4, RecvInv, ReadInv, DispatchInv
  <1>5. CASE UNCHANGED vars
    BY <1>5 DEF vars, flags, stream, history, Inv, TypeOK, LocksOwned, Accounted,
       LateCounted, SilentAfterAbort, DeafAfterAbort, InOrder, Aborted, Sending,
       Receiving, InHandOf, AbortReturned
  <1> QED BY <1>1, <1>2, <1>3, <1>4, <1>5 DEF Next

(* The inductive invariant holds in every state of every session.           *)
THEOREM Invariance == Spec => []Inv
  <1> QED BY InitInv, NextInv, PTL DEF Spec

(* Flags, mutexes, connections and tasks always have their types.           *)
THEOREM TypeCorrect == Spec => []TypeOK
  <1>1. Inv => TypeOK
    BY DEF Inv
  <1> QED BY <1>1, Invariance, PTL

(* Although send_msg checks the flags long before it writes, no task of an  *)
(* aborted session gets a second message out, and abort does not return     *)
(* before the session is aborted, whatever became of its send.              *)
THEOREM Silence == Spec => []SilentAfterAbort
  <1>1. Inv => SilentAfterAbort
    BY DEF Inv
  <1> QED BY <1>1, Invariance, PTL

(* No receiver acts on a second message of an aborted session, and the one  *)
(* that saw op:abort acts on none.                                          *)
THEOREM Deafness == Spec => []DeafAfterAbort
  <1>1. Inv => DeafAfterAbort
    BY DEF Inv
  <1> QED BY <1>1, Invariance, PTL

(* Deliveries are dispatched once each and overtake only what another       *)
(* receiver of the same session has in hand.                                *)
THEOREM Ordering == Spec => []InOrder
  <1>1. Inv => InOrder
    BY DEF Inv
  <1> QED BY <1>1, Invariance, PTL
=============================================================================
