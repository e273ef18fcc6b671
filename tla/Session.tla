------------------------------- MODULE Session -------------------------------
(***************************************************************************)
(* Established CapTP sessions: the tasks of both ends that send and        *)
(* receive over one connection, and how a session is aborted.              *)
(*                                                                         *)
(* Code: CapTpSessionInternal (session/internal.rs), CapTpSession::abort   *)
(* (session.rs), CapTpDeliver (session/traits.rs), GenericResolver         *)
(* (session/resolver.rs), RemoteBootstrap and Resolver (object.rs).        *)
(*                                                                         *)
(* The tasks of one end share the session: two abort flags, a mutex        *)
(* around the reader and a mutex around the writer.  send_msg and recv_msg *)
(* look at the flags first and take the mutex afterwards.  recv_event runs *)
(* the handler of a delivery inline, so a receiver does not read while its *)
(* handler replies, or waits for the answer to its reply.                  *)
(*                                                                         *)
(* A message is its kind and a connection carries whole messages in order: *)
(* what a peer has written so far, and how much of it the other has read.  *)
(***************************************************************************)
EXTENDS Integers, Sequences, FiniteSets

CONSTANTS
    Peers,       \* ends of sessions
    Remote,      \* the other end of a peer's session
    Callers,     \* application tasks that send
    Receivers,   \* application tasks that call recv_event
    PeerOf,      \* the peer a task belongs to
    NoTask,      \* nobody holds a mutex
    Menu,        \* what the callers of each peer may send
    Replies,     \* what handlers do with the resolver they are given
    WritesFail,  \* may write_all return an I/O error?
    WireCap,     \* messages a connection holds before write_all waits
    MaxCalls     \* bound: messages each caller sends

Task == Callers \cup Receivers

(* only, deliver: to an exported object of the application, without and    *)
(*   with a resolver.  deliver_and: the same, with a Resolver of the       *)
(*   session as resolver, for whose answer the caller waits.               *)
(* fetch: RemoteBootstrap::fetch, whose swiss number is a byte string.     *)
(* fetch_symbol: the same with a symbol, from another implementation.      *)
(* gift: any other call of the bootstrap object.                           *)
(* unknown: a delivery to a position where nothing is exported, or a       *)
(*   message that does not decode.                                         *)
(* answer, resolve: what a GenericResolver sends, to the resolver of a     *)
(*   deliver (an object) or of a deliver_and (a Resolver).                 *)
(* resolve_and: the latter with a Resolver of its own, for whose answer    *)
(*   the handler waits.                                                    *)
Msgs == {"only", "deliver", "deliver_and", "fetch", "fetch_symbol", "gift",
         "unknown", "answer", "resolve", "resolve_and", "abort"}

(* A handler drops its resolver, or awaits one of its methods.  fulfill     *)
(* stands for break_promise too, and for whatever is only sent.             *)
Uses == {"drop", "fulfill", "fulfill_and"}

ASSUME PeersAssumption ==
    /\ Remote \in [Peers -> Peers]
    /\ \A p \in Peers : Remote[p] # p /\ Remote[Remote[p]] = p
    /\ Callers \cap Receivers = {}
    /\ PeerOf \in [Task -> Peers]
    /\ NoTask \notin Task

ASSUME MenuAssumption ==
    /\ Menu \in [Peers -> SUBSET Msgs]
    /\ Replies \subseteq Uses
    /\ WritesFail \in BOOLEAN
    /\ WireCap \in Nat
    /\ MaxCalls \in Nat

VARIABLES
    aborted_locally,     \* CapTpSessionInternal.aborted_locally
    aborted_by_remote,   \* CapTpSessionInternal.aborted_by_remote is Some
    writer, reader,      \* task that holds the mutex of the writer, reader
    written,             \* messages a peer has written, in order
    nread,               \* messages a peer has taken off its reader
    pc,                  \* where each task is
    msg,                 \* message a task is sending
    hand,                \* index of the message a receiver has in hand
    calls,               \* messages a caller has begun to send
    done,                \* history: indexes of the messages a peer dispatched
    lateSent,            \* history: messages a task wrote after the abort
    lateDone             \* history: messages it dispatched after the abort

flags == <<aborted_locally, aborted_by_remote>>
stream == <<written, nread>>
history == <<done, lateSent, lateDone>>
vars == <<flags, writer, reader, stream, pc, msg, hand, calls, history>>

-----------------------------------------------------------------------------
(* is_aborted.  send_msg and recv_msg read the two flags one after the      *)
(* other; both only ever rise, so the outcome is that of one look at some   *)
(* instant in between.                                                      *)
Aborted(p) == aborted_locally[p] \/ aborted_by_remote[p]

InFlight(p) == Len(written[p]) - nread[Remote[p]]

(* A task that sent one of these waits for the Answer of its Resolver.      *)
AwaitsAnswer(m) == m \in {"deliver_and", "fetch", "fetch_symbol", "resolve_and"}

(* The handler of these is given a GenericResolver.                         *)
HasResolver(m) == m \in {"deliver", "deliver_and", "fetch_symbol"}

(* Mutant: a reply that is none of the operations recv_event knows.         *)
ReplyByListen(m, use) == "listen"

(* GenericResolver: a delivery to resolve_me, by fulfill_and one with a     *)
(* Resolver as in any deliver_and.                                          *)
ReplyTo(m, use) ==
    IF m = "deliver" THEN IF use = "fulfill_and" THEN "deliver_and" ELSE "answer"
    ELSE IF use = "fulfill_and" THEN "resolve_and" ELSE "resolve"

(* todo!(): every op:deliver-only to the bootstrap object, a fetch whose    *)
(* swiss number is no symbol, and every delivery to an object made by       *)
(* impl_object, as the session's own Resolver is.                           *)
Panics(m) == m \in {"gift", "fetch", "resolve", "resolve_and"}

Init ==
    /\ aborted_locally = [p \in Peers |-> FALSE]
    /\ aborted_by_remote = [p \in Peers |-> FALSE]
    /\ writer = [p \in Peers |-> NoTask]
    /\ reader = [p \in Peers |-> NoTask]
    /\ written = [p \in Peers |-> <<>>]
    /\ nread = [p \in Peers |-> 0]
    /\ pc = [t \in Task |-> "idle"]
    /\ msg = [t \in Task |-> "abort"]
    /\ hand = [t \in Task |-> 0]
    /\ calls = [t \in Task |-> 0]
    /\ done = [p \in Peers |-> {}]
    /\ lateSent = [t \in Task |-> 0]
    /\ lateDone = [t \in Task |-> 0]

-----------------------------------------------------------------------------
(* RemoteObject::deliver_only, deliver, deliver_and, the RemoteBootstrap    *)
(* calls and CapTpSession::abort: all of them go on to send_msg.            *)
Call(t, m) ==
    /\ t \in Callers
    /\ pc[t] = "idle"
    /\ calls[t] < MaxCalls
    /\ m \in Menu[PeerOf[t]]
    /\ calls' = [calls EXCEPT ![t] = @ + 1]
    /\ msg' = [msg EXCEPT ![t] = m]
    /\ pc' = [pc EXCEPT ![t] = "check"]
    /\ UNCHANGED <<flags, writer, reader, stream, hand, history>>

(* Mutant: abort returns the error of its send before it raises the flag.   *)
AfterSendTry(t, ok) ==
    IF ok /\ AwaitsAnswer(msg[t]) THEN "answer"
    ELSE CASE t \in Receivers -> "recv"
           [] t \in Callers /\ ok /\ msg[t] = "abort" -> "store"
           [] OTHER -> "idle"

(* Where a task goes on after send_msg: abort calls local_abort whatever    *)
(* the result, deliver_and waits for its answer unless the send failed,     *)
(* also inside a handler, whose receiver else goes back to the loop of      *)
(* recv_event.                                                              *)
AfterSend(t, ok) ==
    IF ok /\ AwaitsAnswer(msg[t]) THEN "answer"
    ELSE CASE t \in Receivers -> "recv"
           [] t \in Callers /\ msg[t] = "abort" -> "store"
           [] OTHER -> "idle"

(* Mutant: send_msg does not look at aborted_locally.                       *)
SendCheckRemoteOnly(t) ==
    /\ pc[t] = "check"
    /\ pc' = [pc EXCEPT ![t] =
          IF aborted_by_remote[PeerOf[t]] THEN AfterSend(t, FALSE) ELSE "lock"]
    /\ UNCHANGED <<flags, writer, reader, stream, msg, hand, calls, history>>

(* send_msg: the abort flags.                                               *)
SendCheck(t) ==
    /\ pc[t] = "check"
    /\ pc' = [pc EXCEPT ![t] = IF Aborted(PeerOf[t]) THEN AfterSend(t, FALSE) ELSE "lock"]
    /\ UNCHANGED <<flags, writer, reader, stream, msg, hand, calls, history>>

(* send_msg: self.writer.lock().await.                                      *)
LockWriter(t) ==
    /\ pc[t] = "lock"
    /\ writer[PeerOf[t]] = NoTask
    /\ writer' = [writer EXCEPT ![PeerOf[t]] = t]
    /\ pc' = [pc EXCEPT ![t] = "write"]
    /\ UNCHANGED <<flags, reader, stream, msg, hand, calls, history>>

(* send_msg: write_all, which waits while the connection is full, and the   *)
(* end of the guard.                                                        *)
Write(t) ==
    LET p == PeerOf[t] IN
    /\ pc[t] = "write"
    /\ InFlight(p) < WireCap
    /\ written' = [written EXCEPT ![p] = Append(@, msg[t])]
    /\ writer' = [writer EXCEPT ![p] = NoTask]
    /\ pc' = [pc EXCEPT ![t] = AfterSend(t, TRUE)]
    /\ lateSent' = [lateSent EXCEPT ![t] = IF Aborted(p) THEN @ + 1 ELSE @]
    /\ UNCHANGED <<flags, reader, nread, msg, hand, calls, done, lateDone>>

(* send_msg: write_all fails, and the error goes to the caller.  What of    *)
(* the message got out before is never completed: the remote does not see   *)
(* it.                                                                      *)
WriteFails(t) ==
    LET p == PeerOf[t] IN
    /\ WritesFail
    /\ pc[t] = "write"
    /\ writer' = [writer EXCEPT ![p] = NoTask]
    /\ pc' = [pc EXCEPT ![t] = AfterSend(t, FALSE)]
    /\ UNCHANGED <<flags, reader, stream, msg, hand, calls, history>>

(* abort: local_abort, after send_msg has returned.                         *)
LocalAbort(t) ==
    /\ pc[t] = "store"
    /\ aborted_locally' = [aborted_locally EXCEPT ![PeerOf[t]] = TRUE]
    /\ pc' = [pc EXCEPT ![t] = "idle"]
    /\ UNCHANGED <<aborted_by_remote, writer, reader, stream, msg, hand, calls, history>>

-----------------------------------------------------------------------------
(* The application calls recv_event, also after an error or Event::Abort:   *)
(* event_stream never ends.                                                 *)
RecvEvent(t) ==
    /\ t \in Receivers
    /\ pc[t] = "idle"
    /\ pc' = [pc EXCEPT ![t] = "recv"]
    /\ UNCHANGED <<flags, writer, reader, stream, msg, hand, calls, history>>

(* Mutant: recv_msg does not look at aborted_by_remote.                     *)
RecvCheckLocalOnly(t) ==
    /\ pc[t] = "recv"
    /\ pc' = [pc EXCEPT ![t] = IF aborted_locally[PeerOf[t]] THEN "idle" ELSE "rlock"]
    /\ UNCHANGED <<flags, writer, reader, stream, msg, hand, calls, history>>

(* recv_msg: the abort flags; an error ends recv_event.                     *)
RecvCheck(t) ==
    /\ pc[t] = "recv"
    /\ pc' = [pc EXCEPT ![t] = IF Aborted(PeerOf[t]) THEN "idle" ELSE "rlock"]
    /\ UNCHANGED <<flags, writer, reader, stream, msg, hand, calls, history>>

(* recv_msg: self.reader.lock().await.                                      *)
LockReader(t) ==
    /\ pc[t] = "rlock"
    /\ reader[PeerOf[t]] = NoTask
    /\ reader' = [reader EXCEPT ![PeerOf[t]] = t]
    /\ pc' = [pc EXCEPT ![t] = "read"]
    /\ UNCHANGED <<flags, writer, stream, msg, hand, calls, history>>

(* Mutant: the reader's guard lives on while the message is dispatched.     *)
ReadKeepingLock(t) ==
    LET p == PeerOf[t] IN
    /\ pc[t] = "read"
    /\ nread[p] < Len(written[Remote[p]])
    /\ nread' = [nread EXCEPT ![p] = @ + 1]
    /\ hand' = [hand EXCEPT ![t] = nread[p] + 1]
    /\ pc' = [pc EXCEPT ![t] = "dispatch"]
    /\ UNCHANGED <<flags, writer, reader, written, msg, calls, history>>

(* Mutant: the message is read (try_read_syrup) and not consumed.           *)
ReadWithoutConsuming(t) ==
    LET p == PeerOf[t] IN
    /\ pc[t] = "read"
    /\ nread[p] < Len(written[Remote[p]])
    /\ hand' = [hand EXCEPT ![t] = nread[p] + 1]
    /\ reader' = [reader EXCEPT ![p] = NoTask]
    /\ pc' = [pc EXCEPT ![t] = "dispatch"]
    /\ UNCHANGED <<flags, writer, stream, msg, calls, history>>

(* recv_msg: consume_syrup, decode and the end of the guard.                *)
Read(t) ==
    LET p == PeerOf[t] IN
    /\ pc[t] = "read"
    /\ nread[p] < Len(written[Remote[p]])
    /\ nread' = [nread EXCEPT ![p] = @ + 1]
    /\ hand' = [hand EXCEPT ![t] = nread[p] + 1]
    /\ reader' = [reader EXCEPT ![p] = NoTask]
    /\ pc' = [pc EXCEPT ![t] = "dispatch"]
    /\ UNCHANGED <<flags, writer, written, msg, calls, history>>

(* Mutant: the remote's abort is reported and not recorded.                 *)
RemoteAbortUnset(p) == UNCHANGED aborted_by_remote

(* set_remote_abort.                                                        *)
SetRemoteAbort(p) == aborted_by_remote' = [aborted_by_remote EXCEPT ![p] = TRUE]

(* The match of recv_event on the message in hand.                          *)
(*   op:abort: set_remote_abort, and recv_event returns Event::Abort.       *)
(*   a panic unwinds the receiver; no lock is held.                         *)
(*   unknown: recv_event returns UnknownTarget, or the error of a message   *)
(*   that is none of its operations.                                        *)
(*   otherwise the handler runs here; it, or the application to which       *)
(*   recv_event returns Event::Bootstrap for a fetch, may use the resolver  *)
(*   before reading goes on, and wait for the answer if it uses fulfill_and; *)
(*   the errors of handlers are only logged.                                *)
Dispatch(t) ==
    LET p == PeerOf[t]
        m == written[Remote[p]][hand[t]]
        Goto(next) == pc' = [pc EXCEPT ![t] = next]
    IN
    /\ pc[t] = "dispatch"
    /\ \/ /\ m = "abort"
          /\ SetRemoteAbort(p)
          /\ Goto("idle")
          /\ UNCHANGED msg
       \/ /\ Panics(m)
          /\ Goto("panicked")
          /\ UNCHANGED <<aborted_by_remote, msg>>
       \/ /\ m = "unknown"
          /\ Goto("idle")
          /\ UNCHANGED <<aborted_by_remote, msg>>
       \/ /\ m \in {"only", "answer"} \/ (HasResolver(m) /\ "drop" \in Replies)
          /\ Goto(IF m = "fetch_symbol" THEN "idle" ELSE "recv")
          /\ UNCHANGED <<aborted_by_remote, msg>>
       \/ /\ HasResolver(m)
          /\ \E use \in Replies \ {"drop"} : msg' = [msg EXCEPT ![t] = ReplyTo(m, use)]
          /\ Goto("check")
          /\ UNCHANGED aborted_by_remote
    /\ done' = [done EXCEPT ![p] = @ \cup {hand[t]}]
    /\ lateDone' = [lateDone EXCEPT ![t] = IF Aborted(p) THEN @ + 1 ELSE @]
    /\ UNCHANGED <<aborted_locally, writer, reader, stream, hand, calls, lateSent>>

-----------------------------------------------------------------------------
Next ==
    \/ \E t \in Callers, m \in Msgs : Call(t, m)
    \/ \E t \in Task : SendCheck(t) \/ LockWriter(t) \/ Write(t) \/ WriteFails(t)
    \/ \E t \in Callers : LocalAbort(t)
    \/ \E t \in Receivers :
          RecvEvent(t) \/ RecvCheck(t) \/ LockReader(t) \/ Read(t) \/ Dispatch(t)

Spec == Init /\ [][Next]_vars

(* The runtime polls every task that can go on, and the application keeps   *)
(* calling recv_event.  A caller need not call.  Nothing takes a task out   *)
(* of its wait for an answer: Resolver::resolve would, and no dispatch      *)
(* calls it.                                                                *)
Fairness ==
    /\ \A t \in Task : WF_vars(SendCheck(t)) /\ WF_vars(LockWriter(t)) /\ WF_vars(Write(t))
    /\ \A t \in Callers : WF_vars(LocalAbort(t))
    /\ \A t \in Receivers :
          /\ WF_vars(RecvEvent(t)) /\ WF_vars(RecvCheck(t)) /\ WF_vars(LockReader(t))
          /\ WF_vars(Read(t)) /\ WF_vars(Dispatch(t))

FairSpec == Spec /\ Fairness

-----------------------------------------------------------------------------
PcValues == {"idle", "check", "lock", "write", "store", "answer",
             "recv", "rlock", "read", "dispatch", "panicked"}

(* Type invariant: flags, mutexes, connections and tasks of the sessions.   *)
TypeOK ==
    /\ aborted_locally \in [Peers -> BOOLEAN]
    /\ aborted_by_remote \in [Peers -> BOOLEAN]
    /\ writer \in [Peers -> Task \cup {NoTask}]
    /\ reader \in [Peers -> Task \cup {NoTask}]
    /\ written \in [Peers -> Seq(Msgs)]
    /\ nread \in [Peers -> Nat]
    /\ pc \in [Task -> PcValues]
    /\ msg \in [Task -> Msgs]
    /\ hand \in [Task -> Nat]
    /\ calls \in [Task -> Nat]
    /\ done \in [Peers -> SUBSET Nat]
    /\ lateSent \in [Task -> Nat]
    /\ lateDone \in [Task -> Nat]

(* Past the abort check of send_msg, and of recv_msg.                       *)
Sending(t) == pc[t] \in {"lock", "write"}
Receiving(t) == pc[t] \in {"rlock", "read", "dispatch"}

(* The last call of a caller was abort, and it has returned.                *)
AbortReturned(t) == calls[t] > 0 /\ msg[t] = "abort" /\ pc[t] = "idle"

(* A receiver of the peer that has read a message and not dispatched it.    *)
InHandOf(r, p) == PeerOf[r] = p /\ pc[r] = "dispatch"

(* An aborted session falls silent: whoever aborted it, and however many    *)
(* sends were past send_msg's check or queued at the writer when the flag   *)
(* rose, no task gets more than that one message out, so what a remote can  *)
(* still receive is bounded by the number of tasks.  And abort returns only *)
(* once the session is aborted locally, also when its op:abort was refused, *)
(* because another abort came first, or could not be written.               *)
SilentAfterAbort ==
    /\ \A t \in Task : lateSent[t] + (IF Aborted(PeerOf[t]) /\ Sending(t) THEN 1 ELSE 0) <= 1
    /\ \A t \in Callers : AbortReturned(t) => aborted_locally[PeerOf[t]]

(* No receiver dispatches more than one message once its session is         *)
(* aborted, and when it was the remote that aborted it, the receiver that   *)
(* saw op:abort dispatches none: with one receiver a message that follows   *)
(* op:abort on the connection is never acted upon.                          *)
DeafAfterAbort ==
    /\ \A t \in Receivers : lateDone[t] <= 1
    /\ \A p \in Peers : aborted_by_remote[p] /\ ~aborted_locally[p] =>
          \E r \in Receivers : PeerOf[r] = p /\ lateDone[r] = 0 /\ ~Receiving(r)

(* Messages are dispatched in the order in which they were written, each    *)
(* once, except that they may overtake what another receiver of the same    *)
(* peer has read and not dispatched yet; with one receiver the order is     *)
(* exact, which is what CapTP deliveries rely on.                           *)
InOrder ==
    \A p \in Peers :
        /\ \A i \in done[p], j \in 1..nread[p] :
              j < i => \/ j \in done[p]
                       \/ \E r \in Receivers : InHandOf(r, p) /\ hand[r] = j
        /\ \A r \in Receivers : InHandOf(r, p) =>
              /\ hand[r] \notin done[p]
              /\ \A u \in Receivers \ {r} : InHandOf(u, p) => hand[u] # hand[r]

(* A mutex is held exactly by the task that is inside its guard.            *)
LocksOwned ==
    \A t \in Task :
        /\ pc[t] = "write" <=> writer[PeerOf[t]] = t
        /\ pc[t] = "read" <=> reader[PeerOf[t]] = t

(* Everything a peer has read is dispatched or in one receiver's hand.      *)
Accounted ==
    \A p \in Peers :
        /\ nread[p] <= Len(written[Remote[p]])
        /\ done[p] \subseteq 1..nread[p]
        /\ \A r \in Receivers : InHandOf(r, p) => hand[r] \in 1..nread[p]
        /\ \A j \in 1..nread[p] :
              j \in done[p] \/ \E r \in Receivers : InHandOf(r, p) /\ hand[r] = j

(* Nothing is late before the abort, and a receiver past its check has      *)
(* dispatched nothing late yet.                                             *)
LateCounted ==
    /\ \A t \in Task : ~Aborted(PeerOf[t]) => lateSent[t] = 0 /\ lateDone[t] = 0
    /\ \A t \in Task : Receiving(t) => lateDone[t] = 0

(* The inductive invariant of SessionProofs: what the safety properties     *)
(* need to be preserved by every step of every task.                        *)
Inv ==
    /\ TypeOK
    /\ LocksOwned
    /\ Accounted
    /\ LateCounted
    /\ SilentAfterAbort
    /\ DeafAfterAbort
    /\ InOrder

-----------------------------------------------------------------------------
(* No receiver of a peer will read again before one of its sends is done:   *)
(* each is dead, is replying, waits in a handler for the answer to its      *)
(* reply, or finds its session aborted.                                     *)
NotReading(p) ==
    \A r \in Receivers : PeerOf[r] = p =>
        \/ pc[r] \in {"panicked", "answer"}
        \/ Sending(r)
        \/ Aborted(p) /\ pc[r] \in {"idle", "recv"}

Jammed(p) == InFlight(p) >= WireCap /\ NotReading(Remote[p])

(* Every send returns, the ones queued at the writer included, unless the   *)
(* connection is full for good: the remote's receivers are gone, aborted,   *)
(* themselves wait to send a reply (two ends whose handlers reply into full *)
(* connections wait for each other), or wait in a handler for an answer     *)
(* that only they could read (fulfill_and awaited in deliver).  As long as  *)
(* handlers come to an end otherwise, nothing else holds a send up.         *)
SendsComplete ==
    \A t \in Task : [](Sending(t) => <>(~Sending(t) \/ []Jammed(PeerOf[t])))

(* An op:abort that was written is heard: the remote session becomes        *)
(* aborted unless its receivers stop reading for good before they get to    *)
(* it, in one of the same ways.                                             *)
AbortHeard ==
    \A p \in Peers :
        []((\E i \in DOMAIN written[p] : written[p][i] = "abort")
              => <>(Aborted(Remote[p]) \/ []NotReading(Remote[p])))

(* README: promises can be fulfilled and the bootstrap object's fetch is    *)
(* implemented.  A caller of deliver_and or of RemoteBootstrap::fetch whose *)
(* message reaches an object that always replies gets its answer.           *)
(* (It gets none: see Panics, and Fairness on what would end its wait.)     *)
AnswersArrive == \A t \in Callers : pc[t] = "answer" ~> pc[t] # "answer"

=============================================================================
