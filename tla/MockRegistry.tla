----------------------------- MODULE MockRegistry -----------------------------
(***************************************************************************)
(* The process-wide registry of the mock netlayer, seen through one name.  *)
(*                                                                         *)
(* Code: MOCK_REGISTRY, MockNetlayer::bind, close, connect and accept      *)
(* (rexa-netlayer-mock/src/lib.rs).                                        *)
(*                                                                         *)
(* An entry of the registry holds a Weak reference to the node bound to    *)
(* the name and the only sender of the node's queue of connect requests.   *)
(* Each use of the registry locks it for one expression, so a clean-up     *)
(* decided on under one lock is done under another, and removes whatever   *)
(* entry the name has by then.  Different names never meet.                *)
(*                                                                         *)
(* A request is the connect call that waits on its oneshot channel; the    *)
(* handshake that follows is the module Handshake.                         *)
(***************************************************************************)
EXTENDS Naturals, Sequences, FiniteSets, SequencesExt

CONSTANTS
    Nodes,     \* the MockNetlayers that may come to be bound to the name
    NoNode,    \* no entry; nothing held
    Owners,    \* application tasks that bind, each holds at most one Arc
    Conns      \* tasks that call connect

ASSUME NodeAssumption == NoNode \notin Nodes

VARIABLES
    entry,      \* the node whose Weak and sender the registry lists
    life,       \* unborn, bound (some Arc is held), closing (unwrapped, close
                \* has yet to lock the registry), dying (no Arc, receiver not
                \* dropped yet), dead
    holds,      \* the node an owner holds an Arc of
    accepting,  \* idle, recv (an accept call waits), panicked
    queue,      \* connect_recv: the connect calls queued at a node
    pc,         \* where a connect call is, or how its oneshot ended
    overtaken   \* history: nodes bound while a removal by name was pending

vars == <<entry, life, holds, accepting, queue, pc, overtaken>>

-----------------------------------------------------------------------------
Init ==
    /\ entry = NoNode
    /\ life = [n \in Nodes |-> "unborn"]
    /\ holds = [o \in Owners |-> NoNode]
    /\ accepting = [n \in Nodes |-> "idle"]
    /\ queue = [n \in Nodes |-> <<>>]
    /\ pc = [c \in Conns |-> "idle"]
    /\ overtaken = {}

(* Some clean-up will remove the entry of the name, whatever it is: a       *)
(* connect whose send failed, a close, or the close of a node that is bound *)
(* to the name and not listed.                                              *)
RemovalPending ==
    \/ \E c \in Conns : pc[c] = "clean"
    \/ \E n \in Nodes : life[n] \in {"bound", "closing"}

(* Mutant: bind never looks for an existing node.                           *)
NeverUpgrades == FALSE

(* Weak::upgrade of the entry.                                              *)
Upgrades == entry # NoNode /\ life[entry] = "bound"

(* bind: the node that is listed if it is still alive, else a new one, in   *)
(* place of the entry the name may have.                                    *)
Bind(o) ==
    /\ holds[o] = NoNode
    /\ IF Upgrades
       THEN /\ holds' = [holds EXCEPT ![o] = entry]
            /\ UNCHANGED <<entry, life, overtaken>>
       ELSE \E n \in Nodes :
            /\ life[n] = "unborn"
            /\ life' = [life EXCEPT ![n] = "bound"]
            /\ entry' = n
            /\ holds' = [holds EXCEPT ![o] = n]
            /\ overtaken' = IF RemovalPending THEN overtaken \cup {n} ELSE overtaken
    /\ UNCHANGED <<accepting, queue, pc>>

(* The last Arc: nobody else holds one, and no accept borrows the node.     *)
SoleHolder(o) ==
    /\ holds[o] # NoNode
    /\ \A x \in Owners \ {o} : holds[x] # holds[o]
    /\ accepting[holds[o]] # "recv"

(* An owner drops its Arc; the node goes with the last one, but its         *)
(* receiver lives until drop gets to it.                                    *)
Release(o) ==
    /\ holds[o] # NoNode
    /\ accepting[holds[o]] # "recv"
    /\ life' = IF SoleHolder(o) THEN [life EXCEPT ![holds[o]] = "dying"] ELSE life
    /\ holds' = [holds EXCEPT ![o] = NoNode]
    /\ UNCHANGED <<entry, accepting, queue, pc, overtaken>>

(* close takes the node by value: its caller has unwrapped the last Arc.    *)
Close(o) ==
    /\ SoleHolder(o)
    /\ life' = [life EXCEPT ![holds[o]] = "closing"]
    /\ holds' = [holds EXCEPT ![o] = NoNode]
    /\ UNCHANGED <<entry, accepting, queue, pc, overtaken>>

(* close: the entry of the name is removed, and self dropped after it.      *)
CloseRemove(n) ==
    /\ life[n] = "closing"
    /\ life' = [life EXCEPT ![n] = "dying"]
    /\ entry' = NoNode
    /\ UNCHANGED <<holds, accepting, queue, pc, overtaken>>

(* Mutant: the requests outlive the receiver they were queued at.           *)
DropReceiverOnly(n) ==
    /\ life[n] = "dying"
    /\ life' = [life EXCEPT ![n] = "dead"]
    /\ UNCHANGED <<entry, holds, accepting, queue, pc, overtaken>>

(* Drop of connect_recv: the oneshot senders in it are dropped, and the     *)
(* connect calls behind them return RecvError.                              *)
DropReceiver(n) ==
    /\ life[n] = "dying"
    /\ life' = [life EXCEPT ![n] = "dead"]
    /\ queue' = [queue EXCEPT ![n] = <<>>]
    /\ pc' = [c \in Conns |->
                IF c \in ToSet(queue[n]) /\ pc[c] = "waiting" THEN "recv_error" ELSE pc[c]]
    /\ UNCHANGED <<entry, holds, accepting, overtaken>>

-----------------------------------------------------------------------------
Ended == {"idle", "connected", "not_found", "recv_error", "gave_up"}

(* The oneshot sender of this call is still in some queue.                  *)
Queued(c) == \E n \in Nodes : c \in ToSet(queue[n])

(* Mutant: connect takes the entry out of the registry to send on it.       *)
ConnectTakesEntry(c) ==
    /\ pc[c] \in Ended /\ ~Queued(c)
    /\ entry # NoNode /\ life[entry] # "dead"
    /\ pc' = [pc EXCEPT ![c] = "waiting"]
    /\ queue' = [queue EXCEPT ![entry] = Append(@, c)]
    /\ entry' = NoNode
    /\ UNCHANGED <<life, holds, accepting, overtaken>>

(* connect, under the read lock: NotFound without an entry; a request is    *)
(* queued while the receiver lives; else the name is to be cleaned up.      *)
Connect(c) ==
    /\ pc[c] \in Ended /\ ~Queued(c)
    /\ \/ /\ entry = NoNode
          /\ pc' = [pc EXCEPT ![c] = "not_found"]
          /\ UNCHANGED queue
       \/ /\ entry # NoNode /\ life[entry] # "dead"
          /\ pc' = [pc EXCEPT ![c] = "waiting"]
          /\ queue' = [queue EXCEPT ![entry] = Append(@, c)]
       \/ /\ entry # NoNode /\ life[entry] = "dead"
          /\ pc' = [pc EXCEPT ![c] = "clean"]
          /\ UNCHANGED queue
    /\ UNCHANGED <<entry, life, holds, accepting, overtaken>>

(* Mutant: the failed send is reported as the error it is.                  *)
CleanReceiverDropped(c) ==
    /\ pc[c] = "clean"
    /\ entry' = NoNode
    /\ pc' = [pc EXCEPT ![c] = "receiver_dropped"]
    /\ UNCHANGED <<life, holds, accepting, queue, overtaken>>

(* connect, after a failed send: the entry of the name is removed.          *)
Clean(c) ==
    /\ pc[c] = "clean"
    /\ entry' = NoNode
    /\ pc' = [pc EXCEPT ![c] = "not_found"]
    /\ UNCHANGED <<life, holds, accepting, queue, overtaken>>

(* The application drops the future of a connect call that waits; its       *)
(* request stays queued.                                                    *)
GiveUp(c) ==
    /\ pc[c] = "waiting"
    /\ pc' = [pc EXCEPT ![c] = "gave_up"]
    /\ UNCHANGED <<entry, life, holds, accepting, queue, overtaken>>

-----------------------------------------------------------------------------
(* The application calls accept on a node it holds.                         *)
Accept(n) ==
    /\ life[n] = "bound" /\ accepting[n] = "idle"
    /\ accepting' = [accepting EXCEPT ![n] = "recv"]
    /\ UNCHANGED <<entry, life, holds, queue, pc, overtaken>>

(* Mutant: accept takes the request and does not answer it.                 *)
AcceptedUnanswered(n) ==
    /\ accepting[n] = "recv" /\ queue[n] # <<>>
    /\ queue' = [queue EXCEPT ![n] = Tail(@)]
    /\ accepting' = [accepting EXCEPT ![n] = "idle"]
    /\ UNCHANGED <<entry, life, holds, pc, overtaken>>

(* accept: a request is taken off the queue and answered with a pair of     *)
(* streams; Error::Accept if its connect call has been given up.            *)
Accepted(n) ==
    LET c == Head(queue[n]) IN
    /\ accepting[n] = "recv" /\ queue[n] # <<>>
    /\ queue' = [queue EXCEPT ![n] = Tail(@)]
    /\ accepting' = [accepting EXCEPT ![n] = "idle"]
    /\ pc' = IF pc[c] = "waiting" THEN [pc EXCEPT ![c] = "connected"] ELSE pc
    /\ UNCHANGED <<entry, life, holds, overtaken>>

(* accept: recv returns None once the queue is empty and its only sender,   *)
(* the one in the registry, is gone; unwrap panics.                         *)
AcceptPanics(n) ==
    /\ accepting[n] = "recv" /\ queue[n] = <<>>
    /\ entry # n
    /\ accepting' = [accepting EXCEPT ![n] = "panicked"]
    /\ UNCHANGED <<entry, life, holds, queue, pc, overtaken>>

Next ==
    \/ \E o \in Owners : Bind(o) \/ Release(o) \/ Close(o)
    \/ \E n \in Nodes : CloseRemove(n) \/ DropReceiver(n)
                        \/ Accept(n) \/ Accepted(n) \/ AcceptPanics(n)
    \/ \E c \in Conns : Connect(c) \/ Clean(c) \/ GiveUp(c)

Spec == Init /\ [][Next]_vars

(* Threads that have begun to drop, close or clean up finish; the           *)
(* application keeps calling accept on the nodes it holds.                  *)
Fairness ==
    /\ \A n \in Nodes :
          /\ WF_vars(CloseRemove(n)) /\ WF_vars(DropReceiver(n))
          /\ WF_vars(Accept(n)) /\ WF_vars(Accepted(n))
    /\ \A c \in Conns : WF_vars(Clean(c))

FairSpec == Spec /\ Fairness

-----------------------------------------------------------------------------
LifeValues == {"unborn", "bound", "closing", "dying", "dead"}

(* Type invariant of the registry, the nodes and the calls on them.         *)
TypeOK ==
    /\ entry \in Nodes \cup {NoNode}
    /\ life \in [Nodes -> LifeValues]
    /\ holds \in [Owners -> Nodes \cup {NoNode}]
    /\ accepting \in [Nodes -> {"idle", "recv", "panicked"}]
    /\ queue \in [Nodes -> Seq(Conns)]
    /\ pc \in [Conns -> Ended \cup {"clean", "waiting"}]
    /\ overtaken \subseteq Nodes

(* A node that was bound when no removal was pending stays the one node of  *)
(* its name, and listed, for as long as anyone holds it: only a clean-up or *)
(* a close that a bind has overtaken (lib.rs:79, :110) takes the entry of a *)
(* live node away, and with it bind's promise of one node to a name.        *)
OneNode ==
    \A n \in Nodes : life[n] = "bound" /\ n \notin overtaken =>
        /\ entry = n
        /\ \A m \in Nodes \ {n} : life[m] # "bound"

(* The unwrap in accept (lib.rs:128) panics only on a node whose entry was  *)
(* taken away like that: not because its peers went away, nor because the   *)
(* name was bound again.                                                    *)
AcceptUnwraps == \A n \in Nodes : accepting[n] = "panicked" => n \in overtaken

(* Every owner that holds a node finds its receiver alive, and a request    *)
(* that waits is queued at exactly one node, whose receiver is alive: the   *)
(* end of a node strands no connect call.                                   *)
NoneStranded ==
    /\ \A o \in Owners : holds[o] # NoNode => life[holds[o]] = "bound"
    /\ \A c \in Conns : pc[c] = "waiting" =>
          \E n \in Nodes :
             /\ c \in ToSet(queue[n]) /\ life[n] \notin {"unborn", "dead"}
             /\ \A m \in Nodes \ {n} : c \notin ToSet(queue[m])

(* A connect call that waits gets an answer (lib.rs:114): it is accepted,   *)
(* or its node goes away and it returns RecvError.                          *)
ConnectEnds == \A c \in Conns : pc[c] = "waiting" ~> pc[c] # "waiting"

=============================================================================
