------------------------------ MODULE Handshake ------------------------------
(***************************************************************************)
(* How netlayers open sessions: connect, accept, and the exchange of       *)
(* op:start-session that ends with a session in the session manager.       *)
(*                                                                         *)
(* Code: CapTpSessionBuilder (session/builder.rs), CapTpSessionManager     *)
(* (session/manager.rs) and the Netlayer implementations of                *)
(* rexa-netlayer-datastream, rexa-netlayer-mock and rexa-netlayer-onion.   *)
(*                                                                         *)
(* A node has one session manager behind an async RwLock.  connect looks   *)
(* for a session under the designator of its target with the read lock,    *)
(* lets go of it and opens a connection; connect and accept then take the  *)
(* write lock and keep it while they send and await op:start-session.      *)
(***************************************************************************)
EXTENDS Integers, FiniteSets

CONSTANTS
    Nodes,
    Connectors,         \* tasks that call connect
    Acceptors,          \* tasks that call accept in a loop (Netlayer::stream)
    NodeOf,             \* the node a task runs on
    Targets,            \* the nodes a connector may connect to
    Designator,         \* the designator in a node's locator
    Version,            \* the CAPTP_VERSION a node was built with
    Netlayers,          \* netlayers the nodes may use: all of them use one
    NoTask, NoSession,
    MaxDials            \* bound: connections each connector opens

Task == Connectors \cup Acceptors
Designators == {Designator[n] : n \in Nodes}

(* A connection: who opened it, to which node, and a serial number.         *)
Conns == [by : Connectors, to : Nodes, k : 1..MaxDials]

(* A session object: one end of a connection.                               *)
Ends == {"connector", "acceptor"}
Sessions == Conns \X Ends

ASSUME HandshakeAssumption ==
    /\ Connectors \cap Acceptors = {}
    /\ NodeOf \in [Task -> Nodes]
    /\ Targets \in [Connectors -> SUBSET Nodes]
    /\ DOMAIN Designator = Nodes
    /\ Netlayers \subseteq {"datastream", "mock", "onion"}
    /\ NoTask \notin Task
    /\ NoSession \notin Sessions
    /\ MaxDials \in Nat

VARIABLES
    net,        \* the netlayer
    sessions,   \* CapTpSessionManager.sessions of each node
    manager,    \* task that holds the write lock of a node's manager
    backlog,    \* connections a node has not accepted yet
    started,    \* ends that have sent op:start-session
    closed,     \* ends that gave up, which drops the connection
    pc,         \* where each task is
    conn,       \* session a task is setting up
    want,       \* node a connector was asked to connect to
    dials,      \* connections a connector has opened
    result,     \* session connect returned
    aborted     \* sessions that were aborted

vars == <<net, sessions, manager, backlog, started, closed, pc, conn, want, dials,
          result, aborted>>

-----------------------------------------------------------------------------
(* The node at the far end of a session.                                    *)
RemoteNode(s) == IF s[2] = "connector" THEN s[1].to ELSE NodeOf[s[1].by]

FarEnd(s) == <<s[1], IF s[2] = "connector" THEN "acceptor" ELSE "connector">>

(* connect asks the manager for a session first.                            *)
CachesSessions == net # "onion"

(* Connecting waits for the other node's accept.                            *)
DialWaits == net # "datastream"

(* Mutant: nobody speaks first.                                             *)
NobodyFirst(t) == FALSE

(* and_connect sends before it receives, and_accept the other way round;    *)
(* the mock netlayer's accept uses and_connect.                             *)
SendsFirst(t) == t \in Connectors \/ net = "mock"

Init ==
    /\ net \in Netlayers
    /\ sessions = [n \in Nodes |-> [d \in Designators |-> NoSession]]
    /\ manager = [n \in Nodes |-> NoTask]
    /\ backlog = [n \in Nodes |-> {}]
    /\ started = {}
    /\ closed = {}
    /\ pc = [t \in Task |-> "idle"]
    /\ conn = [t \in Task |-> NoSession]
    /\ want = [t \in Connectors |-> NodeOf[t]]
    /\ dials = [t \in Connectors |-> 0]
    /\ result = [t \in Connectors |-> NoSession]
    /\ aborted = {}

-----------------------------------------------------------------------------
(* Netlayer::connect is called.                                             *)
Connect(t, n) ==
    /\ pc[t] = "idle"
    /\ dials[t] < MaxDials
    /\ want' = [want EXCEPT ![t] = n]
    /\ result' = [result EXCEPT ![t] = NoSession]
    /\ pc' = [pc EXCEPT ![t] = IF CachesSessions THEN "lookup" ELSE "dial"]
    /\ UNCHANGED <<net, sessions, manager, backlog, started, closed, conn, dials, aborted>>

(* manager.read().await.get(&locator.designator): a session that is there   *)
(* is returned, whatever its state.                                         *)
Lookup(t) ==
    LET found == sessions[NodeOf[t]][Designator[want[t]]] IN
    /\ pc[t] = "lookup"
    /\ manager[NodeOf[t]] = NoTask
    /\ \/ /\ found # NoSession
          /\ result' = [result EXCEPT ![t] = found]
          /\ pc' = [pc EXCEPT ![t] = "idle"]
       \/ /\ found = NoSession
          /\ pc' = [pc EXCEPT ![t] = "dial"]
          /\ UNCHANGED result
    /\ UNCHANGED <<net, sessions, manager, backlog, started, closed, conn, want, dials, aborted>>

(* Mutant: serial numbers from zero.                                        *)
DialFromZero(t) ==
    LET c == [by |-> t, to |-> want[t], k |-> dials[t]] IN
    /\ pc[t] = "dial"
    /\ dials' = [dials EXCEPT ![t] = @ + 1]
    /\ conn' = [conn EXCEPT ![t] = <<c, "connector">>]
    /\ backlog' = [backlog EXCEPT ![want[t]] = @ \cup {c}]
    /\ pc' = [pc EXCEPT ![t] = IF DialWaits THEN "dialing" ELSE "lock"]
    /\ UNCHANGED <<net, sessions, manager, started, closed, want, result, aborted>>

(* The connection is opened: a stream socket is connected as soon as it is  *)
(* in the listener's backlog.                                               *)
Dial(t) ==
    LET c == [by |-> t, to |-> want[t], k |-> dials[t] + 1] IN
    /\ pc[t] = "dial"
    /\ dials' = [dials EXCEPT ![t] = @ + 1]
    /\ conn' = [conn EXCEPT ![t] = <<c, "connector">>]
    /\ backlog' = [backlog EXCEPT ![want[t]] = @ \cup {c}]
    /\ pc' = [pc EXCEPT ![t] = IF DialWaits THEN "dialing" ELSE "lock"]
    /\ UNCHANGED <<net, sessions, manager, started, closed, want, result, aborted>>

(* ... or it cannot be: an I/O error, or NotFound.                          *)
DialFails(t) ==
    /\ pc[t] = "dial"
    /\ dials' = [dials EXCEPT ![t] = @ + 1]
    /\ pc' = [pc EXCEPT ![t] = "idle"]
    /\ UNCHANGED <<net, sessions, manager, backlog, started, closed, conn, want, result, aborted>>

(* stream_recv.await of the mock, client.connect of the onion netlayer.     *)
Dialed(t) ==
    /\ pc[t] = "dialing"
    /\ conn[t][1] \notin backlog[want[t]]
    /\ pc' = [pc EXCEPT ![t] = "lock"]
    /\ UNCHANGED <<net, sessions, manager, backlog, started, closed, conn, want, dials, result, aborted>>

(* Netlayer::accept takes one of the connections that wait.                 *)
Accept(t, c) ==
    /\ pc[t] = "idle"
    /\ c \in backlog[NodeOf[t]]
    /\ backlog' = [backlog EXCEPT ![NodeOf[t]] = @ \ {c}]
    /\ conn' = [conn EXCEPT ![t] = <<c, "acceptor">>]
    /\ pc' = [pc EXCEPT ![t] = "lock"]
    /\ UNCHANGED <<net, sessions, manager, started, closed, want, dials, result, aborted>>

-----------------------------------------------------------------------------
(* manager.write().await, then init_session.                                *)
LockManager(t) ==
    /\ pc[t] = "lock"
    /\ manager[NodeOf[t]] = NoTask
    /\ manager' = [manager EXCEPT ![NodeOf[t]] = t]
    /\ pc' = [pc EXCEPT ![t] = IF SendsFirst(t) THEN "send" ELSE "recv"]
    /\ UNCHANGED <<net, sessions, backlog, started, closed, conn, want, dials, result, aborted>>

(* The op:start-session of this end.                                        *)
SendStart(t) ==
    /\ pc[t] = "send"
    /\ started' = started \cup {conn[t]}
    /\ pc' = [pc EXCEPT ![t] = IF SendsFirst(t) THEN "recv" ELSE "finalize"]
    /\ UNCHANGED <<net, sessions, manager, backlog, closed, conn, want, dials, result, aborted>>

(* Mutant: the version in the message is not looked at.                     *)
RecvStartAnyVersion(t) ==
    /\ pc[t] = "recv"
    /\ FarEnd(conn[t]) \in started
    /\ pc' = [pc EXCEPT ![t] = IF SendsFirst(t) THEN "finalize" ELSE "send"]
    /\ UNCHANGED <<net, sessions, manager, backlog, started, closed, conn, want, dials,
                   result, aborted>>

(* recv_start_session: the other end's message, which must have our         *)
(* version.  An error drops the builder: the write lock and the connection. *)
(* consume_syrup never returns on a connection that was closed.             *)
RecvStart(t) ==
    /\ pc[t] = "recv"
    /\ FarEnd(conn[t]) \in started
    /\ \/ /\ Version[RemoteNode(conn[t])] = Version[NodeOf[t]]
          /\ pc' = [pc EXCEPT ![t] = IF SendsFirst(t) THEN "finalize" ELSE "send"]
          /\ UNCHANGED <<manager, closed>>
       \/ /\ Version[RemoteNode(conn[t])] # Version[NodeOf[t]]
          /\ pc' = [pc EXCEPT ![t] = "idle"]
          /\ manager' = [manager EXCEPT ![NodeOf[t]] = NoTask]
          /\ closed' = closed \cup {conn[t]}
    /\ UNCHANGED <<net, sessions, backlog, started, conn, want, dials, result, aborted>>

(* An I/O error, a message that is no op:start-session or one whose         *)
(* signature is wrong ends the exchange in the same way.                    *)
HandshakeFails(t) ==
    /\ pc[t] \in {"send", "recv"}
    /\ pc' = [pc EXCEPT ![t] = "idle"]
    /\ manager' = [manager EXCEPT ![NodeOf[t]] = NoTask]
    /\ closed' = closed \cup {conn[t]}
    /\ UNCHANGED <<net, sessions, backlog, started, conn, want, dials, result, aborted>>

(* Mutant: registered under the local locator's designator.                 *)
FinalizeLocal(t) ==
    LET n == NodeOf[t] IN
    /\ pc[t] = "finalize"
    /\ sessions' = [sessions EXCEPT ![n][Designator[n]] = conn[t]]
    /\ manager' = [manager EXCEPT ![n] = NoTask]
    /\ pc' = [pc EXCEPT ![t] = "idle"]
    /\ result' = [u \in Connectors |-> IF u = t THEN conn[t] ELSE result[u]]
    /\ UNCHANGED <<net, backlog, started, closed, conn, want, dials, aborted>>

(* finalize_session: the session replaces whatever was registered under the *)
(* designator in the remote's locator, and is returned.                     *)
Finalize(t) ==
    LET n == NodeOf[t]
        d == Designator[RemoteNode(conn[t])]
    IN
    /\ pc[t] = "finalize"
    /\ sessions' = [sessions EXCEPT ![n][d] = conn[t]]
    /\ manager' = [manager EXCEPT ![n] = NoTask]
    /\ pc' = [pc EXCEPT ![t] = "idle"]
    /\ result' = [u \in Connectors |-> IF u = t THEN conn[t] ELSE result[u]]
    /\ UNCHANGED <<net, backlog, started, closed, conn, want, dials, aborted>>

(* A registered session is aborted, by either side; the manager is not told.*)
Abort(n, d) ==
    /\ sessions[n][d] # NoSession
    /\ sessions[n][d] \notin aborted
    /\ aborted' = aborted \cup {sessions[n][d]}
    /\ UNCHANGED <<net, sessions, manager, backlog, started, closed, pc, conn, want, dials, result>>

-----------------------------------------------------------------------------
Next ==
    \/ \E t \in Connectors :
          \/ \E n \in Targets[t] : Connect(t, n)
          \/ Lookup(t) \/ Dial(t) \/ DialFails(t) \/ Dialed(t)
    \/ \E t \in Acceptors : \E c \in backlog[NodeOf[t]] : Accept(t, c)
    \/ \E t \in Task :
          LockManager(t) \/ SendStart(t) \/ RecvStart(t) \/ HandshakeFails(t) \/ Finalize(t)
    \/ \E n \in Nodes, d \in Designators : Abort(n, d)

Spec == Init /\ [][Next]_vars

(* The runtime polls every task that can go on, and acceptors keep          *)
(* accepting.                                                               *)
Fairness ==
    /\ \A t \in Connectors : WF_vars(Lookup(t)) /\ WF_vars(Dial(t)) /\ WF_vars(Dialed(t))
    /\ \A t \in Acceptors : WF_vars(\E c \in backlog[NodeOf[t]] : Accept(t, c))
    /\ \A t \in Task :
          /\ WF_vars(LockManager(t)) /\ WF_vars(SendStart(t))
          /\ WF_vars(RecvStart(t)) /\ WF_vars(Finalize(t))

FairSpec == Spec /\ Fairness

-----------------------------------------------------------------------------
PcValues == {"idle", "lookup", "dial", "dialing", "lock", "send", "recv", "finalize"}

(* Type invariant: managers, connections and tasks of the nodes.            *)
TypeOK ==
    /\ net \in Netlayers
    /\ sessions \in [Nodes -> [Designators -> Sessions \cup {NoSession}]]
    /\ manager \in [Nodes -> Task \cup {NoTask}]
    /\ backlog \in [Nodes -> SUBSET Conns]
    /\ started \subseteq Sessions
    /\ closed \subseteq Sessions
    /\ pc \in [Task -> PcValues]
    /\ conn \in [Task -> Sessions \cup {NoSession}]
    /\ want \in [Connectors -> Nodes]
    /\ dials \in [Connectors -> 0..MaxDials]
    /\ result \in [Connectors -> Sessions \cup {NoSession}]
    /\ aborted \subseteq Sessions

Handshaking(t) == pc[t] \in {"lock", "send", "recv", "finalize"}

(* locator.rs: the designator "distinguishes the target node from other     *)
(* nodes".  connect returns a session with the node it was asked for, be it *)
(* a new one or one that another connect or an accept registered meanwhile. *)
ConnectReachesTarget ==
    \A t \in Connectors : result[t] # NoSession => RemoteNode(result[t]) = want[t]

(* A session comes out of an exchange: both ends of a registered session    *)
(* have sent op:start-session, both nodes speak the same version, and no    *)
(* connection is registered at a node that is not one of its ends.          *)
RegisteredBothStarted ==
    \A n \in Nodes, d \in Designators :
        LET s == sessions[n][d] IN
        s # NoSession =>
            /\ s \in started /\ FarEnd(s) \in started
            /\ RemoteNode(FarEnd(s)) = n
            /\ Version[RemoteNode(s)] = Version[n]

(* netlayer.rs: connect opens a new connection.  The session it returns is  *)
(* not one that was aborted before.                                         *)
ConnectUsable ==
    [][\A t \in Connectors :
          result'[t] # result[t] /\ result'[t] # NoSession => result'[t] \notin aborted]_vars

(* No two nodes have one designator: the mock, unix and onion netlayers.    *)
UniqueDesignators == \A m, n \in Nodes : Designator[m] = Designator[n] => m = n

(* A task sets up a session between its own node and, if it connects, the   *)
(* node it was asked for.                                                   *)
ConnOwned ==
    \A t \in Task : Handshaking(t) \/ pc[t] = "dialing" =>
        /\ conn[t] \in Sessions
        /\ RemoteNode(FarEnd(conn[t])) = NodeOf[t]
        /\ t \in Connectors => RemoteNode(conn[t]) = want[t]

(* A connector that is about to dial may.                                   *)
DialsLeft == \A t \in Connectors : pc[t] \in {"lookup", "dial"} => dials[t] < MaxDials

BacklogLocal == \A n \in Nodes : \A c \in backlog[n] : c.to = n

(* What a task knows about the exchange at each point of it.                *)
Met(t) ==
    /\ FarEnd(conn[t]) \in started
    /\ Version[RemoteNode(conn[t])] = Version[NodeOf[t]]

HalfWay ==
    \A t \in Task :
        /\ pc[t] = "recv" /\ SendsFirst(t) => conn[t] \in started
        /\ pc[t] = "send" /\ ~SendsFirst(t) => Met(t)
        /\ pc[t] = "finalize" => Met(t) /\ conn[t] \in started

FiledUnderRemote ==
    \A n \in Nodes, d \in Designators :
        sessions[n][d] # NoSession => Designator[RemoteNode(sessions[n][d])] = d

(* The inductive invariant of HandshakeProofs.                              *)
Inv ==
    /\ TypeOK
    /\ ConnOwned
    /\ DialsLeft
    /\ BacklogLocal
    /\ HalfWay
    /\ FiledUnderRemote
    /\ RegisteredBothStarted
    /\ UniqueDesignators => ConnectReachesTarget

-----------------------------------------------------------------------------
(* The holder of n's manager waits for an op:start-session that the other   *)
(* end, at node m, cannot send because m's manager is busy with another     *)
(* connection.                                                              *)
Starved(n) ==
    /\ manager[n] # NoTask
    /\ pc[manager[n]] = "recv"
    /\ FarEnd(conn[manager[n]]) \notin started

WaitsFor(n, m) ==
    /\ Starved(n)
    /\ m = RemoteNode(conn[manager[n]])
    /\ manager[m] # NoTask
    /\ conn[manager[m]] # FarEnd(conn[manager[n]])

(* ... or because it has given up.                                          *)
Abandoned(n) == Starved(n) /\ FarEnd(conn[manager[n]]) \in closed

(* n is in, or waits behind, a ring of nodes that wait for each other       *)
(* (crossed hellos), or behind a handshake that was given up.               *)
Wedged(n) ==
    \E S \in SUBSET Nodes :
        /\ n \in S
        /\ \A x \in S : Abandoned(x) \/ \E y \in S : WaitsFor(x, y)

(* A connect that waits to be accepted waits for the node it dialled.       *)
Blocked(t) ==
    \/ Wedged(NodeOf[t])
    \/ pc[t] = "dialing" /\ Wedged(want[t])

(* Every connect and every accept comes to an end, successful or not,       *)
(* unless its node takes part in crossed hellos, or waits behind some or    *)
(* behind an end that gave up: the manager lock that is held across the     *)
(* exchange causes no other deadlock.                                       *)
HandshakesComplete ==
    \A t \in Task :
        [](pc[t] # "idle" => <>(pc[t] = "idle" \/ []Blocked(t)))

=============================================================================
