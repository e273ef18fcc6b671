--------------------------- MODULE HandshakeProofs ---------------------------
(***************************************************************************)
(* Proofs about Handshake, for any nodes, tasks, netlayer and bounds.      *)
(*                                                                         *)
(* Inv is inductive.  ConnOwned and HalfWay carry what a task knows from   *)
(* the dial or the accept to finalize_session, across every point where    *)
(* other tasks of its node and of other nodes run; FiledUnderRemote turns  *)
(* what finalize_session registered into what a later connect finds.       *)
(***************************************************************************)
EXTENDS Handshake, TLAPS

USE HandshakeAssumption

-----------------------------------------------------------------------------
(* Both ends of a connection are sessions, between the same two nodes.      *)
LEMMA EndsOfSession ==
    ASSUME NEW s \in Sessions
    PROVE  /\ FarEnd(s) \in Sessions
           /\ RemoteNode(s) \in Nodes
           /\ RemoteNode(FarEnd(s)) \in Nodes
           /\ Designator[RemoteNode(s)] \in Designators
<1>1. PICK c \in Conns, e \in Ends : s = <<c, e>>
    BY DEF Sessions
<1>2. /\ c.to \in Nodes
      /\ c.by \in Connectors
    BY DEF Conns
<1>3. NodeOf[c.by] \in Nodes
    BY <1>2 DEF Task
<1>4. FarEnd(s) \in Sessions
    BY <1>1 DEF FarEnd, Sessions, Ends
<1>5. RemoteNode(s) \in Nodes /\ RemoteNode(FarEnd(s)) \in Nodes
    BY <1>1, <1>2, <1>3 DEF RemoteNode, FarEnd, Ends
<1> QED
    BY <1>4, <1>5 DEF Designators

(* What Dial and Accept set up: a connector's end reaches the node that was *)
(* asked for from the connector's own, an acceptor's end the other way.     *)
LEMMA EndsOfConn ==
    ASSUME NEW c \in Conns
    PROVE  /\ <<c, "connector">> \in Sessions
           /\ <<c, "acceptor">> \in Sessions
           /\ RemoteNode(<<c, "connector">>) = c.to
           /\ RemoteNode(FarEnd(<<c, "connector">>)) = NodeOf[c.by]
           /\ RemoteNode(FarEnd(<<c, "acceptor">>)) = c.to
BY DEF Sessions, Ends, RemoteNode, FarEnd

(* Nothing is registered, dialled or under way at first.                    *)
LEMMA InitInv == Init => Inv
<1> SUFFICES ASSUME Init PROVE Inv
    OBVIOUS
<1> USE DEF Init
<1>1. TypeOK
  <2>1. sessions \in [Nodes -> [Designators -> Sessions \cup {NoSession}]]
    OBVIOUS
  <2>2. /\ manager \in [Nodes -> Task \cup {NoTask}]
        /\ backlog \in [Nodes -> SUBSET Conns]
        /\ pc \in [Task -> PcValues]
        /\ conn \in [Task -> Sessions \cup {NoSession}]
        /\ dials \in [Connectors -> 0..MaxDials]
        /\ result \in [Connectors -> Sessions \cup {NoSession}]
    BY DEF PcValues
  <2>3. want \in [Connectors -> Nodes]
    BY DEF Task
  <2> QED
    BY <2>1, <2>2, <2>3 DEF TypeOK
<1>2. ConnOwned /\ DialsLeft /\ HalfWay
    BY DEF ConnOwned, DialsLeft, HalfWay, Handshaking, Task
<1>3. BacklogLocal /\ FiledUnderRemote /\ RegisteredBothStarted
    BY DEF BacklogLocal, FiledUnderRemote, RegisteredBothStarted
<1>4. ConnectReachesTarget
    BY DEF ConnectReachesTarget
<1> QED
    BY <1>1, <1>2, <1>3, <1>4 DEF Inv

-----------------------------------------------------------------------------
(* Before the exchange.                                                     *)

(* A new connect forgets the result of the one before.                      *)
LEMMA ConnectInv ==
    ASSUME Inv, NEW t \in Connectors, NEW n \in Targets[t], Connect(t, n)
    PROVE  Inv'
<1> USE DEF Inv, Connect
<1>0. t \in Task /\ n \in Nodes
    BY DEF Task
<1>1. TypeOK'
    BY <1>0 DEF TypeOK, PcValues
<1>2. ConnOwned'
    BY <1>0 DEF ConnOwned, Handshaking, TypeOK, RemoteNode, FarEnd
<1>3. DialsLeft'
    BY <1>0 DEF DialsLeft, TypeOK, Task
<1>4. HalfWay'
    BY <1>0 DEF HalfWay, SendsFirst, Met, TypeOK
<1>5. BacklogLocal' /\ FiledUnderRemote' /\ RegisteredBothStarted'
    BY DEF BacklogLocal, FiledUnderRemote, RegisteredBothStarted
<1>6. UniqueDesignators => ConnectReachesTarget'
    BY DEF ConnectReachesTarget, TypeOK
<1> QED
    BY <1>1, <1>2, <1>3, <1>4, <1>5, <1>6 DEF UniqueDesignators

(* What is filed under the target's designator is a session with the target.*)
LEMMA LookupInv ==
    ASSUME Inv, NEW t \in Connectors, Lookup(t)
    PROVE  Inv'
<1> DEFINE n == NodeOf[t]
           d == Designator[want[t]]
<1> USE DEF Inv
<1>0. /\ t \in Task /\ n \in Nodes
      /\ want[t] \in Nodes /\ d \in Designators
      /\ sessions[n][d] \in Sessions \cup {NoSession}
  <2>1. t \in Task /\ n \in Nodes /\ want[t] \in Nodes
    BY DEF Task, TypeOK
  <2>2. d \in Designators
    BY <2>1 DEF Designators
  <2> QED
    BY <2>1, <2>2 DEF TypeOK
<1>1. TypeOK'
    BY <1>0 DEF TypeOK, PcValues, Lookup
<1>2. ConnOwned'
    BY <1>0 DEF ConnOwned, Handshaking, TypeOK, Lookup
<1>3. DialsLeft'
    BY <1>0 DEF DialsLeft, TypeOK, Task, Lookup
<1>4. HalfWay'
    BY <1>0 DEF HalfWay, SendsFirst, Met, TypeOK, Lookup
<1>5. BacklogLocal' /\ FiledUnderRemote' /\ RegisteredBothStarted'
    BY DEF BacklogLocal, FiledUnderRemote, RegisteredBothStarted, Lookup
<1>6. UniqueDesignators => ConnectReachesTarget'
  <2> SUFFICES ASSUME UniqueDesignators, NEW u \in Connectors, result'[u] # NoSession
               PROVE  RemoteNode(result'[u]) = want'[u]
    BY DEF ConnectReachesTarget
  <2>1. CASE u = t /\ sessions[n][d] # NoSession
    <3>1. Designator[RemoteNode(sessions[n][d])] = d
        BY <2>1, <1>0 DEF FiledUnderRemote
    <3>2. RemoteNode(sessions[n][d]) = want[t]
        BY <3>1, <2>1, <1>0, EndsOfSession DEF UniqueDesignators
    <3> QED
        BY <3>2, <2>1, <1>0 DEF Lookup, TypeOK
  <2>2. CASE ~(u = t /\ sessions[n][d] # NoSession)
    BY <2>2 DEF Lookup, TypeOK, ConnectReachesTarget
  <2> QED
    BY <2>1, <2>2
<1> QED
    BY <1>1, <1>2, <1>3, <1>4, <1>5, <1>6 DEF UniqueDesignators

(* A dialled connection belongs to the connector and to the node it asked for.*)
LEMMA DialInv ==
    ASSUME Inv, NEW t \in Connectors, Dial(t)
    PROVE  Inv'
<1> DEFINE c == [by |-> t, to |-> want[t], k |-> dials[t] + 1]
<1> USE DEF Inv
<1>0. /\ t \in Task
      /\ want[t] \in Nodes
      /\ dials[t] + 1 \in 1..MaxDials
    BY DEF Task, TypeOK, DialsLeft, Dial
<1>1. c \in Conns /\ c.to = want[t] /\ c.by = t
    BY <1>0 DEF Conns
<1>2. conn' = [conn EXCEPT ![t] = <<c, "connector">>]
    BY DEF Dial
<1>3. backlog' = [backlog EXCEPT ![want[t]] = @ \cup {c}]
    BY DEF Dial
<1>4. /\ <<c, "connector">> \in Sessions
      /\ RemoteNode(<<c, "connector">>) = want[t]
      /\ RemoteNode(FarEnd(<<c, "connector">>)) = NodeOf[t]
    BY <1>1, EndsOfConn
<1> HIDE DEF c
<1>5. TypeOK'
  <2>1. pc' \in [Task -> PcValues]
    BY <1>0 DEF Dial, TypeOK, PcValues
  <2>2. /\ conn' \in [Task -> Sessions \cup {NoSession}]
        /\ backlog' \in [Nodes -> SUBSET Conns]
    BY <1>0, <1>1, <1>2, <1>3, <1>4 DEF TypeOK
  <2>3. dials' \in [Connectors -> 0..MaxDials]
    BY <1>0 DEF Dial, TypeOK
  <2> QED
    BY <2>1, <2>2, <2>3 DEF Dial, TypeOK
<1>6. ConnOwned'
  <2> SUFFICES ASSUME NEW u \in Task, Handshaking(u)' \/ pc'[u] = "dialing"
               PROVE  /\ conn'[u] \in Sessions
                      /\ RemoteNode(FarEnd(conn'[u])) = NodeOf[u]
                      /\ u \in Connectors => RemoteNode(conn'[u]) = want'[u]
    BY DEF ConnOwned
  <2>1. want' = want
    BY DEF Dial
  <2>2. CASE u = t
    BY <2>1, <2>2, <1>0, <1>2, <1>4 DEF TypeOK
  <2>3. CASE u # t
    BY <2>1, <2>3, <1>2 DEF TypeOK, ConnOwned, Handshaking, Dial
  <2> QED
    BY <2>2, <2>3
<1>7. DialsLeft'
    BY <1>0 DEF DialsLeft, TypeOK, Task, Dial
<1>8. HalfWay'
    BY <1>0 DEF HalfWay, SendsFirst, Met, TypeOK, Dial
<1>9. BacklogLocal'
    BY <1>0, <1>1, <1>3 DEF BacklogLocal, TypeOK
<1>10. FiledUnderRemote' /\ RegisteredBothStarted' /\ (UniqueDesignators => ConnectReachesTarget')
    BY DEF FiledUnderRemote, RegisteredBothStarted, ConnectReachesTarget, Dial
<1> QED
    BY <1>5, <1>6, <1>7, <1>8, <1>9, <1>10 DEF UniqueDesignators

(* A failed dial only uses up the attempt.                                  *)
LEMMA DialFailsInv ==
    ASSUME Inv, NEW t \in Connectors, DialFails(t)
    PROVE  Inv'
<1> USE DEF Inv, DialFails
<1>0. t \in Task /\ dials[t] + 1 \in 0..MaxDials
    BY DEF Task, TypeOK, DialsLeft
<1>1. TypeOK'
    BY <1>0 DEF TypeOK, PcValues
<1>2. ConnOwned'
    BY <1>0 DEF ConnOwned, Handshaking, TypeOK
<1>3. DialsLeft'
    BY <1>0 DEF DialsLeft, TypeOK, Task
<1>4. HalfWay'
    BY <1>0 DEF HalfWay, SendsFirst, Met, TypeOK
<1>5. BacklogLocal' /\ FiledUnderRemote' /\ RegisteredBothStarted'
    BY DEF BacklogLocal, FiledUnderRemote, RegisteredBothStarted
<1>6. UniqueDesignators => ConnectReachesTarget'
    BY DEF ConnectReachesTarget
<1> QED
    BY <1>1, <1>2, <1>3, <1>4, <1>5, <1>6 DEF UniqueDesignators

(* The connector's wait for accept changes nothing but its place.           *)
LEMMA DialedInv ==
    ASSUME Inv, NEW t \in Connectors, Dialed(t)
    PROVE  Inv'
<1> USE DEF Inv, Dialed
<1>0. t \in Task
    BY DEF Task
<1>1. TypeOK'
    BY <1>0 DEF TypeOK, PcValues
<1>2. ConnOwned'
    BY <1>0 DEF ConnOwned, Handshaking, TypeOK
<1>3. DialsLeft'
    BY <1>0 DEF DialsLeft, TypeOK, Task
<1>4. HalfWay'
    BY <1>0 DEF HalfWay, SendsFirst, Met, TypeOK
<1>5. BacklogLocal' /\ FiledUnderRemote' /\ RegisteredBothStarted'
    BY DEF BacklogLocal, FiledUnderRemote, RegisteredBothStarted
<1>6. UniqueDesignators => ConnectReachesTarget'
    BY DEF ConnectReachesTarget
<1> QED
    BY <1>1, <1>2, <1>3, <1>4, <1>5, <1>6 DEF UniqueDesignators

(* An accepted connection was made to the acceptor's node.                  *)
LEMMA AcceptInv ==
    ASSUME Inv, NEW t \in Acceptors, NEW c \in backlog[NodeOf[t]], Accept(t, c)
    PROVE  Inv'
<1> USE DEF Inv
<1>0. /\ t \in Task /\ t \notin Connectors
      /\ NodeOf[t] \in Nodes
    BY DEF Task
<1>1. c \in Conns /\ c.to = NodeOf[t]
    BY <1>0 DEF TypeOK, BacklogLocal
<1>2. conn' = [conn EXCEPT ![t] = <<c, "acceptor">>]
    BY DEF Accept
<1>3. /\ <<c, "acceptor">> \in Sessions
      /\ RemoteNode(FarEnd(<<c, "acceptor">>)) = NodeOf[t]
    BY <1>1, EndsOfConn
<1>4. TypeOK'
  <2>1. pc' \in [Task -> PcValues]
    BY <1>0 DEF Accept, TypeOK, PcValues
  <2>2. conn' \in [Task -> Sessions \cup {NoSession}]
    BY <1>0, <1>2, <1>3 DEF TypeOK
  <2>3. backlog' \in [Nodes -> SUBSET Conns]
    BY <1>0 DEF Accept, TypeOK
  <2> QED
    BY <2>1, <2>2, <2>3 DEF Accept, TypeOK
<1>5. ConnOwned'
  <2> SUFFICES ASSUME NEW u \in Task, Handshaking(u)' \/ pc'[u] = "dialing"
               PROVE  /\ conn'[u] \in Sessions
                      /\ RemoteNode(FarEnd(conn'[u])) = NodeOf[u]
                      /\ u \in Connectors => RemoteNode(conn'[u]) = want'[u]
    BY DEF ConnOwned
  <2>1. CASE u = t
    BY <2>1, <1>0, <1>2, <1>3 DEF TypeOK
  <2>2. CASE u # t
    BY <2>2, <1>2 DEF TypeOK, ConnOwned, Handshaking, Accept
  <2> QED
    BY <2>1, <2>2
<1>6. DialsLeft'
    BY <1>0 DEF DialsLeft, TypeOK, Task, Accept
<1>7. HalfWay'
    BY <1>0 DEF HalfWay, SendsFirst, Met, TypeOK, Accept
<1>8. BacklogLocal'
    BY <1>0 DEF BacklogLocal, TypeOK, Accept
<1>9. FiledUnderRemote' /\ RegisteredBothStarted' /\ (UniqueDesignators => ConnectReachesTarget')
    BY DEF FiledUnderRemote, RegisteredBothStarted, ConnectReachesTarget, Accept
<1> QED
    BY <1>4, <1>5, <1>6, <1>7, <1>8, <1>9 DEF UniqueDesignators

-----------------------------------------------------------------------------
(* The exchange, with the manager locked.                                   *)

(* With the lock, a task has nothing to show yet, whichever way it begins.  *)
LEMMA LockManagerInv ==
    ASSUME Inv, NEW t \in Task, LockManager(t)
    PROVE  Inv'
<1> USE DEF Inv, LockManager
<1>1. TypeOK'
    BY DEF TypeOK, PcValues
<1>2. ConnOwned'
    BY DEF ConnOwned, Handshaking, TypeOK
<1>3. DialsLeft'
    BY DEF DialsLeft, TypeOK, Task
<1>4. HalfWay'
  <2> SUFFICES ASSUME NEW u \in Task
               PROVE  /\ pc'[u] = "recv" /\ SendsFirst(u) => conn'[u] \in started'
                      /\ pc'[u] = "send" /\ ~SendsFirst(u) => Met(u)'
                      /\ pc'[u] = "finalize" => Met(u)' /\ conn'[u] \in started'
    BY DEF HalfWay, SendsFirst
  <2>1. CASE u = t
    BY <2>1 DEF TypeOK
  <2>2. CASE u # t
    BY <2>2 DEF TypeOK, HalfWay, Met
  <2> QED
    BY <2>1, <2>2
<1>5. BacklogLocal' /\ FiledUnderRemote' /\ RegisteredBothStarted'
    BY DEF BacklogLocal, FiledUnderRemote, RegisteredBothStarted
<1>6. UniqueDesignators => ConnectReachesTarget'
    BY DEF ConnectReachesTarget
<1> QED
    BY <1>1, <1>2, <1>3, <1>4, <1>5, <1>6 DEF UniqueDesignators

(* op:start-session goes out, and what was exchanged stays exchanged.       *)
LEMMA SendStartInv ==
    ASSUME Inv, NEW t \in Task, SendStart(t)
    PROVE  Inv'
<1> USE DEF Inv, SendStart
<1>0. conn[t] \in Sessions
    BY DEF ConnOwned, Handshaking
<1>1. TypeOK'
    BY <1>0 DEF TypeOK, PcValues
<1>2. ConnOwned'
    BY DEF ConnOwned, Handshaking, TypeOK
<1>3. DialsLeft'
    BY DEF DialsLeft, TypeOK, Task
<1>4. HalfWay'
  <2> SUFFICES ASSUME NEW u \in Task
               PROVE  /\ pc'[u] = "recv" /\ SendsFirst(u) => conn'[u] \in started'
                      /\ pc'[u] = "send" /\ ~SendsFirst(u) => Met(u)'
                      /\ pc'[u] = "finalize" => Met(u)' /\ conn'[u] \in started'
    BY DEF HalfWay, SendsFirst
  <2>0. Met(u) => Met(u)'
    BY DEF Met
  <2>1. CASE u = t
    BY <2>0, <2>1 DEF TypeOK, HalfWay
  <2>2. CASE u # t
    BY <2>0, <2>2 DEF TypeOK, HalfWay
  <2> QED
    BY <2>1, <2>2
<1>5. RegisteredBothStarted'
    BY DEF RegisteredBothStarted
<1>6. BacklogLocal' /\ FiledUnderRemote' /\ (UniqueDesignators => ConnectReachesTarget')
    BY DEF BacklogLocal, FiledUnderRemote, ConnectReachesTarget
<1> QED
    BY <1>1, <1>2, <1>3, <1>4, <1>5, <1>6 DEF UniqueDesignators

(* Only a message of the far end, of the same version, takes a task on.     *)
LEMMA RecvStartInv ==
    ASSUME Inv, NEW t \in Task, RecvStart(t)
    PROVE  Inv'
<1> USE DEF Inv
<1>0. conn[t] \in Sessions
    BY DEF ConnOwned, Handshaking, RecvStart
<1>1. TypeOK'
    BY <1>0 DEF TypeOK, PcValues, RecvStart
<1>2. ConnOwned'
    BY DEF ConnOwned, Handshaking, TypeOK, RecvStart
<1>3. DialsLeft'
    BY DEF DialsLeft, TypeOK, Task, RecvStart
<1>4. HalfWay'
  <2> SUFFICES ASSUME NEW u \in Task
               PROVE  /\ pc'[u] = "recv" /\ SendsFirst(u) => conn'[u] \in started'
                      /\ pc'[u] = "send" /\ ~SendsFirst(u) => Met(u)'
                      /\ pc'[u] = "finalize" => Met(u)' /\ conn'[u] \in started'
    BY DEF HalfWay, SendsFirst, RecvStart
  <2>0. Met(u) => Met(u)'
    BY DEF Met, RecvStart
  <2>1. CASE u = t
    BY <2>0, <2>1 DEF TypeOK, HalfWay, Met, RecvStart
  <2>2. CASE u # t
    BY <2>0, <2>2 DEF TypeOK, HalfWay, RecvStart
  <2> QED
    BY <2>1, <2>2
<1>5. BacklogLocal' /\ FiledUnderRemote' /\ RegisteredBothStarted'
    BY DEF BacklogLocal, FiledUnderRemote, RegisteredBothStarted, RecvStart
<1>6. UniqueDesignators => ConnectReachesTarget'
    BY DEF ConnectReachesTarget, RecvStart
<1> QED
    BY <1>1, <1>2, <1>3, <1>4, <1>5, <1>6 DEF UniqueDesignators

(* A failed exchange leaves the manager as it was.                          *)
LEMMA HandshakeFailsInv ==
    ASSUME Inv, NEW t \in Task, HandshakeFails(t)
    PROVE  Inv'
<1> USE DEF Inv, HandshakeFails
<1>0. conn[t] \in Sessions
    BY DEF ConnOwned, Handshaking
<1>1. TypeOK'
    BY <1>0 DEF TypeOK, PcValues
<1>2. ConnOwned'
    BY DEF ConnOwned, Handshaking, TypeOK
<1>3. DialsLeft'
    BY DEF DialsLeft, TypeOK, Task
<1>4. HalfWay'
    BY DEF HalfWay, SendsFirst, Met, TypeOK
<1>5. BacklogLocal' /\ FiledUnderRemote' /\ RegisteredBothStarted'
    BY DEF BacklogLocal, FiledUnderRemote, RegisteredBothStarted
<1>6. UniqueDesignators => ConnectReachesTarget'
    BY DEF ConnectReachesTarget
<1> QED
    BY <1>1, <1>2, <1>3, <1>4, <1>5, <1>6 DEF UniqueDesignators

(* What is registered was exchanged, and is filed under its remote's designator.*)
LEMMA FinalizeInv ==
    ASSUME Inv, NEW t \in Task, Finalize(t)
    PROVE  Inv'
<1> DEFINE n == NodeOf[t]
           d == Designator[RemoteNode(conn[t])]
<1> USE DEF Inv
<1>0. /\ conn[t] \in Sessions
      /\ RemoteNode(FarEnd(conn[t])) = n
      /\ t \in Connectors => RemoteNode(conn[t]) = want[t]
      /\ n \in Nodes
    BY DEF ConnOwned, Handshaking, Finalize
<1>1. d \in Designators
    BY <1>0, EndsOfSession
<1>2. /\ conn[t] \in started
      /\ FarEnd(conn[t]) \in started
      /\ Version[RemoteNode(conn[t])] = Version[n]
    BY DEF HalfWay, SendsFirst, Met, Finalize
<1>3. /\ sessions' = [sessions EXCEPT ![n][d] = conn[t]]
      /\ manager' = [manager EXCEPT ![n] = NoTask]
      /\ pc' = [pc EXCEPT ![t] = "idle"]
      /\ result' = [u \in Connectors |-> IF u = t THEN conn[t] ELSE result[u]]
      /\ UNCHANGED <<net, backlog, started, closed, conn, want, dials, aborted>>
    BY DEF Finalize
<1> HIDE DEF n, d
<1>4. ASSUME NEW m \in Nodes, NEW e \in Designators
      PROVE  sessions'[m][e] = IF m = n /\ e = d THEN conn[t] ELSE sessions[m][e]
    BY <1>0, <1>1, <1>3 DEF TypeOK
<1>5. TypeOK'
  <2>1. sessions' \in [Nodes -> [Designators -> Sessions \cup {NoSession}]]
    BY <1>0, <1>1, <1>3 DEF TypeOK
  <2>2. /\ manager' \in [Nodes -> Task \cup {NoTask}]
        /\ pc' \in [Task -> PcValues]
        /\ result' \in [Connectors -> Sessions \cup {NoSession}]
    BY <1>0, <1>3 DEF TypeOK, PcValues
  <2> QED
    BY <2>1, <2>2, <1>3 DEF TypeOK
<1>6. ConnOwned'
    BY <1>3 DEF ConnOwned, Handshaking, TypeOK
<1>7. DialsLeft'
    BY <1>3 DEF DialsLeft, TypeOK, Task
<1>8. HalfWay'
    BY <1>3 DEF HalfWay, SendsFirst, Met, TypeOK
<1>9. BacklogLocal'
    BY <1>3 DEF BacklogLocal
<1>10. FiledUnderRemote'
    BY <1>4 DEF FiledUnderRemote, d
<1>11. RegisteredBothStarted'
  <2> SUFFICES ASSUME NEW m \in Nodes, NEW e \in Designators, sessions'[m][e] # NoSession
               PROVE  /\ sessions'[m][e] \in started /\ FarEnd(sessions'[m][e]) \in started
                      /\ RemoteNode(FarEnd(sessions'[m][e])) = m
                      /\ Version[RemoteNode(sessions'[m][e])] = Version[m]
    BY <1>3 DEF RegisteredBothStarted
  <2>1. CASE m = n /\ e = d
    BY <2>1, <1>0, <1>2, <1>4
  <2>2. CASE ~(m = n /\ e = d)
    BY <2>2, <1>4 DEF RegisteredBothStarted
  <2> QED
    BY <2>1, <2>2
<1>12. UniqueDesignators => ConnectReachesTarget'
    BY <1>0, <1>3 DEF ConnectReachesTarget
<1> QED
    BY <1>5, <1>6, <1>7, <1>8, <1>9, <1>10, <1>11, <1>12 DEF UniqueDesignators

(* An abort does not touch the manager.                                     *)
LEMMA AbortInv ==
    ASSUME Inv, NEW n \in Nodes, NEW d \in Designators, Abort(n, d)
    PROVE  Inv'
BY DEF Inv, Abort, TypeOK, ConnOwned, Handshaking, DialsLeft, HalfWay, SendsFirst,
       Met, BacklogLocal, FiledUnderRemote, RegisteredBothStarted, ConnectReachesTarget, UniqueDesignators

(* Every step of every task preserves the invariant.                        *)
LEMMA NextInv == Inv /\ [Next]_vars => Inv'
<1> SUFFICES ASSUME Inv, [Next]_vars PROVE Inv'
    OBVIOUS
<1>1. CASE UNCHANGED vars
    BY <1>1 DEF vars, Inv, TypeOK, ConnOwned, Handshaking, DialsLeft, HalfWay, SendsFirst,
                Met, BacklogLocal, FiledUnderRemote, RegisteredBothStarted,
                ConnectReachesTarget, UniqueDesignators
<1>2. CASE Next
    BY <1>2, ConnectInv, LookupInv, DialInv, DialFailsInv, DialedInv, AcceptInv,
       LockManagerInv, SendStartInv, RecvStartInv, HandshakeFailsInv, FinalizeInv, AbortInv DEF Next
<1> QED
    BY <1>1, <1>2

-----------------------------------------------------------------------------
(* The conjunction of everything below holds in every reachable state.      *)
THEOREM Invariance == Spec => []Inv
BY InitInv, NextInv, PTL DEF Spec

(* Managers, connections and tasks have their types throughout.             *)
THEOREM TypeCorrect == Spec => []TypeOK
<1>1. Inv => TypeOK
    BY DEF Inv
<1> QED
    BY <1>1, Invariance, PTL

(* Only sessions whose two ends have exchanged op:start-session, with one   *)
(* version, are registered, at the node they belong to.                     *)
THEOREM Registered == Spec => []RegisteredBothStarted
<1>1. Inv => RegisteredBothStarted
    BY DEF Inv
<1> QED
    BY <1>1, Invariance, PTL

(* If designators tell nodes apart, connect returns a session with the node *)
(* it was asked for, whichever task opened that session.                    *)
THEOREM ReachesTarget ==
    ASSUME UniqueDesignators
    PROVE  Spec => []ConnectReachesTarget
<1>1. Inv => ConnectReachesTarget
    BY DEF Inv
<1> QED
    BY <1>1, Invariance, PTL

=============================================================================
