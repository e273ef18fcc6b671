-------------------------- MODULE MockRegistryProofs --------------------------
(***************************************************************************)
(* Proofs about the mock registry, for any number of nodes, owners and     *)
(* connect calls.                                                          *)
(***************************************************************************)
EXTENDS MockRegistry, TLAPS

USE NodeAssumption

(* What an owner holds is alive, and a node is alive only while someone     *)
(* holds it.                                                                *)
Held ==
    /\ \A o \in Owners : holds[o] # NoNode => life[holds[o]] = "bound"
    /\ \A n \in Nodes : accepting[n] = "recv" => life[n] = "bound"

(* The strengthening of OneNode: no removal is pending against a node that  *)
(* was not overtaken, and there is no other node whose close could be one.  *)
Unthreatened ==
    \A n \in Nodes : life[n] = "bound" /\ n \notin overtaken =>
        /\ entry = n
        /\ \A c \in Conns : pc[c] # "clean"
        /\ \A m \in Nodes \ {n} : life[m] \notin {"bound", "closing"}

(* A request that waits is in one queue, whose node can still answer it.    *)
Waits ==
    \A c \in Conns : pc[c] = "waiting" =>
        \E n \in Nodes :
           /\ c \in ToSet(queue[n]) /\ life[n] \notin {"unborn", "dead"}
           /\ \A m \in Nodes \ {n} : c \notin ToSet(queue[m])

Inv ==
    /\ TypeOK
    /\ Held
    /\ entry # NoNode => life[entry] # "unborn"
    /\ Unthreatened
    /\ AcceptUnwraps
    /\ Waits

(* Lists and the elements they hold.                                        *)
LEMMA ToSetAppend ==
    ASSUME NEW S, NEW s \in Seq(S), NEW x \in S
    PROVE  /\ Append(s, x) \in Seq(S)
           /\ ToSet(Append(s, x)) = ToSet(s) \cup {x}
  <1>1. Append(s, x) \in Seq(S) OBVIOUS
  <1>2. /\ DOMAIN s = 1 .. Len(s) /\ Len(s) \in Nat
        /\ DOMAIN Append(s, x) = 1 .. (Len(s) + 1)
        /\ \A i \in 1 .. Len(s) : Append(s, x)[i] = s[i]
        /\ Append(s, x)[Len(s) + 1] = x
    OBVIOUS
  <1>3. ToSet(Append(s, x)) = ToSet(s) \cup {x}
    BY <1>2 DEF ToSet
  <1> QED BY <1>1, <1>3

(* What is left in a queue once its head is taken.                          *)
LEMMA ToSetTail ==
    ASSUME NEW S, NEW s \in Seq(S), s # <<>>
    PROVE  /\ Tail(s) \in Seq(S)
           /\ Head(s) \in S
           /\ ToSet(s) = ToSet(Tail(s)) \cup {Head(s)}
  <1>1. /\ DOMAIN s = 1 .. Len(s) /\ Len(s) \in Nat /\ Len(s) >= 1
        /\ DOMAIN Tail(s) = 1 .. (Len(s) - 1)
        /\ \A i \in 1 .. (Len(s) - 1) : Tail(s)[i] = s[i + 1]
        /\ Head(s) = s[1] /\ Tail(s) \in Seq(S)
    OBVIOUS
  <1>2. \A i \in 1 .. Len(s) : i = 1 \/ (i - 1 \in 1 .. (Len(s) - 1) /\ s[i] = Tail(s)[i - 1])
    BY <1>1
  <1>3. \A i \in 1 .. (Len(s) - 1) : i + 1 \in 1 .. Len(s)
    BY <1>1
  <1>4. ToSet(s) \subseteq ToSet(Tail(s)) \cup {Head(s)}
    <2> SUFFICES ASSUME NEW i \in 1 .. Len(s) PROVE s[i] \in ToSet(Tail(s)) \cup {Head(s)}
      BY <1>1 DEF ToSet
    <2>1. CASE i = 1 BY <2>1, <1>1
    <2>2. CASE i # 1
      <3>1. i - 1 \in DOMAIN Tail(s) /\ s[i] = Tail(s)[i - 1] BY <2>2, <1>1, <1>2
      <3>2. \A j \in DOMAIN Tail(s) : Tail(s)[j] \in ToSet(Tail(s)) BY DEF ToSet
      <3> QED BY <3>1, <3>2
    <2> QED BY <2>1, <2>2
  <1>5. ToSet(Tail(s)) \cup {Head(s)} \subseteq ToSet(s)
    BY <1>1, <1>3 DEF ToSet
  <1>6. Head(s) \in S
    BY <1>1
  <1> QED BY <1>1, <1>4, <1>5, <1>6

(* An empty queue holds nothing.                                            *)
LEMMA ToSetEmpty == ToSet(<<>>) = {}
  BY DEF ToSet

(* A fresh process: no entry, no node.                                      *)
LEMMA InitInv == Init => Inv
  <1> SUFFICES ASSUME Init PROVE Inv OBVIOUS
  <1>1. TypeOK
    BY DEF Init, TypeOK, LifeValues, Ended
  <1> QED
    BY <1>1 DEF Init, Inv, Held, Unthreatened, AcceptUnwraps, Waits

(* Steps that leave the queues alone and let nobody begin to wait keep      *)
(* every waiting call queued, unless they drop a receiver.                  *)
LEMMA WaitsKept ==
    ASSUME Inv, UNCHANGED queue,
           \A c \in Conns : pc'[c] = "waiting" => pc[c] = "waiting",
           \A n \in Nodes : life[n] \notin {"unborn", "dead"} => life'[n] \notin {"unborn", "dead"}
    PROVE  Waits'
  BY DEF Inv, Waits

(* bind: a node that is alive is shared, any other replaced.                *)
LEMMA BindInv ==
    ASSUME Inv, NEW o \in Owners, Bind(o)
    PROVE  Inv'
  <1>1. CASE Upgrades
    <2>1. /\ holds' = [holds EXCEPT ![o] = entry] /\ entry \in Nodes
          /\ UNCHANGED <<entry, life, overtaken, accepting, queue, pc>>
      BY <1>1 DEF Bind, Upgrades, Inv, TypeOK
    <2>2. TypeOK' BY <2>1 DEF Inv, TypeOK
    <2>3. Held' BY <1>1, <2>1 DEF Upgrades, Inv, Held, TypeOK
    <2>4. Waits' BY <2>1, WaitsKept
    <2> QED
      BY <2>1, <2>2, <2>3, <2>4 DEF Inv, Unthreatened, AcceptUnwraps
  <1>2. CASE ~Upgrades
    <2>1. PICK n \in Nodes :
            /\ life[n] = "unborn"
            /\ life' = [life EXCEPT ![n] = "bound"]
            /\ entry' = n
            /\ holds' = [holds EXCEPT ![o] = n]
            /\ overtaken' = IF RemovalPending THEN overtaken \cup {n} ELSE overtaken
      BY <1>2 DEF Bind
    <2>2. UNCHANGED <<accepting, queue, pc>> BY DEF Bind
    <2>3. TypeOK' BY <2>1, <2>2 DEF Inv, TypeOK, LifeValues
    <2>4. Held' BY <2>1, <2>2 DEF Inv, Held, TypeOK
    <2>5. Waits' BY <2>1, <2>2, WaitsKept DEF Inv, TypeOK
    <2>6. Unthreatened'
      <3> SUFFICES ASSUME NEW m \in Nodes, life'[m] = "bound", m \notin overtaken'
                   PROVE  /\ entry' = m
                          /\ \A c \in Conns : pc'[c] # "clean"
                          /\ \A k \in Nodes \ {m} : life'[k] \notin {"bound", "closing"}
        BY DEF Unthreatened
      <3>1. CASE m = n
        BY <3>1, <2>1, <2>2 DEF RemovalPending, Inv, TypeOK
      <3>2. CASE m # n
        <4>1. life[m] = "bound" /\ m \notin overtaken
          BY <3>2, <2>1 DEF Inv, TypeOK
        <4>2. entry = m
          BY <4>1 DEF Inv, Unthreatened
        <4> QED BY <4>1, <4>2, <1>2 DEF Upgrades
      <3> QED BY <3>1, <3>2
    <2>7. AcceptUnwraps' BY <2>1, <2>2 DEF Inv, AcceptUnwraps
    <2>8. entry' # NoNode => life'[entry'] # "unborn" BY <2>1 DEF Inv, TypeOK
    <2> QED BY <2>3, <2>4, <2>5, <2>6, <2>7, <2>8 DEF Inv
  <1> QED BY <1>1, <1>2

(* A handle that is dropped or closed.                                      *)
LEMMA ReleaseInv ==
    ASSUME Inv, NEW o \in Owners, Release(o) \/ Close(o)
    PROVE  Inv'
  <1> DEFINE n == holds[o]
  <1>1. n \in Nodes /\ life[n] = "bound" /\ accepting[n] # "recv"
    BY DEF Release, Close, SoleHolder, Inv, TypeOK, Held
  <1>2. /\ UNCHANGED <<entry, accepting, queue, pc, overtaken>>
        /\ holds' = [holds EXCEPT ![o] = NoNode]
        /\ \/ life' = life
           \/ SoleHolder(o) /\ \E l \in {"dying", "closing"} : life' = [life EXCEPT ![n] = l]
    BY DEF Release, Close
  <1>3. CASE life' = life
    <2>1. TypeOK' /\ Held' BY <1>2, <1>3 DEF Inv, TypeOK, Held
    <2>2. Waits' BY <1>2, <1>3, WaitsKept
    <2> QED BY <1>2, <1>3, <2>1, <2>2 DEF Inv, Unthreatened, AcceptUnwraps
  <1>4. ASSUME SoleHolder(o), NEW l \in {"dying", "closing"}, life' = [life EXCEPT ![n] = l]
        PROVE  Inv'
    <2>1. TypeOK' BY <1>1, <1>2, <1>4 DEF Inv, TypeOK, LifeValues
    <2>2. Held' BY <1>1, <1>2, <1>4 DEF Inv, TypeOK, Held, SoleHolder
    <2>3. Waits' BY <1>1, <1>2, <1>4, WaitsKept DEF Inv, TypeOK
    <2>4. Unthreatened' BY <1>1, <1>2, <1>4 DEF Inv, TypeOK, Unthreatened
    <2>5. AcceptUnwraps' BY <1>2 DEF Inv, AcceptUnwraps
    <2>6. entry' # NoNode => life'[entry'] # "unborn" BY <1>1, <1>2, <1>4 DEF Inv, TypeOK
    <2> QED BY <2>1, <2>2, <2>3, <2>4, <2>5, <2>6 DEF Inv
  <1> QED BY <1>2, <1>3, <1>4

(* The removal that close has left to do.                                   *)
LEMMA CloseRemoveInv ==
    ASSUME Inv, NEW n \in Nodes, CloseRemove(n)
    PROVE  Inv'
  <1>1. TypeOK' BY DEF CloseRemove, Inv, TypeOK, LifeValues
  <1>2. Held' BY DEF CloseRemove, Inv, TypeOK, Held
  <1>3. Waits' BY WaitsKept DEF CloseRemove, Inv, TypeOK
  <1>4. Unthreatened'
    <2> SUFFICES ASSUME NEW m \in Nodes, life'[m] = "bound", m \notin overtaken' PROVE FALSE
      BY DEF Unthreatened
    <2>1. life[m] = "bound" /\ m \notin overtaken /\ m # n
      BY DEF CloseRemove, Inv, TypeOK
    <2> QED BY <2>1 DEF Inv, Unthreatened, CloseRemove
  <1>5. AcceptUnwraps' BY DEF CloseRemove, Inv, AcceptUnwraps
  <1> QED BY <1>1, <1>2, <1>3, <1>4, <1>5 DEF Inv, CloseRemove

(* The receiver goes, and who waits in its queue is told.                   *)
LEMMA DropReceiverInv ==
    ASSUME Inv, NEW n \in Nodes, DropReceiver(n)
    PROVE  Inv'
  <1>1. TypeOK' BY DEF DropReceiver, Inv, TypeOK, LifeValues, Ended
  <1>2. Held' BY DEF DropReceiver, Inv, TypeOK, Held
  <1>3. Unthreatened' BY DEF DropReceiver, Inv, TypeOK, Unthreatened
  <1>4. AcceptUnwraps' BY DEF DropReceiver, Inv, AcceptUnwraps
  <1>5. Waits'
    <2> SUFFICES ASSUME NEW c \in Conns, pc'[c] = "waiting"
                 PROVE  \E m \in Nodes :
                          /\ c \in ToSet(queue'[m]) /\ life'[m] \notin {"unborn", "dead"}
                          /\ \A k \in Nodes \ {m} : c \notin ToSet(queue'[k])
      BY DEF Waits
    <2>1. pc[c] = "waiting" /\ c \notin ToSet(queue[n])
      BY DEF DropReceiver, Inv, TypeOK
    <2>2. PICK m \in Nodes :
            /\ c \in ToSet(queue[m]) /\ life[m] \notin {"unborn", "dead"}
            /\ \A k \in Nodes \ {m} : c \notin ToSet(queue[k])
      BY <2>1 DEF Inv, Waits
    <2>3. m # n /\ queue'[m] = queue[m] /\ life'[m] = life[m]
      BY <2>1, <2>2 DEF DropReceiver, Inv, TypeOK
    <2>4. ASSUME NEW k \in Nodes \ {m} PROVE c \notin ToSet(queue'[k])
      BY <2>2, ToSetEmpty DEF DropReceiver, Inv, TypeOK
    <2> QED BY <2>2, <2>3, <2>4
  <1>6. entry' # NoNode => life'[entry'] # "unborn" BY DEF DropReceiver, Inv, TypeOK
  <1> QED BY <1>1, <1>2, <1>3, <1>4, <1>5, <1>6 DEF Inv

(* A request goes into the queue of the node in the map.                    *)
LEMMA ConnectInv ==
    ASSUME Inv, NEW c \in Conns, Connect(c)
    PROVE  Inv'
  <1>1. UNCHANGED <<entry, life, holds, accepting, overtaken>> BY DEF Connect
  <1>2. TypeOK'
    <2>1. queue' = queue \/ (entry \in Nodes /\ queue' = [queue EXCEPT ![entry] = Append(@, c)])
      BY DEF Connect, Inv, TypeOK
    <2>2. queue' \in [Nodes -> Seq(Conns)]
      <3>1. \A n \in Nodes : Append(queue[n], c) \in Seq(Conns)
        BY ToSetAppend DEF Inv, TypeOK
      <3>2. queue \in [Nodes -> Seq(Conns)] BY DEF Inv, TypeOK
      <3> QED BY <2>1, <3>1, <3>2
    <2>3. pc' \in [Conns -> Ended \cup {"clean", "waiting"}]
      BY DEF Connect, Inv, TypeOK, Ended
    <2> QED BY <1>1, <2>2, <2>3 DEF Inv, TypeOK
  <1>3. Held' BY <1>1 DEF Inv, Held
  <1>4. AcceptUnwraps' BY <1>1 DEF Inv, AcceptUnwraps
  <1>5. Unthreatened'
    BY <1>1 DEF Connect, Inv, TypeOK, Unthreatened
  <1>6. Waits'
    <2>1. CASE entry # NoNode /\ life[entry] # "dead"
      <3>1. /\ entry \in Nodes /\ life[entry] \notin {"unborn", "dead"}
            /\ pc' = [pc EXCEPT ![c] = "waiting"]
            /\ queue' = [queue EXCEPT ![entry] = Append(@, c)]
            /\ \A n \in Nodes : c \notin ToSet(queue[n])
        BY <2>1 DEF Connect, Queued, Inv, TypeOK
      <3>2. /\ ToSet(queue'[entry]) = ToSet(queue[entry]) \cup {c}
            /\ \A n \in Nodes \ {entry} : queue'[n] = queue[n]
        BY <3>1, ToSetAppend DEF Inv, TypeOK
      <3> SUFFICES ASSUME NEW d \in Conns, pc'[d] = "waiting"
                   PROVE  \E m \in Nodes :
                            /\ d \in ToSet(queue'[m]) /\ life'[m] \notin {"unborn", "dead"}
                            /\ \A k \in Nodes \ {m} : d \notin ToSet(queue'[k])
        BY DEF Waits
      <3>3. CASE d = c
        BY <3>1, <3>2, <3>3, <1>1
      <3>4. CASE d # c
        <4>1. pc[d] = "waiting" BY <3>1, <3>4 DEF Inv, TypeOK
        <4>2. \A n \in Nodes : d \in ToSet(queue'[n]) <=> d \in ToSet(queue[n])
          BY <3>2, <3>4
        <4> QED BY <4>1, <4>2, <1>1 DEF Inv, Waits
      <3> QED BY <3>3, <3>4
    <2>2. CASE ~(entry # NoNode /\ life[entry] # "dead")
      <3>1. UNCHANGED queue /\ \A d \in Conns : pc'[d] = "waiting" => pc[d] = "waiting"
        BY <2>2 DEF Connect, Inv, TypeOK
      <3> QED BY <3>1, <1>1, WaitsKept
    <2> QED BY <2>1, <2>2
  <1> QED BY <1>1, <1>2, <1>3, <1>4, <1>5, <1>6 DEF Inv

(* A request that found a dead node clears the entry; one that waits is     *)
(* given up.                                                                *)
LEMMA CleanInv ==
    ASSUME Inv, NEW c \in Conns, Clean(c) \/ GiveUp(c)
    PROVE  Inv'
  <1>1. UNCHANGED <<life, holds, accepting, queue, overtaken>> BY DEF Clean, GiveUp
  <1>2. TypeOK' BY DEF Clean, GiveUp, Inv, TypeOK, Ended
  <1>3. Held' BY <1>1 DEF Inv, Held
  <1>4. AcceptUnwraps' BY <1>1 DEF Inv, AcceptUnwraps
  <1>5. Unthreatened' BY DEF Clean, GiveUp, Inv, TypeOK, Unthreatened
  <1>6. Waits' BY <1>1, WaitsKept DEF Clean, GiveUp, Inv, TypeOK
  <1>7. entry' # NoNode => life'[entry'] # "unborn" BY DEF Clean, GiveUp, Inv
  <1> QED BY <1>2, <1>3, <1>4, <1>5, <1>6, <1>7 DEF Inv

(* An accept begins, or unwraps what the channel gives it.                  *)
LEMMA AcceptInv ==
    ASSUME Inv, NEW n \in Nodes, Accept(n) \/ AcceptPanics(n)
    PROVE  Inv'
  <1>1. UNCHANGED <<entry, life, holds, queue, pc, overtaken>> BY DEF Accept, AcceptPanics
  <1>2. TypeOK' BY <1>1 DEF Accept, AcceptPanics, Inv, TypeOK
  <1>3. Held' BY <1>1 DEF Accept, AcceptPanics, Inv, TypeOK, Held
  <1>4. AcceptUnwraps'
    BY <1>1 DEF Accept, AcceptPanics, Inv, TypeOK, Held, Unthreatened, AcceptUnwraps
  <1>5. Waits' BY <1>1, WaitsKept
  <1> QED BY <1>1, <1>2, <1>3, <1>4, <1>5 DEF Inv, Unthreatened

(* An accept takes the first request of its queue.                          *)
LEMMA AcceptedInv ==
    ASSUME Inv, NEW n \in Nodes, Accepted(n)
    PROVE  Inv'
  <1> DEFINE c == Head(queue[n])
  <1>1. UNCHANGED <<entry, life, holds, overtaken>> BY DEF Accepted
  <1>2. /\ queue[n] \in Seq(Conns) /\ queue[n] # <<>>
        /\ queue' = [queue EXCEPT ![n] = Tail(@)]
        /\ pc' = IF pc[c] = "waiting" THEN [pc EXCEPT ![c] = "connected"] ELSE pc
    BY DEF Accepted, Inv, TypeOK
  <1>3. /\ c \in Conns /\ Tail(queue[n]) \in Seq(Conns)
        /\ ToSet(queue[n]) = ToSet(Tail(queue[n])) \cup {c}
    BY <1>2, ToSetTail
  <1>4. TypeOK' BY <1>1, <1>2, <1>3 DEF Accepted, Inv, TypeOK, Ended
  <1>5. Held' BY <1>1 DEF Accepted, Inv, TypeOK, Held
  <1>6. AcceptUnwraps' BY <1>1 DEF Accepted, Inv, TypeOK, AcceptUnwraps
  <1>7. \A d \in Conns : pc'[d] \in {"waiting", "clean"} => pc'[d] = pc[d] /\ (pc[d] = "waiting" => d # c)
    BY <1>2, <1>3 DEF Inv, TypeOK
  <1>8. Unthreatened' BY <1>1, <1>7 DEF Inv, Unthreatened
  <1>9. Waits'
    <2> SUFFICES ASSUME NEW d \in Conns, pc'[d] = "waiting"
                 PROVE  \E m \in Nodes :
                          /\ d \in ToSet(queue'[m]) /\ life'[m] \notin {"unborn", "dead"}
                          /\ \A k \in Nodes \ {m} : d \notin ToSet(queue'[k])
      BY DEF Waits
    <2>1. pc[d] = "waiting" /\ d # c BY <1>7
    <2>2. \A m \in Nodes : d \in ToSet(queue'[m]) <=> d \in ToSet(queue[m])
      BY <2>1, <1>2, <1>3 DEF Inv, TypeOK
    <2> QED BY <2>1, <2>2, <1>1 DEF Inv, Waits
  <1> QED BY <1>1, <1>4, <1>5, <1>6, <1>8, <1>9 DEF Inv

(* Every step keeps the invariant.                                          *)
LEMMA StepInv == Inv /\ [Next]_vars => Inv'
  <1> SUFFICES ASSUME Inv, [Next]_vars PROVE Inv' OBVIOUS
  <1>1. CASE UNCHANGED vars
    BY <1>1 DEF vars, Inv, TypeOK, Held, Unthreatened, AcceptUnwraps, Waits
  <1>2. CASE Next
    BY <1>2, BindInv, ReleaseInv, CloseRemoveInv, DropReceiverInv, ConnectInv, CleanInv,
       AcceptInv, AcceptedInv DEF Next
  <1> QED BY <1>1, <1>2

(* The inductive invariant holds of every run of the registry.              *)
THEOREM Invariance == Spec => []Inv
  BY InitInv, StepInv, PTL DEF Spec

(* Nodes, queues and calls keep their types.                                *)
THEOREM TypeCorrect == Spec => []TypeOK
  <1>1. Inv => TypeOK BY DEF Inv
  <1> QED BY Invariance, <1>1, PTL

(* A node bound when no removal was pending stays listed, and the only one  *)
(* of its name, while anyone holds it (bind, close and connect's clean-up). *)
THEOREM Uniqueness == Spec => []OneNode
  <1>1. Inv => OneNode BY DEF Inv, Unthreatened, OneNode
  <1> QED BY Invariance, <1>1, PTL

(* accept panics only on a node that lost its entry to an overtaken removal.*)
THEOREM Unwraps == Spec => []AcceptUnwraps
  <1>1. Inv => AcceptUnwraps BY DEF Inv
  <1> QED BY Invariance, <1>1, PTL

(* No connect call waits on a queue that is gone.                           *)
THEOREM Answerable == Spec => []NoneStranded
  <1>1. Inv => NoneStranded BY DEF Inv, Held, Waits, NoneStranded
  <1> QED BY Invariance, <1>1, PTL

=============================================================================
