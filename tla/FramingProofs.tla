---------------------------- MODULE FramingProofs ----------------------------
(***************************************************************************)
(* Proofs about the bytes of a connection, for any number of senders, any  *)
(* messages, and any capacities of the connection and of the buffer.       *)
(***************************************************************************)
EXTENDS Framing, TLAPS

USE MessagesAssumption

(* An empty connection.                                                     *)
LEMMA InitInv == Init => Inv
  <1> SUFFICES ASSUME Init PROVE Inv
    OBVIOUS
  <1>1. wire = <<>> /\ frames = <<>> /\ got = <<>> /\ starts = <<0>>
    BY DEF Init
  <1>2. Len(wire) = 0 /\ Len(frames) = 0 /\ Len(got) = 0 /\ Len(starts) = 1 /\ starts[1] = 0
    BY <1>1
  <1>3. DOMAIN frames = {} /\ DOMAIN starts = {1}
    BY <1>1
  <1>4. /\ wire \in Seq(Messages \X Nat) /\ frames \in Seq(Messages \cup {Torn})
        /\ starts \in Seq(Nat) /\ got \in Seq(Messages \cup {Junk})
    BY <1>1
  <1>5. TypeOK
    <2>1. passed \in 0..Len(wire) /\ filled \in 0..passed /\ consumed \in 0..filled
      BY <1>2 DEF Init
    <2>2. /\ pc \in [Writers -> {"idle", "lock", "write"}] /\ off \in [Writers -> Nat]
          /\ sends \in Nat /\ msg \in [Writers -> Messages]
      BY MenuAssumption DEF Init
    <2> QED BY <1>4, <2>1, <2>2 DEF Init, TypeOK
  <1>6. MutexOwned
    BY DEF Init, MutexOwned
  <1>7. FramesLaid
    BY <1>2, <1>3 DEF FramesLaid, Open
  <1>8. OpenLaid
    BY <1>2 DEF Init, OpenLaid, Open
  <1>9. Aligned
    BY <1>2, <1>3 DEF Init, Aligned
  <1> QED BY <1>5, <1>6, <1>7, <1>8, <1>9 DEF Inv

(* Steps that neither write nor consume keep the layout and the alignment.  *)
LEMMA QuietInv ==
    ASSUME Inv, UNCHANGED <<consumed, got, writing>>
    PROVE  MutexOwned' /\ FramesLaid' /\ OpenLaid' /\ Aligned'
  BY DEF Inv, MutexOwned, FramesLaid, OpenLaid, Open, Aligned, writing

(* Where messages begin, and where the last of them ends.                   *)
LEMMA Bounds ==
    ASSUME Inv
    PROVE  /\ Len(frames) \in Nat /\ Len(starts) \in Nat /\ Len(wire) \in Nat /\ Len(got) \in Nat
           /\ Len(starts) = Len(frames) + 1
           /\ DOMAIN starts = 1..(Len(frames) + 1)
           /\ DOMAIN frames = 1..Len(frames)
           /\ \A n \in 1..(Len(frames) + 1) : starts[n] \in Nat
           /\ Open = starts[Len(frames) + 1] /\ Open \in Nat /\ Open <= Len(wire)
           /\ \A n \in DOMAIN frames : frames[n] # Torn => frames[n] \in Messages
  <1> USE DEF Inv
  <1>1. /\ wire \in Seq(Messages \X Nat) /\ frames \in Seq(Messages \cup {Torn})
        /\ starts \in Seq(Nat) /\ got \in Seq(Messages \cup {Junk})
    BY DEF TypeOK
  <1>2. /\ Len(frames) \in Nat /\ Len(starts) \in Nat /\ Len(wire) \in Nat /\ Len(got) \in Nat
        /\ DOMAIN starts = 1..Len(starts) /\ DOMAIN frames = 1..Len(frames)
    BY <1>1
  <1>3. Len(starts) = Len(frames) + 1
    BY DEF FramesLaid
  <1>4. \A n \in 1..Len(starts) : starts[n] \in Nat
    BY <1>1, <1>2
  <1>5. \A n \in DOMAIN frames : frames[n] # Torn => frames[n] \in Messages
    BY <1>1, <1>2
  <1>6. Open = starts[Len(frames) + 1] /\ Open \in Nat
    BY <1>2, <1>3, <1>4 DEF Open
  <1>7. Open <= Len(wire)
    <2>1. CASE writer = NoTask
      BY <1>2, <2>1 DEF OpenLaid
    <2>2. CASE writer # NoTask
      <3>1. writer \in Writers /\ pc[writer] = "write" /\ off[writer] \in Nat
        BY <2>2 DEF TypeOK, MutexOwned
      <3> QED BY <1>2, <1>6, <3>1 DEF OpenLaid
    <2> QED BY <2>1, <2>2
  <1> QED BY <1>2, <1>3, <1>4, <1>5, <1>6, <1>7

(* How far the bytes have come.                                             *)
LEMMA Counters ==
    ASSUME Inv
    PROVE  /\ passed \in Nat /\ filled \in Nat /\ consumed \in Nat
           /\ consumed <= filled /\ filled <= passed /\ passed <= Len(wire)
  <1>1. passed \in 0..Len(wire) /\ filled \in 0..passed /\ consumed \in 0..filled
    BY DEF Inv, TypeOK
  <1> QED BY <1>1, Bounds

(* A send that begins, or gets the mutex, has written nothing yet.          *)
LEMMA SendInv ==
    ASSUME Inv, NEW w \in Writers, NEW m \in Messages, Send(w, m)
    PROVE  Inv'
  <1> USE DEF Inv, Send
  <1>1. TypeOK'
    BY DEF TypeOK
  <1>2. MutexOwned'
    BY DEF TypeOK, MutexOwned
  <1>3. \A u \in Writers : pc'[u] = "write" =>
           pc[u] = "write" /\ msg'[u] = msg[u] /\ off'[u] = off[u]
    BY DEF TypeOK
  <1>4. FramesLaid'
    BY DEF FramesLaid, Open
  <1>5. OpenLaid'
    <2>1. Open' = Open /\ wire' = wire /\ writer' = writer
      BY DEF Open
    <2> QED BY <1>3, <2>1 DEF OpenLaid
  <1>6. Aligned'
    BY DEF Aligned
  <1> QED BY <1>1, <1>2, <1>4, <1>5, <1>6

(* The writer that gets the mutex has written nothing yet.                  *)
LEMMA LockWriterInv ==
    ASSUME Inv, NEW w \in Writers, LockWriter(w)
    PROVE  Inv'
  <1> USE DEF Inv, LockWriter
  <1>1. TypeOK'
    BY DEF TypeOK
  <1>2. MutexOwned'
    BY DEF TypeOK, MutexOwned
  <1>3. \A u \in Writers : pc'[u] = "write" => u = w /\ off[u] = 0
    BY DEF TypeOK, MutexOwned
  <1>4. FramesLaid'
    BY DEF FramesLaid, Open
  <1>5. OpenLaid'
    <2>1. Open' = Open /\ wire' = wire /\ Len(wire) = Open /\ Len(wire) \in Nat
      BY Bounds DEF Open, OpenLaid
    <2>2. \A u \in Writers : msg[u] \in Messages /\ 0 < Length[msg[u]]
      BY DEF TypeOK
    <2>3. writer' # NoTask
      OBVIOUS
    <2>4. ASSUME NEW u \in Writers, pc'[u] = "write"
          PROVE  /\ Len(wire') = Open' + off'[u]
                 /\ off'[u] < Length[msg'[u]]
                 /\ \A i \in 1..off'[u] : wire'[Open' + i] = <<msg'[u], i>>
      BY <1>3, <2>1, <2>2, <2>4
    <2> QED BY <2>3, <2>4 DEF OpenLaid
  <1>6. Aligned'
    BY DEF Aligned
  <1> QED BY <1>1, <1>2, <1>4, <1>5, <1>6

(* What the reader finds at the front of its buffer, unless it has come to  *)
(* a message that was cut short: a whole message is the next one, and what  *)
(* is no part of a message is nothing.                                      *)
LEMMA Front ==
    ASSUME Inv, ~C!Derailed
    PROVE  /\ \A m \in Messages : FrontWhole(m) =>
                 Len(got) < Len(frames) /\ frames[Len(got) + 1] = m
           /\ Malformed => filled = consumed
           /\ Len(got) <= Len(frames) /\ consumed = starts[Len(got) + 1]
  <1> DEFINE g == Len(got) + 1
  <1> USE DEF Inv
  <1>1. g \in DOMAIN starts /\ consumed = starts[g] /\ g \in Nat
    BY Bounds DEF Aligned, C!Derailed
  <1>2. /\ consumed \in Nat /\ filled \in Nat /\ consumed <= filled /\ filled <= Len(wire)
    BY Bounds DEF TypeOK
  <1>3. CASE g <= Len(frames)
    <2> DEFINE f == frames[g]
    <2>1. g \in DOMAIN frames /\ f # Torn /\ f \in Messages
      BY <1>1, <1>3, Bounds DEF C!Derailed
    <2>2. Length[f] \in Nat \ {0} /\ \A i \in 1..Length[f] : wire[consumed + i] = <<f, i>>
      BY <1>1, <2>1 DEF FramesLaid, OpenLaid, Open
    <2>3. \A m \in Messages : FrontWhole(m) => f = m
      <3> SUFFICES ASSUME NEW m \in Messages, FrontWhole(m) PROVE f = m
        OBVIOUS
      <3>1. wire[consumed + 1] = <<m, 1>>
        BY DEF FrontWhole
      <3>2. wire[consumed + 1] = <<f, 1>>
        BY <2>2
      <3> QED BY <3>1, <3>2
    <2>4. FrontWhole(f) \/ FrontPartial(f)
      <3>1. CASE Length[f] <= filled - consumed
        BY <2>2, <3>1 DEF FrontWhole
      <3>2. CASE filled - consumed < Length[f]
        <4>1. 1..(filled - consumed) \subseteq 1..Length[f]
          BY <1>2, <2>2, <3>2
        <4> QED BY <2>2, <3>2, <4>1 DEF FrontPartial
      <3> QED BY <1>2, <2>2, <3>1, <3>2
    <2>5. ~Malformed
      BY <2>1, <2>4 DEF Malformed
    <2> QED BY <1>1, <1>3, <2>3, <2>5, Bounds
  <1>4. CASE g > Len(frames)
    <2>1. g = Len(frames) + 1 /\ consumed = starts[Len(starts)]
      BY <1>1, <1>4, Bounds DEF FramesLaid, OpenLaid, Open
    <2>2. CASE writer = NoTask
      <3>1. filled = consumed
        BY <1>2, <2>1, <2>2 DEF FramesLaid, OpenLaid, Open
      <3>2. \A m \in Messages : ~FrontWhole(m)
        BY <3>1, <1>2 DEF FrontWhole
      <3> QED BY <1>1, <2>1, <3>1, <3>2, Bounds
    <2>3. CASE writer # NoTask
      <3> DEFINE m0 == msg[writer]
      <3>1. /\ writer \in Writers /\ pc[writer] = "write" /\ off[writer] \in Nat
            /\ m0 \in Messages
        BY <2>3 DEF TypeOK, MutexOwned
      <3>2. /\ Len(wire) = consumed + off[writer]
            /\ off[writer] < Length[m0]
            /\ \A i \in 1..off[writer] : wire[consumed + i] = <<m0, i>>
        BY <2>1, <3>1 DEF FramesLaid, OpenLaid, Open
      <3>3. Length[m0] \in Nat
        BY <3>1
      <3>4. FrontPartial(m0)
        <4>1. filled - consumed < Length[m0]
          BY <1>2, <3>1, <3>2, <3>3
        <4>2. 1..(filled - consumed) \subseteq 1..off[writer]
          BY <1>2, <3>1, <3>2
        <4> QED BY <3>2, <4>1, <4>2 DEF FrontPartial
      <3>5. ASSUME NEW m \in Messages, FrontWhole(m) PROVE FALSE
        <4>1. Length[m] \in Nat \ {0} /\ Length[m] <= off[writer]
          BY <1>2, <3>1, <3>2, <3>5 DEF FrontWhole
        <4>2. wire[consumed + 1] = <<m, 1>> /\ wire[consumed + 1] = <<m0, 1>>
          BY <3>1, <3>2, <3>5, <4>1 DEF FrontWhole
        <4>3. m = m0
          BY <4>2
        <4> QED BY <3>1, <3>2, <3>3, <4>1, <4>3
      <3>6. ~Malformed
        BY <3>1, <3>4 DEF Malformed
      <3> QED BY <1>1, <2>1, <3>5, <3>6, Bounds
    <2> QED BY <2>2, <2>3
  <1> QED BY <1>1, <1>3, <1>4, Bounds

(* Another message, or the part of one, is done at position e.              *)
LEMMA Done ==
    ASSUME Inv, NEW f \in Messages \cup {Torn}, NEW e \in Nat, Open <= e,
           frames' = Append(frames, f), starts' = Append(starts, e)
    PROVE  /\ Len(frames') = Len(frames) + 1 /\ Len(starts') = Len(starts) + 1
           /\ frames'[Len(frames) + 1] = f /\ starts'[Len(starts) + 1] = e
           /\ \A n \in 1..Len(frames) : frames'[n] = frames[n]
           /\ \A n \in 1..Len(starts) : starts'[n] = starts[n]
           /\ DOMAIN frames' = 1..(Len(frames) + 1) /\ DOMAIN starts' = 1..(Len(starts) + 1)
           /\ Open' = e
           /\ \A n \in DOMAIN starts' : starts'[n] <= e
           /\ UNCHANGED <<consumed, got>> => Aligned'
  <1>1. frames \in Seq(Messages \cup {Torn}) /\ starts \in Seq(Nat)
    BY DEF Inv, TypeOK
  <1>2. /\ Len(frames') = Len(frames) + 1 /\ Len(starts') = Len(starts) + 1
        /\ frames'[Len(frames) + 1] = f /\ starts'[Len(starts) + 1] = e
        /\ \A n \in 1..Len(frames) : frames'[n] = frames[n]
        /\ \A n \in 1..Len(starts) : starts'[n] = starts[n]
        /\ DOMAIN frames' = 1..(Len(frames) + 1) /\ DOMAIN starts' = 1..(Len(starts) + 1)
    BY <1>1
  <1>3. Open' = e
    BY <1>2 DEF Open
  <1>4. ASSUME NEW n \in DOMAIN starts' PROVE starts'[n] <= e
    <2>1. CASE n = Len(starts) + 1
      BY <1>2, <2>1
    <2>2. CASE n # Len(starts) + 1
      <3>1. n \in DOMAIN starts /\ n \in 1..Len(starts)
        BY <1>2, <2>2, Bounds
      <3>2. starts'[n] = starts[n] /\ starts[n] <= Open /\ starts[n] \in Nat
        BY <1>2, <3>1, Bounds DEF Inv, FramesLaid
      <3> QED BY <3>2, Bounds
    <2> QED BY <2>1, <2>2
  <1>5. ASSUME UNCHANGED <<consumed, got>> PROVE Aligned'
    BY <1>2, <1>5, Bounds DEF Inv, Aligned
  <1> QED BY <1>2, <1>3, <1>4, <1>5

(* write_all appends to its own message only.                               *)
LEMMA WriteInv ==
    ASSUME Inv, NEW w \in Writers, Write(w)
    PROVE  Inv'
  <1> DEFINE m == msg[w]
  <1> DEFINE o == off[w]
  <1> DEFINE last == o + 1 = Length[m]
  <1> USE DEF Inv
  <1>1. /\ pc[w] = "write" /\ writer = w /\ w # NoTask
        /\ m \in Messages /\ o \in Nat /\ Length[m] \in Nat
        /\ Len(wire) = Open + o /\ o < Length[m]
        /\ \A i \in 1..o : wire[Open + i] = <<m, i>>
    BY DEF Write, TypeOK, MutexOwned, OpenLaid
  <1>2. /\ wire' = Append(wire, <<m, o + 1>>)
        /\ off' = [off EXCEPT ![w] = o + 1]
        /\ pc' = [pc EXCEPT ![w] = IF last THEN "idle" ELSE "write"]
        /\ writer' = IF last THEN NoTask ELSE writer
        /\ frames' = IF last THEN Append(frames, m) ELSE frames
        /\ starts' = IF last THEN Append(starts, Len(wire) + 1) ELSE starts
        /\ UNCHANGED <<buffered, passed, filled, consumed, msg, closed, rpc, sends, got>>
    BY DEF Write
  <1>3. /\ wire \in Seq(Messages \X Nat) /\ frames \in Seq(Messages \cup {Torn})
        /\ starts \in Seq(Nat) /\ <<m, o + 1>> \in Messages \X Nat /\ Len(wire) + 1 \in Nat
    BY <1>1, Bounds DEF TypeOK
  <1>4. /\ wire' \in Seq(Messages \X Nat) /\ Len(wire') = Len(wire) + 1
        /\ \A k \in 1..Len(wire) : wire'[k] = wire[k]
        /\ wire'[Len(wire) + 1] = <<m, o + 1>>
    BY <1>2, <1>3
  <1>5. TypeOK'
    <2>1. frames' \in Seq(Messages \cup {Torn}) /\ starts' \in Seq(Nat)
      BY <1>1, <1>2, <1>3
    <2>2. passed' \in 0..Len(wire')
      BY <1>2, <1>4, Bounds DEF TypeOK
    <2>3. /\ off' \in [Writers -> Nat] /\ pc' \in [Writers -> {"idle", "lock", "write"}]
          /\ writer' \in Writers \cup {NoTask}
      <3>1. off \in [Writers -> Nat] /\ pc \in [Writers -> {"idle", "lock", "write"}]
        BY DEF TypeOK
      <3> HIDE DEF Inv, o, last
      <3>2. o + 1 \in Nat
        BY <1>1
      <3> QED BY <1>1, <1>2, <3>1, <3>2
    <2> QED BY <1>2, <1>4, <2>1, <2>2, <2>3 DEF TypeOK
  <1>6. MutexOwned'
    <2>1. \A u \in Writers : u # w => pc'[u] = pc[u] /\ off'[u] = off[u] /\ pc[u] # "write"
      BY <1>1, <1>2 DEF TypeOK, MutexOwned
    <2>2. pc'[w] = IF last THEN "idle" ELSE "write"
      BY <1>2 DEF TypeOK
    <2> QED BY <1>1, <1>2, <2>1, <2>2 DEF MutexOwned
  <1>7. \A k \in 1..(o + 1) : wire'[Open + k] = <<m, k>>
    <2> SUFFICES ASSUME NEW k \in 1..(o + 1) PROVE wire'[Open + k] = <<m, k>>
      OBVIOUS
    <2>1. CASE k = o + 1
      <3>1. Open + k = Len(wire) + 1
        <4>1. Open \in Nat /\ Len(wire) \in Nat
          BY Bounds
        <4> HIDE DEF Inv, m, o, last
        <4> QED BY <1>1, <2>1, <4>1
      <3> HIDE DEF Inv, m, o, last
      <3>2. wire'[Len(wire) + 1] = <<m, o + 1>>
        BY <1>4
      <3> QED BY <2>1, <3>1, <3>2
    <2>2. CASE k # o + 1
      <3>1. k \in 1..o /\ Open + k \in 1..Len(wire)
        <4>1. Open \in Nat /\ Len(wire) \in Nat
          BY Bounds
        <4> HIDE DEF Inv, m, o, last
        <4> QED BY <1>1, <2>2, <4>1
      <3> QED BY <1>1, <1>4, <3>1
    <2> QED BY <2>1, <2>2
  <1>8. \A n \in DOMAIN frames : frames[n] # Torn =>
           \A i \in 1..Length[frames[n]] : wire'[starts[n] + i] = <<frames[n], i>>
    <2> SUFFICES ASSUME NEW n \in DOMAIN frames, frames[n] # Torn,
                        NEW i \in 1..Length[frames[n]]
                 PROVE  wire'[starts[n] + i] = <<frames[n], i>>
      OBVIOUS
    <2>1. /\ starts[n + 1] = starts[n] + Length[frames[n]] /\ starts[n + 1] <= Open
          /\ wire[starts[n] + i] = <<frames[n], i>>
      <3>1. n + 1 \in DOMAIN starts
        BY Bounds
      <3> QED BY <3>1 DEF FramesLaid
    <2>2. starts[n] \in Nat /\ Length[frames[n]] \in Nat
      BY Bounds
    <2>3. starts[n] + i \in 1..Len(wire)
      BY <2>1, <2>2, Bounds
    <2> QED BY <1>4, <2>1, <2>3
  <1>9. CASE ~last
    <2>1. frames' = frames /\ starts' = starts /\ Open' = Open /\ writer' = w
      BY <1>1, <1>2, <1>9 DEF Open
    <2>2. FramesLaid'
      BY <1>8, <2>1 DEF FramesLaid
    <2>3. OpenLaid'
      <3>1. \A u \in Writers : pc'[u] = "write" => u = w
        BY <1>1, <1>2 DEF TypeOK, MutexOwned
      <3>2. off'[w] = o + 1 /\ msg'[w] = m /\ o + 1 < Length[m]
        BY <1>1, <1>2, <1>9 DEF TypeOK
      <3>3. Len(wire') = Open' + off'[w]
        BY <1>1, <1>4, <2>1, <3>2, Bounds
      <3> QED BY <1>1, <1>7, <2>1, <3>1, <3>2, <3>3 DEF OpenLaid
    <2>4. Aligned'
      BY <1>2, <2>1 DEF Aligned
    <2> QED BY <1>5, <1>6, <2>2, <2>3, <2>4
  <1>10. CASE last
    <2>1. frames' = Append(frames, m) /\ starts' = Append(starts, Len(wire) + 1) /\ writer' = NoTask
      BY <1>2, <1>10
    <2>2. /\ Len(frames') = Len(frames) + 1 /\ Len(starts') = Len(starts) + 1
          /\ frames'[Len(frames) + 1] = m /\ starts'[Len(starts) + 1] = Len(wire) + 1
          /\ \A n \in 1..Len(frames) : frames'[n] = frames[n]
          /\ \A n \in 1..Len(starts) : starts'[n] = starts[n]
          /\ DOMAIN frames' = 1..(Len(frames) + 1) /\ DOMAIN starts' = 1..(Len(starts) + 1)
          /\ Open' = Len(wire) + 1
          /\ \A n \in DOMAIN starts' : starts'[n] <= Len(wire) + 1
          /\ Aligned'
      <3>1. m \in Messages \cup {Torn} /\ Len(wire) + 1 \in Nat /\ Open <= Len(wire) + 1
        <4> HIDE DEF Inv, m, o, last
        <4> QED BY <1>1, <1>3, Bounds
      <3> HIDE DEF m
      <3> QED BY <1>2, <2>1, <3>1, Done
    <2>4. FramesLaid'
      <3>1. Len(starts') = Len(frames') + 1
        BY <2>2, Bounds
      <3>2. \A n \in DOMAIN starts' : starts'[n] <= Open'
        BY <2>2
      <3>3. ASSUME NEW n \in DOMAIN frames', frames'[n] # Torn
            PROVE  /\ starts'[n + 1] = starts'[n] + Length[frames'[n]]
                   /\ \A i \in 1..Length[frames'[n]] : wire'[starts'[n] + i] = <<frames'[n], i>>
        <4>1. CASE n = Len(frames) + 1
          <5>1. frames'[n] = m /\ starts'[n] = Open /\ starts'[n + 1] = Len(wire) + 1
            BY <2>2, <4>1, Bounds
          <5>2. Len(wire) + 1 = Open + Length[m] /\ \A i \in 1..Length[m] : wire'[Open + i] = <<m, i>>
            <6>1. Len(wire) + 1 = Open + Length[m]
              BY <1>1, <1>10, Bounds
            <6>2. Length[m] = o + 1
              BY <1>10
            <6> QED BY <1>7, <6>1, <6>2
          <5> HIDE DEF m
          <5> QED BY <5>1, <5>2
        <4>2. CASE n # Len(frames) + 1
          <5>1. n \in DOMAIN frames /\ n \in 1..Len(starts) /\ n + 1 \in 1..Len(starts)
            BY <2>2, <3>3, <4>2, Bounds
          <5>2. frames'[n] = frames[n] /\ starts'[n] = starts[n] /\ starts'[n + 1] = starts[n + 1]
            BY <2>2, <5>1, Bounds
          <5> QED BY <1>8, <3>3, <5>1, <5>2 DEF FramesLaid
        <4> QED BY <4>1, <4>2
      <3> QED BY <3>1, <3>2, <3>3 DEF FramesLaid
    <2>5. OpenLaid'
      <3>1. \A u \in Writers : pc'[u] # "write"
        BY <1>1, <1>2, <1>10 DEF TypeOK, MutexOwned
      <3> QED BY <1>4, <2>2, <3>1 DEF OpenLaid
    <2> QED BY <1>5, <1>6, <2>2, <2>4, <2>5
  <1> QED BY <1>9, <1>10

(* A send that is cut short leaves a part of a message behind, which is     *)
(* recorded as such, or nothing.                                            *)
LEMMA CutShortInv ==
    ASSUME Inv, NEW w \in Writers, CutShort(w)
    PROVE  Inv'
  <1> USE DEF Inv
  <1>1. /\ pc[w] \in {"lock", "write"}
        /\ pc' = [pc EXCEPT ![w] = "idle"]
        /\ writer' = IF pc[w] = "write" THEN NoTask ELSE writer
        /\ frames' = IF off[w] > 0 THEN Append(frames, Torn) ELSE frames
        /\ starts' = IF off[w] > 0 THEN Append(starts, Len(wire)) ELSE starts
        /\ UNCHANGED <<buffered, wire, passed, filled, consumed, msg, off, closed, rpc, sends, got>>
    BY DEF CutShort
  <1>2. MutexOwned'
    BY <1>1 DEF TypeOK, MutexOwned
  <1>3. /\ frames \in Seq(Messages \cup {Torn}) /\ starts \in Seq(Nat) /\ Len(wire) \in Nat
        /\ off[w] \in Nat
    BY Bounds DEF TypeOK
  <1>4. TypeOK'
    <2>1. frames' \in Seq(Messages \cup {Torn}) /\ starts' \in Seq(Nat)
      BY <1>1, <1>3
    <2>2. pc' \in [Writers -> {"idle", "lock", "write"}] /\ writer' \in Writers \cup {NoTask}
      BY <1>1 DEF TypeOK
    <2> QED BY <1>1, <2>1, <2>2 DEF TypeOK
  <1>5. CASE off[w] = 0
    <2>1. frames' = frames /\ starts' = starts /\ Open' = Open /\ wire' = wire
      BY <1>1, <1>5 DEF Open
    <2>2. FramesLaid' /\ Aligned'
      BY <1>1, <2>1 DEF FramesLaid, Aligned
    <2>3. \A u \in Writers : pc'[u] = "write" =>
             pc[u] = "write" /\ off'[u] = off[u] /\ msg'[u] = msg[u]
      BY <1>1 DEF TypeOK
    <2>4. writer' = NoTask => Len(wire) = Open
      <3>1. CASE pc[w] = "write"
        BY <1>5, <3>1, Bounds DEF OpenLaid
      <3>2. CASE pc[w] # "write"
        BY <1>1, <3>2 DEF OpenLaid
      <3> QED BY <3>1, <3>2
    <2>5. OpenLaid'
      BY <2>1, <2>3, <2>4 DEF OpenLaid
    <2> QED BY <1>2, <1>4, <2>2, <2>5
  <1>6. CASE off[w] > 0
    <2>1. pc[w] = "write" /\ writer = w /\ writer' = NoTask
      BY <1>1, <1>6 DEF MutexOwned
    <2>2. frames' = Append(frames, Torn) /\ starts' = Append(starts, Len(wire)) /\ wire' = wire
      BY <1>1, <1>6
    <2>3. /\ Len(frames') = Len(frames) + 1 /\ Len(starts') = Len(starts) + 1
          /\ frames'[Len(frames) + 1] = Torn
          /\ \A n \in 1..Len(frames) : frames'[n] = frames[n]
          /\ \A n \in 1..Len(starts) : starts'[n] = starts[n]
          /\ DOMAIN frames' = 1..(Len(frames) + 1)
          /\ Open' = Len(wire)
          /\ \A n \in DOMAIN starts' : starts'[n] <= Len(wire)
          /\ Aligned'
      BY <1>1, <1>3, <2>2, Done, Bounds
    <2>4. FramesLaid'
      <3>1. Len(starts') = Len(frames') + 1
        BY <2>3, Bounds
      <3>2. ASSUME NEW n \in DOMAIN frames', frames'[n] # Torn
            PROVE  /\ starts'[n + 1] = starts'[n] + Length[frames'[n]]
                   /\ \A i \in 1..Length[frames'[n]] : wire'[starts'[n] + i] = <<frames'[n], i>>
        <4>1. n \in DOMAIN frames /\ n \in 1..Len(starts) /\ n + 1 \in 1..Len(starts)
          BY <2>3, <3>2, Bounds
        <4>2. frames'[n] = frames[n] /\ starts'[n] = starts[n] /\ starts'[n + 1] = starts[n + 1]
          BY <2>3, <4>1, Bounds
        <4> QED BY <2>2, <3>2, <4>1, <4>2 DEF FramesLaid
      <3> QED BY <2>3, <3>1, <3>2 DEF FramesLaid
    <2>5. OpenLaid'
      <3>1. \A u \in Writers : pc'[u] # "write"
        BY <1>1, <2>1 DEF TypeOK, MutexOwned
      <3> QED BY <2>2, <2>3, <3>1 DEF OpenLaid
    <2> QED BY <1>2, <1>4, <2>3, <2>4, <2>5
  <1> QED BY <1>3, <1>5, <1>6

(* Steps of the connection and of the reader that consume nothing.          *)
LEMMA TransportInv ==
    ASSUME Inv, Close \/ PassOn \/ Recv \/ CancelRecv \/ FillBuf
    PROVE  Inv'
  <1>1. UNCHANGED <<consumed, got, writing>>
    BY DEF Close, PassOn, Recv, CancelRecv, FillBuf
  <1>2. TypeOK'
    <2> USE <1>1 DEF Inv, TypeOK, writing
    <2>1. CASE Close
      BY <2>1 DEF Close
    <2>2. CASE PassOn
      <3>1. passed' \in 0..Len(wire') /\ filled' \in 0..passed' /\ consumed' \in 0..filled'
        <4> HIDE DEF Inv, TypeOK
        <4> QED BY <2>2, Bounds, Counters DEF PassOn
      <3> QED BY <2>2, <3>1 DEF PassOn
    <2>3. CASE Recv
      BY <2>3 DEF Recv
    <2>4. CASE CancelRecv
      BY <2>4 DEF CancelRecv
    <2>5. CASE FillBuf
      <3>1. /\ passed' = passed /\ consumed' = consumed
            /\ \/ filled' = filled
               \/ filled = consumed /\ filled < passed /\ filled' = Lesser(passed, consumed + BufCap)
        BY <2>5 DEF FillBuf
      <3>2. filled' \in 0..passed' /\ consumed' \in 0..filled'
        <4> HIDE DEF Inv, TypeOK
        <4> QED BY <3>1, Counters, BoundsAssumption DEF Lesser
      <3> QED BY <2>5, <3>2 DEF FillBuf
    <2> QED BY <2>1, <2>2, <2>3, <2>4, <2>5
  <1> QED BY <1>1, <1>2, QuietInv DEF Inv

(* What try_consume_syrup returns is the next message, unless the reader    *)
(* has come to one that was cut short.                                      *)
LEMMA LexInv ==
    ASSUME Inv, Lex
    PROVE  Inv' /\ [C!Next]_(C!vars)
  <1> USE DEF Inv
  <1>1. UNCHANGED <<buffered, passed, filled, closed, sends, writing>>
    BY DEF Lex
  <1>2. MutexOwned' /\ FramesLaid' /\ OpenLaid'
    BY <1>1 DEF MutexOwned, FramesLaid, OpenLaid, Open, writing
  <1>3. got \in Seq(Messages \cup {Junk}) /\ frames' = frames /\ starts' = starts
    BY <1>1 DEF TypeOK, writing
  <1>4. CASE UNCHANGED <<consumed, got>> /\ rpc' \in {"idle", "fill"}
    <2>1. TypeOK'
      BY <1>1, <1>4 DEF TypeOK, writing
    <2>2. Aligned'
      BY <1>3, <1>4 DEF Aligned
    <2>3. UNCHANGED C!vars
      BY <1>3, <1>4 DEF C!vars
    <2> QED BY <1>2, <2>1, <2>2, <2>3
  <1>5. ASSUME NEW m \in Messages \cup {Junk}, NEW k \in Nat,
               consumed' = consumed + k, consumed' \in 0..filled,
               got' = Append(got, m), rpc' = "idle",
               ~C!Derailed => /\ Len(got) < Len(frames) /\ frames[Len(got) + 1] = m
                              /\ m \in Messages /\ k = Length[m]
        PROVE  Inv' /\ [C!Next]_(C!vars)
    <2>1. got' \in Seq(Messages \cup {Junk}) /\ Len(got') = Len(got) + 1
      BY <1>3, <1>5
    <2>2. TypeOK'
      BY <1>1, <1>5, <2>1 DEF TypeOK, writing
    <2>3. CASE C!Derailed
      <3>1. C!Misread
        BY <1>3, <1>5, <2>3 DEF C!Misread
      <3>2. Aligned'
        BY <1>3, <2>1, <2>3, Bounds DEF Aligned, C!Derailed
      <3> QED BY <1>2, <2>2, <3>1, <3>2 DEF C!Next
    <2>4. CASE ~C!Derailed
      <3>1. C!Receive
        BY <1>3, <1>5, <2>4 DEF C!Receive
      <3>2. frames[Len(got) + 1] # Torn /\ Len(got) + 1 \in DOMAIN frames
        BY <1>5, <2>4, Bounds
      <3>3. starts[Len(got) + 2] = starts[Len(got) + 1] + Length[m]
        <4>1. starts[(Len(got) + 1) + 1] = starts[Len(got) + 1] + Length[m]
          BY <1>5, <2>4, <3>2 DEF FramesLaid
        <4>2. (Len(got) + 1) + 1 = Len(got) + 2
          BY Bounds
        <4> QED BY <4>1, <4>2
      <3>4. consumed = starts[Len(got) + 1]
        BY <2>4, Front
      <3>5. Aligned'
        BY <1>3, <1>5, <2>1, <2>4, <3>2, <3>3, <3>4, Bounds DEF Aligned
      <3> QED BY <1>2, <2>2, <3>1, <3>5 DEF C!Next
    <2> QED BY <2>3, <2>4
  <1>6. CASE Tokenize
    <2>1. PICK m \in Messages : /\ FrontWhole(m) /\ consumed' = consumed + Length[m]
                                /\ got' = Append(got, m) /\ rpc' = "idle"
      BY <1>6 DEF Tokenize
    <2>2. Length[m] \in Nat /\ consumed' \in 0..filled
      BY <2>1 DEF TypeOK, FrontWhole
    <2>3. ~C!Derailed => Len(got) < Len(frames) /\ frames[Len(got) + 1] = m
      BY <2>1, Front
    <2> QED BY <1>5, <2>1, <2>2, <2>3
  <1>7. CASE Incomplete
    BY <1>4, <1>7 DEF Incomplete
  <1>8. CASE LexError
    <2>1. CASE UNCHANGED <<consumed, got>> /\ rpc' \in {"idle", "fill"}
      BY <1>4, <2>1
    <2>2. CASE consumed' \in (consumed + 1)..filled /\ got' = Append(got, Junk) /\ rpc' = "idle"
      <3>1. consumed' - consumed \in Nat /\ consumed' \in 0..filled
               /\ consumed' = consumed + (consumed' - consumed) /\ filled # consumed
        BY <2>2, Counters
      <3>2. C!Derailed
        BY <1>8, <3>1, Front DEF LexError
      <3> QED BY <1>5, <2>2, <3>1, <3>2
    <2> QED BY <1>8, <2>1, <2>2 DEF LexError
  <1> QED BY <1>6, <1>7, <1>8 DEF Lex

(* Every step keeps the invariant.                                          *)
LEMMA NextInv == Inv /\ [Next]_vars => Inv'
  <1> SUFFICES ASSUME Inv, [Next]_vars PROVE Inv'
    OBVIOUS
  <1>1. ASSUME NEW w \in Writers, NEW m \in Menu[w], Send(w, m) PROVE Inv'
    <2>1. m \in Messages
      BY MenuAssumption
    <2> QED BY <1>1, <2>1, SendInv
  <1>2. ASSUME NEW w \in Writers, LockWriter(w) PROVE Inv'
    BY <1>2, LockWriterInv
  <1>3. ASSUME NEW w \in Writers, Write(w) PROVE Inv'
    BY <1>3, WriteInv
  <1>4. ASSUME NEW w \in Writers, CutShort(w) PROVE Inv'
    BY <1>4, CutShortInv
  <1>5. CASE Close \/ PassOn \/ Recv \/ CancelRecv \/ FillBuf
    BY <1>5, TransportInv
  <1>6. CASE Lex
    BY <1>6, LexInv
  <1>7. CASE UNCHANGED vars
    <2>1. TypeOK'
      BY <1>7 DEF Inv, TypeOK, vars, writing
    <2> QED BY <1>7, <2>1, QuietInv DEF Inv, vars
  <1> QED BY <1>1, <1>2, <1>3, <1>4, <1>5, <1>6, <1>7 DEF Next

(* The inductive invariant: the bytes of io.rs and send_msg are laid out    *)
(* message by message, and the reader is at the beginning of one.           *)
THEOREM Invariance == Spec => []Inv
  BY InitInv, NextInv, PTL DEF Spec

(* Type correctness of the connection, which includes that consume never    *)
(* goes beyond what fill_buf returned.                                      *)
THEOREM TypeCorrect == Spec => []TypeOK
  <1>1. Inv => TypeOK
    BY DEF Inv
  <1> QED BY <1>1, Invariance, PTL

(* A step of the connection is a step of the channel.                       *)
LEMMA StepSimulation == Inv /\ [Next]_vars => [C!Next]_(C!vars)
  <1> SUFFICES ASSUME Inv, [Next]_vars PROVE [C!Next]_(C!vars)
    OBVIOUS
  <1>1. ASSUME NEW w \in Writers, Write(w) PROVE [C!Next]_(C!vars)
    <2>1. msg[w] \in Messages
      BY DEF Inv, TypeOK
    <2>2. UNCHANGED C!vars \/ (frames' = Append(frames, msg[w]) /\ UNCHANGED got)
      BY <1>1 DEF Write, C!vars
    <2> QED BY <2>1, <2>2 DEF C!Next, C!Send
  <1>2. ASSUME NEW w \in Writers, CutShort(w) PROVE [C!Next]_(C!vars)
    <2>1. UNCHANGED C!vars \/ (frames' = Append(frames, Torn) /\ UNCHANGED got)
      BY <1>2 DEF CutShort, C!vars
    <2> QED BY <2>1 DEF C!Next, C!Send
  <1>3. CASE Lex
    BY <1>3, LexInv
  <1>4. ASSUME NEW w \in Writers, NEW m \in Menu[w], Send(w, m) PROVE UNCHANGED C!vars
    BY <1>4 DEF Send, C!vars
  <1>5. ASSUME NEW w \in Writers, LockWriter(w) PROVE UNCHANGED C!vars
    BY <1>5 DEF LockWriter, C!vars
  <1>6. CASE Close \/ PassOn \/ Recv \/ CancelRecv \/ FillBuf
    BY <1>6 DEF Close, PassOn, Recv, CancelRecv, FillBuf, writing, C!vars
  <1>7. CASE UNCHANGED vars
    BY <1>7 DEF vars, writing, C!vars
  <1> QED BY <1>1, <1>2, <1>3, <1>4, <1>5, <1>6, <1>7 DEF Next

(* send_msg, consume_syrup and the reader's buffer implement a channel of   *)
(* whole messages in order, up to the first send that is cut short.         *)
THEOREM Refinement == Spec => IsChannel
  <1>1. Init => C!Init
    BY DEF Init, C!Init
  <1> QED BY <1>1, Invariance, StepSimulation, PTL DEF Spec, IsChannel, C!Spec
=============================================================================
