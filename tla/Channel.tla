------------------------------- MODULE Channel -------------------------------
(***************************************************************************)
(* What a connection promises to the session above it: whole messages, in  *)
(* the order in which they were sent, up to the first send that was cut    *)
(* short.  Session relies on this.                                         *)
(***************************************************************************)
EXTENDS Sequences, Naturals

CONSTANTS
    Messages,
    Torn,         \* a message of which only a part was written
    Junk          \* something else than the messages that were sent

VARIABLES
    frames,       \* what was sent
    got           \* what was received

vars == <<frames, got>>

(* The receiver is past, or at, a message that was cut short.               *)
Derailed == \E n \in 1..(Len(got) + 1) : n \in DOMAIN frames /\ frames[n] = Torn

Init == frames = <<>> /\ got = <<>>

Send == \E m \in Messages \cup {Torn} : frames' = Append(frames, m) /\ UNCHANGED got

Receive ==
    /\ ~Derailed
    /\ Len(got) < Len(frames)
    /\ got' = Append(got, frames[Len(got) + 1])
    /\ UNCHANGED frames

(* Nothing is promised about what comes after.                              *)
Misread ==
    /\ Derailed
    /\ \E m \in Messages \cup {Junk} : got' = Append(got, m)
    /\ UNCHANGED frames

Next == Send \/ Receive \/ Misread

Spec == Init /\ [][Next]_vars
=============================================================================
