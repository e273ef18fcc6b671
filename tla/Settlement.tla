------------------------------ MODULE Settlement ------------------------------
(***************************************************************************)
(* What a promise owes to the deliveries that try to settle it and to the  *)
(* caller that waits for it: one delivery at most is accepted, the caller  *)
(* gets that one's value, and a delivery is refused only because another   *)
(* was first or because the caller has stopped waiting.                    *)
(***************************************************************************)
CONSTANTS Deliveries, None

VARIABLES
    winner,   \* the delivery that has claimed the promise
    told,     \* what each delivery has been told
    answer    \* pending, abandoned, or the delivery whose value the caller got

vars == <<winner, told, answer>>

Init ==
    /\ winner = None
    /\ told = [d \in Deliveries |-> "pending"]
    /\ answer = "pending"

Claim(d) ==
    /\ winner = None /\ told[d] = "pending"
    /\ winner' = d
    /\ UNCHANGED <<told, answer>>

Accept(d) ==
    /\ winner = d /\ told[d] = "pending" /\ answer = "pending"
    /\ told' = [told EXCEPT ![d] = "accepted"]
    /\ UNCHANGED <<winner, answer>>

Refuse(d) ==
    /\ told[d] = "pending"
    /\ winner \notin {None, d} \/ answer = "abandoned"
    /\ told' = [told EXCEPT ![d] = "refused"]
    /\ winner' = IF winner = d THEN None ELSE winner
    /\ UNCHANGED answer

Answer(d) ==
    /\ answer = "pending" /\ winner = d /\ told[d] = "accepted"
    /\ answer' = d
    /\ UNCHANGED <<winner, told>>

Abandon ==
    /\ answer = "pending"
    /\ answer' = "abandoned"
    /\ UNCHANGED <<winner, told>>

Next ==
    \/ \E d \in Deliveries : Claim(d) \/ Accept(d) \/ Refuse(d) \/ Answer(d)
    \/ Abandon

Spec == Init /\ [][Next]_vars

=============================================================================
