------------------------------ MODULE Lifecycle ------------------------------
(***************************************************************************)
(* What the core loop promises: a server that comes up, goes down when it  *)
(* is asked to and not before, hands no packet to the plugins once it is   *)
(* down, and lets those who asked and who started it return then and only  *)
(* then. Threads, pools, barriers and receives are gone; CoreLoop          *)
(* implements this specification.                                          *)
(***************************************************************************)
EXTENDS Naturals

CONSTANT Memory

VARIABLES
    phase,     \* "down" before the main loop exists, "up", "ending", "over"
    asked,     \* has somebody asked it to stop?
    answered,  \* may those who wait for the end go on?
    handed     \* the buffers the plugins have

vars == <<phase, asked, answered, handed>>

Init ==
    /\ phase = "down"
    /\ asked = FALSE
    /\ answered = FALSE
    /\ handed = {}

Boot ==
    /\ phase = "down"
    /\ phase' = "up"
    /\ UNCHANGED <<asked, answered, handed>>

Ask ==
    /\ phase # "down"
    /\ ~asked
    /\ asked' = TRUE
    /\ UNCHANGED <<phase, answered, handed>>

End ==
    /\ phase = "up"
    /\ asked
    /\ phase' = "ending"
    /\ UNCHANGED <<asked, answered, handed>>

Finish ==
    /\ phase = "ending"
    /\ phase' = "over"
    /\ UNCHANGED <<asked, answered, handed>>

Answer ==
    /\ phase = "over"
    /\ ~answered
    /\ answered' = TRUE
    /\ UNCHANGED <<phase, asked, handed>>

\* A packet can arrive as long as anything runs.
Hand(b) ==
    /\ phase # "over"
    /\ b \notin handed
    /\ handed' = handed \cup {b}
    /\ UNCHANGED <<phase, asked, answered>>

Return(b) ==
    /\ b \in handed
    /\ handed' = handed \ {b}
    /\ UNCHANGED <<phase, asked, answered>>

Next ==
    \/ Boot
    \/ Ask
    \/ End
    \/ Finish
    \/ Answer
    \/ \E b \in Memory : Hand(b) \/ Return(b)

\* Packets, their return and the request to stop come as they like.
Fairness ==
    /\ WF_vars(Boot)
    /\ WF_vars(End)
    /\ WF_vars(Finish)
    /\ WF_vars(Answer)

Spec == Init /\ [][Next]_vars

FairSpec == Spec /\ Fairness

=============================================================================
