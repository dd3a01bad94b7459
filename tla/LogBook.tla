------------------------------ MODULE LogBook ------------------------------
(***************************************************************************)
(* What a log promises about the messages it is given, apart from buffers, *)
(* files and timers: a message is pending, until it is filed for good or   *)
(* lost for good, and none is lost as long as the log is calm.             *)
(***************************************************************************)
CONSTANT Messages

VARIABLES
    pending,    \* messages given to the log and not yet filed
    filed,      \* messages that can be read in it
    lost,       \* messages that never will be
    calm        \* TRUE: it loses nothing

bookVars == <<pending, filed, lost, calm>>

Init ==
    /\ pending = {}
    /\ filed = {}
    /\ lost = {}
    /\ calm = TRUE

Given(m) ==
    /\ m \notin pending \cup filed \cup lost
    /\ pending' = pending \cup {m}
    /\ UNCHANGED <<filed, lost, calm>>

\* Some messages are filed; it may be the last time that nothing is lost.
File ==
    /\ \E S \in SUBSET pending : pending' = pending \ S /\ filed' = filed \cup S
    /\ calm' \in {calm, FALSE}
    /\ UNCHANGED lost

Lose ==
    /\ ~calm
    /\ \E S \in SUBSET pending : pending' = pending \ S /\ lost' = lost \cup S
    /\ UNCHANGED <<filed, calm>>

Next == File \/ Lose \/ \E m \in Messages : Given(m)

Spec == Init /\ [][Next]_bookVars
=============================================================================
