-------------------------- MODULE SessionRegistry --------------------------
(***************************************************************************)
(* What the session service promises, apart from its maps: a session is    *)
(* logged in as one user or nobody, a user is logged in on one session at  *)
(* a time, a login takes the place of what the session and the user had    *)
(* before, and nobody is logged in without a login.                        *)
(***************************************************************************)
CONSTANTS Sessions, Users, Nobody

VARIABLE who    \* who[s]: the user that a request on session s runs for

Init == who = [s \in Sessions |-> Nobody]

LogIn(s, u) ==
    who' = [r \in Sessions |-> IF r = s THEN u
                               ELSE IF who[r] = u THEN Nobody ELSE who[r]]

\* Some sessions end: a logout, an expiry, the stop of the service.
Forget == \E gone \in SUBSET Sessions :
    who' = [s \in Sessions |-> IF s \in gone THEN Nobody ELSE who[s]]

Next == Forget \/ \E s \in Sessions, u \in Users : LogIn(s, u)

Spec == Init /\ [][Next]_who
=============================================================================
