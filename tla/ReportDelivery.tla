--------------------------- MODULE ReportDelivery ---------------------------
(***************************************************************************)
(* What the user is promised about reports, apart from how they are        *)
(* fetched.  A report is not offered for download at first; then it is     *)
(* offered, and a download serves a complete file or not; once it has,     *)
(* every later download serves the same: the report, or for good whatever  *)
(* else was taken for it.                                                  *)
(***************************************************************************)
CONSTANT Txns

VARIABLE download   \* what a download of t's report serves

\* A complete file is "whole", the report, or "wrong", another body.
Outcome == {"nothing", "broken", "whole", "wrong"}

Init == download = [t \in Txns |-> "nothing"]

\* The report is offered, complete or not.
Offer(t) ==
    /\ download[t] = "nothing"
    /\ download' \in { [download EXCEPT ![t] = o] : o \in Outcome \ {"nothing"} }

\* An offered report has been written out to its end.
Complete(t) ==
    /\ download[t] = "broken"
    /\ \E o \in {"whole", "wrong"} : download' = [download EXCEPT ![t] = o]

Next == \E t \in Txns : Offer(t) \/ Complete(t)

Spec == Init /\ [][Next]_download
=============================================================================
