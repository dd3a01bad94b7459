--------------------------- MODULE LoanPageUsers ---------------------------
(***************************************************************************)
(* LoanPage with a history variable: who has been logged in on the session *)
(* of the browser since the page in the tab was opened.  It says of an     *)
(* answer that comes late for whom it may still come.                      *)
(***************************************************************************)
EXTENDS LoanPage

VARIABLE seen   \* the users of the session since the page was opened

uvars == <<pvars, seen>>

\* A step after which the tab has a page of its own, as a login and a logout
\* have; the document that becomes ready is the same page.
PageIsNew == page' # page /\ page' # "loans"

UsersInit == PageInit /\ seen = {}

UsersNext ==
    /\ PageNext
    /\ seen' = ((IF PageIsNew THEN {} ELSE seen) \cup {getUser(Here)'}) \ {Nobody}

UsersSpec == UsersInit /\ [][UsersNext]_uvars /\ PageFairness

-----------------------------------------------------------------------------

\* The page shows nobody's loans but those of somebody who has been logged in
\* on its session since it was opened: no answer to a request of a page that
\* was left, and none that the server began for the user before, gets into it
\* (loanMgmt.js, lines 109-143; FetchUserData, lines 38-50).
ShowsItsUsers == \A l \in shown : owner[l] \in seen
=============================================================================
