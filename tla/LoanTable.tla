----------------------------- MODULE LoanTable -----------------------------
(***************************************************************************)
(* The table of loanMgmt.html by itself: buildJQueryReportDataTable, which *)
(* viewLoans calls whenever a fetch returns loans, and the row that the    *)
(* user has selected.  The DataTable is destroyed and made anew, but its   *)
(* tbody stays in the document with the click handlers it has.             *)
(***************************************************************************)
EXTENDS Naturals

CONSTANTS
    Loans,      \* the loans a fetch may return
    NoLoan,     \* no row is selected
    MaxBuilds   \* bound on the fetches that return loans

VARIABLES
    shown,      \* the rows
    handlers,   \* click handlers on the tbody
    selected    \* the row with the class 'selected'

tvars == <<shown, handlers, selected>>

TableOfLoansInit ==
    /\ shown = {}
    /\ handlers = 0
    /\ selected = NoLoan

\* The new rows are not selected; one more handler, as every call passes TRUE
\* for rowSelectColoring.
buildJQueryReportDataTable(rows) ==
    /\ handlers < MaxBuilds
    /\ shown' = rows
    /\ handlers' = handlers + 1
    /\ selected' = NoLoan

\* One handler unselects row l if it is selected, and else selects it alone.
Handle(l, now) == IF now = l THEN NoLoan ELSE l

\* What is selected after a click on l: every handler runs.
AfterClick(l) ==
    LET after[n \in 0..handlers] == IF n = 0 THEN selected ELSE Handle(l, after[n - 1])
    IN  after[handlers]

Click(l) ==
    /\ l \in shown
    /\ selected' = AfterClick(l)
    /\ UNCHANGED <<shown, handlers>>

TableOfLoansNext ==
    \/ \E rows \in SUBSET Loans \ {{}} : buildJQueryReportDataTable(rows)
    \/ \E l \in Loans : Click(l)

TableOfLoansSpec == TableOfLoansInit /\ [][TableOfLoansNext]_tvars

-----------------------------------------------------------------------------

\* "Row selection coloring" (loanMgmt.js, line 86): a click on a row that is
\* not selected selects it (line 93).
ClickSelects == \A l \in shown : selected # l => AfterClick(l) = l
=============================================================================
