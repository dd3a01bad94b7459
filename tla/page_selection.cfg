\* The table of the loans is built once more, as by the Refresh button.
SPECIFICATION TableOfLoansSpec
CONSTANTS
    Loans = {l1, l2}
    NoLoan = NoLoan
    MaxBuilds = 3
INVARIANT
    ClickSelects
CHECK_DEADLOCK FALSE
