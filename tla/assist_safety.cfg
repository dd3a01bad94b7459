\* One transaction, two returns at a time, and the logger.
SPECIFICATION Spec
CONSTANTS
    Txns = {t1}
    Pollers = {p1, p2}
    Fetchers = {f1}
    NoRow = NoRow
    NoDate = NoDate
    MaxDbFailures = 0
    MaxIoFailures = 0
    MaxAttempts = 1
    MailerUp = TRUE
    Support = Support
    MaxAlerts = 1
SYMMETRY Symmetry
INVARIANTS
    TypeOK
    PerfiosIdKept
    Inv
    StatusIsTrue
    LinkStatesHaveLink
PROPERTY
    RowsKeep
