\* Three retrievals of one report, with failing statements and writes.
SPECIFICATION ReportRetrievalSpec
CONSTANTS
    Txns = {t1}
    Fetchers = {f1, f2, f3}
    NoRow = NoRow
    NoDate = NoDate
    MaxDbFailures = 1
    MaxIoFailures = 1
    MaxAttempts = 2
INVARIANTS
    OneWriter
    OfferedIsBacked
PROPERTIES
    KeepsDelivery
    FetchersEnd
