\* One of each thread with crashes: threads end, rows expire,
\* downloads keep their promise.
SPECIFICATION Spec
CONSTANTS
    Txns = {t1}
    Pollers = {p1}
    Fetchers = {f1}
    NoRow = NoRow
    NoDate = NoDate
    MaxDbFailures = 0
    MaxIoFailures = 0
    MaxAttempts = 2
    MailerUp = TRUE
    Support = Support
    MaxAlerts = 0
PROPERTIES
    ThreadsEnd
    RowsExpire
    KeepsDelivery
    ThreadsAdvance
