\* Two transactions, without symmetry, and the logger: mailed links are
\* stored, the retries end.
SPECIFICATION LinkGenerationSpec
CONSTANTS
    Txns = {t1, t2}
    NoRow = NoRow
    NoDate = NoDate
    MaxDbFailures = 0
    MaxAttempts = 2
    MailerUp = TRUE
    Support = Support
    MaxAlerts = 1
INVARIANT
    MailedLinkIsStored
PROPERTIES
    LinkThreadsEnd
