\* Two transactions whose threads mail at the same time.
SPECIFICATION LinkGenerationSpec
CONSTANTS
    Txns = {t1, t2}
    NoRow = NoRow
    NoDate = NoDate
    MaxDbFailures = 0
    MaxAttempts = 2
    MailerUp = TRUE
    Support = Support
    MaxAlerts = 0
INVARIANT
    MailGoesToApplicant
