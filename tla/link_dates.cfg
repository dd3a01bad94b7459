\* Three transactions whose threads share the field expiryDate;
\* no mailer.
SPECIFICATION LinkGenerationSpec
CONSTANTS
    Txns = {t1, t2, t3}
    NoRow = NoRow
    NoDate = NoDate
    MaxDbFailures = 1
    MaxAttempts = 2
    MailerUp = FALSE
    Support = Support
    MaxAlerts = 0
SYMMETRY TxnSymmetry
INVARIANTS
    LastDateWins
    DateIsSet
