\* Three days and three messages.
SPECIFICATION LoggerSpec
CONSTANTS
    MaxDays = 3
    MaxMessages = 3
INVARIANTS
    CompleteUntilMidnight
    LoggedOnce
    NeverInEarlierFile
PROPERTIES
    Flushed
    KeepsLogBook
CHECK_DEADLOCK FALSE
