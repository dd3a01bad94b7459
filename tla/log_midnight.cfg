\* The second message of a day that did not begin with the server closes its file.
SPECIFICATION LoggerSpec
CONSTANTS
    MaxDays = 3
    MaxMessages = 3
INVARIANT
    ChangesAtMidnight
CHECK_DEADLOCK FALSE
