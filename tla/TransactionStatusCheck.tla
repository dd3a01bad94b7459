----------------------- MODULE TransactionStatusCheck -----------------------
(***************************************************************************)
(* From the user's return to the status in the row: HandleInsightsReturn-  *)
(* Url starts a thread; InsightsTransactionStatusCall asks Insights what   *)
(* became of the transaction; HandleReturnUrlPostProcess stores the answer *)
(* and, if the report is there, has it retrieved.                          *)
(*                                                                         *)
(* A return may be repeated (the page is reloaded), so answers to several  *)
(* questions about one transaction may be on their way at once, and they   *)
(* are stored in any order.                                                *)
(***************************************************************************)
EXTENDS ReportRetrieval

CONSTANT Pollers    \* slots for threads that ask for a status (a bound)

VARIABLES
    insights,   \* insights[t]: what Insights knows of t
    poll        \* poll[p]: what the thread in slot p is doing

pollVars == <<insights, poll>>

(***************************************************************************)
(* Insights, the external service.  A transaction is pending until the     *)
(* user's statements are processed, succeeds (with or without files) or    *)
(* fails, and is deleted at last.                                          *)
(***************************************************************************)
InsightsState == {"pending", "available", "noFiles", "failure", "deleted"}

Later == [ pending   |-> {"available", "noFiles", "failure"},
           available |-> {"deleted"},
           noFiles   |-> {"deleted"},
           failure   |-> {"deleted"},
           deleted   |-> {} ]

\* The answers that HandleReturnUrlPostProcess tells apart: a Status body
\* for each state, an Error body, and anything else.
Answer == InsightsState \cup {"error", "other"}

Answers(t) == {"error", "other", insights[t]}

Poll ==      [pc : {"call"},  txn : Txns, tries : Attempts]
        \cup [pc : {"store"}, txn : Txns, answer : Answer]
        \cup [pc : {"retrieve"}, txn : Txns]

StatusTypeOK ==
    /\ insights \in [Txns -> InsightsState]
    /\ poll \in [Pollers -> Poll \cup {Idle}]

StatusInit ==
    /\ insights = [t \in Txns |-> "pending"]
    /\ poll = [p \in Pollers |-> Idle]

PollBecomes(p, from, to) ==
    /\ poll[p].pc = from
    /\ poll' = [poll EXCEPT ![p] = to]

-----------------------------------------------------------------------------

InsightsProceeds(t) ==
    /\ \E s \in Later[insights[t]] : insights' = [insights EXCEPT ![t] = s]
    /\ UNCHANGED <<tableVars, fetchVars, poll>>

\* A request for the return URL, to which Insights sends the browser once the
\* user is done there: the handler asks for no login, no row, and no more than
\* the id, so it may come at any time.
HandleReturnUrl(p, t) ==
    /\ poll[p] = Idle
    /\ poll' = [poll EXCEPT ![p] = [pc |-> "call", txn |-> t, tries |-> 1]]
    /\ UNCHANGED <<tableVars, fetchVars, insights>>

\* A 200, 400 or 404: whatever the status was, the body of one more POST is
\* the answer.
StatusAnswered(p) ==
    /\ poll[p].pc = "call"
    /\ \E a \in Answers(poll[p].txn) :
          poll' = [poll EXCEPT ![p] = [pc |-> "store", txn |-> @.txn, answer |-> a]]
    /\ UNCHANGED <<tableVars, fetchVars, insights>>

\* Mutant: a Retryer that never stops starts over.
AskForEver(p) ==
    /\ poll[p].pc = "call"
    /\ poll' = [poll EXCEPT ![p].tries = IF MayRetry(@) THEN @ + 1 ELSE 1]
    /\ UNCHANGED <<tableVars, fetchVars, insights>>

\* Any other status: another attempt, or the end.
StatusRetry(p) ==
    /\ PollBecomes(p, "call", IF MayRetry(poll[p].tries)
                              THEN [poll[p] EXCEPT !.tries = @ + 1]
                              ELSE Idle)
    /\ UNCHANGED <<tableVars, fetchVars, insights>>

\* A POST throws, or the body does not parse: call() returns true.
StatusException(p) ==
    /\ PollBecomes(p, "call", Idle)
    /\ UNCHANGED <<tableVars, fetchVars, insights>>

\* autheticate and checkFilesAvailable: the statement for an answer.
StatusStatement(t, answer) ==
    CASE answer = "available" -> updateTransactions(t, TRUE, "COMPLETED", FALSE)
      [] answer = "pending"   -> updateTransactions(t, TRUE, "PROCESSING", FALSE)
      [] answer = "failure"   -> updateTransactions(t, TRUE, "ERROR", FALSE)
      [] answer = "deleted"   -> updateTransactions(t, TRUE, "COMPLETED", TRUE)
      [] answer = "noFiles"   -> updateTransactions(t, TRUE, "ERROR", TRUE)
      [] answer = "error"     -> updateTransactions(t, FALSE, "ERROR", FALSE)
      [] answer = "other"     -> updateTransactionStatus(t, "ERROR")

\* Mutant: a pending transaction is stored as a completed one.
StorePendingAsCompleted(p) ==
    /\ PollBecomes(p, "store", Idle)
    /\ Execute(StatusStatement(poll[p].txn, IF poll[p].answer = "pending"
                                            THEN "available" ELSE poll[p].answer))
    /\ UNCHANGED <<past, fetchVars, insights>>

\* The statement runs, however it ends; only an available report is then
\* retrieved.
StoreStatus(p) ==
    /\ PollBecomes(p, "store", IF poll[p].answer = "available"
                               THEN [pc |-> "retrieve", txn |-> poll[p].txn]
                               ELSE Idle)
    /\ Execute(StatusStatement(poll[p].txn, poll[p].answer))
    /\ UNCHANGED <<past, fetchVars, insights>>

\* RetrieveReport.execute starts a thread, or throws because the key could
\* not be read from the database.
StartRetrieval(p) ==
    /\ PollBecomes(p, "retrieve", Idle)
    /\ \/ /\ \E f \in Fetchers : RetrieveReport(f, poll[p].txn)
          /\ UNCHANGED dbFailures
       \/ /\ dbFailures < MaxDbFailures
          /\ dbFailures' = dbFailures + 1
          /\ UNCHANGED fetch
    /\ UNCHANGED <<row, past, disk, ioFailures, insights>>

StatusStep(p) ==
    \/ StatusAnswered(p) \/ StatusRetry(p) \/ StatusException(p)
    \/ StoreStatus(p) \/ StartRetrieval(p)

\* The server stops.
StatusCrash ==
    /\ poll' = [p \in Pollers |-> Idle]
    /\ UNCHANGED insights

\* How many steps the thread in slot p has left, at most.
PollWork(p) ==
    CASE poll[p].pc = "call"     -> 3 + (MaxAttempts - poll[p].tries)
      [] poll[p].pc = "store"    -> 2
      [] poll[p].pc = "retrieve" -> 1
      [] OTHER                   -> 0
=============================================================================
