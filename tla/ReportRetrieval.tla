--------------------------- MODULE ReportRetrieval ---------------------------
(***************************************************************************)
(* From "the report is ready" to the file a download serves: RetrieveReport*)
(* starts a thread; RetrieveReportCall asks Insights for the report, again *)
(* and again; RetrieveReportPostProcess saves it in a directory of its own *)
(* and stores where it is.                                                 *)
(*                                                                         *)
(* Insights' callback and every return of the user start a thread, so      *)
(* several threads may retrieve the report of one transaction at once.     *)
(* They meet in the table and on the disk: the atomic mkdirs() decides     *)
(* which of them writes the file.                                          *)
(***************************************************************************)
EXTENDS CheckExpiryDate, Retryer

CONSTANTS
    Fetchers,       \* slots for threads that retrieve a report (a bound)
    MaxIoFailures   \* bound on the directory and file operations that fail

ASSUME RetrievalAssumption == MaxIoFailures \in Nat

VARIABLES
    fetch,      \* fetch[f]: what the thread in slot f is doing
    disk,       \* disk[t]: the directory of t and the report in it
    ioFailures  \* writes that failed or that a stop of the server cut short

fetchVars == <<fetch, disk, ioFailures>>

\* no directory; a directory without a file; a file that is not complete; the
\* whole report; the whole of some other body
DiskState == {"absent", "empty", "partial", "whole", "wrong"}

FetchPc == {"call", "mkdirs", "open", "write", "store"}
Idle == [pc |-> "idle"]
Fetch == [pc : FetchPc, txn : Txns, tries : Attempts]

FetchTypeOK ==
    /\ fetch \in [Fetchers -> Fetch \cup {Idle}]
    /\ disk \in [Txns -> DiskState]
    /\ ioFailures \in 0..MaxIoFailures

FetchInit ==
    /\ fetch = [f \in Fetchers |-> Idle]
    /\ disk = [t \in Txns |-> "absent"]
    /\ ioFailures = 0

Goto(f, from, to) ==
    /\ fetch[f].pc = from
    /\ fetch' = [fetch EXCEPT ![f].pc = to]

End(f, from) ==
    /\ fetch[f].pc = from
    /\ fetch' = [fetch EXCEPT ![f] = Idle]

\* A file operation throws; call() catches it and returns true.
IoFails(f, from) ==
    /\ ioFailures < MaxIoFailures
    /\ ioFailures' = ioFailures + 1
    /\ End(f, from)

-----------------------------------------------------------------------------

\* RetrieveReport.execute: a thread starts in a free slot.
RetrieveReport(f, t) ==
    /\ fetch[f] = Idle
    /\ fetch' = [fetch EXCEPT ![f] = [pc |-> "call", txn |-> t, tries |-> 1]]

\* TransactionCallBackComplete: Insights calls back that t is complete; the
\* call may be repeated, and nothing is looked up in the table.
CallBackComplete(f, t) ==
    /\ RetrieveReport(f, t)
    /\ UNCHANGED <<tableVars, disk, ioFailures>>

\* Mutant: a Retryer that never stops starts over.
TryForEver(f) ==
    /\ fetch[f].pc = "call"
    /\ fetch' = [fetch EXCEPT ![f].tries = IF MayRetry(@) THEN @ + 1 ELSE 1]

\* The Retryer: another attempt after a call() that returned false, or the end.
TryAgain(f) ==
    /\ fetch[f].pc = "call"
    /\ IF MayRetry(fetch[f].tries)
       THEN fetch' = [fetch EXCEPT ![f].tries = @ + 1]
       ELSE fetch' = [fetch EXCEPT ![f] = Idle]

\* A 200: the body of one more POST is taken for the report, whatever the
\* status of that one is.
FetchAccepted(f) ==
    /\ Goto(f, "call", "mkdirs")
    /\ UNCHANGED <<tableVars, disk, ioFailures>>

\* A 400 or 404: the row says that the delivery failed, and the call is tried
\* again.
FetchRefused(f) ==
    /\ TryAgain(f)
    /\ Execute(updateTransactionStatus(fetch[f].txn, "REPORT_DELIVERY_FAILED"))
    /\ UNCHANGED <<past, disk, ioFailures>>

FetchRetry(f) ==
    /\ TryAgain(f)
    /\ UNCHANGED <<tableVars, disk, ioFailures>>

\* A POST throws: the thread ends.
FetchException(f) ==
    /\ End(f, "call")
    /\ UNCHANGED <<tableVars, disk, ioFailures>>

\* Mutant: the result of mkdirs() is not looked at.
MakeDirsUntested(f) ==
    /\ Goto(f, "mkdirs", "open")
    /\ disk' = [disk EXCEPT ![fetch[f].txn] = IF @ = "absent" THEN "empty" ELSE @]
    /\ UNCHANGED <<tableVars, ioFailures>>

\* Mutant: the test of mkdirs() is inverted.
MakeDirsInverted(f) ==
    /\ \/ /\ Goto(f, "mkdirs", "store")
          /\ disk[fetch[f].txn] = "absent"
          /\ disk' = [disk EXCEPT ![fetch[f].txn] = "empty"]
       \/ /\ Goto(f, "mkdirs", "open")
          /\ disk[fetch[f].txn] # "absent"
          /\ UNCHANGED disk
    /\ UNCHANGED <<tableVars, ioFailures>>

\* mkdirs() is true for the thread that creates the directory; for the others,
\* and when it cannot be created, the write is skipped.
MakeDirs(f) ==
    /\ \/ /\ Goto(f, "mkdirs", "open")
          /\ disk[fetch[f].txn] = "absent"
          /\ disk' = [disk EXCEPT ![fetch[f].txn] = "empty"]
          /\ UNCHANGED ioFailures
       \/ /\ Goto(f, "mkdirs", "store")
          /\ disk[fetch[f].txn] # "absent"
          /\ UNCHANGED <<disk, ioFailures>>
       \/ /\ Goto(f, "mkdirs", "store")
          /\ disk[fetch[f].txn] = "absent"
          /\ ioFailures < MaxIoFailures
          /\ ioFailures' = ioFailures + 1
          /\ UNCHANGED disk
    /\ UNCHANGED tableVars

\* The body is read into memory and the file is opened.
OpenReport(f) ==
    /\ \/ /\ Goto(f, "open", "write")
          /\ disk' = [disk EXCEPT ![fetch[f].txn] = "partial"]
          /\ UNCHANGED ioFailures
       \/ IoFails(f, "open") /\ UNCHANGED disk
    /\ UNCHANGED tableVars

\* The body goes to the file: the report, or an error that the other POST was
\* answered with.  Nobody looks at the body before, so what it is does not
\* matter until now.
WriteReport(f) ==
    /\ \/ /\ Goto(f, "write", "store")
          /\ \E body \in {"whole", "wrong"} : disk' = [disk EXCEPT ![fetch[f].txn] = body]
          /\ UNCHANGED ioFailures
       \/ IoFails(f, "write") /\ UNCHANGED disk
    /\ UNCHANGED tableVars

StoreLocation(f) ==
    /\ End(f, "store")
    /\ Execute(updateReportLocation(fetch[f].txn))
    /\ UNCHANGED <<past, disk, ioFailures>>

FetchStep(f) ==
    \/ FetchAccepted(f) \/ FetchRefused(f) \/ FetchRetry(f) \/ FetchException(f)
    \/ MakeDirs(f) \/ OpenReport(f) \/ WriteReport(f) \/ StoreLocation(f)

Writing(f) == fetch[f].pc \in {"open", "write"}

\* The server stops.  If it cuts a write short, that counts as a failure.
FetchCrash ==
    /\ fetch' = [f \in Fetchers |-> Idle]
    /\ IF \E f \in Fetchers : Writing(f)
       THEN ioFailures < MaxIoFailures /\ ioFailures' = ioFailures + 1
       ELSE UNCHANGED ioFailures
    /\ UNCHANGED <<tableVars, disk>>

\* DownloadReport.execute: the location is looked up in the table, then the
\* file is read; a missing file is answered with a 500.
DownloadReport(t) ==
    IF row[t] = NoRow \/ ~row[t].location THEN "nothing"
    ELSE IF disk[t] \in {"whole", "wrong"} THEN disk[t] ELSE "broken"

-----------------------------------------------------------------------------
(* Retrieval by itself, with the expiry timer: callbacks for transactions  *)
(* whose links have been mailed.                                           *)

rvars == <<tableVars, fetchVars>>

MailedRow(t) == [ status |-> "EMAIL_SENT", perfios |-> FALSE, deleted |-> FALSE,
                  link |-> TRUE, expiry |-> t, location |-> FALSE ]

ReportRetrievalInit ==
    /\ row = [t \in Txns |-> MailedRow(t)]
    /\ past = {}
    /\ dbFailures = 0
    /\ FetchInit

ReportRetrievalNext ==
    \/ \E f \in Fetchers : FetchStep(f) \/ \E t \in Txns : CallBackComplete(f, t)
    \/ \E d \in Txns : TimePasses(d) /\ UNCHANGED fetchVars
    \/ Sweep /\ UNCHANGED fetchVars
    \/ FetchCrash

\* Threads are scheduled; POSTs and file operations end.  Nobody has to call
\* back, and the server need not stop.
ReportRetrievalSpec ==
    /\ ReportRetrievalInit /\ [][ReportRetrievalNext]_rvars
    /\ \A f \in Fetchers : WF_rvars(FetchStep(f))

-----------------------------------------------------------------------------

\* However many callbacks and returns of the user are being served, at most
\* one thread writes the report of a transaction, and nobody writes a file
\* that is complete (the mkdirs() test of RetrieveReportPostProcess, line 45).
OneWriter ==
    \A f, g \in Fetchers :
        Writing(f) =>
            /\ disk[fetch[f].txn] \in {"empty", "partial"}
            /\ (Writing(g) /\ fetch[g].txn = fetch[f].txn) => f = g

\* A file that is offered for download is complete, the body of one answer of
\* Insights, or is being written, unless a write has failed or was cut short.
\* (Line 51 stores the location also in a thread that found the directory and
\* wrote nothing.)  That the body is the report and no error is not promised:
\* the status that was looked at is that of another POST (RetrieveReportCall,
\* lines 52-53).
OfferedIsBacked ==
    ioFailures = 0 =>
        \A t \in Txns :
            DownloadReport(t) = "broken" =>
                \E f \in Fetchers : Writing(f) /\ fetch[f].txn = t

\* Downloads keep the promise of ReportDelivery, whatever fails.
Delivery ==
    INSTANCE ReportDelivery WITH download <- [t \in Txns |-> DownloadReport(t)]
KeepsDelivery == Delivery!Spec

\* How many steps the thread in slot f has left, at most.
FetchWork(f) ==
    LET stage == [call |-> 5, mkdirs |-> 4, open |-> 3, write |-> 2, store |-> 1]
    IN  IF fetch[f] = Idle
        THEN 0 ELSE stage[fetch[f].pc] + (MaxAttempts - fetch[f].tries)

\* A thread that retrieves a report ends.
FetchersEnd ==
    \A f \in Fetchers : fetch[f] # Idle ~> fetch[f] = Idle
=============================================================================
