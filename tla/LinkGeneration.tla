--------------------------- MODULE LinkGeneration ---------------------------
(***************************************************************************)
(* From the loan form to the mailed link: GenerateInsightsStatementUpload- *)
(* Url inserts the row and starts a thread; MakeInsightsApiRequest asks    *)
(* Insights for a link, again and again; GenerateLinkPostProcess stores    *)
(* the link, mails it and stores that it was mailed.                       *)
(*                                                                         *)
(* The thread of t takes one step per access to what it shares with other  *)
(* threads: the table, the field expiryDate of the one GenerateLinkPost-   *)
(* Process object, and the one SendGMail object of MailerService, which    *)
(* keeps the recipient and the text of the mail being sent in fields.      *)
(*                                                                         *)
(* One attempt sends up to five POSTs (each asString() sends the request   *)
(* anew), and the statuses and the body it looks at belong to different    *)
(* POSTs; so any body can follow any status, and an attempt is one choice  *)
(* among the branches it can end in.                                       *)
(***************************************************************************)
EXTENDS CheckExpiryDate, Retryer

CONSTANTS
    MailerUp,   \* FALSE: MailerService.mailer is null, it drops all mail
    Support,    \* the support address, and the text of an alert to it
    MaxAlerts   \* bound on the alerts

ASSUME LinkAssumption ==
    /\ MailerUp \in BOOLEAN
    /\ MaxAlerts \in Nat
    /\ Support \notin Date

VARIABLES
    link,       \* link[t]: the thread MakeInsightsApiRequest starts for t
    expiryDate, \* the field GenerateLinkPostProcess.expiryDate
    mailer,     \* the fields to and bodyText of SendGMail
    alert,      \* where an alert of the logger is in sendMail
    alerts,     \* alerts so far
    inbox       \* the mails with a link that have arrived

mailVars == <<mailer, alert, alerts, inbox>>
linkVars == <<link, expiryDate, mailVars>>

\* A recipient or a text is named by the transaction it belongs to.
Mail == [to : Txns \cup {Support}, text : Txns]
NoMail == [to |-> NoDate, text |-> NoDate]

\* How a thread ends: call() returned true, call() caught an exception, the
\* Retryer ran out of attempts, the server stopped.
LinkEnded == {"done", "raised", "gaveUp", "lost"}
LinkRunning == {"call", "init", "mail", "text", "send", "sent"}

\* The thread is past its POST.
LinkAnswered == LinkRunning \ {"call"}

LinkTypeOK ==
    /\ link \in [Txns -> [pc : {"none"} \cup LinkRunning \cup LinkEnded,
                          tries : Attempts]]
    /\ expiryDate \in Date
    /\ mailer \in [to : Date \cup {Support}, text : Date \cup {Support}]
    /\ alert \in {"none", "text", "send"}
    /\ alerts \in 0..MaxAlerts
    /\ inbox \subseteq Mail

LinkInit ==
    /\ link = [t \in Txns |-> [pc |-> "none", tries |-> 1]]
    /\ expiryDate = NoDate
    /\ mailer = NoMail
    /\ alert = "none"
    /\ alerts = 0
    /\ inbox = {}

LinkGoto(t, from, to) ==
    /\ link[t].pc = from
    /\ link' = [link EXCEPT ![t].pc = to]

-----------------------------------------------------------------------------

\* A logged-in user submits a valid form.  (The early returns of the handler
\* change nothing.)  The thread starts whether or not the INSERT worked.
GenerateUrl(t) ==
    /\ LinkGoto(t, "none", "call")
    /\ Execute(insertIntoTransactions(t))
    /\ UNCHANGED <<past, expiryDate, mailVars>>

\* Mutant: the date of the answer is not kept.
AcceptedWithoutDate(t) ==
    /\ LinkGoto(t, "call", "init")
    /\ UNCHANGED <<tableVars, expiryDate, mailVars>>

\* Mutant: the mail comes first, the first UPDATE never.
AcceptedMailsAtOnce(t) ==
    /\ LinkGoto(t, "call", "mail")
    /\ expiryDate' = t
    /\ UNCHANGED <<tableVars, mailVars>>

\* A 200 and a Success body: the date of the answer goes to the shared field.
LinkAccepted(t) ==
    /\ LinkGoto(t, "call", "init")
    /\ expiryDate' = t
    /\ UNCHANGED <<tableVars, mailVars>>

\* A 200 with an Error body, a 400 or a 404: the row becomes ERROR.
LinkRefused(t) ==
    /\ LinkGoto(t, "call", "done")
    /\ Execute(updateTransactions(t, FALSE, "ERROR", FALSE))
    /\ UNCHANGED <<past, expiryDate, mailVars>>

\* A body that is neither, or a Success body that does not parse (caught in
\* autheticate): nothing is stored and call() returns true.
LinkUnusable(t) ==
    /\ LinkGoto(t, "call", "done")
    /\ UNCHANGED <<tableVars, expiryDate, mailVars>>

\* A POST throws, or the body of a refusal does not parse: call() logs
\* "Exception retrying" and returns true.
LinkException(t) ==
    /\ LinkGoto(t, "call", "raised")
    /\ UNCHANGED <<tableVars, expiryDate, mailVars>>

\* Mutant: a Retryer that never stops starts over.
RetryForEver(t) ==
    /\ link[t].pc = "call"
    /\ link' = [link EXCEPT ![t].tries = IF MayRetry(@) THEN @ + 1 ELSE 1]
    /\ UNCHANGED <<tableVars, expiryDate, mailVars>>

\* Any other status: call() returns false and the Retryer waits for the next
\* attempt, or throws RetryException after the last.
LinkRetry(t) ==
    /\ IF MayRetry(link[t].tries)
       THEN /\ link[t].pc = "call"
            /\ link' = [link EXCEPT ![t].tries = @ + 1]
       ELSE LinkGoto(t, "call", "gaveUp")
    /\ UNCHANGED <<tableVars, expiryDate, mailVars>>

\* Mutant: the first UPDATE is the one without link and date.
InitResponseUndated(t) ==
    /\ LinkGoto(t, "init", "mail")
    /\ Execute(updateTransactions(t, FALSE, "INIT_RESPONSE_RECEIVED", FALSE))
    /\ UNCHANGED <<past, expiryDate, mailVars>>

\* The first UPDATE reads the shared field.
LinkInitResponse(t) ==
    /\ LinkGoto(t, "init", "mail")
    /\ Execute(updateTransactionsWithLink(t, FALSE, "INIT_RESPONSE_RECEIVED",
                                          FALSE, expiryDate))
    /\ UNCHANGED <<past, expiryDate, mailVars>>

\* MailerService.sendMail.  Without a mailer the mail is dropped without a
\* word.  An exception before or in it ends the thread without the second
\* UPDATE (autheticate catches it).
LinkMail(t) ==
    /\ \/ LinkGoto(t, "mail", "text") /\ MailerUp /\ mailer' = [mailer EXCEPT !.to = t]
       \/ LinkGoto(t, "mail", "sent") /\ ~MailerUp /\ UNCHANGED mailer
       \/ LinkGoto(t, "mail", "done") /\ UNCHANGED mailer
    /\ UNCHANGED <<tableVars, expiryDate, alert, alerts, inbox>>

LinkMailText(t) ==
    /\ LinkGoto(t, "text", "send")
    /\ mailer' = [mailer EXCEPT !.text = t]
    /\ UNCHANGED <<tableVars, expiryDate, alert, alerts, inbox>>

\* sendEmail composes the mail from the fields, as they are now, and sends it;
\* if that fails it returns false, which sendMail ignores.
Send ==
    \/ inbox' = inbox \cup ({mailer} \cap Mail)
    \/ UNCHANGED inbox

LinkMailSend(t) ==
    /\ LinkGoto(t, "send", "sent")
    /\ Send
    /\ UNCHANGED <<tableVars, expiryDate, mailer, alert, alerts>>

\* KLogger.handleMessage mails every exception it logs to the support, under
\* the lock of the log: one at a time, but not apart from the link threads.
AlertTo ==
    /\ MailerUp
    /\ alert = "none"
    /\ alerts < MaxAlerts
    /\ alert' = "text"
    /\ alerts' = alerts + 1
    /\ mailer' = [mailer EXCEPT !.to = Support]
    /\ UNCHANGED <<tableVars, link, expiryDate, inbox>>

AlertText ==
    /\ alert = "text"
    /\ alert' = "send"
    /\ mailer' = [mailer EXCEPT !.text = Support]
    /\ UNCHANGED <<tableVars, link, expiryDate, alerts, inbox>>

AlertSend ==
    /\ alert = "send"
    /\ alert' = "none"
    /\ Send
    /\ UNCHANGED <<tableVars, link, expiryDate, mailer, alerts>>

Alert == AlertTo \/ AlertText \/ AlertSend

\* The second UPDATE reads the shared field again.
LinkEmailSent(t) ==
    /\ LinkGoto(t, "sent", "done")
    /\ Execute(updateTransactionsWithLink(t, FALSE, "EMAIL_SENT", FALSE,
                                          expiryDate))
    /\ UNCHANGED <<past, expiryDate, mailVars>>

LinkStep(t) ==
    \/ LinkAccepted(t) \/ LinkRefused(t) \/ LinkUnusable(t)
    \/ LinkException(t) \/ LinkRetry(t)
    \/ LinkInitResponse(t) \/ LinkMail(t) \/ LinkMailText(t)
    \/ LinkMailSend(t) \/ LinkEmailSent(t)

\* The server stops: the daemon threads and the fields are gone.
LinkCrash ==
    /\ link' = [t \in Txns |-> IF link[t].pc \in LinkRunning
                               THEN [link[t] EXCEPT !.pc = "lost"]
                               ELSE link[t]]
    /\ expiryDate' = NoDate
    /\ mailer' = NoMail
    /\ alert' = "none"
    /\ UNCHANGED <<tableVars, alerts, inbox>>

-----------------------------------------------------------------------------
(* Link generation by itself, with the expiry timer: any number of threads *)
(* of different transactions, before any user comes back from Insights.    *)

lvars == <<tableVars, linkVars>>

LinkGenerationInit == TableInit /\ LinkInit

LinkGenerationNext ==
    \/ \E t \in Txns : GenerateUrl(t) \/ LinkStep(t)
    \/ \E d \in Txns : TimePasses(d) /\ UNCHANGED linkVars
    \/ Sweep /\ UNCHANGED linkVars
    \/ Alert
    \/ LinkCrash

\* Threads are scheduled, POSTs and mails answer or time out, and the timer
\* fires every hour.  Nobody has to submit a form; the server need not stop.
LinkGenerationSpec ==
    /\ LinkGenerationInit /\ [][LinkGenerationNext]_lvars
    /\ \A t \in Txns : WF_lvars(LinkStep(t))
    /\ WF_lvars(Sweep /\ UNCHANGED linkVars)

-----------------------------------------------------------------------------

\* The shared field expiryDate (GenerateLinkPostProcess, line 33) may give a
\* row the date of another transaction, but never to the last transaction
\* that was given a date: once its first UPDATE has been sent, its row holds
\* its own date, unless a statement failed.
LastDateWins ==
    dbFailures = 0 =>
        \A t \in Txns :
            (expiryDate = t /\ link[t].pc \in (LinkAnswered \cup {"done"}) \ {"init"})
                => row[t].expiry = t

\* A thread that is about to read expiryDate never finds null there, so
\* expiryDate.getTime() (DatabaseUtil, line 209) does not throw.
DateIsSet ==
    \A t \in Txns : link[t].pc \in LinkAnswered => expiryDate # NoDate

\* "sending an email to:" (GenerateLinkPostProcess, line 70): a link is mailed
\* to the address it was generated for.
MailGoesToApplicant == \A m \in inbox : m.to = m.text

LinkStored(t) == row[t] # NoRow /\ row[t].link /\ row[t].expiry # NoDate

\* Whoever has a link in a mail, be it somebody else's, can follow it: its row
\* knows the link and a date for it, unless a statement failed.  This is what
\* the first UPDATE, before the mail, is for.
MailedLinkIsStored == dbFailures = 0 => \A m \in inbox : LinkStored(m.text)

\* How many steps the thread of t has left, at most.
LinkWork(t) ==
    LET stage == [call |-> 6, init |-> 5, mail |-> 4, text |-> 3, send |-> 2, sent |-> 1]
    IN  IF link[t].pc \in LinkRunning
        THEN stage[link[t].pc] + (MaxAttempts - link[t].tries) ELSE 0

\* The retries come to an end: every thread that was started ends.
LinkThreadsEnd ==
    \A t \in Txns : link[t].pc \in LinkRunning ~> link[t].pc \in LinkEnded
=============================================================================
