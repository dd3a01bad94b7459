--------------------------- MODULE InsightsAssist ---------------------------
(***************************************************************************)
(* The life of loan transactions in the server: link generation, status    *)
(* checks, report retrieval and the expiry timer, which share the table,   *)
(* with Insights and the user's mailbox outside.                           *)
(***************************************************************************)
EXTENDS LinkGeneration, TransactionStatusCheck

vars == <<tableVars, linkVars, fetchVars, pollVars>>

TypeOK == TableTypeOK /\ LinkTypeOK /\ FetchTypeOK /\ StatusTypeOK

Init == TableInit /\ LinkInit /\ FetchInit /\ StatusInit

\* The user opens the mailed link and hands in statements: not before that
\* does the transaction proceed in Insights.
Proceed(t) ==
    /\ insights[t] = "pending" => \E m \in inbox : m.text = t
    /\ InsightsProceeds(t)
    /\ UNCHANGED linkVars

\* Insights calls back when it is done with a transaction.
CallBack(f, t) ==
    /\ insights[t] \in {"available", "noFiles", "failure", "deleted"}
    /\ CallBackComplete(f, t)
    /\ UNCHANGED <<linkVars, pollVars>>

Return(p, t) == HandleReturnUrl(p, t) /\ UNCHANGED linkVars

Generate(t) == GenerateUrl(t) /\ UNCHANGED <<fetchVars, pollVars>>
LinkThread(t) == LinkStep(t) /\ UNCHANGED <<fetchVars, pollVars>>
StatusThread(p) == StatusStep(p) /\ UNCHANGED linkVars
FetchThread(f) == FetchStep(f) /\ UNCHANGED <<linkVars, pollVars>>

SupportMail == Alert /\ UNCHANGED <<fetchVars, pollVars>>

Expire == Sweep /\ UNCHANGED <<linkVars, fetchVars, pollVars>>

ClockPasses(d) == TimePasses(d) /\ UNCHANGED <<linkVars, fetchVars, pollVars>>

Crash == LinkCrash /\ FetchCrash /\ StatusCrash

Next ==
    \/ \E t \in Txns : Generate(t) \/ LinkThread(t) \/ Proceed(t) \/ ClockPasses(t)
    \/ \E p \in Pollers : StatusThread(p) \/ \E t \in Txns : Return(p, t)
    \/ \E f \in Fetchers : FetchThread(f) \/ \E t \in Txns : CallBack(f, t)
    \/ SupportMail
    \/ Expire
    \/ Crash

\* Threads are scheduled, every POST, mail and file operation ends, and the
\* timer fires.  Users, Insights and the clock need do nothing.  Fairness is
\* strong for a status check because in the model, unlike in the code, it may
\* wait for a retrieval slot, which is free again and again.
Spec ==
    /\ Init /\ [][Next]_vars
    /\ \A t \in Txns : WF_vars(LinkThread(t))
    /\ \A p \in Pollers : SF_vars(StatusThread(p))
    /\ \A f \in Fetchers : WF_vars(FetchThread(f))
    /\ WF_vars(Expire)

-----------------------------------------------------------------------------

\* A row never says more than Insights told it, in whatever order the answers
\* and the handlers' statements arrive: COMPLETED and PROCESSING, and the
\* deleted mark, come with a Perfios transaction id (one UPDATE sets them
\* together, and whoever drops the id drops them as well: GenerateLinkPost-
\* Process, lines 63-90, after HandleReturnUrlPostProcess, lines 76-134).
PerfiosIdKept ==
    \A t \in Txns :
        (row[t] # NoRow /\ (row[t].status \in {"COMPLETED", "PROCESSING"} \/ row[t].deleted))
            => row[t].perfios

\* COMPLETED is never stored before Insights has the report or has deleted
\* the transaction, and no row is marked as deleted before Insights has ended
\* without files or deleted the transaction.
StatusIsTrue ==
    \A t \in Txns : row[t] # NoRow =>
        /\ row[t].status = "COMPLETED" => insights[t] \in {"available", "deleted"}
        /\ row[t].deleted => insights[t] \in {"noFiles", "deleted"}

\* An answer about to be stored may be out of date, but it was true once and
\* Insights does not go back: why StatusIsTrue survives answers that overtake
\* each other (InsightsTransactionStatusCall, lines 53-57).
AnswersWereTrue ==
    \A p \in Pollers : poll[p].pc = "store" =>
        LET now == insights[poll[p].txn] IN
        CASE poll[p].answer = "available" -> now \in {"available", "deleted"}
          [] poll[p].answer = "noFiles"   -> now \in {"noFiles", "deleted"}
          [] poll[p].answer = "deleted"   -> now = "deleted"
          [] OTHER -> TRUE

\* A transaction whose link was stored and mailed can be expired: the states
\* the link thread stores come with the link and a date.
LinkStatesHaveLink ==
    \A t \in Txns :
        (row[t] # NoRow /\ row[t].status \in {"INIT_RESPONSE_RECEIVED", "EMAIL_SENT"})
            => row[t].link /\ row[t].expiry # NoDate

\* The form comes first: no row before it, and one after it.
FormFirst ==
    \A t \in Txns :
        /\ link[t].pc = "none" => row[t] = NoRow
        /\ link[t].pc # "none" /\ dbFailures = 0 => row[t] # NoRow

\* A link that is being mailed, under whatever address, has been stored.
StoredFirst ==
    dbFailures = 0 =>
        /\ \A t \in Txns : link[t].pc \in LinkAnswered \ {"init"} => LinkStored(t)
        /\ mailer.text \in Txns => LinkStored(mailer.text)

\* The safety properties above and in the modules below together with the
\* facts about threads on the way make an inductive invariant: the state in
\* which a step of any thread, a crash or an answer out of order finds the
\* server.
Inv ==
    /\ TypeOK
    /\ FormFirst
    /\ DateIsSet
    /\ PerfiosIdKept
    /\ AnswersWereTrue
    /\ StatusIsTrue
    /\ LinkStatesHaveLink
    /\ StoredFirst
    /\ MailedLinkIsStored
    /\ OneWriter

\* What a row has gained it keeps, although each UPDATE of each handler writes
\* several columns at once, in an order nobody fixes, and reads one of them
\* from a field that a stop of the server empties (DatabaseUtil, lines
\* 143-280): the row itself, the link, a date, the place of the report; and it
\* does not go back to INITIATED.
RowsKeep ==
    [][ \A t \in Txns : row[t] # NoRow =>
            /\ row'[t] # NoRow
            /\ row[t].link => row'[t].link
            /\ row[t].expiry # NoDate => row'[t].expiry # NoDate
            /\ row[t].location => row'[t].location
            /\ row'[t].status = "INITIATED" => row[t].status = "INITIATED" ]_row

\* Whatever Insights answers, and whatever other threads do, a step of a thread
\* leaves it less to do (stopAfterAttempt(10) in the three classes that build a
\* Retryer), so that none takes more than MaxAttempts + 5 steps: why every
\* thread ends as long as it is scheduled.
ThreadsAdvance ==
    [][ /\ \A t \in Txns :
             link[t].pc \in LinkRunning /\ link'[t] # link[t] => LinkWork(t)' < LinkWork(t)
        /\ \A f \in Fetchers :
             fetch[f] # Idle /\ fetch'[f] # fetch[f] => FetchWork(f)' < FetchWork(f)
        /\ \A p \in Pollers :
             poll[p] # Idle /\ poll'[p] # poll[p] => PollWork(p)' < PollWork(p)
      ]_<<link, fetch, poll>>

\* Every thread the server started ends: a link thread, a status check, the
\* retrieval it starts and the ones Insights' callbacks start.
ThreadsEnd ==
    /\ LinkThreadsEnd
    /\ FetchersEnd
    /\ \A p \in Pollers : poll[p] # Idle ~> poll[p] = Idle
=============================================================================
