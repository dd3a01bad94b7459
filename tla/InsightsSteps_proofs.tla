------------------------ MODULE InsightsSteps_proofs ------------------------
(***************************************************************************)
(* Two action properties of InsightsAssist, for any sets of transactions   *)
(* and thread slots, any number of attempts and of failures: what a row    *)
(* keeps, and that threads get on with their work.                         *)
(***************************************************************************)
EXTENDS InsightsAssist_proofs

USE TableAssumption, AttemptsAssumption, LinkAssumption, RetrievalAssumption
    DEF TableAssumption, AttemptsAssumption, LinkAssumption, RetrievalAssumption

-----------------------------------------------------------------------------
(* What a row keeps.                                                       *)

\* A step takes nothing from a row: an UPDATE that names link and date comes
\* with a link, and with a date that is not null.
LEMMA RowKept ==
    ASSUME Inv, [Next]_vars, NEW t \in Txns, row[t] # NoRow
    PROVE  /\ row'[t] # NoRow
           /\ row[t].link => row'[t].link
           /\ row[t].expiry # NoDate => row'[t].expiry # NoDate
           /\ row[t].location => row'[t].location
           /\ row'[t].status = "INITIATED" => row[t].status = "INITIATED"
<1>1. TypeOK /\ FormFirst /\ DateIsSet /\ RowChange(t)
  BY RowChanges DEF Inv
<1>2. ~Inserted(t)
  BY <1>1 DEF Inserted, FormFirst
<1>3. CASE Unchanged(t)
  BY <1>3 DEF Unchanged
<1>4. CASE Linked(t)
  BY <1>1, <1>4 DEF Linked, Updated, DateIsSet, LinkAnswered, LinkRunning
<1>5. CASE StatusOnly(t) \/ Stored(t) \/ Refused(t)
  BY <1>5 DEF StatusOnly, Stored, Refused, Updated, SameRest, SameLink
<1>6. CASE Answered(t)
  BY <1>6 DEF Answered, Updated, SameLink
<1> QED
  BY <1>1, <1>2, <1>3, <1>4, <1>5, <1>6 DEF RowChange

\* Whatever handler writes a row, in whatever order, and wherever the server
\* stops: the row is not lost, nor its link, its date or the place of its
\* report, and it is not INITIATED again.
THEOREM RowsKept == Spec => RowsKeep
<1> DEFINE Kept == \A t \in Txns : row[t] # NoRow =>
                      /\ row'[t] # NoRow
                      /\ row[t].link => row'[t].link
                      /\ row[t].expiry # NoDate => row'[t].expiry # NoDate
                      /\ row[t].location => row'[t].location
                      /\ row'[t].status = "INITIATED" => row[t].status = "INITIATED"
<1>1. Inv /\ [Next]_vars => [Kept]_row
  BY RowKept
<1> QED
  BY <1>1, Invariance, PTL DEF Spec, RowsKeep

-----------------------------------------------------------------------------
(* That threads get on.                                                    *)

\* An attempt that may be repeated leaves fewer attempts.
LEMMA TriesLeft ==
    ASSUME NEW tries \in Attempts, MayRetry(tries)
    PROVE  /\ tries + 1 \in Attempts
           /\ MaxAttempts - (tries + 1) < MaxAttempts - tries
BY DEF Attempts, MayRetry

\* A step of a link thread leaves the other threads alone and its own thread
\* less to do.
LEMMA LinkAdvances ==
    ASSUME LinkTypeOK, NEW t \in Txns, LinkStep(t)
    PROVE  /\ \A u \in Txns : u # t => link'[u] = link[u]
           /\ LinkWork(t)' < LinkWork(t)
<1> DEFINE stage == [call |-> 6, init |-> 5, mail |-> 4, text |-> 3, send |-> 2, sent |-> 1]
<1>1. /\ link[t].tries \in Attempts
      /\ MaxAttempts - link[t].tries \in Nat
  BY DEF LinkTypeOK, Attempts
<1>2. ASSUME NEW from \in LinkRunning, NEW to, LinkGoto(t, from, to),
             to \in LinkRunning => stage[to] < stage[from]
      PROVE  /\ \A u \in Txns : u # t => link'[u] = link[u]
             /\ LinkWork(t)' < LinkWork(t)
  <2>1. /\ \A u \in Txns : u # t => link'[u] = link[u]
        /\ link[t].pc = from /\ link'[t].pc = to /\ link'[t].tries = link[t].tries
    BY <1>2 DEF LinkGoto, LinkTypeOK
  <2>2. stage[from] \in Nat /\ stage[from] > 0 /\ (to \in LinkRunning => stage[to] \in Nat)
    BY DEF LinkRunning
  <2>3. LinkWork(t) = stage[from] + (MaxAttempts - link[t].tries)
    BY <2>1 DEF LinkWork
  <2>4. LinkWork(t)' = IF to \in LinkRunning
                       THEN stage[to] + (MaxAttempts - link[t].tries) ELSE 0
    BY <2>1 DEF LinkWork
  <2> HIDE DEF stage
  <2> QED
    BY <1>1, <1>2, <2>1, <2>2, <2>3, <2>4
<1>3. CASE LinkRefused(t) \/ LinkUnusable(t) \/ LinkException(t)
  BY <1>2, <1>3 DEF LinkRefused, LinkUnusable, LinkException, LinkRunning
<1>4. CASE LinkAccepted(t)
  BY <1>2, <1>4 DEF LinkAccepted, LinkRunning
<1>5. CASE LinkRetry(t)
  <2>1. CASE MayRetry(link[t].tries)
    <3>1. /\ \A u \in Txns : u # t => link'[u] = link[u]
          /\ link[t].pc = "call" /\ link'[t].pc = "call"
          /\ link'[t].tries = link[t].tries + 1
      BY <1>5, <2>1 DEF LinkRetry, LinkTypeOK
    <3>2. LinkWork(t) = 6 + (MaxAttempts - link[t].tries)
      BY <3>1 DEF LinkWork, LinkRunning
    <3>3. LinkWork(t)' = 6 + (MaxAttempts - (link[t].tries + 1))
      BY <3>1 DEF LinkWork, LinkRunning
    <3> QED
      BY <1>1, <2>1, <3>1, <3>2, <3>3, TriesLeft DEF Attempts
  <2>2. CASE ~MayRetry(link[t].tries)
    BY <1>2, <1>5, <2>2 DEF LinkRetry, LinkRunning
  <2> QED
    BY <2>1, <2>2
<1>6. CASE LinkInitResponse(t)
  BY <1>2, <1>6 DEF LinkInitResponse, LinkRunning
<1>7. CASE LinkMail(t) \/ LinkMailText(t)
  BY <1>2, <1>7 DEF LinkMail, LinkMailText, LinkRunning
<1>8. CASE LinkMailSend(t)
  BY <1>2, <1>8 DEF LinkMailSend, LinkRunning
<1>9. CASE LinkEmailSent(t)
  <2>1. LinkGoto(t, "sent", "done")
    BY <1>9, Zenon DEF LinkEmailSent
  <2> QED
    BY <1>2, <2>1 DEF LinkRunning
<1> QED
  BY <1>3, <1>4, <1>5, <1>6, <1>7, <1>8, <1>9 DEF LinkStep

\* A stop of the server leaves a link thread nothing to do.
LEMMA LinkCrashAdvances ==
    ASSUME LinkTypeOK, LinkCrash, NEW t \in Txns, link[t].pc \in LinkRunning
    PROVE  LinkWork(t)' < LinkWork(t)
<1> DEFINE stage == [call |-> 6, init |-> 5, mail |-> 4, text |-> 3, send |-> 2, sent |-> 1]
<1>1. link'[t].pc = "lost"
  BY DEF LinkCrash, LinkTypeOK
<1>2. MaxAttempts - link[t].tries \in Nat
  BY DEF LinkTypeOK, Attempts
<1>3. stage[link[t].pc] \in Nat /\ stage[link[t].pc] > 0
  BY DEF LinkRunning
<1>4. LinkWork(t) = stage[link[t].pc] + (MaxAttempts - link[t].tries)
  BY DEF LinkWork
<1>5. LinkWork(t)' = 0
  BY <1>1 DEF LinkWork, LinkRunning
<1> HIDE DEF stage
<1> QED
  BY <1>2, <1>3, <1>4, <1>5

\* A step of a retrieval, likewise.
LEMMA FetchAdvances ==
    ASSUME FetchTypeOK, NEW f \in Fetchers, FetchStep(f)
    PROVE  /\ \A g \in Fetchers : g # f => fetch'[g] = fetch[g]
           /\ FetchWork(f)' < FetchWork(f)
<1> DEFINE stage == [call |-> 5, mkdirs |-> 4, open |-> 3, write |-> 2, store |-> 1]
<1>0. \A pc \in FetchPc : stage[pc] \in Nat /\ stage[pc] > 0
  BY DEF FetchPc
<1>1. ASSUME NEW from \in FetchPc, fetch[f].pc = from
      PROVE  /\ fetch[f] \in Fetch /\ MaxAttempts - fetch[f].tries \in Nat
             /\ FetchWork(f) = stage[from] + (MaxAttempts - fetch[f].tries)
  <2>1. fetch[f] \in Fetch /\ fetch[f] # Idle
    BY <1>1, FetchRecord DEF Fetch, Idle, FetchPc
  <2>2. MaxAttempts - fetch[f].tries \in Nat
    BY <2>1 DEF Fetch, Attempts
  <2> QED
    BY <1>1, <2>1, <2>2 DEF FetchWork
<1>2. ASSUME NEW from \in FetchPc, End(f, from)
      PROVE  /\ \A g \in Fetchers : g # f => fetch'[g] = fetch[g]
             /\ FetchWork(f)' < FetchWork(f)
  <2>1. fetch'[f] = Idle /\ \A g \in Fetchers : g # f => fetch'[g] = fetch[g]
    BY <1>2 DEF End, FetchTypeOK
  <2>2. FetchWork(f)' = 0
    BY <2>1 DEF FetchWork
  <2> HIDE DEF stage
  <2> QED
    BY <1>0, <1>1, <1>2, <2>1, <2>2 DEF End
<1>3. ASSUME NEW from \in FetchPc, NEW to \in FetchPc, Goto(f, from, to),
             stage[to] < stage[from]
      PROVE  /\ \A g \in Fetchers : g # f => fetch'[g] = fetch[g]
             /\ FetchWork(f)' < FetchWork(f)
  <2>1. fetch[f] \in Fetch /\ MaxAttempts - fetch[f].tries \in Nat
    BY <1>1, <1>3 DEF Goto
  <2>2. /\ \A g \in Fetchers : g # f => fetch'[g] = fetch[g]
        /\ fetch'[f] = [fetch[f] EXCEPT !.pc = to]
    BY <1>3 DEF Goto, FetchTypeOK
  <2>3. fetch'[f].pc = to /\ fetch'[f].tries = fetch[f].tries /\ fetch'[f] # Idle
    BY <2>1, <2>2 DEF Fetch, Idle
  <2>4. FetchWork(f)' = stage[to] + (MaxAttempts - fetch[f].tries)
    BY <2>3 DEF FetchWork
  <2> HIDE DEF stage
  <2> QED
    BY <1>0, <1>1, <1>3, <2>1, <2>2, <2>4 DEF Goto
<1>4. ASSUME TryAgain(f)
      PROVE  /\ \A g \in Fetchers : g # f => fetch'[g] = fetch[g]
             /\ FetchWork(f)' < FetchWork(f)
  <2>1. CASE ~MayRetry(fetch[f].tries)
    BY <1>2, <1>4, <2>1 DEF TryAgain, End, FetchPc
  <2>2. CASE MayRetry(fetch[f].tries)
    <3>1. /\ fetch[f].pc = "call" /\ fetch[f] \in Fetch
          /\ FetchWork(f) = 5 + (MaxAttempts - fetch[f].tries)
      BY <1>1, <1>4 DEF TryAgain, FetchPc
    <3>2. /\ \A g \in Fetchers : g # f => fetch'[g] = fetch[g]
          /\ fetch'[f] = [fetch[f] EXCEPT !.tries = @ + 1]
      BY <1>4, <2>2 DEF TryAgain, FetchTypeOK
    <3>3. /\ fetch'[f].pc = "call" /\ fetch'[f].tries = fetch[f].tries + 1
          /\ fetch'[f] # Idle
      BY <3>1, <3>2 DEF Fetch, Idle
    <3>4. FetchWork(f)' = 5 + (MaxAttempts - (fetch[f].tries + 1))
      BY <3>3 DEF FetchWork
    <3>5. fetch[f].tries \in Attempts
      BY <3>1 DEF Fetch
    <3> QED
      BY <2>2, <3>1, <3>2, <3>4, <3>5, TriesLeft DEF Attempts
  <2> QED
    BY <2>1, <2>2
<1>5. CASE FetchAccepted(f) \/ FetchException(f)
  BY <1>2, <1>3, <1>5 DEF FetchAccepted, FetchException, FetchPc
<1>6. CASE FetchRefused(f) \/ FetchRetry(f)
  BY <1>4, <1>6 DEF FetchRefused, FetchRetry
<1>7. CASE MakeDirs(f)
  BY <1>3, <1>7 DEF MakeDirs, FetchPc
<1>8. CASE OpenReport(f)
  BY <1>2, <1>3, <1>8 DEF OpenReport, IoFails, FetchPc
<1>9. CASE WriteReport(f)
  BY <1>2, <1>3, <1>9 DEF WriteReport, IoFails, FetchPc
<1>10. CASE StoreLocation(f)
  BY <1>2, <1>10 DEF StoreLocation, FetchPc
<1> QED
  BY <1>5, <1>6, <1>7, <1>8, <1>9, <1>10 DEF FetchStep

\* A stop of the server leaves a retrieval nothing to do.
LEMMA FetchCrashAdvances ==
    ASSUME FetchTypeOK, FetchCrash, NEW f \in Fetchers, fetch[f] # Idle
    PROVE  FetchWork(f)' < FetchWork(f)
<1> DEFINE stage == [call |-> 5, mkdirs |-> 4, open |-> 3, write |-> 2, store |-> 1]
<1>1. fetch[f] \in Fetch
  BY DEF FetchTypeOK
<1>2. stage[fetch[f].pc] \in Nat /\ stage[fetch[f].pc] > 0
  BY <1>1 DEF Fetch, FetchPc
<1>3. MaxAttempts - fetch[f].tries \in Nat
  BY <1>1 DEF Fetch, Attempts
<1>4. FetchWork(f) = stage[fetch[f].pc] + (MaxAttempts - fetch[f].tries)
  BY DEF FetchWork
<1>5. FetchWork(f)' = 0
  BY DEF FetchWork, FetchCrash
<1> HIDE DEF stage
<1> QED
  BY <1>2, <1>3, <1>4, <1>5

\* A running status check has work left; an idle slot has none.
LEMMA PollWorkLeft ==
    ASSUME StatusTypeOK, NEW p \in Pollers
    PROVE  /\ poll[p] # Idle => poll[p].pc \in {"call", "store", "retrieve"}
           /\ poll[p].pc = "call" =>
                /\ PollWork(p) = 3 + (MaxAttempts - poll[p].tries)
                /\ poll[p].tries \in Attempts /\ MaxAttempts - poll[p].tries \in Nat
           /\ poll[p].pc = "store" => PollWork(p) = 2
           /\ poll[p].pc = "retrieve" => PollWork(p) = 1
<1>1. poll[p] # Idle => poll[p].pc \in {"call", "store", "retrieve"}
  BY DEF StatusTypeOK, Poll
<1>2. poll[p].pc = "call" =>
        poll[p].tries \in Attempts /\ MaxAttempts - poll[p].tries \in Nat
  BY PollRecord DEF Attempts
<1> QED
  BY <1>1, <1>2 DEF PollWork

\* A step of a status check, likewise.
LEMMA PollAdvances ==
    ASSUME StatusTypeOK, NEW p \in Pollers, StatusStep(p)
    PROVE  /\ \A q \in Pollers : q # p => poll'[q] = poll[q]
           /\ PollWork(p)' < PollWork(p)
<1>1. ASSUME NEW from \in {"call", "store", "retrieve"}, NEW to, PollBecomes(p, from, to)
      PROVE  /\ \A q \in Pollers : q # p => poll'[q] = poll[q]
             /\ poll[p].pc = from /\ poll'[p] = to
  BY <1>1 DEF PollBecomes, StatusTypeOK
<1>2. ASSUME poll'[p] = Idle
      PROVE  PollWork(p)' = 0
  <2>1. poll'[p].pc = "idle"
    BY <1>2 DEF Idle
  <2> QED
    BY <2>1 DEF PollWork
<1>3. ASSUME poll[p].pc \in {"call", "store", "retrieve"}
      PROVE  PollWork(p) > 0
  BY <1>3, PollWorkLeft
<1>4. CASE StatusAnswered(p)
  <2>1. PICK a \in Answers(poll[p].txn) :
          poll' = [poll EXCEPT ![p] = [pc |-> "store", txn |-> @.txn, answer |-> a]]
    BY <1>4 DEF StatusAnswered
  <2>2. /\ \A q \in Pollers : q # p => poll'[q] = poll[q]
        /\ poll'[p].pc = "store"
    BY <2>1 DEF StatusTypeOK
  <2>3. PollWork(p)' = 2
    BY <2>2 DEF PollWork
  <2> QED
    BY <1>4, <2>2, <2>3, PollWorkLeft DEF StatusAnswered
<1>5. CASE StatusRetry(p)
  <2>1. CASE ~MayRetry(poll[p].tries)
    BY <1>1, <1>2, <1>3, <1>5, <2>1 DEF StatusRetry
  <2>2. CASE MayRetry(poll[p].tries)
    <3>1. /\ \A q \in Pollers : q # p => poll'[q] = poll[q]
          /\ poll[p].pc = "call" /\ poll'[p] = [poll[p] EXCEPT !.tries = @ + 1]
      BY <1>1, <1>5, <2>2 DEF StatusRetry
    <3>2. poll'[p].pc = "call" /\ poll'[p].tries = poll[p].tries + 1
      BY <3>1, PollRecord
    <3>3. PollWork(p)' = 3 + (MaxAttempts - (poll[p].tries + 1))
      BY <3>2 DEF PollWork
    <3> QED
      BY <2>2, <3>1, <3>3, PollWorkLeft, TriesLeft DEF Attempts
  <2> QED
    BY <2>1, <2>2
<1>6. CASE StatusException(p) \/ StartRetrieval(p)
  BY <1>1, <1>2, <1>3, <1>6 DEF StatusException, StartRetrieval
<1>7. CASE StoreStatus(p)
  <2>1. CASE poll[p].answer # "available"
    BY <1>1, <1>2, <1>3, <1>7, <2>1 DEF StoreStatus
  <2>2. CASE poll[p].answer = "available"
    <3>1. /\ \A q \in Pollers : q # p => poll'[q] = poll[q]
          /\ poll[p].pc = "store" /\ poll'[p] = [pc |-> "retrieve", txn |-> poll[p].txn]
      BY <1>1, <1>7, <2>2 DEF StoreStatus
    <3>2. PollWork(p)' = 1
      BY <3>1 DEF PollWork
    <3> QED
      BY <3>1, <3>2, PollWorkLeft
  <2> QED
    BY <2>1, <2>2
<1> QED
  BY <1>4, <1>5, <1>6, <1>7 DEF StatusStep

\* A link thread that moves is run or stopped.
LEMMA LinkThreadsAdvance ==
    ASSUME TypeOK, [Next]_vars, NEW t \in Txns,
           link[t].pc \in LinkRunning, link'[t] # link[t]
    PROVE  LinkWork(t)' < LinkWork(t)
<1>1. ASSUME NEW u \in Txns, LinkStep(u)
      PROVE  LinkWork(t)' < LinkWork(t)
  BY <1>1, LinkAdvances DEF TypeOK
<1>2. ASSUME NEW u \in Txns, GenerateUrl(u)
      PROVE  FALSE
  BY <1>2 DEF GenerateUrl, LinkGoto, TypeOK, LinkTypeOK, LinkRunning
<1>3. CASE LinkCrash
  BY <1>3, LinkCrashAdvances DEF TypeOK
<1> QED
  BY <1>1, <1>2, <1>3, LinkChanges, AlertChanges DEF linkVars

\* So is a retrieval; a retrieval that starts finds a slot that is free.
LEMMA FetchersAdvance ==
    ASSUME TypeOK, [Next]_vars, NEW f \in Fetchers, fetch[f] # Idle, fetch'[f] # fetch[f]
    PROVE  FetchWork(f)' < FetchWork(f)
<1>1. ASSUME NEW g \in Fetchers, FetchThread(g)
      PROVE  FetchWork(f)' < FetchWork(f)
  BY <1>1, FetchAdvances DEF TypeOK, FetchThread
<1>2. ASSUME NEW g \in Fetchers, NEW t, RetrieveReport(g, t)
      PROVE  FALSE
  BY <1>2 DEF RetrieveReport, TypeOK, FetchTypeOK
<1>3. ASSUME NEW p \in Pollers, StatusThread(p)
      PROVE  FALSE
  BY <1>2, <1>3
  DEF StatusThread, StatusStep, StatusAnswered, StatusRetry, StatusException, StoreStatus,
      StartRetrieval, fetchVars
<1>4. CASE Crash
  BY <1>4, FetchCrashAdvances DEF TypeOK, Crash
<1> QED
  BY <1>1, <1>2, <1>3, <1>4
  DEF Next, Generate, LinkThread, Proceed, InsightsProceeds, ClockPasses, Return,
      HandleReturnUrl, CallBack, CallBackComplete, SupportMail, Expire, vars, fetchVars

\* So is a status check; a return of the user finds a slot that is free.
LEMMA PollersAdvance ==
    ASSUME TypeOK, [Next]_vars, NEW p \in Pollers, poll[p] # Idle, poll'[p] # poll[p]
    PROVE  PollWork(p)' < PollWork(p)
<1>1. ASSUME NEW q \in Pollers, StatusThread(q)
      PROVE  PollWork(p)' < PollWork(p)
  BY <1>1, PollAdvances DEF TypeOK, StatusThread
<1>2. ASSUME NEW q \in Pollers, NEW t, HandleReturnUrl(q, t)
      PROVE  FALSE
  BY <1>2 DEF HandleReturnUrl, TypeOK, StatusTypeOK
<1>3. CASE Crash
  <2>1. poll'[p].pc = "idle"
    BY <1>3 DEF Crash, StatusCrash, Idle
  <2>2. PollWork(p)' = 0
    BY <2>1 DEF PollWork
  <2> QED
    BY <2>2, PollWorkLeft DEF TypeOK
<1> QED
  BY <1>1, <1>2, <1>3
  DEF Next, Generate, LinkThread, Proceed, InsightsProceeds, ClockPasses, Return, FetchThread,
      CallBack, CallBackComplete, SupportMail, Expire, vars, fetchVars, pollVars

\* Whatever Insights answers and whatever the other threads do, a thread that
\* moves has less to do afterwards: none takes more than MaxAttempts + 5 steps.
THEOREM ThreadsBounded == Spec => ThreadsAdvance
<1> DEFINE Advance ==
      /\ \A t \in Txns :
           link[t].pc \in LinkRunning /\ link'[t] # link[t] => LinkWork(t)' < LinkWork(t)
      /\ \A f \in Fetchers :
           fetch[f] # Idle /\ fetch'[f] # fetch[f] => FetchWork(f)' < FetchWork(f)
      /\ \A p \in Pollers :
           poll[p] # Idle /\ poll'[p] # poll[p] => PollWork(p)' < PollWork(p)
<1>1. ASSUME TypeOK, [Next]_vars
      PROVE  [Advance]_<<link, fetch, poll>>
  BY <1>1, LinkThreadsAdvance, FetchersAdvance, PollersAdvance
<1>2. TypeOK /\ [Next]_vars => [Advance]_<<link, fetch, poll>>
  BY <1>1
<1> QED
  BY <1>2, TypeCorrect, PTL DEF Spec, ThreadsAdvance

\* The work that is counted down is a number of steps, and at no time more than
\* MaxAttempts + 5.
WorkOK ==
    /\ \A t \in Txns : LinkWork(t) \in 0..(MaxAttempts + 5)
    /\ \A f \in Fetchers : FetchWork(f) \in 0..(MaxAttempts + 5)
    /\ \A p \in Pollers : PollWork(p) \in 0..(MaxAttempts + 5)

THEOREM WorkCorrect == Spec => []WorkOK
<1>1. ASSUME TypeOK
      PROVE  WorkOK
  <2>1. \A n \in Attempts : MaxAttempts - n \in 0..(MaxAttempts - 1)
    BY DEF Attempts
  <2>2. ASSUME NEW t \in Txns
        PROVE  LinkWork(t) \in 0..(MaxAttempts + 5)
    <3> DEFINE stage == [call |-> 6, init |-> 5, mail |-> 4, text |-> 3, send |-> 2, sent |-> 1]
    <3>1. link[t].tries \in Attempts
      BY <1>1 DEF TypeOK, LinkTypeOK
    <3>2. link[t].pc \in LinkRunning => stage[link[t].pc] \in 1..6
      BY DEF LinkRunning
    <3>3. LinkWork(t) = IF link[t].pc \in LinkRunning
                        THEN stage[link[t].pc] + (MaxAttempts - link[t].tries) ELSE 0
      BY DEF LinkWork
    <3> HIDE DEF stage
    <3> QED
      BY <2>1, <3>1, <3>2, <3>3
  <2>3. ASSUME NEW f \in Fetchers
        PROVE  FetchWork(f) \in 0..(MaxAttempts + 5)
    <3> DEFINE stage == [call |-> 5, mkdirs |-> 4, open |-> 3, write |-> 2, store |-> 1]
    <3>1. fetch[f] # Idle => fetch[f] \in Fetch
      BY <1>1 DEF TypeOK, FetchTypeOK
    <3>2. fetch[f] # Idle => fetch[f].tries \in Attempts /\ stage[fetch[f].pc] \in 1..5
      BY <3>1 DEF Fetch, FetchPc
    <3>3. FetchWork(f) = IF fetch[f] = Idle
                         THEN 0 ELSE stage[fetch[f].pc] + (MaxAttempts - fetch[f].tries)
      BY DEF FetchWork
    <3> HIDE DEF stage
    <3> QED
      BY <2>1, <3>2, <3>3
  <2>4. ASSUME NEW p \in Pollers
        PROVE  PollWork(p) \in 0..(MaxAttempts + 5)
    <3>1. poll[p] = Idle => PollWork(p) = 0
      BY DEF PollWork, Idle
    <3> QED
      BY <1>1, <2>1, <3>1, PollWorkLeft DEF TypeOK
  <2> QED
    BY <2>2, <2>3, <2>4 DEF WorkOK
<1>2. TypeOK => WorkOK
  BY <1>1
<1> QED
  BY <1>2, TypeCorrect, PTL
=============================================================================
