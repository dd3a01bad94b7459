------------------------ MODULE DatesReports_proofs ------------------------
(***************************************************************************)
(* Further theorems about InsightsAssist: what becomes of the expiry dates *)
(* that go through a shared field, and what a row that offers a report has *)
(* behind it.  They rest on the invariant of InsightsAssist_proofs.        *)
(***************************************************************************)
EXTENDS InsightsAssist_proofs

USE TableAssumption, AttemptsAssumption, LinkAssumption, RetrievalAssumption
    DEF TableAssumption, AttemptsAssumption, LinkAssumption, RetrievalAssumption

-----------------------------------------------------------------------------
(* The last date wins.                                                     *)

\* A transaction whose POST has not been answered is not in the shared field;
\* one that is there, and past its first UPDATE, has its own date in its row.
LastDateInv ==
    dbFailures = 0 =>
        \A t \in Txns :
            /\ link[t].pc \in {"none", "call"} => expiryDate # t
            /\ (expiryDate = t /\ link[t].pc \in {"mail", "text", "send", "sent", "done"})
                    => row[t].expiry = t

\* While t is in the shared field, no statement of any thread takes its own
\* date out of its row.
LEMMA OwnDateKept ==
    ASSUME Inv, [Next]_vars, NEW t \in Txns,
           expiryDate = t, row[t] # NoRow, row[t].expiry = t
    PROVE  row'[t].expiry = t
<1>1. TypeOK /\ FormFirst
  BY DEF Inv
<1>2. RowChange(t) /\ ~Inserted(t)
  BY <1>1, RowChanges DEF Inserted, FormFirst
<1> QED
  BY <1>2
  DEF RowChange, Unchanged, StatusOnly, Stored, Refused, Linked, Answered, SameRest,
      SameLink

\* The first UPDATE, if it runs, gives t the date in the shared field.
LEMMA FirstUpdate ==
    ASSUME Inv, [Next]_vars, NEW t \in Txns, LinkInitResponse(t), dbFailures' = 0
    PROVE  row'[t].expiry = expiryDate
<1>1. TypeOK /\ FormFirst /\ dbFailures = 0
  BY FailuresStay DEF Inv
<1>2. row' = updateTransactionsWithLink(t, FALSE, "INIT_RESPONSE_RECEIVED", FALSE, expiryDate)
  BY <1>1 DEF LinkInitResponse, Execute
<1>3. row[t] # NoRow
  BY <1>1 DEF LinkInitResponse, LinkGoto, FormFirst
<1>4. row \in Table /\ expiryDate \in Date /\ "INIT_RESPONSE_RECEIVED" \in Status
  BY <1>1 DEF TypeOK, TableTypeOK, LinkTypeOK, Table, Status
<1>5. LinkUpdated(row', t, "INIT_RESPONSE_RECEIVED", expiryDate)
  BY <1>2, <1>4, UpdateWithLinkTable
<1> QED
  BY <1>3, <1>5 DEF LinkUpdated

LEMMA LastDateStep ==
    ASSUME Inv, LastDateInv, [Next]_vars
    PROVE  LastDateInv'
<1> SUFFICES ASSUME dbFailures' = 0, NEW u \in Txns
             PROVE  /\ link'[u].pc \in {"none", "call"} => expiryDate' # u
                    /\ (expiryDate' = u
                        /\ link'[u].pc \in {"mail", "text", "send", "sent", "done"})
                            => row'[u].expiry = u
  BY DEF LastDateInv
<1>1. TypeOK /\ FormFirst /\ dbFailures = 0
  BY FailuresStay DEF Inv
<1>2. /\ link[u].pc \in {"none", "call"} => expiryDate # u
      /\ (expiryDate = u /\ link[u].pc \in {"mail", "text", "send", "sent", "done"})
            => row[u].expiry = u
      /\ link[u].pc # "none" => row[u] # NoRow
  BY <1>1 DEF LastDateInv, FormFirst
<1>3. (expiryDate = u /\ link[u].pc \in {"mail", "text", "send", "sent", "done"})
            => row'[u].expiry = u
  BY <1>2, OwnDateKept
<1>4. CASE UNCHANGED <<link, expiryDate>>
  BY <1>2, <1>3, <1>4
<1>5. ASSUME NEW t \in Txns, GenerateUrl(t)
      PROVE  /\ UNCHANGED expiryDate
             /\ link'[u] = link[u] \/ (link[u].pc = "none" /\ link'[u].pc = "call")
  BY <1>1, <1>5 DEF GenerateUrl, LinkGoto, TypeOK, LinkTypeOK
<1>6. CASE \E t \in Txns : GenerateUrl(t)
  BY <1>2, <1>3, <1>5, <1>6
<1>7. ASSUME NEW t \in Txns, LinkStep(t)
      PROVE  /\ link'[u].pc \in {"none", "call"} => expiryDate' # u
             /\ (expiryDate' = u
                 /\ link'[u].pc \in {"mail", "text", "send", "sent", "done"})
                     => row'[u].expiry = u
  <2>1. CASE LinkAccepted(t)
    <3>1. expiryDate' = t /\ (t = u => link'[u].pc = "init")
      BY <1>1, <2>1 DEF LinkAccepted, LinkGoto, TypeOK, LinkTypeOK
    <3> QED
      BY <3>1
  <2>2. CASE t # u /\ ~LinkAccepted(t)
    <3>1. link'[u] = link[u] /\ UNCHANGED expiryDate
      BY <1>1, <1>7, <2>2, LinkMoves
    <3> QED
      BY <1>2, <1>3, <3>1
  <2>3. CASE t = u /\ LinkInitResponse(t)
    <3>1. link'[u].pc = "mail" /\ UNCHANGED expiryDate
      BY <1>1, <2>3 DEF LinkInitResponse, LinkGoto, TypeOK, LinkTypeOK
    <3> QED
      BY <2>3, <3>1, FirstUpdate
  <2>4. CASE t = u /\ ~LinkAccepted(t) /\ ~LinkInitResponse(t)
    <3>1. /\ UNCHANGED expiryDate
          /\ \/ link[u].pc = "call"
             \/ /\ link[u].pc \in {"mail", "text", "send", "sent"}
                /\ link'[u].pc \in {"text", "send", "sent", "done"}
      BY <1>1, <1>7, <2>4, LinkMoves
    <3> QED
      BY <1>2, <1>3, <3>1
  <2> QED
    BY <2>1, <2>2, <2>3, <2>4
<1>8. CASE LinkCrash
  BY <1>8 DEF LinkCrash
<1> QED
  BY <1>4, <1>6, <1>7, <1>8, LinkChanges, AlertChanges DEF linkVars

\* Whatever threads overwrite the shared field expiryDate, and whoever else
\* writes the rows in between, the transaction that was given a date last has
\* it in its row from its first UPDATE on, unless a statement has failed.
THEOREM LastDateCorrect == Spec => []LastDateWins
<1>1. Init => LastDateInv
  BY DEF Init, LinkInit, LastDateInv
<1>2. Inv /\ LastDateInv /\ [Next]_vars => LastDateInv'
  BY LastDateStep
<1>3. LastDateInv => LastDateWins
  BY DEF LastDateInv, LastDateWins, LinkAnswered, LinkRunning
<1> QED
  BY <1>1, <1>2, <1>3, Invariance, PTL DEF Spec

-----------------------------------------------------------------------------
(* What is offered is backed.                                              *)

\* As long as no file operation has failed, a directory whose file is not
\* complete has its writer, and neither a stored location nor a thread about to
\* store one lacks the directory.
BackedInv ==
    ioFailures = 0 =>
        /\ \A t \in Txns :
              /\ disk[t] \in {"empty", "partial"}
                    => \E f \in Fetchers : Writing(f) /\ fetch[f].txn = t
              /\ Located(t) => disk[t] # "absent"
        /\ \A f \in Fetchers : fetch[f].pc = "store" => disk[fetch[f].txn] # "absent"

\* A location that is new was stored by a retrieval.
NewLocation(u) == Located(u) \/ \E f \in Fetchers : fetch[f].pc = "store" /\ fetch[f].txn = u

LEMMA LocationStored ==
    ASSUME Inv, [Next]_vars, NEW u \in Txns, Located(u)'
    PROVE  NewLocation(u)
<1>1. RowChange(u) /\ ~Inserted(u)
  BY RowChanges DEF Inv, Inserted, Located
<1> QED
  BY <1>1
  DEF RowChange, Unchanged, StatusOnly, Stored, Refused, Linked, Answered, Updated,
      Located, NewLocation

\* A retrieval that starts finds a free slot and touches nothing else.
LEMMA BackedStart ==
    ASSUME TypeOK, BackedInv, NEW h \in Fetchers, NEW t \in Txns, RetrieveReport(h, t),
           UNCHANGED <<disk, ioFailures>>, \A u \in Txns : Located(u)' => NewLocation(u)
    PROVE  BackedInv'
<1> USE DEF TypeOK, FetchTypeOK
<1>1. /\ ~Writing(h) /\ fetch'[h].pc = "call"
      /\ \A i \in Fetchers \ {h} : fetch'[i] = fetch[i]
  BY DEF RetrieveReport, Writing, Idle
<1> SUFFICES ASSUME ioFailures = 0 PROVE BackedInv'
  BY DEF BackedInv
<1>2. ASSUME NEW u \in Txns, disk[u] \in {"empty", "partial"}
      PROVE  \E f \in Fetchers : Writing(f)' /\ fetch'[f].txn = u
  <2>1. PICK f \in Fetchers : Writing(f) /\ fetch[f].txn = u
    BY <1>2 DEF BackedInv
  <2> QED
    BY <1>1, <2>1 DEF Writing
<1>3. ASSUME NEW f \in Fetchers, fetch'[f].pc = "store"
      PROVE  disk[fetch'[f].txn] # "absent"
  BY <1>1, <1>3 DEF BackedInv
<1>4. ASSUME NEW u \in Txns, Located(u)'
      PROVE  disk[u] # "absent"
  BY <1>4 DEF BackedInv, NewLocation
<1> QED
  BY <1>2, <1>3, <1>4 DEF BackedInv

\* What a step of a retrieval does, as far as this invariant sees it.
LEMMA FetchMoves ==
    ASSUME TypeOK, NEW f \in Fetchers, FetchStep(f), UNCHANGED ioFailures
    PROVE  LET t == fetch[f].txn IN
           /\ t \in Txns
           /\ \A i \in Fetchers \ {f} : fetch'[i] = fetch[i]
           /\ \A u \in Txns \ {t} : disk'[u] = disk[u]
           /\ \/ /\ ~Writing(f) /\ disk'[t] = disk[t]
                 /\ fetch'[f].pc \in {"idle", "call", "mkdirs"}
              \/ /\ ~Writing(f) /\ disk'[t] = disk[t] /\ disk[t] # "absent"
                 /\ fetch'[f].pc = "store" /\ fetch'[f].txn = t
              \/ /\ disk[t] = "absent" \/ Writing(f)
                 /\ disk'[t] # "absent"
                 /\ Writing(f)' /\ fetch'[f].txn = t
              \/ Writing(f) /\ disk'[t] \in {"whole", "wrong"} /\ fetch'[f].txn = t
<1> USE DEF TypeOK, FetchTypeOK
<1>0. ioFailures' # ioFailures + 1
  OBVIOUS
<1>1. fetch[f].txn \in Txns /\ fetch[f] \in Fetch
  <2>1. fetch[f].pc \in FetchPc
    BY DEF FetchStep, FetchAccepted, FetchRefused, FetchRetry, FetchException, TryAgain,
           MakeDirs, OpenReport, WriteReport, StoreLocation, IoFails, Goto, End, FetchPc
  <2> QED
    BY <2>1, FetchRecord DEF Fetch
<1>2. ASSUME NEW from, NEW to, Goto(f, from, to)
      PROVE  /\ \A i \in Fetchers \ {f} : fetch'[i] = fetch[i]
             /\ fetch[f].pc = from /\ fetch'[f].pc = to /\ fetch'[f].txn = fetch[f].txn
  BY <1>1, <1>2 DEF Goto, Fetch
<1>3. ASSUME NEW from, End(f, from)
      PROVE  /\ \A i \in Fetchers \ {f} : fetch'[i] = fetch[i]
             /\ fetch[f].pc = from /\ fetch'[f].pc = "idle"
  BY <1>3 DEF End, Idle
<1>4. ASSUME TryAgain(f)
      PROVE  /\ \A i \in Fetchers \ {f} : fetch'[i] = fetch[i]
             /\ fetch[f].pc = "call" /\ fetch'[f].pc \in {"call", "idle"}
  BY <1>1, <1>4 DEF TryAgain, Idle, Fetch
<1>5. CASE FetchRefused(f) \/ FetchRetry(f)
  BY <1>1, <1>4, <1>5 DEF FetchRefused, FetchRetry, Writing
<1>6. CASE FetchAccepted(f)
  BY <1>1, <1>2, <1>6 DEF FetchAccepted, Writing
<1>7. CASE FetchException(f) \/ StoreLocation(f)
  BY <1>1, <1>3, <1>7 DEF FetchException, StoreLocation, Writing
<1>8. CASE MakeDirs(f)
  BY <1>0, <1>1, <1>2, <1>8 DEF MakeDirs, Writing
<1>9. CASE OpenReport(f)
  BY <1>0, <1>1, <1>2, <1>9 DEF OpenReport, IoFails, Writing
<1>10. CASE WriteReport(f)
  BY <1>0, <1>1, <1>2, <1>10 DEF WriteReport, IoFails, Writing
<1> QED
  BY <1>5, <1>6, <1>7, <1>8, <1>9, <1>10 DEF FetchStep

LEMMA BackedFetch ==
    ASSUME Inv, BackedInv, NEW f \in Fetchers, FetchStep(f),
           \A u \in Txns : Located(u)' => NewLocation(u)
    PROVE  BackedInv'
<1> SUFFICES ASSUME ioFailures' = 0 PROVE BackedInv'
  BY DEF BackedInv
<1> DEFINE t == fetch[f].txn
<1>1. TypeOK /\ ioFailures \in Nat
  BY DEF Inv, TypeOK, FetchTypeOK
<1>2. UNCHANGED ioFailures \/ ioFailures' = ioFailures + 1
  BY DEF FetchStep, FetchAccepted, FetchRefused, FetchRetry, FetchException, MakeDirs,
         OpenReport, WriteReport, StoreLocation, IoFails
<1>3. ioFailures = 0 /\ UNCHANGED ioFailures
  BY <1>1, <1>2
<1>4. /\ t \in Txns
      /\ \A i \in Fetchers \ {f} : fetch'[i] = fetch[i]
      /\ \A u \in Txns \ {t} : disk'[u] = disk[u]
      /\ \/ /\ ~Writing(f) /\ disk'[t] = disk[t]
            /\ fetch'[f].pc \in {"idle", "call", "mkdirs"}
         \/ /\ ~Writing(f) /\ disk'[t] = disk[t] /\ disk[t] # "absent"
            /\ fetch'[f].pc = "store" /\ fetch'[f].txn = t
         \/ /\ disk[t] = "absent" \/ Writing(f)
            /\ disk'[t] # "absent"
            /\ Writing(f)' /\ fetch'[f].txn = t
         \/ Writing(f) /\ disk'[t] \in {"whole", "wrong"} /\ fetch'[f].txn = t
  BY <1>1, <1>3, FetchMoves
<1> HIDE DEF t
<1>5. ASSUME NEW u \in Txns, disk[u] # "absent"
      PROVE  disk'[u] # "absent"
  BY <1>4, <1>5
<1>6. ASSUME NEW u \in Txns, disk'[u] \in {"empty", "partial"}
      PROVE  \E i \in Fetchers : Writing(i)' /\ fetch'[i].txn = u
  <2>1. CASE disk[u] \in {"empty", "partial"}
    <3>1. PICK i \in Fetchers : Writing(i) /\ fetch[i].txn = u
      BY <1>3, <2>1 DEF BackedInv
    <3>2. CASE i # f
      BY <1>4, <3>1, <3>2 DEF Writing
    <3>3. CASE i = f
      BY <1>4, <1>6, <3>1, <3>3 DEF t
    <3> QED
      BY <3>2, <3>3
  <2>2. CASE disk[u] \notin {"empty", "partial"}
    BY <1>4, <1>6, <2>2
  <2> QED
    BY <2>1, <2>2
<1>7. ASSUME NEW u \in Txns, Located(u)'
      PROVE  disk'[u] # "absent"
  BY <1>3, <1>5, <1>7 DEF BackedInv, NewLocation
<1>8. ASSUME NEW i \in Fetchers, fetch'[i].pc = "store"
      PROVE  disk'[fetch'[i].txn] # "absent"
  <2>1. CASE i = f
    BY <1>4, <1>8, <2>1 DEF Writing
  <2>2. CASE i # f
    <3>1. fetch'[i] = fetch[i] /\ fetch[i].txn \in Txns
      BY <1>1, <1>4, <1>8, <2>2, FetchRecord DEF TypeOK, FetchPc, Fetch
    <3> QED
      BY <1>3, <1>5, <1>8, <3>1 DEF BackedInv
  <2> QED
    BY <2>1, <2>2
<1> QED
  BY <1>6, <1>7, <1>8 DEF BackedInv

LEMMA BackedStep ==
    ASSUME Inv, BackedInv, [Next]_vars
    PROVE  BackedInv'
<1>1. TypeOK /\ ioFailures \in Nat
  BY DEF Inv, TypeOK, FetchTypeOK
<1>2. \A u \in Txns : Located(u)' => NewLocation(u)
  BY LocationStored
<1>3. CASE \E f \in Fetchers : FetchStep(f)
  BY <1>2, <1>3, BackedFetch
<1>4. CASE FetchCrash
  <2> SUFFICES ASSUME ioFailures' = 0 PROVE BackedInv'
    BY DEF BackedInv
  <2>1. ioFailures = 0 /\ ~\E f \in Fetchers : Writing(f)
    BY <1>1, <1>4 DEF FetchCrash
  <2>2. UNCHANGED <<row, disk>> /\ \A f \in Fetchers : fetch'[f].pc = "idle"
    BY <1>4 DEF FetchCrash, tableVars, Idle
  <2> QED
    BY <2>1, <2>2 DEF BackedInv, Located
<1>5. CASE \E h \in Fetchers, t \in Txns :
              RetrieveReport(h, t) /\ UNCHANGED <<disk, ioFailures>>
  BY <1>1, <1>2, <1>5, BackedStart
<1>6. CASE UNCHANGED fetchVars
  BY <1>2, <1>6 DEF fetchVars, BackedInv, NewLocation, Writing
<1>7. ASSUME NEW p \in Pollers, StatusThread(p)
      PROVE  \/ UNCHANGED fetchVars
             \/ \E h \in Fetchers, t \in Txns :
                    RetrieveReport(h, t) /\ UNCHANGED <<disk, ioFailures>>
  BY <1>1, <1>7, PollRecord
  DEF StatusThread, StatusStep, StatusAnswered, StatusRetry, StatusException, StoreStatus,
      StartRetrieval, PollBecomes, fetchVars, TypeOK
<1>8. ASSUME NEW h \in Fetchers, NEW t \in Txns, CallBack(h, t)
      PROVE  RetrieveReport(h, t) /\ UNCHANGED <<disk, ioFailures>>
  BY <1>8 DEF CallBack, CallBackComplete
<1> QED
  BY <1>3, <1>4, <1>5, <1>6, <1>7, <1>8
  DEF Next, Generate, LinkThread, Proceed, InsightsProceeds, ClockPasses, Return,
      HandleReturnUrl, FetchThread, SupportMail, Expire, Crash, vars

\* A file that is offered is complete, the body of one answer of Insights, or
\* being written, whichever of the threads that retrieve it stores the location and whenever the server stops
\* outside a write, unless a file operation has failed.
THEOREM OfferedCorrect == Spec => []OfferedIsBacked
<1>1. Init => BackedInv
  BY DEF Init, TableInit, FetchInit, BackedInv, Located, Idle
<1>2. Inv /\ BackedInv /\ [Next]_vars => BackedInv'
  BY BackedStep
<1>3. Inv /\ BackedInv => OfferedIsBacked
  <2> SUFFICES ASSUME Inv, BackedInv, ioFailures = 0,
                      NEW t \in Txns, DownloadReport(t) = "broken"
               PROVE  \E f \in Fetchers : Writing(f) /\ fetch[f].txn = t
    BY DEF OfferedIsBacked
  <2>1. Located(t) /\ ~Complete(t)
    BY DEF DownloadReport, Located, Complete
  <2>2. disk[t] \in DiskState
    BY DEF Inv, TypeOK, FetchTypeOK
  <2> QED
    BY <2>1, <2>2 DEF BackedInv, DiskState, Complete
<1> QED
  BY <1>1, <1>2, <1>3, Invariance, PTL DEF Spec
=============================================================================
