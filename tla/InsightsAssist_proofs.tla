------------------------ MODULE InsightsAssist_proofs ------------------------
(***************************************************************************)
(* Theorems about InsightsAssist, for any sets of transactions and thread  *)
(* slots, any number of attempts and of failures.                          *)
(***************************************************************************)
EXTENDS InsightsAssist, TLAPS

USE TableAssumption, AttemptsAssumption, LinkAssumption, RetrievalAssumption
    DEF TableAssumption, AttemptsAssumption, LinkAssumption, RetrievalAssumption

Table == [Txns -> Row \cup {NoRow}]

-----------------------------------------------------------------------------
(* The statements of DatabaseUtil: what they make of the table.            *)

\* An UPDATE by transaction id leaves a table, and changes only the row of t.
LEMMA OnRowTable ==
    ASSUME row \in Table, NEW t \in Txns, NEW new, row[t] # NoRow => new \in Row
    PROVE  /\ OnRow(t, new) \in Table
           /\ \A u \in Txns : OnRow(t, new)[u] =
                IF u = t /\ row[t] # NoRow THEN new ELSE row[u]
BY DEF OnRow, Table

\* A row keeps the columns r that a statement does not name.
SameLink(r, s) == s.link = r.link /\ s.expiry = r.expiry
SameRest(r, s) == SameLink(r, s) /\ s.perfios = r.perfios /\ s.deleted = r.deleted

\* insertIntoTransactions gives t a fresh row.
LEMMA InsertTable ==
    ASSUME row \in Table, NEW t \in Txns
    PROVE  LET table == insertIntoTransactions(t) IN
           /\ table \in Table
           /\ \A u \in Txns : u # t => table[u] = row[u]
           /\ table[t] # NoRow /\ table[t].status = "INITIATED"
           /\ table[t].perfios = FALSE /\ table[t].deleted = FALSE
           /\ table[t].location = FALSE
<1> DEFINE new == [ status  |-> "INITIATED", perfios |-> FALSE,
                    deleted |-> FALSE,       link    |-> FALSE,
                    expiry  |-> NoDate,      location |-> FALSE ]
<1>1. new \in Row
  BY DEF Row, Status, Date
<1>2. /\ new.status = "INITIATED" /\ new.perfios = FALSE /\ new.deleted = FALSE
      /\ new.location = FALSE
  OBVIOUS
<1> HIDE DEF new
<1>3. new # NoRow
  BY <1>1
<1>4. insertIntoTransactions(t) = [row EXCEPT ![t] = new]
  BY DEF insertIntoTransactions, new
<1> QED
  BY <1>1, <1>2, <1>3, <1>4 DEF Table

\* The six-argument updateTransactions sets the id, the status and the mark.
LEMMA UpdateTransactionsTable ==
    ASSUME row \in Table, NEW t \in Txns, NEW perfios \in BOOLEAN,
           NEW status \in Status, NEW deleted \in BOOLEAN
    PROVE  LET table == updateTransactions(t, perfios, status, deleted) IN
           /\ table \in Table
           /\ \A u \in Txns : u # t \/ row[t] = NoRow => table[u] = row[u]
           /\ row[t] # NoRow =>
                /\ table[t] # NoRow
                /\ table[t].perfios = perfios
                /\ table[t].status = status
                /\ table[t].deleted = deleted
                /\ table[t].location = row[t].location
                /\ SameLink(row[t], table[t])
<1> DEFINE new == [row[t] EXCEPT !.perfios = perfios, !.status = status,
                                 !.deleted = deleted]
<1>1. row[t] # NoRow => row[t] \in Row
  BY DEF Table
<1>2. row[t] # NoRow => new \in Row
  BY <1>1 DEF Row
<1>3. row[t] # NoRow => /\ new.perfios = perfios /\ new.status = status
                        /\ new.deleted = deleted /\ SameLink(row[t], new)
                        /\ new.location = row[t].location
  BY <1>1 DEF Row, SameLink
<1> HIDE DEF new
<1>4. /\ OnRow(t, new) \in Table
      /\ \A u \in Txns : OnRow(t, new)[u] =
            IF u = t /\ row[t] # NoRow THEN new ELSE row[u]
  BY <1>2, OnRowTable
<1>5. updateTransactions(t, perfios, status, deleted) = OnRow(t, new)
  BY DEF updateTransactions, new
<1> QED
  BY <1>2, <1>3, <1>4, <1>5

\* The eight-argument one, as the link thread calls it: it drops the id and the
\* mark, and also sets the link and its date.
LinkUpdated(table, t, status, date) ==
    /\ table \in Table
    /\ \A u \in Txns : u # t \/ row[t] = NoRow => table[u] = row[u]
    /\ row[t] # NoRow =>
         /\ table[t] # NoRow
         /\ table[t].perfios = FALSE
         /\ table[t].status = status
         /\ table[t].deleted = FALSE
         /\ table[t].link = TRUE
         /\ table[t].expiry = date
         /\ table[t].location = row[t].location

LEMMA UpdateWithLinkTable ==
    ASSUME row \in Table, NEW t \in Txns, NEW status \in Status, NEW date \in Date
    PROVE  LinkUpdated(updateTransactionsWithLink(t, FALSE, status, FALSE, date),
                       t, status, date)
<1> DEFINE new == [row[t] EXCEPT !.perfios = FALSE, !.status = status,
                                 !.deleted = FALSE, !.link = TRUE,
                                 !.expiry = date]
<1>1. row[t] # NoRow => row[t] \in Row
  BY DEF Table
<1>2. row[t] # NoRow => new \in Row
  BY <1>1 DEF Row
<1>3. row[t] # NoRow => /\ new.perfios = FALSE /\ new.status = status
                        /\ new.deleted = FALSE
                        /\ new.link = TRUE /\ new.expiry = date
                        /\ new.location = row[t].location
  BY <1>1 DEF Row
<1> HIDE DEF new
<1>4. /\ OnRow(t, new) \in Table
      /\ \A u \in Txns : OnRow(t, new)[u] =
            IF u = t /\ row[t] # NoRow THEN new ELSE row[u]
  BY <1>2, OnRowTable
<1>5. updateTransactionsWithLink(t, FALSE, status, FALSE, date) = OnRow(t, new)
  BY DEF updateTransactionsWithLink, new
<1> QED
  BY <1>2, <1>3, <1>4, <1>5 DEF LinkUpdated

\* updateTransactionStatus sets the status only.
LEMMA UpdateStatusTable ==
    ASSUME row \in Table, NEW t \in Txns, NEW status \in Status
    PROVE  LET table == updateTransactionStatus(t, status) IN
           /\ table \in Table
           /\ \A u \in Txns : u # t \/ row[t] = NoRow => table[u] = row[u]
           /\ row[t] # NoRow => /\ table[t] # NoRow
                                /\ table[t].status = status
                                /\ table[t].location = row[t].location
                                /\ SameRest(row[t], table[t])
<1> DEFINE new == [row[t] EXCEPT !.status = status]
<1>1. row[t] # NoRow => row[t] \in Row
  BY DEF Table
<1>2. row[t] # NoRow => new \in Row
  BY <1>1 DEF Row
<1>3. row[t] # NoRow => /\ new.status = status /\ SameRest(row[t], new)
                        /\ new.location = row[t].location
  BY <1>1 DEF Row, SameRest, SameLink
<1> HIDE DEF new
<1>4. /\ OnRow(t, new) \in Table
      /\ \A u \in Txns : OnRow(t, new)[u] =
            IF u = t /\ row[t] # NoRow THEN new ELSE row[u]
  BY <1>2, OnRowTable
<1>5. updateTransactionStatus(t, status) = OnRow(t, new)
  BY DEF updateTransactionStatus, new
<1> QED
  BY <1>2, <1>3, <1>4, <1>5

\* updateReportLocation leaves the status and the rest alone.
LEMMA UpdateLocationTable ==
    ASSUME row \in Table, NEW t \in Txns
    PROVE  LET table == updateReportLocation(t) IN
           /\ table \in Table
           /\ \A u \in Txns : u # t \/ row[t] = NoRow => table[u] = row[u]
           /\ row[t] # NoRow => /\ table[t] # NoRow
                                /\ table[t].status = row[t].status
                                /\ table[t].location = TRUE
                                /\ SameRest(row[t], table[t])
<1> DEFINE new == [row[t] EXCEPT !.location = TRUE]
<1>1. row[t] # NoRow => row[t] \in Row
  BY DEF Table
<1>2. row[t] # NoRow => new \in Row
  BY <1>1 DEF Row
<1>3. row[t] # NoRow => /\ new.status = row[t].status /\ SameRest(row[t], new)
                        /\ new.location = TRUE
  BY <1>1 DEF Row, SameRest, SameLink
<1> HIDE DEF new
<1>4. /\ OnRow(t, new) \in Table
      /\ \A u \in Txns : OnRow(t, new)[u] =
            IF u = t /\ row[t] # NoRow THEN new ELSE row[u]
  BY <1>2, OnRowTable
<1>5. updateReportLocation(t) = OnRow(t, new)
  BY DEF updateReportLocation, new
<1> QED
  BY <1>2, <1>3, <1>4, <1>5

\* The sweep of the expiry timer sets the status of rows whose date is past.
LEMMA SweepTable ==
    ASSUME row \in Table
    PROVE  /\ updateExpiryDateStatus \in Table
           /\ \A u \in Txns :
                \/ updateExpiryDateStatus[u] = row[u]
                \/ /\ row[u] # NoRow /\ updateExpiryDateStatus[u] # NoRow
                   /\ updateExpiryDateStatus[u].status = "EXPIRED"
                   /\ IsPast(row[u].expiry)
                   /\ updateExpiryDateStatus[u].location = row[u].location
                   /\ SameRest(row[u], updateExpiryDateStatus[u])
<1> DEFINE new(u) == [row[u] EXCEPT !.status = "EXPIRED"]
<1>1. \A u \in Txns : row[u] # NoRow => row[u] \in Row
  BY DEF Table
<1>2. \A u \in Txns : row[u] # NoRow =>
        /\ new(u) \in Row /\ new(u).status = "EXPIRED"
        /\ SameRest(row[u], new(u)) /\ new(u).location = row[u].location
  BY <1>1 DEF Row, Status, SameRest, SameLink
<1>3. updateExpiryDateStatus =
        [u \in Txns |-> IF row[u] # NoRow /\ IsPast(row[u].expiry) THEN new(u) ELSE row[u]]
  BY DEF updateExpiryDateStatus
<1> HIDE DEF new
<1> QED
  BY <1>1, <1>2, <1>3 DEF Table

-----------------------------------------------------------------------------
(* Type correctness.                                                       *)

\* A statement that runs leaves the table it computes or the table it found.
LEMMA ExecuteType ==
    ASSUME TableTypeOK, NEW table \in Table, Execute(table)
    PROVE  /\ row' \in Table
           /\ dbFailures' \in 0..MaxDbFailures
           /\ row' = table \/ row' = row
BY DEF Execute, TableTypeOK, Table

\* Moving the link thread of t keeps the threads' type.
LEMMA LinkGotoType ==
    ASSUME LinkTypeOK, NEW t \in Txns, NEW from,
           NEW to \in LinkRunning \cup LinkEnded, LinkGoto(t, from, to)
    PROVE  link' \in [Txns -> [pc : {"none"} \cup LinkRunning \cup LinkEnded,
                               tries : Attempts]]
BY DEF LinkTypeOK, LinkGoto

\* A step of a link thread, or the form that starts it, keeps the types.
LEMMA LinkTypes ==
    ASSUME TableTypeOK, LinkTypeOK, NEW t \in Txns, GenerateUrl(t) \/ LinkStep(t)
    PROVE  TableTypeOK' /\ LinkTypeOK'
<1> USE DEF LinkRunning, LinkEnded, mailVars
<1>0. row \in Table /\ expiryDate \in Date
  BY DEF TableTypeOK, LinkTypeOK, Table
<1>1. CASE GenerateUrl(t)
  <2>1. insertIntoTransactions(t) \in Table
    BY <1>0, InsertTable
  <2>2. row' \in Table /\ dbFailures' \in 0..MaxDbFailures
    BY <1>1, <2>1, ExecuteType DEF GenerateUrl
  <2> QED
    BY <1>1, <2>2, LinkGotoType DEF GenerateUrl, TableTypeOK, LinkTypeOK, Table
<1>2. CASE LinkAccepted(t)
  BY <1>2, LinkGotoType DEF LinkAccepted, TableTypeOK, LinkTypeOK, tableVars, Date
<1>3. CASE LinkRefused(t)
  <2>1. updateTransactions(t, FALSE, "ERROR", FALSE) \in Table
    BY <1>0, UpdateTransactionsTable DEF Status
  <2>2. row' \in Table /\ dbFailures' \in 0..MaxDbFailures
    BY <1>3, <2>1, ExecuteType DEF LinkRefused
  <2> QED
    BY <1>3, <2>2, LinkGotoType DEF LinkRefused, TableTypeOK, LinkTypeOK, Table
<1>4. CASE LinkUnusable(t)
  BY <1>4, LinkGotoType DEF LinkUnusable, TableTypeOK, LinkTypeOK, tableVars
<1>5. CASE LinkException(t)
  BY <1>5, LinkGotoType DEF LinkException, TableTypeOK, LinkTypeOK, tableVars
<1>6. CASE LinkRetry(t)
  <2>1. CASE MayRetry(link[t].tries)
    BY <1>6, <2>1 DEF LinkRetry, MayRetry, Attempts, TableTypeOK, LinkTypeOK, tableVars
  <2>2. CASE ~MayRetry(link[t].tries)
    BY <1>6, <2>2, LinkGotoType DEF LinkRetry, TableTypeOK, LinkTypeOK, tableVars
  <2> QED
    BY <2>1, <2>2
<1>7. CASE LinkInitResponse(t)
  <2>1. updateTransactionsWithLink(t, FALSE, "INIT_RESPONSE_RECEIVED", FALSE, expiryDate)
          \in Table
    <3>1. "INIT_RESPONSE_RECEIVED" \in Status
      BY DEF Status
    <3> QED
      BY <1>0, <3>1, UpdateWithLinkTable DEF LinkUpdated
  <2>2. row' \in Table /\ dbFailures' \in 0..MaxDbFailures
    BY <1>7, <2>1, ExecuteType DEF LinkInitResponse
  <2> QED
    BY <1>7, <2>2, LinkGotoType DEF LinkInitResponse, TableTypeOK, LinkTypeOK, Table
<1>8. CASE LinkMail(t) \/ LinkMailText(t) \/ LinkMailSend(t)
  <2>1. link' \in [Txns -> [pc : {"none"} \cup LinkRunning \cup LinkEnded, tries : Attempts]]
    BY <1>8, LinkGotoType DEF LinkMail, LinkMailText, LinkMailSend
  <2>2. mailer' \in [to : Date \cup {Support}, text : Date \cup {Support}]
    BY <1>8 DEF LinkMail, LinkMailText, LinkMailSend, LinkTypeOK, Date
  <2>3. inbox' \subseteq Mail
    BY <1>8 DEF LinkMail, LinkMailText, LinkMailSend, Send, LinkTypeOK
  <2> QED
    BY <1>8, <2>1, <2>2, <2>3
    DEF LinkMail, LinkMailText, LinkMailSend, TableTypeOK, LinkTypeOK, tableVars
<1>9. CASE LinkEmailSent(t)
  <2>1. updateTransactionsWithLink(t, FALSE, "EMAIL_SENT", FALSE, expiryDate) \in Table
    <3>1. "EMAIL_SENT" \in Status
      BY DEF Status
    <3> QED
      BY <1>0, <3>1, UpdateWithLinkTable DEF LinkUpdated
  <2>2. row' \in Table /\ dbFailures' \in 0..MaxDbFailures
    BY <1>9, <2>1, ExecuteType DEF LinkEmailSent
  <2> QED
    BY <1>9, <2>2, LinkGotoType DEF LinkEmailSent, TableTypeOK, LinkTypeOK, Table
<1> QED
  BY <1>1, <1>2, <1>3, <1>4, <1>5, <1>6, <1>7, <1>8, <1>9 DEF LinkStep

\* A slot whose thread runs holds the record of a retrieval.
LEMMA FetchRecord ==
    ASSUME FetchTypeOK, NEW f \in Fetchers, fetch[f].pc \in FetchPc
    PROVE  fetch[f] \in Fetch
BY DEF FetchTypeOK, FetchPc, Idle

\* Goto and End keep the slots' type.
LEMMA GotoType ==
    ASSUME FetchTypeOK, NEW f \in Fetchers, NEW from \in FetchPc,
           \/ End(f, from)
           \/ \E to \in FetchPc : Goto(f, from, to)
    PROVE  fetch' \in [Fetchers -> Fetch \cup {Idle}] /\ fetch[f] \in Fetch
<1>1. fetch[f] \in Fetch
  BY FetchRecord DEF Goto, End
<1>2. CASE End(f, from)
  BY <1>1, <1>2 DEF End, FetchTypeOK
<1>3. CASE \E to \in FetchPc : Goto(f, from, to)
  <2>1. PICK to \in FetchPc : Goto(f, from, to)
    BY <1>3
  <2>2. [fetch[f] EXCEPT !.pc = to] \in Fetch
    BY <1>1 DEF Fetch
  <2> QED
    BY <1>1, <2>1, <2>2 DEF Goto, FetchTypeOK
<1> QED
  BY <1>2, <1>3

\* A step of a retrieval keeps the types.
LEMMA FetchTypes ==
    ASSUME TableTypeOK, FetchTypeOK, NEW f \in Fetchers, FetchStep(f)
    PROVE  TableTypeOK' /\ FetchTypeOK'
<1>0. row \in Table
  BY DEF TableTypeOK, Table
<1>1. ASSUME TryAgain(f)
      PROVE  fetch' \in [Fetchers -> Fetch \cup {Idle}] /\ fetch[f] \in Fetch
  <2>1. fetch[f] \in Fetch
    BY <1>1, FetchRecord DEF TryAgain, FetchPc
  <2>2. ASSUME MayRetry(fetch[f].tries)
        PROVE  [fetch[f] EXCEPT !.tries = @ + 1] \in Fetch
    BY <2>1, <2>2 DEF Fetch, MayRetry, Attempts
  <2> QED
    BY <1>1, <2>1, <2>2 DEF TryAgain, FetchTypeOK
<1>2. ASSUME NEW from \in FetchPc, IoFails(f, from)
      PROVE  /\ fetch' \in [Fetchers -> Fetch \cup {Idle}]
             /\ ioFailures' \in 0..MaxIoFailures
  BY <1>2, GotoType DEF IoFails, FetchTypeOK
<1>3. CASE FetchAccepted(f)
  BY <1>3, GotoType DEF FetchAccepted, FetchPc, TableTypeOK, FetchTypeOK, tableVars
<1>4. CASE FetchRefused(f)
  <2>1. TryAgain(f) /\ fetch[f].txn \in Txns
    BY <1>1, <1>4 DEF FetchRefused, Fetch
  <2>2. updateTransactionStatus(fetch[f].txn, "REPORT_DELIVERY_FAILED") \in Table
    BY <1>0, <2>1, UpdateStatusTable DEF Status
  <2>3. row' \in Table /\ dbFailures' \in 0..MaxDbFailures
    BY <1>4, <2>2, ExecuteType DEF FetchRefused
  <2> QED
    BY <1>1, <1>4, <2>3 DEF FetchRefused, TableTypeOK, FetchTypeOK, Table
<1>5. CASE FetchRetry(f)
  BY <1>1, <1>5 DEF FetchRetry, TableTypeOK, FetchTypeOK, tableVars
<1>6. CASE FetchException(f)
  BY <1>6, GotoType DEF FetchException, FetchPc, TableTypeOK, FetchTypeOK, tableVars
<1>7. CASE MakeDirs(f)
  <2>1. fetch' \in [Fetchers -> Fetch \cup {Idle}] /\ fetch[f] \in Fetch
    BY <1>7, GotoType DEF MakeDirs, FetchPc
  <2> QED
    BY <1>7, <2>1 DEF MakeDirs, Fetch, DiskState, TableTypeOK, FetchTypeOK, tableVars
<1>8. CASE OpenReport(f)
  <2>1. fetch' \in [Fetchers -> Fetch \cup {Idle}]
    BY <1>2, <1>8, GotoType DEF OpenReport, FetchPc
  <2> QED
    BY <1>2, <1>8, <2>1
    DEF OpenReport, FetchPc, DiskState, TableTypeOK, FetchTypeOK, tableVars
<1>9. CASE WriteReport(f)
  <2>1. fetch' \in [Fetchers -> Fetch \cup {Idle}]
    BY <1>2, <1>9, GotoType DEF WriteReport, FetchPc
  <2> QED
    BY <1>2, <1>9, <2>1
    DEF WriteReport, FetchPc, DiskState, TableTypeOK, FetchTypeOK, tableVars
<1>10. CASE StoreLocation(f)
  <2>1. fetch' \in [Fetchers -> Fetch \cup {Idle}] /\ fetch[f].txn \in Txns
    BY <1>10, GotoType DEF StoreLocation, FetchPc, Fetch
  <2>2. updateReportLocation(fetch[f].txn) \in Table
    BY <1>0, <2>1, UpdateLocationTable
  <2>3. row' \in Table /\ dbFailures' \in 0..MaxDbFailures
    BY <1>10, <2>2, ExecuteType DEF StoreLocation
  <2> QED
    BY <1>10, <2>1, <2>3 DEF StoreLocation, TableTypeOK, FetchTypeOK, Table
<1> QED
  BY <1>3, <1>4, <1>5, <1>6, <1>7, <1>8, <1>9, <1>10 DEF FetchStep

\* A poll at its "store" step holds an answer, and every running poll a
\* transaction.
LEMMA PollRecord ==
    ASSUME StatusTypeOK, NEW p \in Pollers
    PROVE  /\ poll[p].pc = "call" => poll[p].txn \in Txns /\ poll[p].tries \in Attempts
           /\ poll[p].pc = "call" => poll[p] \in [pc : {"call"}, txn : Txns, tries : Attempts]
           /\ poll[p].pc = "store" => poll[p].txn \in Txns /\ poll[p].answer \in Answer
           /\ poll[p].pc = "retrieve" => poll[p].txn \in Txns
<1>1. poll[p] \in Poll \cup {Idle}
  BY DEF StatusTypeOK
<1>2. CASE poll[p] \in [pc : {"call"}, txn : Txns, tries : Attempts]
  BY <1>2
<1>3. CASE poll[p] \in [pc : {"store"}, txn : Txns, answer : Answer]
  BY <1>3
<1>4. CASE poll[p] \in [pc : {"retrieve"}, txn : Txns]
  BY <1>4
<1>5. CASE poll[p] = Idle
  BY <1>5 DEF Idle
<1> QED
  BY <1>1, <1>2, <1>3, <1>4, <1>5 DEF Poll

\* The seven statements of HandleReturnUrlPostProcess, by answer: the table
\* afterwards, and what becomes of the row of t if there is one.
LEMMA StatusStatementTable ==
    ASSUME row \in Table, NEW t \in Txns, NEW answer \in Answer
    PROVE  LET table == StatusStatement(t, answer) IN
           /\ table \in Table
           /\ \A u \in Txns : u # t \/ row[t] = NoRow => table[u] = row[u]
           /\ row[t] # NoRow =>
                /\ table[t] # NoRow
                /\ table[t].location = row[t].location
                /\ SameLink(row[t], table[t])
                /\ answer = "other" => /\ table[t].status = "ERROR"
                                       /\ SameRest(row[t], table[t])
                /\ answer # "other" =>
                     /\ table[t].status = CASE answer \in {"available", "deleted"} -> "COMPLETED"
                                             [] answer = "pending" -> "PROCESSING"
                                             [] OTHER -> "ERROR"
                     /\ table[t].deleted = (answer \in {"deleted", "noFiles"})
                     /\ table[t].perfios = (answer # "error")
<1>0. {"ERROR", "COMPLETED", "PROCESSING"} \subseteq Status
  BY DEF Status
<1>1. CASE answer = "other"
  <2>1. StatusStatement(t, answer) = updateTransactionStatus(t, "ERROR")
    BY <1>1 DEF StatusStatement
  <2> QED
    BY <1>0, <1>1, <2>1, UpdateStatusTable DEF SameRest
<1>2. CASE answer # "other"
  <2> DEFINE status == CASE answer \in {"available", "deleted"} -> "COMPLETED"
                         [] answer = "pending" -> "PROCESSING"
                         [] OTHER -> "ERROR"
             perfios == answer # "error"
             deleted == answer \in {"deleted", "noFiles"}
  <2>1. answer \in {"pending", "available", "noFiles", "failure", "deleted", "error"}
    BY <1>2 DEF Answer, InsightsState
  <2>2. /\ answer = "available" => status = "COMPLETED" /\ perfios = TRUE /\ deleted = FALSE
        /\ answer = "pending" => status = "PROCESSING" /\ perfios = TRUE /\ deleted = FALSE
        /\ answer = "failure" => status = "ERROR" /\ perfios = TRUE /\ deleted = FALSE
        /\ answer = "deleted" => status = "COMPLETED" /\ perfios = TRUE /\ deleted = TRUE
        /\ answer = "noFiles" => status = "ERROR" /\ perfios = TRUE /\ deleted = TRUE
        /\ answer = "error" => status = "ERROR" /\ perfios = FALSE /\ deleted = FALSE
    OBVIOUS
  <2>3. status \in Status /\ perfios \in BOOLEAN /\ deleted \in BOOLEAN
    BY <1>0, <2>1, <2>2
  <2> HIDE DEF status, perfios, deleted
  <2>4. StatusStatement(t, answer) = updateTransactions(t, perfios, status, deleted)
    BY <2>1, <2>2 DEF StatusStatement
  <2>5. LET table == updateTransactions(t, perfios, status, deleted) IN
        /\ table \in Table
        /\ \A u \in Txns : u # t \/ row[t] = NoRow => table[u] = row[u]
        /\ row[t] # NoRow =>
             /\ table[t] # NoRow
             /\ table[t].perfios = perfios
             /\ table[t].status = status
             /\ table[t].deleted = deleted
             /\ table[t].location = row[t].location
             /\ SameLink(row[t], table[t])
    BY <2>3, UpdateTransactionsTable
  <2> QED
    BY <1>2, <2>4, <2>5 DEF status, perfios, deleted
<1> QED
  BY <1>1, <1>2

\* A step of a status check keeps the types.
LEMMA StatusTypes ==
    ASSUME TypeOK, NEW p \in Pollers, StatusThread(p)
    PROVE  TypeOK'
<1> USE DEF TypeOK
<1>0. row \in Table /\ LinkTypeOK'
  BY DEF TableTypeOK, Table, LinkTypeOK, StatusThread, linkVars, mailVars
<1>1. CASE StatusAnswered(p)
  <2>1. poll[p].txn \in Txns
    BY <1>1, PollRecord DEF StatusAnswered
  <2>2. Answers(poll[p].txn) \subseteq Answer
    BY <2>1 DEF Answers, Answer, StatusTypeOK
  <2>3. PICK a \in Answer :
           poll' = [poll EXCEPT ![p] = [pc |-> "store", txn |-> poll[p].txn, answer |-> a]]
    BY <1>1, <2>2 DEF StatusAnswered
  <2>4. poll' \in [Pollers -> Poll \cup {Idle}]
    BY <2>1, <2>3 DEF StatusTypeOK, Poll
  <2> QED
    BY <1>0, <1>1, <2>4
    DEF StatusAnswered, StatusTypeOK, TableTypeOK, FetchTypeOK, tableVars, fetchVars
<1>2. CASE StatusRetry(p)
  <2>1. poll[p] \in [pc : {"call"}, txn : Txns, tries : Attempts]
    BY <1>2, PollRecord DEF StatusRetry, PollBecomes
  <2>2. ASSUME MayRetry(poll[p].tries)
        PROVE  [poll[p] EXCEPT !.tries = @ + 1] \in [pc : {"call"}, txn : Txns, tries : Attempts]
    BY <2>1, <2>2 DEF MayRetry, Attempts
  <2>3. poll' \in [Pollers -> Poll \cup {Idle}]
    BY <1>2, <2>1, <2>2 DEF StatusRetry, PollBecomes, StatusTypeOK, Poll
  <2> QED
    BY <1>0, <1>2, <2>3
    DEF StatusRetry, StatusTypeOK, TableTypeOK, FetchTypeOK, tableVars, fetchVars
<1>3. CASE StatusException(p)
  BY <1>0, <1>3
  DEF StatusException, PollBecomes, StatusTypeOK, TableTypeOK, FetchTypeOK, tableVars, fetchVars
<1>4. CASE StoreStatus(p)
  <2>1. poll[p].txn \in Txns /\ poll[p].answer \in Answer
    BY <1>4, PollRecord DEF StoreStatus, PollBecomes
  <2>2. StatusStatement(poll[p].txn, poll[p].answer) \in Table
    BY <1>0, <2>1, StatusStatementTable
  <2>3. row' \in Table /\ dbFailures' \in 0..MaxDbFailures
    BY <1>4, <2>2, ExecuteType DEF StoreStatus
  <2>4. poll' \in [Pollers -> Poll \cup {Idle}]
    BY <1>4, <2>1 DEF StoreStatus, PollBecomes, StatusTypeOK, Poll
  <2> QED
    BY <1>0, <1>4, <2>3, <2>4
    DEF StoreStatus, StatusTypeOK, TableTypeOK, FetchTypeOK, Table, fetchVars
<1>5. CASE StartRetrieval(p)
  <2>1. poll[p].txn \in Txns
    BY <1>5, PollRecord DEF StartRetrieval, PollBecomes
  <2>2. [pc |-> "call", txn |-> poll[p].txn, tries |-> 1] \in Fetch
    BY <2>1 DEF Fetch, FetchPc, Attempts
  <2>3. fetch' \in [Fetchers -> Fetch \cup {Idle}]
    BY <1>5, <2>2 DEF StartRetrieval, RetrieveReport, FetchTypeOK
  <2> QED
    BY <1>0, <1>5, <2>3
    DEF StartRetrieval, PollBecomes, StatusTypeOK, TableTypeOK, FetchTypeOK
<1> QED
  BY <1>1, <1>2, <1>3, <1>4, <1>5 DEF StatusThread, StatusStep

LEMMA InitTypes == Init => TypeOK
BY DEF Init, TableInit, LinkInit, FetchInit, StatusInit, TypeOK, TableTypeOK,
       LinkTypeOK, FetchTypeOK, StatusTypeOK, Attempts, Date, NoMail, DiskState, InsightsState

\* Every step keeps the types.
LEMMA NextTypes ==
    ASSUME TypeOK, [Next]_vars
    PROVE  TypeOK'
<1> USE DEF TypeOK
<1>1. ASSUME NEW t \in Txns, Generate(t) \/ LinkThread(t)
      PROVE  TypeOK'
  <2>1. TableTypeOK' /\ LinkTypeOK'
    BY <1>1, LinkTypes DEF Generate, LinkThread
  <2> QED
    BY <1>1, <2>1 DEF Generate, LinkThread, FetchTypeOK, StatusTypeOK, fetchVars, pollVars
<1>2. ASSUME NEW t \in Txns, Proceed(t)
      PROVE  TypeOK'
  <2>1. PICK s \in Later[insights[t]] : insights' = [insights EXCEPT ![t] = s]
    BY <1>2 DEF Proceed, InsightsProceeds
  <2>2. s \in InsightsState
    BY <2>1 DEF StatusTypeOK, Later, InsightsState
  <2> QED
    BY <1>2, <2>1, <2>2
    DEF Proceed, InsightsProceeds, TableTypeOK, LinkTypeOK, FetchTypeOK, StatusTypeOK,
        tableVars, linkVars, mailVars, fetchVars
<1>3. ASSUME NEW t \in Txns, ClockPasses(t)
      PROVE  TypeOK'
  BY <1>3
  DEF ClockPasses, TimePasses, TableTypeOK, LinkTypeOK, FetchTypeOK, StatusTypeOK,
      linkVars, mailVars, fetchVars, pollVars
<1>4. ASSUME NEW p \in Pollers, StatusThread(p)
      PROVE  TypeOK'
  BY <1>4, StatusTypes
<1>5. ASSUME NEW p \in Pollers, NEW t \in Txns, Return(p, t)
      PROVE  TypeOK'
  <2>1. [pc |-> "call", txn |-> t, tries |-> 1] \in Poll
    BY DEF Poll, Attempts
  <2> QED
    BY <1>5, <2>1
    DEF Return, HandleReturnUrl, TableTypeOK, LinkTypeOK, FetchTypeOK, StatusTypeOK,
        tableVars, linkVars, mailVars, fetchVars
<1>6. ASSUME NEW f \in Fetchers, FetchThread(f)
      PROVE  TypeOK'
  <2>1. TableTypeOK' /\ FetchTypeOK'
    BY <1>6, FetchTypes DEF FetchThread
  <2> QED
    BY <1>6, <2>1 DEF FetchThread, LinkTypeOK, StatusTypeOK, linkVars, mailVars, pollVars
<1>7. ASSUME NEW f \in Fetchers, NEW t \in Txns, CallBack(f, t)
      PROVE  TypeOK'
  <2>1. [pc |-> "call", txn |-> t, tries |-> 1] \in Fetch
    BY DEF Fetch, FetchPc, Attempts
  <2> QED
    BY <1>7, <2>1
    DEF CallBack, CallBackComplete, RetrieveReport, TableTypeOK, LinkTypeOK, FetchTypeOK,
        StatusTypeOK, tableVars, linkVars, mailVars, pollVars
<1>8. CASE Expire
  <2>1. row \in Table /\ updateExpiryDateStatus \in Table
    BY SweepTable DEF TableTypeOK, Table
  <2>2. row' \in Table /\ dbFailures' \in 0..MaxDbFailures
    BY <1>8, <2>1, ExecuteType DEF Expire, Sweep
  <2> QED
    BY <1>8, <2>2
    DEF Expire, Sweep, TableTypeOK, LinkTypeOK, FetchTypeOK, StatusTypeOK, Table,
        linkVars, mailVars, fetchVars, pollVars
<1>9. CASE Crash
  <2>1. link' \in [Txns -> [pc : {"none"} \cup LinkRunning \cup LinkEnded, tries : Attempts]]
    BY <1>9 DEF Crash, LinkCrash, LinkTypeOK, LinkRunning, LinkEnded
  <2>2. TableTypeOK' /\ LinkTypeOK'
    BY <1>9, <2>1 DEF Crash, LinkCrash, LinkTypeOK, TableTypeOK, tableVars, Date, NoMail
  <2>3. FetchTypeOK'
    BY <1>9 DEF Crash, FetchCrash, FetchTypeOK
  <2>4. StatusTypeOK'
    BY <1>9 DEF Crash, StatusCrash, StatusTypeOK
  <2> QED
    BY <2>2, <2>3, <2>4
<1>10. CASE UNCHANGED vars
  BY <1>10
  DEF vars, tableVars, linkVars, mailVars, fetchVars, pollVars, TableTypeOK, LinkTypeOK, FetchTypeOK,
      StatusTypeOK
<1>11. CASE SupportMail
  <2>1. mailer' \in [to : Date \cup {Support}, text : Date \cup {Support}]
    BY <1>11 DEF SupportMail, Alert, AlertTo, AlertText, AlertSend, LinkTypeOK
  <2>2. alert' \in {"none", "text", "send"} /\ alerts' \in 0..MaxAlerts
    BY <1>11 DEF SupportMail, Alert, AlertTo, AlertText, AlertSend, LinkTypeOK
  <2>3. inbox' \subseteq Mail
    BY <1>11 DEF SupportMail, Alert, AlertTo, AlertText, AlertSend, Send, LinkTypeOK
  <2>4. UNCHANGED <<tableVars, link, expiryDate, fetchVars, pollVars>>
    BY <1>11 DEF SupportMail, Alert, AlertTo, AlertText, AlertSend
  <2> QED
    BY <2>1, <2>2, <2>3, <2>4
    DEF tableVars, fetchVars, pollVars, TableTypeOK, LinkTypeOK, FetchTypeOK, StatusTypeOK
<1> QED
  BY <1>1, <1>2, <1>3, <1>4, <1>5, <1>6, <1>7, <1>8, <1>9, <1>10, <1>11 DEF Next

\* The variables keep their types: no row, thread slot, directory or counter
\* leaves the set the handlers and the bounds give it.
THEOREM TypeCorrect == Spec => []TypeOK
<1>1. Init => TypeOK
  BY InitTypes
<1>2. TypeOK /\ [Next]_vars => TypeOK'
  BY NextTypes
<1> QED
  BY <1>1, <1>2, PTL DEF Spec

-----------------------------------------------------------------------------
(* What a step can do to a row.                                            *)

Unchanged(u) == row'[u] = row[u]

\* The form inserts it.
Inserted(u) ==
    /\ link[u].pc = "none" /\ link'[u].pc # "none"
    /\ row'[u] # NoRow /\ row'[u].status = "INITIATED"
    /\ row'[u].perfios = FALSE /\ row'[u].deleted = FALSE /\ row'[u].location = FALSE

Updated(u) == row[u] # NoRow /\ row'[u] # NoRow

\* The sweep, a refused retrieval or an unknown answer sets its status.
StatusOnly(u) ==
    /\ Updated(u) /\ SameRest(row[u], row'[u]) /\ row'[u].location = row[u].location
    /\ \/ row'[u].status \in {"REPORT_DELIVERY_FAILED", "ERROR"}
       \/ row'[u].status = "EXPIRED" /\ IsPast(row[u].expiry)

\* A retrieval stores its location.
Stored(u) ==
    /\ Updated(u) /\ SameRest(row[u], row'[u]) /\ row'[u].status = row[u].status
    /\ row'[u].location = TRUE
    /\ row' = updateReportLocation(u) /\ UNCHANGED disk
    /\ \E f \in Fetchers : fetch[f].pc = "store" /\ fetch[f].txn = u

\* Insights refuses a link.
Refused(u) ==
    /\ Updated(u) /\ SameLink(row[u], row'[u]) /\ row'[u].location = row[u].location
    /\ row'[u].status = "ERROR" /\ row'[u].perfios = FALSE /\ row'[u].deleted = FALSE

\* The link thread stores the link and the shared date.
Linked(u) ==
    /\ Updated(u) /\ row'[u].location = row[u].location
    /\ \/ link[u].pc = "init" /\ row'[u].status = "INIT_RESPONSE_RECEIVED"
       \/ link[u].pc = "sent" /\ row'[u].status = "EMAIL_SENT"
    /\ row'[u].perfios = FALSE /\ row'[u].deleted = FALSE
    /\ row'[u].link = TRUE /\ row'[u].expiry = expiryDate

\* A status check stores an answer.
Answered(u) ==
    /\ Updated(u) /\ SameLink(row[u], row'[u]) /\ row'[u].location = row[u].location
    /\ \E p \in Pollers :
          /\ poll[p].pc = "store" /\ poll[p].txn = u
          /\ poll[p].answer \in Answer \ {"other"}
          /\ row'[u].status = CASE poll[p].answer \in {"available", "deleted"} -> "COMPLETED"
                                [] poll[p].answer = "pending" -> "PROCESSING"
                                [] OTHER -> "ERROR"
          /\ row'[u].deleted = (poll[p].answer \in {"deleted", "noFiles"})
          /\ row'[u].perfios = (poll[p].answer # "error")

RowChange(u) ==
    \/ Unchanged(u) \/ Inserted(u) \/ StatusOnly(u) \/ Stored(u)
    \/ Refused(u) \/ Linked(u) \/ Answered(u)

\* A step that changes a row does one of these, and leaves alone what it reads.
LEMMA RowChanges ==
    ASSUME TypeOK, [Next]_vars, NEW u \in Txns
    PROVE  RowChange(u)
<1> USE DEF TypeOK
<1>0. row \in Table /\ expiryDate \in Date
  BY DEF TableTypeOK, LinkTypeOK, Table
<1>1. ASSUME UNCHANGED row
      PROVE  RowChange(u)
  BY <1>1 DEF RowChange, Unchanged
<1>2. ASSUME NEW table, Execute(table), ~Unchanged(u)
      PROVE  row' = table
  BY <1>2 DEF Execute, Unchanged
<1>3. ASSUME NEW t \in Txns, Generate(t), ~Unchanged(u)
      PROVE  Inserted(u)
  <2>1. /\ row' = insertIntoTransactions(t)
        /\ link[t].pc = "none" /\ link'[t].pc = "call"
    BY <1>2, <1>3 DEF Generate, GenerateUrl, LinkGoto, LinkTypeOK
  <2> QED
    BY <1>0, <1>3, <2>1, InsertTable DEF Inserted, Unchanged
<1>4. ASSUME NEW t \in Txns, LinkThread(t), ~Unchanged(u)
      PROVE  Refused(u) \/ Linked(u)
  <2>1. CASE LinkRefused(t)
    <3> DEFINE no == FALSE
    <3>0. no \in BOOLEAN
      OBVIOUS
    <3>1. row' = updateTransactions(t, no, "ERROR", no)
      BY <1>2, <1>4, <2>1 DEF LinkRefused
    <3> HIDE DEF no
    <3>2. "ERROR" \in Status
      BY DEF Status
    <3>3. /\ u # t \/ row[t] = NoRow => row'[u] = row[u]
          /\ row[t] # NoRow =>
               /\ row'[t] # NoRow /\ SameLink(row[t], row'[t])
               /\ row'[t].location = row[t].location
               /\ row'[t].status = "ERROR" /\ row'[t].perfios = no
               /\ row'[t].deleted = no
      BY <1>0, <3>0, <3>1, <3>2, UpdateTransactionsTable
    <3> QED
      BY <1>4, <3>3 DEF no, Refused, Updated, Unchanged
  <2>2. CASE LinkInitResponse(t)
    <3>1. /\ row' = updateTransactionsWithLink(t, FALSE, "INIT_RESPONSE_RECEIVED", FALSE, expiryDate)
          /\ link[t].pc = "init"
      BY <1>2, <1>4, <2>2 DEF LinkInitResponse, LinkGoto
    <3>2. "INIT_RESPONSE_RECEIVED" \in Status
      BY DEF Status
    <3>3. LinkUpdated(row', t, "INIT_RESPONSE_RECEIVED", expiryDate)
      BY <1>0, <3>1, <3>2, UpdateWithLinkTable
    <3> QED
      BY <1>4, <3>1, <3>3 DEF LinkUpdated, Linked, Updated, Unchanged
  <2>3. CASE LinkEmailSent(t)
    <3>1. /\ row' = updateTransactionsWithLink(t, FALSE, "EMAIL_SENT", FALSE, expiryDate)
          /\ link[t].pc = "sent"
      BY <1>2, <1>4, <2>3 DEF LinkEmailSent, LinkGoto
    <3>2. "EMAIL_SENT" \in Status
      BY DEF Status
    <3>3. LinkUpdated(row', t, "EMAIL_SENT", expiryDate)
      BY <1>0, <3>1, <3>2, UpdateWithLinkTable
    <3> QED
      BY <1>4, <3>1, <3>3 DEF LinkUpdated, Linked, Updated, Unchanged
  <2>4. CASE UNCHANGED row
    BY <1>4, <2>4 DEF Unchanged
  <2> QED
    BY <1>4, <2>1, <2>2, <2>3, <2>4
    DEF LinkThread, LinkStep, LinkAccepted, LinkUnusable, LinkException, LinkRetry,
        LinkMail, LinkMailText, LinkMailSend, tableVars
<1>5. ASSUME NEW p \in Pollers, StatusThread(p), ~Unchanged(u)
      PROVE  StatusOnly(u) \/ Answered(u)
  <2>1. CASE StoreStatus(p)
    <3> DEFINE t == poll[p].txn
               answer == poll[p].answer
    <3>1. poll[p].pc = "store" /\ t \in Txns /\ answer \in Answer
      BY <2>1, PollRecord DEF StoreStatus, PollBecomes
    <3>2. row' = StatusStatement(t, answer)
      BY <1>2, <1>5, <2>1 DEF StoreStatus
    <3> HIDE DEF t, answer
    <3>3. LET table == StatusStatement(t, answer) IN
           /\ table \in Table
           /\ \A v \in Txns : v # t \/ row[t] = NoRow => table[v] = row[v]
           /\ row[t] # NoRow =>
                /\ table[t] # NoRow
                /\ table[t].location = row[t].location
                /\ SameLink(row[t], table[t])
                /\ answer = "other" => /\ table[t].status = "ERROR"
                                       /\ SameRest(row[t], table[t])
                /\ answer # "other" =>
                     /\ table[t].status = CASE answer \in {"available", "deleted"} -> "COMPLETED"
                                             [] answer = "pending" -> "PROCESSING"
                                             [] OTHER -> "ERROR"
                     /\ table[t].deleted = (answer \in {"deleted", "noFiles"})
                     /\ table[t].perfios = (answer # "error")
      BY <1>0, <3>1, StatusStatementTable
    <3>4. u = t /\ row[t] # NoRow
      BY <1>5, <3>2, <3>3 DEF Unchanged
    <3>5. CASE answer = "other"
      BY <3>2, <3>3, <3>4, <3>5 DEF StatusOnly, Updated
    <3>6. CASE answer # "other"
      BY <3>1, <3>2, <3>3, <3>4, <3>6 DEF Answered, Updated, t, answer
    <3> QED
      BY <3>5, <3>6
  <2>2. CASE UNCHANGED row
    BY <1>5, <2>2 DEF Unchanged
  <2> QED
    BY <1>5, <2>1, <2>2
    DEF StatusThread, StatusStep, StatusAnswered, StatusRetry, StatusException,
        StartRetrieval, tableVars
<1>6. ASSUME NEW f \in Fetchers, FetchThread(f), ~Unchanged(u)
      PROVE  StatusOnly(u) \/ Stored(u)
  <2>1. CASE FetchRefused(f)
    <3>1. /\ row' = updateTransactionStatus(fetch[f].txn, "REPORT_DELIVERY_FAILED")
          /\ fetch[f].txn \in Txns
      BY <1>2, <1>6, <2>1, FetchRecord DEF FetchRefused, TryAgain, FetchPc, Fetch
    <3>2. "REPORT_DELIVERY_FAILED" \in Status
      BY DEF Status
    <3> QED
      BY <1>0, <1>6, <3>1, <3>2, UpdateStatusTable DEF StatusOnly, Updated, Unchanged
  <2>2. CASE StoreLocation(f)
    <3>1. /\ row' = updateReportLocation(fetch[f].txn)
          /\ fetch[f].txn \in Txns /\ fetch[f].pc = "store" /\ UNCHANGED disk
      BY <1>2, <1>6, <2>2, FetchRecord DEF StoreLocation, End, FetchPc, Fetch
    <3> QED
      BY <1>0, <1>6, <3>1, UpdateLocationTable DEF Stored, Updated, Unchanged
  <2>3. CASE UNCHANGED row
    BY <1>6, <2>3 DEF Unchanged
  <2> QED
    BY <1>6, <2>1, <2>2, <2>3
    DEF FetchThread, FetchStep, FetchAccepted, FetchRetry, FetchException, MakeDirs,
        OpenReport, WriteReport, tableVars
<1>7. ASSUME Expire, ~Unchanged(u)
      PROVE  StatusOnly(u)
  <2>1. row' = updateExpiryDateStatus
    BY <1>2, <1>7 DEF Expire, Sweep
  <2> QED
    BY <1>0, <1>7, <2>1, SweepTable DEF StatusOnly, Updated, Unchanged
<1> QED
  BY <1>1, <1>3, <1>4, <1>5, <1>6, <1>7
  DEF RowChange, Next, Proceed, InsightsProceeds, ClockPasses, TimePasses, Return,
      HandleReturnUrl, CallBack, CallBackComplete, SupportMail, Alert, AlertTo, AlertText,
      AlertSend, Crash, LinkCrash, vars, tableVars

-----------------------------------------------------------------------------
(* The inductive invariant, one conjunct at a time.                        *)

LEMMA InitInv == Init => Inv
<1> SUFFICES ASSUME Init PROVE Inv
  OBVIOUS
<1>1. TypeOK
  BY InitTypes
<1>2. FormFirst /\ DateIsSet
  BY DEF Init, TableInit, LinkInit, FormFirst, DateIsSet, LinkAnswered, LinkRunning
<1>3. PerfiosIdKept /\ StatusIsTrue /\ LinkStatesHaveLink
  BY DEF Init, TableInit, PerfiosIdKept, StatusIsTrue, LinkStatesHaveLink
<1>4. AnswersWereTrue /\ OneWriter
  BY DEF Init, StatusInit, FetchInit, AnswersWereTrue, OneWriter, Writing, Idle
<1>5. StoredFirst /\ MailedLinkIsStored
  BY DEF Init, TableAssumption, LinkInit, StoredFirst, MailedLinkIsStored, LinkAnswered,
         LinkRunning, NoMail
<1> QED
  BY <1>1, <1>2, <1>3, <1>4, <1>5 DEF Inv

\* What happens to the link threads in a step.
LEMMA LinkChanges ==
    ASSUME [Next]_vars
    PROVE  \/ UNCHANGED linkVars
           \/ \E t \in Txns : GenerateUrl(t) \/ LinkStep(t)
           \/ Alert
           \/ LinkCrash
BY DEF Next, Generate, LinkThread, Proceed, ClockPasses, StatusThread, Return, FetchThread,
       CallBack, SupportMail, Expire, Crash, vars

\* A step of a link thread moves that thread along its way, and only the
\* answer of Insights sets the date.
LEMMA LinkMoves ==
    ASSUME TypeOK, NEW t \in Txns, LinkStep(t)
    PROVE  /\ \A u \in Txns : u # t => link'[u] = link[u]
           /\ \/ link[t].pc = "call" /\ link'[t].pc \in {"call", "done", "raised", "gaveUp"}
              \/ link[t].pc = "call" /\ link'[t].pc = "init" /\ LinkAccepted(t)
              \/ link[t].pc = "init" /\ link'[t].pc = "mail" /\ LinkInitResponse(t)
              \/ /\ link[t].pc \in {"mail", "text", "send", "sent"}
                 /\ link'[t].pc \in {"text", "send", "sent", "done"}
           /\ LinkAccepted(t) \/ UNCHANGED expiryDate
<1> USE DEF TypeOK, LinkTypeOK
<1>1. ASSUME NEW from, NEW to, LinkGoto(t, from, to)
      PROVE  /\ \A u \in Txns : u # t => link'[u] = link[u]
             /\ link[t].pc = from /\ link'[t].pc = to
  BY <1>1 DEF LinkGoto
<1>2. CASE LinkRefused(t) \/ LinkUnusable(t) \/ LinkException(t)
  BY <1>1, <1>2 DEF LinkRefused, LinkUnusable, LinkException
<1>3. CASE LinkRetry(t)
  <2>1. CASE MayRetry(link[t].tries)
    BY <1>3, <2>1 DEF LinkRetry
  <2>2. CASE ~MayRetry(link[t].tries)
    BY <1>1, <1>3, <2>2 DEF LinkRetry
  <2> QED
    BY <2>1, <2>2
<1>4. CASE LinkAccepted(t)
  BY <1>1, <1>4 DEF LinkAccepted
<1>5. CASE LinkInitResponse(t)
  BY <1>1, <1>5 DEF LinkInitResponse
<1>6. CASE LinkMail(t) \/ LinkMailText(t) \/ LinkMailSend(t) \/ LinkEmailSent(t)
  BY <1>1, <1>6 DEF LinkMail, LinkMailText, LinkMailSend, LinkEmailSent
<1> QED
  BY <1>2, <1>3, <1>4, <1>5, <1>6 DEF LinkStep

\* The alerts of the logger only touch the mail.
LEMMA AlertChanges == Alert => UNCHANGED <<row, dbFailures, link, expiryDate>>
BY DEF Alert, AlertTo, AlertText, AlertSend, tableVars

\* A failed statement is never forgotten.
LEMMA FailuresStay ==
    ASSUME TypeOK, [Next]_vars, dbFailures' = 0
    PROVE  dbFailures = 0
<1>1. dbFailures \in Nat
  BY DEF TypeOK, TableTypeOK
<1>2. CASE UNCHANGED dbFailures
  BY <1>2
<1>3. ASSUME dbFailures' = dbFailures + 1
      PROVE  FALSE
  BY <1>1, <1>3
<1>4. ASSUME NEW t \in Txns, GenerateUrl(t) \/ LinkStep(t)
      PROVE  UNCHANGED dbFailures \/ dbFailures' = dbFailures + 1
  BY <1>4
  DEF GenerateUrl, LinkStep, LinkAccepted, LinkRefused, LinkUnusable, LinkException,
      LinkRetry, LinkInitResponse, LinkMail, LinkMailText, LinkMailSend, LinkEmailSent,
      Execute, tableVars
<1>5. ASSUME NEW p \in Pollers, StatusStep(p)
      PROVE  UNCHANGED dbFailures \/ dbFailures' = dbFailures + 1
  BY <1>5
  DEF StatusStep, StatusAnswered, StatusRetry, StatusException, StoreStatus,
      StartRetrieval, Execute, tableVars
<1>6. ASSUME NEW f \in Fetchers, FetchStep(f)
      PROVE  UNCHANGED dbFailures \/ dbFailures' = dbFailures + 1
  BY <1>6
  DEF FetchStep, FetchAccepted, FetchRefused, FetchRetry, FetchException, MakeDirs,
      OpenReport, WriteReport, StoreLocation, Execute, tableVars
<1>7. CASE Expire \/ SupportMail \/ Crash
  BY <1>3, <1>7, AlertChanges
  DEF Expire, Sweep, Execute, SupportMail, Crash, LinkCrash, tableVars
<1> QED
  BY <1>2, <1>3, <1>4, <1>5, <1>6, <1>7
  DEF Next, Generate, LinkThread, Proceed, InsightsProceeds, ClockPasses, TimePasses,
      StatusThread, Return, HandleReturnUrl, FetchThread, CallBack, CallBackComplete,
      vars, tableVars

LEMMA FormFirstStep ==
    ASSUME TypeOK, FormFirst, [Next]_vars
    PROVE  FormFirst'
<1> SUFFICES ASSUME NEW u \in Txns
             PROVE  /\ link'[u].pc = "none" => row'[u] = NoRow
                    /\ link'[u].pc # "none" /\ dbFailures' = 0 => row'[u] # NoRow
  BY DEF FormFirst
<1>1. \/ (link'[u].pc = "none") = (link[u].pc = "none")
      \/ GenerateUrl(u) /\ link[u].pc = "none" /\ link'[u].pc = "call"
  <2>1. ASSUME NEW t \in Txns, LinkStep(t)
        PROVE  (link'[u].pc = "none") = (link[u].pc = "none")
    BY <2>1, LinkMoves
  <2>2. ASSUME NEW t \in Txns, GenerateUrl(t)
        PROVE  \/ t # u /\ link'[u] = link[u]
               \/ t = u /\ link[u].pc = "none" /\ link'[u].pc = "call"
    BY <2>2 DEF TypeOK, LinkTypeOK, GenerateUrl, LinkGoto
  <2>3. CASE UNCHANGED link
    BY <2>3
  <2>4. CASE LinkCrash
    BY <2>4 DEF LinkCrash, LinkRunning, TypeOK, LinkTypeOK
  <2> QED
    BY <2>1, <2>2, <2>3, <2>4, LinkChanges, AlertChanges DEF linkVars
<1>2. CASE link'[u].pc = "none"
  <2>1. link[u].pc = "none" /\ row[u] = NoRow
    BY <1>1, <1>2 DEF FormFirst
  <2> QED
    BY <1>2, <2>1, RowChanges
    DEF RowChange, Unchanged, Inserted, StatusOnly, Stored, Refused, Linked, Answered,
        Updated
<1>3. ASSUME link'[u].pc # "none", dbFailures' = 0
      PROVE  row'[u] # NoRow
  <2>1. CASE link[u].pc # "none"
    <3>1. row[u] # NoRow
      BY <1>3, <2>1, FailuresStay DEF FormFirst
    <3> QED
      BY <3>1, RowChanges
      DEF RowChange, Unchanged, Inserted, StatusOnly, Stored, Refused, Linked, Answered,
          Updated
  <2>2. CASE link[u].pc = "none"
    <3>1. Execute(insertIntoTransactions(u))
      BY <1>1, <1>3, <2>2 DEF GenerateUrl
    <3>2. row' = insertIntoTransactions(u)
      BY <1>3, <3>1, FailuresStay DEF Execute
    <3> QED
      BY <3>2, InsertTable DEF TypeOK, TableTypeOK, Table
  <2> QED
    BY <2>1, <2>2
<1> QED
  BY <1>2, <1>3

LEMMA DateIsSetStep ==
    ASSUME TypeOK, DateIsSet, [Next]_vars
    PROVE  DateIsSet'
<1> SUFFICES ASSUME NEW u \in Txns, link'[u].pc \in LinkAnswered
             PROVE  expiryDate' # NoDate
  BY DEF DateIsSet
<1> USE DEF LinkAnswered, LinkRunning
<1>1. ASSUME NEW t \in Txns, LinkAccepted(t)
      PROVE  expiryDate' # NoDate
  BY <1>1 DEF LinkAccepted
<1>2. ASSUME NEW t \in Txns, GenerateUrl(t) \/ LinkStep(t), ~LinkAccepted(t)
      PROVE  link[u].pc \in LinkAnswered /\ UNCHANGED expiryDate
  <2>1. CASE GenerateUrl(t)
    BY <2>1 DEF GenerateUrl, LinkGoto, TypeOK, LinkTypeOK
  <2>2. CASE LinkStep(t)
    BY <1>2, <2>2, LinkMoves
  <2> QED
    BY <1>2, <2>1, <2>2
<1>3. CASE UNCHANGED <<link, expiryDate>>
  BY <1>3 DEF DateIsSet
<1>4. ~LinkCrash
  BY DEF LinkCrash, TypeOK, LinkTypeOK
<1> QED
  BY <1>1, <1>2, <1>3, <1>4, LinkChanges, AlertChanges DEF DateIsSet, linkVars

\* A link that is stored stays stored.
LEMMA StoredKept ==
    ASSUME Inv, [Next]_vars, NEW u \in Txns, LinkStored(u)
    PROVE  LinkStored(u)'
<1>1. TypeOK /\ FormFirst /\ DateIsSet
  BY DEF Inv
<1>2. CASE Linked(u)
  BY <1>1, <1>2 DEF Linked, Updated, DateIsSet, LinkAnswered, LinkRunning, LinkStored
<1>3. CASE ~Linked(u)
  BY <1>1, <1>3, RowChanges
  DEF RowChange, Unchanged, Inserted, StatusOnly, Stored, Refused, Answered, Updated,
      SameRest, SameLink, FormFirst, LinkStored
<1> QED
  BY <1>2, <1>3

LEMMA StoredFirstStep ==
    ASSUME Inv, [Next]_vars
    PROVE  StoredFirst'
<1> SUFFICES ASSUME dbFailures' = 0
             PROVE  /\ \A u \in Txns : link'[u].pc \in LinkAnswered \ {"init"} => LinkStored(u)'
                    /\ mailer'.text \in Txns => \E u \in Txns : u = mailer'.text /\ LinkStored(u)'
  BY DEF StoredFirst, LinkStored
<1> USE DEF LinkAnswered, LinkRunning
<1>1. TypeOK /\ FormFirst /\ DateIsSet /\ StoredFirst /\ dbFailures = 0
  BY FailuresStay DEF Inv
<1>2. ASSUME NEW u \in Txns, LinkInitResponse(u)
      PROVE  LinkStored(u)'
  <2>1. row' = updateTransactionsWithLink(u, FALSE, "INIT_RESPONSE_RECEIVED", FALSE, expiryDate)
    BY <1>1, <1>2 DEF LinkInitResponse, Execute
  <2>2. row[u] # NoRow /\ expiryDate # NoDate
    BY <1>1, <1>2 DEF LinkInitResponse, LinkGoto, FormFirst, DateIsSet
  <2>3. row \in Table /\ expiryDate \in Date /\ "INIT_RESPONSE_RECEIVED" \in Status
    BY <1>1 DEF TypeOK, TableTypeOK, LinkTypeOK, Table, Status
  <2>4. LinkUpdated(row', u, "INIT_RESPONSE_RECEIVED", expiryDate)
    BY <2>1, <2>3, UpdateWithLinkTable
  <2> QED
    BY <2>2, <2>4 DEF LinkUpdated, LinkStored
<1>3. ASSUME NEW u \in Txns, link'[u].pc \in LinkAnswered \ {"init"}
      PROVE  LinkStored(u)'
  <2>1. ASSUME NEW t \in Txns, GenerateUrl(t) \/ LinkStep(t), ~LinkInitResponse(u)
        PROVE  link[u].pc \in LinkAnswered \ {"init"}
    <3>1. CASE GenerateUrl(t)
      BY <1>1, <1>3, <3>1 DEF GenerateUrl, LinkGoto, TypeOK, LinkTypeOK
    <3>2. CASE LinkStep(t)
      BY <1>1, <1>3, <2>1, <3>2, LinkMoves
    <3> QED
      BY <2>1, <3>1, <3>2
  <2>2. ~LinkCrash
    BY <1>1, <1>3 DEF LinkCrash, TypeOK, LinkTypeOK
  <2>3. \/ LinkInitResponse(u)
        \/ link[u].pc \in LinkAnswered \ {"init"}
    BY <1>3, <2>1, <2>2, LinkChanges, AlertChanges DEF linkVars
  <2> QED
    BY <1>1, <1>2, <2>3, StoredKept DEF StoredFirst
<1>4. ASSUME mailer'.text \in Txns
      PROVE  \/ mailer'.text = mailer.text
             \/ \E t \in Txns : link[t].pc = "text" /\ mailer'.text = t
  <2>1. ASSUME NEW t \in Txns, GenerateUrl(t) \/ LinkStep(t)
        PROVE  \/ mailer'.text = mailer.text
               \/ link[t].pc = "text" /\ mailer'.text = t
    BY <1>1, <2>1
    DEF TypeOK, LinkTypeOK, GenerateUrl, LinkStep, LinkAccepted, LinkRefused,
        LinkUnusable, LinkException, LinkRetry, LinkInitResponse, LinkMail, LinkMailText,
        LinkMailSend, LinkEmailSent, LinkGoto, mailVars
  <2>2. CASE Alert
    BY <1>1, <1>4, <2>2
    DEF Alert, AlertTo, AlertText, AlertSend, TypeOK, LinkTypeOK, Date
  <2>3. ~LinkCrash
    BY <1>4 DEF LinkCrash, NoMail
  <2> QED
    BY <2>1, <2>2, <2>3, LinkChanges DEF linkVars, mailVars
<1>5. ASSUME mailer'.text \in Txns
      PROVE  LinkStored(mailer'.text)
  BY <1>1, <1>4, <1>5 DEF StoredFirst
<1>6. ASSUME mailer'.text \in Txns
      PROVE  \E u \in Txns : u = mailer'.text /\ LinkStored(u)'
  <2>1. PICK u \in Txns : u = mailer'.text
    BY <1>6
  <2>2. LinkStored(u)
    BY <1>5, <2>1
  <2> QED
    BY <2>1, <2>2, StoredKept
<1> QED
  BY <1>3, <1>6

LEMMA MailedLinkIsStoredStep ==
    ASSUME Inv, [Next]_vars
    PROVE  MailedLinkIsStored'
<1> SUFFICES ASSUME dbFailures' = 0, NEW m \in inbox'
             PROVE  LinkStored(m.text)'
  BY DEF MailedLinkIsStored, LinkStored
<1>1. TypeOK /\ StoredFirst /\ MailedLinkIsStored /\ dbFailures = 0
  BY FailuresStay DEF Inv
<1>2. m \in inbox \/ m \in {mailer} \cap Mail
  <2>1. ASSUME NEW t \in Txns, GenerateUrl(t) \/ LinkStep(t)
        PROVE  UNCHANGED inbox \/ Send
    BY <2>1
    DEF GenerateUrl, LinkStep, LinkAccepted, LinkRefused, LinkUnusable, LinkException,
        LinkRetry, LinkInitResponse, LinkMail, LinkMailText, LinkMailSend, LinkEmailSent,
        mailVars
  <2>2. UNCHANGED inbox \/ Send
    BY <2>1, LinkChanges
    DEF linkVars, mailVars, Alert, AlertTo, AlertText, AlertSend, LinkCrash
  <2> QED
    BY <2>2 DEF Send
<1>3. m.text \in Txns /\ LinkStored(m.text)
  BY <1>1, <1>2 DEF Mail, TypeOK, LinkTypeOK, MailedLinkIsStored, StoredFirst
<1> QED
  BY <1>3, StoredKept

LEMMA LinkStatesHaveLinkStep ==
    ASSUME TypeOK, DateIsSet, LinkStatesHaveLink, [Next]_vars
    PROVE  LinkStatesHaveLink'
<1> SUFFICES ASSUME NEW u \in Txns, row'[u] # NoRow,
                    row'[u].status \in {"INIT_RESPONSE_RECEIVED", "EMAIL_SENT"}
             PROVE  row'[u].link /\ row'[u].expiry # NoDate
  BY DEF LinkStatesHaveLink
<1>1. CASE Linked(u)
  BY <1>1 DEF Linked, DateIsSet, LinkAnswered, LinkRunning
<1>2. CASE ~Linked(u)
  <2>1. /\ row[u] # NoRow
        /\ row[u].status \in {"INIT_RESPONSE_RECEIVED", "EMAIL_SENT"}
        /\ row'[u].link = row[u].link /\ row'[u].expiry = row[u].expiry
    BY <1>2, RowChanges
    DEF RowChange, Unchanged, Inserted, StatusOnly, Stored, Refused, Answered, Updated,
        SameRest, SameLink
  <2> QED
    BY <2>1 DEF LinkStatesHaveLink
<1> QED
  BY <1>1, <1>2

LEMMA PerfiosIdKeptStep ==
    ASSUME TypeOK, PerfiosIdKept, [Next]_vars
    PROVE  PerfiosIdKept'
<1> SUFFICES ASSUME NEW u \in Txns, row'[u] # NoRow,
                    row'[u].status \in {"COMPLETED", "PROCESSING"} \/ row'[u].deleted
             PROVE  row'[u].perfios
  BY DEF PerfiosIdKept
<1>1. CASE Answered(u)
  BY <1>1 DEF Answered
<1>2. CASE ~Answered(u)
  <2>1. /\ row[u] # NoRow
        /\ row[u].status \in {"COMPLETED", "PROCESSING"} \/ row[u].deleted
        /\ row'[u].perfios = row[u].perfios
    BY <1>2, RowChanges
    DEF RowChange, Unchanged, Inserted, StatusOnly, Stored, Refused, Linked, Updated, SameRest
  <2> QED
    BY <2>1 DEF PerfiosIdKept
<1> QED
  BY <1>1, <1>2

\* What happens to Insights in a step: it stays, or goes on.
LEMMA InsightsChanges ==
    ASSUME TypeOK, [Next]_vars, NEW u \in Txns
    PROVE  \/ insights'[u] = insights[u]
           \/ /\ insights[u] = "pending"
              /\ insights'[u] \in {"available", "noFiles", "failure"}
           \/ insights[u] \in {"available", "noFiles", "failure"} /\ insights'[u] = "deleted"
<1>1. CASE UNCHANGED insights
  BY <1>1
<1>2. ASSUME NEW t \in Txns, Proceed(t)
      PROVE  \/ insights'[u] = insights[u]
             \/ insights'[u] \in Later[insights[u]]
  BY <1>2 DEF Proceed, InsightsProceeds, TypeOK, StatusTypeOK
<1>3. ASSUME NEW s \in InsightsState, NEW l \in Later[s]
      PROVE  \/ s = "pending" /\ l \in {"available", "noFiles", "failure"}
             \/ s \in {"available", "noFiles", "failure"} /\ l = "deleted"
  BY <1>3 DEF Later, InsightsState
<1> QED
  BY <1>1, <1>2, <1>3
  DEF Next, Generate, LinkThread, ClockPasses, StatusThread, StatusStep, StatusAnswered,
      StatusRetry, StatusException, StoreStatus, StartRetrieval, Return, HandleReturnUrl,
      FetchThread, CallBack, SupportMail, Expire, Crash, StatusCrash, vars, pollVars,
      TypeOK, StatusTypeOK

\* AnswersWereTrue for one answer.
WasTrue(answer, now) ==
    CASE answer = "available" -> now \in {"available", "deleted"}
      [] answer = "noFiles"   -> now \in {"noFiles", "deleted"}
      [] answer = "deleted"   -> now = "deleted"
      [] OTHER -> TRUE

LEMMA AnswersByWasTrue ==
    AnswersWereTrue <=>
        \A p \in Pollers : poll[p].pc = "store" =>
            WasTrue(poll[p].answer, insights[poll[p].txn])
BY DEF AnswersWereTrue, WasTrue

LEMMA AnswersWereTrueStep ==
    ASSUME TypeOK, AnswersWereTrue, [Next]_vars
    PROVE  AnswersWereTrue'
<1> SUFFICES ASSUME NEW p \in Pollers, poll'[p].pc = "store"
             PROVE  WasTrue(poll'[p].answer, insights'[poll'[p].txn])
  BY DEF AnswersWereTrue, WasTrue
<1>1. CASE poll'[p] = poll[p]
  <2>1. WasTrue(poll[p].answer, insights[poll[p].txn]) /\ poll[p].txn \in Txns
    BY <1>1, AnswersByWasTrue, PollRecord DEF TypeOK
  <2> QED
    BY <1>1, <2>1, InsightsChanges DEF WasTrue
<1>2. CASE StatusAnswered(p)
  <2>1. poll[p].txn \in Txns
    BY <1>2, PollRecord DEF StatusAnswered, TypeOK
  <2>2. PICK a \in Answers(poll[p].txn) :
           poll' = [poll EXCEPT ![p] = [pc |-> "store", txn |-> poll[p].txn, answer |-> a]]
    BY <1>2 DEF StatusAnswered
  <2>3. poll'[p].answer = a /\ poll'[p].txn = poll[p].txn
    BY <2>2 DEF TypeOK, StatusTypeOK
  <2>4. WasTrue(a, insights[poll[p].txn])
    BY <2>2 DEF Answers, WasTrue
  <2> QED
    BY <1>2, <2>3, <2>4 DEF StatusAnswered
<1>3. ASSUME NEW q \in Pollers, StatusThread(q), ~StatusAnswered(p)
      PROVE  poll'[p] = poll[p]
  <2>1. CASE q # p
    <3>1. PICK new : poll' = [poll EXCEPT ![q] = new]
      BY <1>3 DEF StatusThread, StatusStep, StatusAnswered, StatusRetry, StatusException,
                  StoreStatus, StartRetrieval, PollBecomes
    <3> QED
      BY <2>1, <3>1 DEF TypeOK, StatusTypeOK
  <2>2. CASE q = p
    <3>1. CASE StatusRetry(p)
      <4>1. poll[p] \in [pc : {"call"}, txn : Txns, tries : Attempts]
        BY <3>1, PollRecord DEF StatusRetry, PollBecomes, TypeOK
      <4>2. [poll[p] EXCEPT !.tries = @ + 1].pc = "call" /\ Idle.pc = "idle"
        BY <4>1 DEF Idle
      <4> QED
        BY <3>1, <4>2 DEF StatusRetry, PollBecomes, TypeOK, StatusTypeOK
    <3>2. CASE StatusException(p) \/ StoreStatus(p) \/ StartRetrieval(p)
      BY <3>2 DEF StatusException, StoreStatus, StartRetrieval, PollBecomes, Idle, TypeOK,
                  StatusTypeOK
    <3> QED
      BY <1>3, <2>2, <3>1, <3>2 DEF StatusThread, StatusStep
  <2> QED
    BY <2>1, <2>2
<1>4. ASSUME NEW q \in Pollers, NEW t \in Txns, Return(q, t)
      PROVE  poll'[p] = poll[p]
  BY <1>4 DEF Return, HandleReturnUrl, TypeOK, StatusTypeOK
<1>5. ~Crash
  BY DEF Crash, StatusCrash, Idle
<1> QED
  BY <1>1, <1>2, <1>3, <1>4, <1>5
  DEF Next, Generate, LinkThread, Proceed, InsightsProceeds, ClockPasses, FetchThread,
      CallBack, SupportMail, Expire, StatusThread, vars, pollVars

LEMMA StatusIsTrueStep ==
    ASSUME TypeOK, AnswersWereTrue, StatusIsTrue, [Next]_vars
    PROVE  StatusIsTrue'
<1> DEFINE True(r, now) == /\ r.status = "COMPLETED" => now \in {"available", "deleted"}
                           /\ r.deleted => now \in {"noFiles", "deleted"}
<1> SUFFICES ASSUME NEW u \in Txns, row'[u] # NoRow
             PROVE  True(row'[u], insights'[u])
  BY DEF StatusIsTrue
<1>1. True(row'[u], insights[u])
  <2>1. CASE Answered(u)
    <3>1. PICK p \in Pollers :
            /\ poll[p].pc = "store" /\ poll[p].txn = u
            /\ poll[p].answer \in Answer \ {"other"}
            /\ row'[u].status = CASE poll[p].answer \in {"available", "deleted"} -> "COMPLETED"
                                  [] poll[p].answer = "pending" -> "PROCESSING"
                                  [] OTHER -> "ERROR"
            /\ row'[u].deleted = (poll[p].answer \in {"deleted", "noFiles"})
      BY <2>1 DEF Answered
    <3>2. WasTrue(poll[p].answer, insights[u])
      BY <3>1, AnswersByWasTrue
    <3> QED
      BY <3>1, <3>2 DEF WasTrue
  <2>2. CASE ~Answered(u)
    BY <2>2, RowChanges
    DEF RowChange, Unchanged, Inserted, StatusOnly, Stored, Refused, Linked, Updated,
        SameRest, StatusIsTrue
  <2> QED
    BY <2>1, <2>2
<1> QED
  BY <1>1, InsightsChanges

\* A step of retrieval h leaves the other slots alone, and changes no
\* directory but its own.
LEMMA OneWriterStep ==
    ASSUME TypeOK, OneWriter, [Next]_vars
    PROVE  OneWriter'
<1> USE DEF TypeOK, FetchTypeOK
<1> SUFFICES ASSUME NEW f \in Fetchers, NEW g \in Fetchers, Writing(f)'
             PROVE  /\ disk'[fetch'[f].txn] \in {"empty", "partial"}
                    /\ (Writing(g)' /\ fetch'[g].txn = fetch'[f].txn) => f = g
  BY DEF OneWriter
<1>1. CASE UNCHANGED <<fetch, disk>>
  BY <1>1 DEF OneWriter, Writing
<1>2. ASSUME NEW h \in Fetchers, FetchThread(h)
      PROVE  /\ disk'[fetch'[f].txn] \in {"empty", "partial"}
             /\ (Writing(g)' /\ fetch'[g].txn = fetch'[f].txn) => f = g
  <2>1. ASSUME NEW i \in Fetchers, i # h
        PROVE  fetch'[i] = fetch[i]
    <3>1. ASSUME NEW from, NEW to, Goto(h, from, to) \/ End(h, from)
          PROVE  fetch'[i] = fetch[i]
      BY <2>1, <3>1 DEF Goto, End
    <3>2. ASSUME TryAgain(h)
          PROVE  fetch'[i] = fetch[i]
      BY <2>1, <3>2 DEF TryAgain
    <3> QED
      BY <1>2, <3>1, <3>2
      DEF FetchThread, FetchStep, FetchAccepted, FetchRefused, FetchRetry, FetchException,
          MakeDirs, OpenReport, WriteReport, StoreLocation, IoFails
  <2>2. CASE FetchAccepted(h) \/ FetchRefused(h) \/ FetchRetry(h) \/ FetchException(h)
             \/ StoreLocation(h)
    <3>1. ASSUME NEW from \in FetchPc, NEW to \in {"mkdirs", "store"},
                 Goto(h, from, to) \/ End(h, from)
          PROVE  ~Writing(h)'
      <4>1. fetch[h] \in Fetch
        BY <3>1, FetchRecord DEF Goto, End
      <4>2. [fetch[h] EXCEPT !.pc = to].pc = to /\ Idle.pc = "idle"
        BY <4>1 DEF Fetch, Idle
      <4>3. fetch'[h].pc \in {to, "idle"}
        BY <3>1, <4>2 DEF Goto, End
      <4> QED
        BY <4>3 DEF Writing
    <3>2. ASSUME TryAgain(h)
          PROVE  ~Writing(h)'
      <4>1. fetch[h].pc = "call" /\ fetch[h] \in Fetch
        BY <3>2, FetchRecord DEF TryAgain, FetchPc
      <4>2. [fetch[h] EXCEPT !.tries = @ + 1].pc = "call" /\ Idle.pc = "idle"
        BY <4>1 DEF Fetch, Idle
      <4>3. fetch'[h].pc \in {"call", "idle"}
        BY <3>2, <4>2 DEF TryAgain
      <4> QED
        BY <4>3 DEF Writing
    <3>3. UNCHANGED disk /\ ~Writing(h)'
      BY <2>2, <3>1, <3>2
      DEF FetchAccepted, FetchRefused, FetchRetry, FetchException, StoreLocation, FetchPc
    <3> QED
      BY <2>1, <3>3 DEF OneWriter, Writing
  <2>3. CASE MakeDirs(h) \/ OpenReport(h) \/ WriteReport(h)
    <3>1. fetch[h].txn \in Txns /\ fetch[h] \in Fetch
      BY <2>3, FetchRecord DEF MakeDirs, OpenReport, WriteReport, IoFails, Goto, End, FetchPc, Fetch
    <3>2. ASSUME Writing(h)'
          PROVE  /\ fetch'[h].txn = fetch[h].txn
                 /\ disk'[fetch[h].txn] \in {"empty", "partial"}
                 /\ Writing(h) \/ disk[fetch[h].txn] = "absent"
      BY <2>3, <3>1, <3>2
      DEF MakeDirs, OpenReport, WriteReport, IoFails, Goto, End, Idle, Writing, Fetch
    <3>3. ASSUME NEW t \in Txns, disk'[t] # disk[t]
          PROVE  t = fetch[h].txn /\ (Writing(h) \/ disk[t] = "absent")
      BY <2>3, <3>1, <3>3
      DEF MakeDirs, OpenReport, WriteReport, IoFails, Goto, End, Writing
    <3>4. ASSUME NEW i \in Fetchers, i # h, Writing(i)'
          PROVE  /\ Writing(i) /\ fetch'[i] = fetch[i] /\ fetch[i].txn \in Txns
                 /\ disk[fetch[i].txn] \in {"empty", "partial"}
                 /\ Writing(h) => fetch[i].txn # fetch[h].txn
      BY <2>1, <3>4, FetchRecord DEF OneWriter, Writing, FetchPc, Fetch
    <3>5. ASSUME NEW i \in Fetchers, i # h, Writing(i)'
          PROVE  disk'[fetch'[i].txn] \in {"empty", "partial"}
      BY <3>3, <3>4, <3>5
    <3>6. ASSUME NEW i \in Fetchers, i # h, Writing(i)', Writing(h)'
          PROVE  fetch'[i].txn # fetch'[h].txn
      BY <3>2, <3>4, <3>6
    <3> QED
      BY <2>1, <3>2, <3>4, <3>5, <3>6 DEF OneWriter, Writing
  <2> QED
    BY <1>2, <2>2, <2>3 DEF FetchThread, FetchStep
<1>3. ASSUME NEW h \in Fetchers, NEW t \in Txns, RetrieveReport(h, t), UNCHANGED disk
      PROVE  /\ disk'[fetch'[f].txn] \in {"empty", "partial"}
             /\ (Writing(g)' /\ fetch'[g].txn = fetch'[f].txn) => f = g
  <2>1. ~Writing(h)' /\ \A i \in Fetchers \ {h} : fetch'[i] = fetch[i]
    BY <1>3 DEF RetrieveReport, Writing
  <2> QED
    BY <1>3, <2>1 DEF OneWriter, Writing
<1>4. ASSUME NEW p \in Pollers, StatusThread(p)
      PROVE  \/ UNCHANGED <<fetch, disk>>
             \/ \E h \in Fetchers, t \in Txns : RetrieveReport(h, t) /\ UNCHANGED disk
  BY <1>4, PollRecord
  DEF StatusThread, StatusStep, StatusAnswered, StatusRetry, StatusException, StoreStatus,
      StartRetrieval, PollBecomes, fetchVars
<1>5. ~Crash
  BY DEF Crash, FetchCrash, Writing, Idle
<1> QED
  BY <1>1, <1>2, <1>3, <1>4, <1>5
  DEF Next, Generate, LinkThread, Proceed, InsightsProceeds, ClockPasses, Return,
      HandleReturnUrl, CallBack, CallBackComplete, SupportMail, Expire, vars, fetchVars

\* Every step keeps the invariant.
LEMMA NextInv ==
    ASSUME Inv, [Next]_vars
    PROVE  Inv'
<1>1. TypeOK'
  BY NextTypes DEF Inv
<1>2. FormFirst' /\ DateIsSet'
  BY FormFirstStep, DateIsSetStep DEF Inv
<1>3. PerfiosIdKept' /\ AnswersWereTrue' /\ StatusIsTrue'
  BY PerfiosIdKeptStep, AnswersWereTrueStep, StatusIsTrueStep DEF Inv
<1>4. LinkStatesHaveLink' /\ OneWriter'
  BY LinkStatesHaveLinkStep, OneWriterStep DEF Inv
<1>5. StoredFirst' /\ MailedLinkIsStored'
  BY StoredFirstStep, MailedLinkIsStoredStep DEF Inv
<1> QED
  BY <1>1, <1>2, <1>3, <1>4, <1>5 DEF Inv

\* The invariant holds in every state, whatever fails, crashes or overtakes.
THEOREM Invariance == Spec => []Inv
<1>1. Init => Inv
  BY InitInv
<1>2. Inv /\ [Next]_vars => Inv'
  BY NextInv
<1> QED
  BY <1>1, <1>2, PTL DEF Spec

\* No answer that comes late or out of order makes a row say COMPLETED,
\* PROCESSING or deleted against what Insights knows by then.
THEOREM StatusCorrect == Spec => []StatusIsTrue
<1>1. Inv => StatusIsTrue
  BY DEF Inv
<1> QED
  BY <1>1, Invariance, PTL

\* Those states never come without the Perfios transaction id.
THEOREM PerfiosIdCorrect == Spec => []PerfiosIdKept
<1>1. Inv => PerfiosIdKept
  BY DEF Inv
<1> QED
  BY <1>1, Invariance, PTL

\* The states of the link thread come with the link and with a date, although
\* the date is read from a field that all threads write.
THEOREM LinkStatesCorrect == Spec => []LinkStatesHaveLink
<1>1. Inv => LinkStatesHaveLink
  BY DEF Inv
<1> QED
  BY <1>1, Invariance, PTL

\* However many threads retrieve a report, one writes it, once.
THEOREM OneWriterCorrect == Spec => []OneWriter
<1>1. Inv => OneWriter
  BY DEF Inv
<1> QED
  BY <1>1, Invariance, PTL

\* Whoever has a link in a mail finds it stored with a date, as long as no
\* statement has failed, although the mailer's fields are shared as well.
THEOREM MailedCorrect == Spec => []MailedLinkIsStored
<1>1. Inv => MailedLinkIsStored
  BY DEF Inv
<1> QED
  BY <1>1, Invariance, PTL

\* No link thread finds null in the field it takes the expiry date from.
THEOREM DateCorrect == Spec => []DateIsSet
<1>1. Inv => DateIsSet
  BY DEF Inv
<1> QED
  BY <1>1, Invariance, PTL

-----------------------------------------------------------------------------
(* Report delivery.                                                        *)

Located(t) == row[t] # NoRow /\ row[t].location

Complete(t) == disk[t] \in {"whole", "wrong"}

\* What a step does to the disk: a thread goes on with one file that is not
\* complete, and the table stays.
LEMMA DiskChanges ==
    ASSUME Inv, [Next]_vars
    PROVE  \/ UNCHANGED disk
           \/ /\ UNCHANGED row
              /\ \E t \in Txns : /\ ~Complete(t)
                                 /\ \A u \in Txns : u # t => disk'[u] = disk[u]
<1> USE DEF Inv, TypeOK
<1>1. ASSUME NEW f \in Fetchers, FetchThread(f), disk' # disk
      PROVE  /\ UNCHANGED row
             /\ \E t \in Txns : /\ ~Complete(t)
                                /\ \A u \in Txns : u # t => disk'[u] = disk[u]
  <2>1. MakeDirs(f) \/ OpenReport(f) \/ WriteReport(f)
    BY <1>1
    DEF FetchThread, FetchStep, FetchAccepted, FetchRefused, FetchRetry, FetchException,
        StoreLocation
  <2>2. fetch[f].txn \in Txns
    BY <2>1, FetchRecord
    DEF MakeDirs, OpenReport, WriteReport, IoFails, Goto, End, FetchPc, Fetch
  <2>3. ~Complete(fetch[f].txn)
    BY <1>1, <2>1 DEF MakeDirs, OpenReport, WriteReport, Goto, OneWriter, Writing, Complete
  <2>4. \A u \in Txns : u # fetch[f].txn => disk'[u] = disk[u]
    BY <1>1, <2>1 DEF MakeDirs, OpenReport, WriteReport, FetchTypeOK
  <2>5. UNCHANGED row
    BY <2>1 DEF MakeDirs, OpenReport, WriteReport, tableVars
  <2> QED
    BY <2>2, <2>3, <2>4, <2>5
<1>2. ASSUME NEW p \in Pollers, StatusThread(p)
      PROVE  UNCHANGED disk
  BY <1>2
  DEF StatusThread, StatusStep, StatusAnswered, StatusRetry, StatusException, StoreStatus,
      StartRetrieval, fetchVars
<1> QED
  BY <1>1, <1>2
  DEF Next, Generate, LinkThread, Proceed, InsightsProceeds, ClockPasses, Return,
      HandleReturnUrl, CallBack, CallBackComplete, SupportMail, Expire, Crash, FetchCrash,
      vars, fetchVars

\* What a step does to the locations: they stay, or one is stored.
LEMMA LocationChanges ==
    ASSUME Inv, [Next]_vars
    PROVE  \/ \A u \in Txns : Located(u)' = Located(u)
           \/ /\ UNCHANGED disk
              /\ \E t \in Txns : /\ ~Located(t) /\ Located(t)'
                                 /\ \A u \in Txns : u # t => Located(u)' = Located(u)
<1>1. TypeOK /\ row \in Table /\ FormFirst
  BY DEF Inv, TypeOK, TableTypeOK, Table
<1>2. CASE \E t \in Txns : Stored(t)
  <2>1. PICK t \in Txns : Stored(t)
    BY <1>2
  <2>2. \A u \in Txns : u # t => row'[u] = row[u]
    BY <1>1, <2>1, UpdateLocationTable DEF Stored
  <2>3. UNCHANGED disk /\ Located(t)'
    BY <2>1 DEF Stored, Updated, Located
  <2> QED
    BY <2>2, <2>3 DEF Located
<1>3. CASE ~\E t \in Txns : Stored(t)
  <2> SUFFICES ASSUME NEW u \in Txns
               PROVE  Located(u)' = Located(u)
    OBVIOUS
  <2>1. RowChange(u) /\ ~Stored(u)
    BY <1>1, <1>3, RowChanges
  <2>2. \/ row'[u] = row[u]
        \/ row[u] = NoRow /\ row'[u].location = FALSE
        \/ row[u] # NoRow /\ row'[u] # NoRow /\ row'[u].location = row[u].location
    BY <1>1, <2>1
    DEF RowChange, Unchanged, Inserted, StatusOnly, Refused, Linked, Answered, Updated,
        FormFirst
  <2> QED
    BY <2>2 DEF Located
<1> QED
  BY <1>2, <1>3

\* A step keeps the promise of ReportDelivery.
LEMMA DeliveryStep ==
    ASSUME Inv, [Next]_vars
    PROVE  [Delivery!Next]_([t \in Txns |-> DownloadReport(t)])
<1> DEFINE D == [t \in Txns |-> DownloadReport(t)]
<1>1. \A t \in Txns : D[t] = IF ~Located(t) THEN "nothing"
                             ELSE IF Complete(t) THEN disk[t] ELSE "broken"
  BY DEF DownloadReport, Located, Complete
<1>2. \A t \in Txns : D'[t] = IF ~Located(t)' THEN "nothing"
                              ELSE IF Complete(t)' THEN disk'[t] ELSE "broken"
  BY DEF DownloadReport, Located, Complete
<1>3. D = [t \in Txns |-> D[t]] /\ D' = [t \in Txns |-> D'[t]]
  OBVIOUS
<1> HIDE DEF D
<1>4. CASE \E t \in Txns : /\ D[t] = "nothing" /\ D'[t] \in {"broken", "whole", "wrong"}
                           /\ \A u \in Txns : u # t => D'[u] = D[u]
  <2>1. PICK t \in Txns : /\ D[t] = "nothing" /\ D'[t] \in {"broken", "whole", "wrong"}
                          /\ \A u \in Txns : u # t => D'[u] = D[u]
    BY <1>4
  <2>2. D' = [D EXCEPT ![t] = D'[t]]
    BY <1>3, <2>1
  <2>3. Delivery!Offer(t)
    BY <2>1, <2>2 DEF Delivery!Offer, Delivery!Outcome, D
  <2> QED
    BY <2>3 DEF Delivery!Next
<1>5. CASE \E t \in Txns : /\ D[t] = "broken" /\ D'[t] \in {"whole", "wrong"}
                           /\ \A u \in Txns : u # t => D'[u] = D[u]
  <2>1. PICK t \in Txns : /\ D[t] = "broken" /\ D'[t] \in {"whole", "wrong"}
                          /\ \A u \in Txns : u # t => D'[u] = D[u]
    BY <1>5
  <2>2. D' = [D EXCEPT ![t] = D'[t]]
    BY <1>3, <2>1
  <2>3. Delivery!Complete(t)
    BY <2>1, <2>2 DEF Delivery!Complete, D
  <2> QED
    BY <2>3 DEF Delivery!Next
<1>6. CASE \A t \in Txns : D'[t] = D[t]
  <2>1. D' = D
    BY <1>3, <1>6
  <2> QED
    BY <2>1 DEF D
<1>7. CASE UNCHANGED disk
  BY <1>1, <1>2, <1>4, <1>6, <1>7, LocationChanges DEF Complete
<1>8. CASE ~UNCHANGED disk
  <2>1. PICK t \in Txns : /\ ~Complete(t)
                          /\ \A u \in Txns : u # t => disk'[u] = disk[u]
    BY <1>8, DiskChanges
  <2>2. \A u \in Txns : Located(u)' = Located(u)
    BY <1>8, LocationChanges
  <2>3. \A u \in Txns : u # t => D'[u] = D[u]
    BY <1>1, <1>2, <2>1, <2>2 DEF Complete
  <2>4. D'[t] = D[t] \/ (D[t] = "broken" /\ D'[t] \in {"whole", "wrong"})
    BY <1>1, <1>2, <2>1, <2>2 DEF Complete
  <2> QED
    BY <1>5, <1>6, <2>3, <2>4
<1> QED
  BY <1>7, <1>8

\* InsightsAssist implements ReportDelivery: once a download has served a
\* complete file, every later one serves the same, although callbacks and returns of the
\* user have it retrieved again and again and the server may stop between any
\* two steps.
THEOREM DeliveryKept == Spec => KeepsDelivery
<1>1. Init => Delivery!Init
  BY DEF Init, TableInit, Delivery!Init, DownloadReport
<1>2. Inv /\ [Next]_vars => [Delivery!Next]_([t \in Txns |-> DownloadReport(t)])
  BY DeliveryStep
<1> QED
  BY <1>1, <1>2, Invariance, PTL DEF Spec, KeepsDelivery, Delivery!Spec
=============================================================================
