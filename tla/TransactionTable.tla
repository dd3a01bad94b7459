-------------------------- MODULE TransactionTable --------------------------
(***************************************************************************)
(* The table ia_transactions and the statements of DatabaseUtil on it.     *)
(*                                                                         *)
(* Every statement is one autocommitted UPDATE or INSERT: it is atomic,    *)
(* two statements of one handler are not.  DatabaseUtil catches every      *)
(* exception and returns FALSE, and no caller looks at the result, so a    *)
(* statement that fails leaves the table alone and the caller goes on.     *)
(***************************************************************************)
EXTENDS Naturals

CONSTANTS
    Txns,           \* client transaction ids (generateRandomString)
    NoRow,          \* what a lookup yields when no INSERT has succeeded
    NoDate,         \* the default of expiry_date, for an INSERT without a date
    MaxDbFailures   \* bound on the statements that fail

VARIABLES
    row,        \* row[t]: the row with transaction_id = t, or NoRow
    past,       \* the expiry dates that lie in the past
    dbFailures  \* statements that have failed

tableVars == <<row, past, dbFailures>>

Status == { "INITIATED", "INIT_RESPONSE_RECEIVED", "EMAIL_SENT", "PROCESSING",
            "REPORT_DELIVERY_FAILED", "COMPLETED", "ERROR", "EXPIRED" }

\* A date is named by the transaction Insights gave it to.
Date == Txns \cup {NoDate}

\* perfios: the row has a perfios_transcation_id; link: it has a
\* generated_link; location: it has a report_location.
Row == [ status   : Status,
         perfios  : BOOLEAN,
         deleted  : BOOLEAN,
         link     : BOOLEAN,
         expiry   : Date,
         location : BOOLEAN ]

ASSUME TableAssumption ==
    /\ MaxDbFailures \in Nat
    /\ NoDate \notin Txns
    /\ NoRow \notin Row

TableTypeOK ==
    /\ row \in [Txns -> Row \cup {NoRow}]
    /\ past \subseteq Txns
    /\ dbFailures \in 0..MaxDbFailures

TableInit ==
    /\ row = [t \in Txns |-> NoRow]
    /\ past = {}
    /\ dbFailures = 0

-----------------------------------------------------------------------------
(* The statements, as functions from the table to the table it becomes.    *)

\* insertIntoTransactions, called with INITIATED and is_deleted 0 only.
insertIntoTransactions(t) ==
    [row EXCEPT ![t] = [ status  |-> "INITIATED", perfios |-> FALSE,
                         deleted |-> FALSE,       link    |-> FALSE,
                         expiry  |-> NoDate,      location |-> FALSE ]]

\* WHERE transaction_id = t: without a row, an UPDATE changes nothing.
OnRow(t, new) == IF row[t] = NoRow THEN row ELSE [row EXCEPT ![t] = new]

\* Mutant: the six-argument updateTransactions forgets the Perfios id.
UpdateWithoutId(t, perfios, status, deleted) ==
    OnRow(t, [row[t] EXCEPT !.status = status, !.deleted = deleted])

\* Mutant: it writes the whole row, and null to what it is not given.
UpdateWholeRow(t, perfios, status, deleted) ==
    OnRow(t, [row[t] EXCEPT !.perfios = perfios, !.status = status,
                            !.deleted = deleted, !.link = FALSE])

\* The six-argument updateTransactions; perfios tells whether the caller
\* passes an id or null.
updateTransactions(t, perfios, status, deleted) ==
    OnRow(t, [row[t] EXCEPT !.perfios = perfios, !.status = status,
                            !.deleted = deleted])

\* Mutant: the eight-argument one forgets the generated link.
UpdateWithoutLink(t, perfios, status, deleted, date) ==
    OnRow(t, [row[t] EXCEPT !.perfios = perfios, !.status = status,
                            !.deleted = deleted, !.expiry = date])

\* The eight-argument one, which also stores the link and its expiry date.
updateTransactionsWithLink(t, perfios, status, deleted, date) ==
    OnRow(t, [row[t] EXCEPT !.perfios = perfios, !.status = status,
                            !.deleted = deleted, !.link = TRUE,
                            !.expiry = date])

updateTransactionStatus(t, status) == OnRow(t, [row[t] EXCEPT !.status = status])

updateReportLocation(t) == OnRow(t, [row[t] EXCEPT !.location = TRUE])

\* expiry_date <= now.  The column is not nullable and its default, the zero
\* date, is before every date.
IsPast(date) == date = NoDate \/ date \in past

\* Mutant: the sweep looks only at the transactions that were mailed.
ExpireMailedOnly ==
    [t \in Txns |-> IF row[t] # NoRow /\ row[t].status = "EMAIL_SENT"
                                      /\ IsPast(row[t].expiry)
                    THEN [row[t] EXCEPT !.status = "EXPIRED"]
                    ELSE row[t]]

\* updateExpiryDateStatus: one UPDATE over the table, whatever the status is.
updateExpiryDateStatus ==
    [t \in Txns |-> IF row[t] # NoRow /\ IsPast(row[t].expiry)
                    THEN [row[t] EXCEPT !.status = "EXPIRED"]
                    ELSE row[t]]

\* Run a statement: it takes effect, or it throws and the exception is
\* swallowed.
Execute(table) ==
    \/ row' = table /\ UNCHANGED dbFailures
    \/ /\ dbFailures < MaxDbFailures
       /\ dbFailures' = dbFailures + 1
       /\ UNCHANGED row
=============================================================================
