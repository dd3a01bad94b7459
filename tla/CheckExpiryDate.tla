--------------------------- MODULE CheckExpiryDate ---------------------------
(***************************************************************************)
(* The daemon timer that expires transactions, and the clock it reads.     *)
(* updateExpiryDateStatus catches every exception, so no failure ends the  *)
(* timer: the sweep recurs as long as the server runs.                     *)
(***************************************************************************)
EXTENDS TransactionTable

\* The clock passes the date d.  Only the sweep reads the clock, so it is
\* enough to let a date pass once some row holds it.
TimePasses(d) ==
    /\ d \notin past
    /\ \E t \in Txns : row[t] # NoRow /\ row[t].expiry = d
    /\ past' = past \cup {d}
    /\ UNCHANGED <<row, dbFailures>>

Sweep ==
    /\ Execute(updateExpiryDateStatus)
    /\ UNCHANGED past

\* A row whose date stays in the past is EXPIRED again and again, whatever it
\* said before and however often another handler overwrites it: the timer
\* visits the whole table every time (CheckExpiryDate.start).
RowsExpire ==
    \A t \in Txns :
        <>[](row[t] # NoRow /\ IsPast(row[t].expiry))
            => []<>(row[t] # NoRow /\ row[t].status = "EXPIRED")
=============================================================================
