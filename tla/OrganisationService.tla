------------------------ MODULE OrganisationService ------------------------
(***************************************************************************)
(* OrganisationServiceImpl, the cache of ia_organisations, and the one     *)
(* registered action that changes the table and refreshes the cache:       *)
(* StoreOrganisation, in as many threads as there are requests.            *)
(*                                                                         *)
(* An add is an INSERT and two UPDATEs, each committed by itself.  It may  *)
(* fail before any of them: because of the database, or because the        *)
(* connection, a field that all requests share, was closed by another one. *)
(* Then restart() reads the table, and installs under LOCK what it read.   *)
(***************************************************************************)
EXTENDS Naturals

CONSTANTS
    Names,          \* organisation names
    Preloaded,      \* those in the table before the server starts, as "acme"
    Requests        \* threads that serve dashboard_org (a bound)

ASSUME OrganisationAssumption == Preloaded \subseteq Names

VARIABLES
    rows,           \* the table: rows[n], the columns that n's row has a value in
    cache,          \* idToOrganisationMap, which nameToIdMap indexes by name
    add             \* add[r]: the request that thread r serves

ovars == <<rows, cache, add>>

Columns == {"organisation_name", "insights_key", "key"}
NoRow == {}
Table == [Names -> SUBSET Columns]
Cleared == [n \in Names |-> NoRow]
Idle == [pc |-> "idle"]

\* "named", "insights" and "added" follow the three statements; "read": restart()
\* holds what it has read, and not LOCK.
Add == [ pc : {"accepted", "named", "insights", "added", "read", "success", "error"},
         name : Names, read : Table ]

OrganisationTypeOK ==
    /\ rows \in Table
    /\ cache \in Table
    /\ add \in [Requests -> Add \cup {Idle}]

OrganisationInit ==
    /\ rows = [n \in Names |-> IF n \in Preloaded THEN Columns ELSE NoRow]
    /\ cache = Cleared
    /\ add = [r \in Requests |-> Idle]

-----------------------------------------------------------------------------
(* StoreOrganisation.                                                      *)

At(r, pc) == add[r].pc = pc
Goes(r, pc) == add' = [add EXCEPT ![r].pc = pc]

\* execute, for a name that is not empty.
AddOrganisation(r, n) ==
    /\ add[r] = Idle
    /\ add' = [add EXCEPT ![r] = [pc |-> "accepted", name |-> n, read |-> Cleared]]
    /\ UNCHANGED <<rows, cache>>

\* INSERT: the name is unique.
InsertName(r) ==
    /\ At(r, "accepted")
    /\ rows[add[r].name] = NoRow
    /\ rows' = [rows EXCEPT ![add[r].name] = {"organisation_name"}]
    /\ Goes(r, "named")
    /\ UNCHANGED cache

\* Mutant: WHERE organisation_name = 'acme' in the UPDATE, not in its SELECT.
WithKeyOfPreloaded(column) ==
    [n \in Names |-> IF n \in Preloaded THEN rows[n] \cup {column} ELSE rows[n]]

\* UPDATE without WHERE: every row gets the key that acme's has.
WithKey(column) ==
    [n \in Names |-> IF rows[n] = NoRow THEN NoRow ELSE rows[n] \cup {column}]

CopyInsightsKey(r) ==
    /\ At(r, "named")
    /\ rows' = WithKey("insights_key")
    /\ Goes(r, "insights")
    /\ UNCHANGED cache

CopyKey(r) ==
    /\ At(r, "insights")
    /\ rows' = WithKey("key")
    /\ Goes(r, "added")
    /\ UNCHANGED cache

\* Mutant: an add that fails deletes its row again.
AddRolledBack(r) ==
    /\ add[r].pc \in {"accepted", "named", "insights", "added"}
    /\ Goes(r, "error")
    /\ rows' = [rows EXCEPT ![add[r].name] = NoRow]
    /\ UNCHANGED cache

\* A statement fails, and what the others did stays; or restart() throws.
AddFails(r) ==
    /\ add[r].pc \in {"accepted", "named", "insights", "added"}
    /\ Goes(r, "error")
    /\ UNCHANGED <<rows, cache>>

\* restart(): cacheOrganisations reads the table ...
FetchOrganisations(r) ==
    /\ At(r, "added")
    /\ add' = [add EXCEPT ![r].pc = "read", ![r].read = rows]
    /\ UNCHANGED <<rows, cache>>

\* Mutant: the cache is cleared and filled in two critical sections.
ClearThenInstall(r) ==
    /\ At(r, "read")
    /\ IF cache = Cleared
       THEN cache' = add[r].read /\ Goes(r, "success")
       ELSE cache' = Cleared /\ UNCHANGED add
    /\ UNCHANGED rows

\* ... and replaces the cache, in one critical section of LOCK.
InstallOrganisations(r) ==
    /\ At(r, "read")
    /\ cache' = add[r].read
    /\ add' = [add EXCEPT ![r].pc = "success", ![r].read = Cleared]
    /\ UNCHANGED rows

\* The answer: success, or a 400.
Answered(r) ==
    /\ add[r].pc \in {"success", "error"}
    /\ add' = [add EXCEPT ![r] = Idle]
    /\ UNCHANGED <<rows, cache>>

AddStep(r) ==
    \/ InsertName(r) \/ CopyInsightsKey(r) \/ CopyKey(r) \/ AddFails(r)
    \/ FetchOrganisations(r) \/ InstallOrganisations(r) \/ Answered(r)

-----------------------------------------------------------------------------
(* The service.                                                            *)

\* start(), before any request.
startOrganisations ==
    /\ cache' = rows
    /\ UNCHANGED <<rows, add>>

\* stop(); a request still under way may fill the cache again.
stopOrganisations ==
    /\ cache' = Cleared
    /\ UNCHANGED <<rows, add>>

\* The organisation that a filter finds for a request (getOrganisation).
Found(n) == "organisation_name" \in cache[n]

-----------------------------------------------------------------------------

\* An organisation whose add goes on to success has its name and both keys, in
\* the table and in what will be installed, although the statements of several
\* adds are not one transaction and mix (StoreOrganisation, lines 84-92).
AddedHasKeys ==
    \A r \in Requests :
        /\ add[r].pc \in {"added", "read", "success"} => rows[add[r].name] = Columns
        /\ At(r, "read") => add[r].read[add[r].name] = Columns

\* Nothing is found that is not stored: the cache may be behind the table,
\* whoever installs what he has read, in whatever order, but never ahead of it,
\* although a failed add is not rolled back (OrganisationServiceImpl, lines
\* 90-121; StoreOrganisation, lines 84-100).
FoundIsStored == \A n \in Names : cache[n] \subseteq rows[n]
=============================================================================
