# Insights Assist: specification, model checking and proofs

Insights Assist is a Java servlet application (`src/java/com/ia`) with a few pages for
the browser (`src/htdocs`). A loan officer logs in and fills in a form; the server asks
the external service *Perfios Insights* for a link, mails it to the applicant, learns
later what became of the transaction, fetches the report and offers it for download.
An administrator adds organisations. This directory models the server's flow of
transactions, its services, its log, and the loan officer's page.

All paths below are under `src/java/com/ia` unless they begin with `src/`.

## 1. Inventory

| component | state | operations | interacts with |
|---|---|---|---|
| **Transaction table**: `util/DatabaseUtil.java`, `src/sql/create_schema.sql` | a row per transaction: status, Perfios id, link, expiry date, deleted mark, report location | one INSERT, five UPDATEs, lookups | all of the flow; each statement commits alone, every exception is swallowed |
| **Expiry timer**: `actions/service/CheckExpiryDate.java` | a daemon timer | every hour: `updateExpiryDateStatus` | table |
| **Link generation**: `actions/GenerateInsightsStatementUploadUrl.java`, `actions/service/MakeInsightsApiRequest.java`, `GenerateLinkPostProcess.java` | a daemon thread per transaction; the field `expiryDate` of one object that all threads share | insert the row, start the thread; POST with retries; UPDATE, mail, UPDATE | table, mailer, Insights, session service |
| **Mailer**: `services/MailerService.java` | one static mailer, perhaps null, which keeps the mail being sent in fields | `sendMail`, `sendMailToSupport` | link generation, logger |
| **Status check**: `actions/HandleInsightsReturnUrl.java`, `actions/service/InsightsTransactionStatusCall.java`, `HandleReturnUrlPostProcess.java` | a daemon thread per return of the user | POST with retries; store the answer; start a retrieval | table, Insights, report retrieval |
| **Report retrieval and download**: `actions/TransactionCallBackComplete.java`, `actions/service/RetrieveReport*.java`, `actions/DownloadReport.java` | a daemon thread per callback or available report; a directory and a file per transaction | POST with retries; `mkdirs`, write, store the location; download | table, Insights, disk |
| **Session service**: `services/impl/SessionServiceImpl.java` | two BiMaps: session to user id, user id to `User` | login, logout, expiry, force-logout, invalidate, restart, stop | login and logout, the login check of every action, listener |
| **Loan page**: `src/htdocs/login.html`, `src/htdocs/loanMgmt.html`, `src/htdocs/js/loanMgmt.js`, `actions/FetchUserData.java` | which page and which half of it is shown, requests under way, the table and its click handlers | log in, open and submit the form, cancel, refresh, log out; the callbacks of the answers | dispatch, session service, table |
| **Login, logout, dispatch**: `actions/LoginAuthenticate.java`, `Logout.java`, `servlet/IAServer.java`, `services/impl/AbstractActionService.java` | the set of registered paths | look up an action, check the login, execute | session service |
| **Organisation service**: `services/impl/OrganisationServiceImpl.java` | two maps, a cache of a table | start, restart and stop, lookups | administration, request filters |
| **Administration**: `admin/*`, `src/htdocs/js/admin.js` | a connection in a field that all requests share | add an organisation, add a user | table of organisations, organisation service |
| **Listener**: `servlet/IAServicesListener.java`, `services/AllServices.java` | the list of services | start the services, stop them in reverse | all services, timer, logger |
| **Logger**: `log/KLogger.java` | a buffer, an open file, a day | append, print every three seconds, change of day, shutdown | mailer (an exception is mailed) |
| **Job scheduler**: `scheduler/*` | a map of processes, job statistics | start, watch and kill jobs | its bindings are commented out: it never runs |
| **Temporary files, forms, encryption, templates, filters, generated classes** | none that outlives a request | conversions and checks | libraries |

What is hard here: threads that nobody waits for or counts, which update one row in an
order nobody fixes; state shared by accident (the date field, the fields of the mailer,
the stream of the log, the connection of the administration); statements that are not one
transaction and fail one by one without notice; a directory as a lock; retries; a stop of
the server that loses threads; two maps in step; a cache filled with what was read some
time ago; a page whose answers come in any order while its session changes hands.
`PROJECT.json` lists the hazards line by line, with the properties that would catch each.

What makes each component correct:

* *table and timer*: a row whose date is past is expired however the other handlers
  overwrite it, and no handler takes from a row what another has stored;
* *link generation*: a mailed link is one the row knows, it goes to the applicant it
  is for, a row gets its own date, threads end;
* *status check*: the row never says more than Insights said, in whatever order
  answers are stored;
* *report retrieval*: one writer per report; what is offered is there; a file
  once served whole is served for ever; retrievals end;
* *sessions*: a logged-in session has a user, a user has one session, requests run
  for whoever logged in last;
* *loan page*: one user's loans at a time; an application that was accepted is shown; a
  click selects a row;
* *organisations*: one that is reported as added is complete and found; one that was there
  is never missing;
* *logger*: a message is written once, in order up to the first midnight, and not in a file
  of the days before; none stays in the buffer.

## 2. Modules

```
TransactionTable        Retryer       ReportDelivery (abstract)   SessionRegistry (abstract)
      |                 /    |               |                          |
CheckExpiryDate        /     |               |                     SessionService
      |       \       /      |               |                     /         \
      |        LinkGeneration|               |               LoanPage      Services
      |                \     |               |                           /
      +----- ReportRetrieval -------- implements        OrganisationService
                     |    \
        TransactionStatusCheck                     LoanTable
                     |     \                             LogBook (abstract)
                InsightsAssist                               |
                                                          KLogger
```

`LoanPageUsers` adds a history variable to `LoanPage`.
Proofs: `InsightsAssist_proofs`, `DatesReports_proofs` and `InsightsSteps_proofs` (all three
about InsightsAssist), `SessionService_proofs`, `LoanPage_proofs` (which is about
`LoanPageUsers` as well), `Services_proofs`, `KLogger_proofs`.
`MCLinkGeneration`, `MCInsightsAssist` and `MCServices` add symmetry for TLC; the other
modules are checked as they are.

**TransactionTable** holds `row`, a function from client transaction ids to a row
or `NoRow`. A row keeps what the handlers and the user tell apart: the status (the
schema's ENUM), whether there is a Perfios id, a link, a location, and whose
expiry date it holds. Dates are named by the transaction Insights gave them to;
`NoDate` is the value of a row whose INSERT named none: `expiry_date` is a TIMESTAMP
that is not nullable and has a default (`generated/tables/IaTransactions.java:102`), the zero
date, which is before every other (`IsPast`). `past` is the set of the other dates before now. The statements are functions from the table to a table;
`Execute` runs one, or fails and leaves the table alone: `DatabaseUtil` catches
every exception and no caller reads its result. `insights_status`, `message`, form
data and time stamps follow from the status or are never read here; the user id matters
to the loan page, which has it as `owner`.

**CheckExpiryDate** has the sweep and the clock.

**Retryer** is the attempt count of the three threads. `call()` returns true after an
exception as well, so that only a refusal is tried again, although the `Retryer` is built
with `retryIfException()`.

**LinkGeneration**: `link[t]` is the thread of t. It takes one step per access to
shared state: `call` (POST; answers, refusals, exceptions, another attempt), `init`
(first UPDATE), `mail`, `text`, `send` (the mail), `sent` (second UPDATE). One attempt of
the code sends up to five POSTs, as `asString()` sends the request anew each time; the
status tested and the body used belong to different POSTs, so any body follows any
status.
`expiryDate` is the shared field, written by `LinkAccepted` and read by both
UPDATEs. `MailerService.sendMail` is static and hands the mail to the one `SendGMail`
object (from `send-gmail-1.0.jar`), whose `sendEmail` stores recipients and then text
in fields, composes the mail from the fields, sends it and returns false when that
fails; the result is ignored, and without a mailer (`MailerUp = FALSE`) nothing is sent.
`mailer` is these fields, `inbox` the mails that have
arrived, each with the transaction whose applicant it went to and the one whose link it
holds. `KLogger` mails every exception it logs to the support through the same object
(`Alert`): one at a time, since it holds the lock of the log, but not apart from the link
threads. `alert` is where such a mail is; what the alert says does not matter. No lock
orders these accesses, so they interleave. The early returns of the form handler change
nothing here; the loan page sees their answers.

**ReportRetrieval**: `fetch[f]` is a retrieval thread, `disk[t]` the directory and
file. `MakeDirs` is the atomic `mkdirs()`: it succeeds for the creator, fails for
the others and when the directory cannot be made. `OpenReport` and `WriteReport`
are the beginning and the end of `writeByteArrayToFile` (which reads the body into
memory before), each may throw. What is written is the body of another POST than the one
whose status was tested (`RetrieveReportCall.java:52-53`), so it may be the report ("whole") or
an error ("wrong"): nobody looks at it. `StoreLocation` is the UPDATE. `DownloadReport` is
what a download serves in a state; the code reads the file byte by byte, and a
lookup that fails is answered as "no report": both are seen as one instant at
which the lookup works.

**TransactionStatusCheck**: `poll[p]` is a status thread, `insights[t]` what Insights
knows. The return handler asks for no login, no row and no state of the transaction, so
`HandleReturnUrl` has no guard but a free slot. `StatusStatement` has one case per branch of `autheticate` and
`checkFilesAvailable`. `StartRetrieval` is the rest of the "available" branch: the
key is read and a thread is started, or an exception ends the check.

**InsightsAssist** composes them on one table: a step of one component leaves the
variables of the others alone; a crash stops all threads and forgets the field;
table, disk, mailbox and Insights survive. The user can only hand in statements
after the link was mailed, and Insights calls back when it is done.

**SessionService** has the two BiMaps: `session` (session id to user id) and
`cached` (the ids in `userCache`). An operation is one critical section and so one
action, except `restart()`, which is two. `BiMap.put` throws when another key has
the value: `CanPut`.

**LoanPage** is one tab of a browser on top of `SessionService`. `call[c]` is a request of
`$.ajax`: it is sent, the server takes the steps of `getAction` and of the action, each
with its own look at the session maps (`CheckLogin`, `FindUser`, then the work), and the
answer waits until its callback runs. Callbacks of different requests run in any order;
the connection may break before or after the server has done the work (`Disconnect`). A
logout of a session that is no longer logged in is answered with success (`LogOut`). A
page that is left (`Leave`) hears no more answers, but the server goes on with its requests.
**LoanPageUsers** remembers in `seen` who has been logged in on the session since the page
in the tab was opened, to say for whom an answer that comes late may still come. The history
only watches (`UsersArePage`), so the run of the page is the run of this module.
`Elsewhere` is everybody else who logs in or out; a login of another user on the same
session, from another tab, changes the user of this page without its knowledge.
**LoanTable** looks at one thing the page does to its own document: the row that is
selected, and the click handlers that `buildJQueryReportDataTable` adds.

**OrganisationService** has the table as the set of columns that have a value in each
row, the cache as a copy of it, and the threads that add an organisation. Each statement is
a step; before each it may fail, which covers the connection that another request closed,
since `AdminDatabaseUtil.conn` is a field that all requests share. The two UPDATEs have no WHERE and give every row the key of `acme`.
`FetchOrganisations` and `InstallOrganisations` are the two halves of `restart()`.
**Services** composes it with `SessionService` under `IAServicesListener`: services start
one after the other, a start may fail, requests are dispatched while the context is up and
the action service has its paths; when the context is destroyed they are stopped in
reverse, and what has been dispatched goes on.

**KLogger**: `handler` is the thread that has the lock of `messages`, `flusher` the timer's
thread, which takes the text under the lock (`FlushTakes`), reads the field `out`
(`FlushAims`) and prints (`FlushPrints`) without it; `life` is the thread that starts and
stops the logger. `start()` reads the clock twice, for the date of the file and for the day
it remembers, and is two steps. A run of the timer that had started when it was cancelled may
still be waiting for the lock (`started`). Streams are named by the day of their file. `Close` reaches a timer that
has read the field already: what it prints is lost without a word, as `PrintWriter` does.

**ReportDelivery**, **SessionRegistry** and **LogBook** are the abstract specifications. The
first says that a download serves nothing, then something, and once it served a
complete file it always serves that one, be it the report or not. The second says for whom a request on a session
runs: a login replaces what the session and the user had, sessions may end, and
nobody is logged in without a login. The third says what becomes of a message: it is
pending, until it is filed for good or lost for good, and none is lost while the log is
calm. The refinement mappings are `download[t] = DownloadReport(t)`, `who[s] = getUser(s)`
and, for the log, the messages that are in a file (`Filed`), those in the buffer or in the
timer's hands and in no file (`Pending`), all others that were logged (`Lost`), and the time
before the first midnight and before the stop (`Calm`).

## 3. Runs

| run | instance | shows |
|---|---|---|
| `link_dates` | 3 transactions (symmetric), no mailer, 1 failing statement, 2 attempts | `LastDateWins`, `DateIsSet` |
| `link_live` | 2 transactions, 1 alert, 2 attempts | `MailedLinkIsStored`, `LinkThreadsEnd` |
| `link_shared_mailer` | 2 transactions | **violates** `MailGoesToApplicant` |
| `report_retrieval` | 1 report, 3 retrievals, 1 failing statement and 1 failing file operation | `OneWriter`, `OfferedIsBacked`, `KeepsDelivery`, `FetchersEnd` |
| `assist_safety` | 1 transaction, 2 status checks, 1 retrieval, 1 alert, 1 attempt | `TypeOK`, `Inv` and its parts `PerfiosIdKept`, `StatusIsTrue`, `LinkStatesHaveLink`; `RowsKeep` |
| `assist_live` | 1 thread of each kind, 2 attempts | `ThreadsEnd`, `ThreadsAdvance`, `RowsExpire`, `KeepsDelivery` |
| `services` | 3 sessions, 2 users, `acme` and 2 new organisations, 2 adds at a time (symmetric) | `AddedHasKeys`, `PreloadedServed`, `FoundIsStored`, `EntriesBounded`, `KeepsRegistry` |
| `org_added` | the same with 1 session and 1 user | **violates** `AddedIsCached` |
| `loan_page` | 1 browser, 2 users, 2 loans, 2 requests under way, with the history | `SessionsHaveUser`, `OneOwner`, `ShowsItsUsers`, `AcceptedIsShown` |
| `page_selection` | 2 loans, 3 fetches | **violates** `ClickSelects` |
| `logger` | 3 days, 3 messages | `CompleteUntilMidnight`, `LoggedOnce`, `NeverInEarlierFile`, `Flushed`, `KeepsLogBook` |
| `log_midnight` | 3 days, 3 messages | **violates** `ChangesAtMidnight` |

### Four disagreements

* `link_shared_mailer`: two link threads mail at once, and the link of one applicant is
  sent to the address of the other, because recipients and text are fields of one
  object. What still holds is `MailedLinkIsStored`: the link in any mail is known to its
  row, so that whoever follows it finds the transaction.
* `org_added`: `restart()` reads the table before it takes its lock. Two adds at once: the
  one that read first installs last, and the other organisation, whose add was reported as
  a success, is in the table but not in the cache until the next add. What still holds is
  `PreloadedServed`, nobody sees the cache empty or without what was there at the start, and
  `FoundIsStored`, the cache is behind the table but never ahead of it. (`AddedIsCached` is
  stated while the context is up: when it is destroyed the cache is cleared, and that is meant.)
* `page_selection`: every fetch adds a click handler to the table and none is removed, so
  after an even number of fetches that return loans a click on a row selects it and unselects it at once.
* `log_midnight`: `prevDays` is set once, so after the first midnight the day "has changed"
  for every message; each closes and opens the file of the day. The timer, which prints
  without the lock, then loses what it was about to print: `CompleteUntilMidnight` is
  stated up to that midnight. What holds until the stop is that nothing is logged
  twice, and for ever that no message of a day that was found to be new is in the file of an
  earlier one. The day on which `start()` ends is never found to be new.

More, which need no run of their own. The sweep expires a row that has no date yet, an
application that Insights has not answered, since the column defaults to the zero date
(`generated/tables/IaTransactions.java:102`, `src/sql/create_schema.sql:66`);
the link thread overwrites the status when it goes on. An error may be saved as the report:
`RetrieveReportCall.java:52` tests the status of one POST and line 53 takes the body of another,
and since the directory then exists no later retrieval replaces the file. `OfferedIsBacked` and
`KeepsDelivery` say that an offered file is complete and stays, not that it is the report. When
midnight falls between the two readings of the clock in `KLogger.java:195-196`, the file is that of
day d and the day remembered is d+1, so that the messages of d+1 go into the file of d, against
"Automatic switchover to next date" (line 36); `NeverInEarlierFile` leaves out that day. The
second UPDATE of the link thread comes after the mail and may overwrite PROCESSING or COMPLETED
and drop the Perfios id, and of two answers of Insights the older may be stored last: the models
have both, and no property denies them, as nothing in the code says which should win.
EMAIL_SENT, "Email has been sent to user", is stored when there is no mailer or when
`sendEmail` returns false. "Exception retrying" is logged by threads that end there. Also,
`dashboard.html:163` calls the name of a new organisation `org`, while
`StoreOrganisation.java:51` reads `organisation`; the module starts where a name has come.

### Bounds

`MaxAttempts` is 10 in the code; with 2 there is a first, a last and a
repeated attempt, which is all `MayRetry` tells apart; `assist_safety` has 1, as its
properties are about what is stored, and the two runs on the threads alone have 2.
`MaxDbFailures` and `MaxIoFailures` are 0 or 1: one failure at every possible place of a
component (`link_dates`, `report_retrieval`); failures in the composition, in any number,
are covered by the proofs. Slots (`Fetchers`, `Pollers`, `Requests`, `Calls`) bound the
threads and requests at one time; slots are used again, so their number over time is not
bounded. Three link threads are the fewest in which a date can be overwritten twice between
the two reads of one thread; two link threads and one alert already mix their mails in every
way; two status checks are the fewest in which answers overtake each other; with three
retrievals of a report one writes and two come late. Retrievals of two reports share
nothing. The clock moves only to dates a row holds, which is what the sweep can
tell apart. A crash needs no bound: the server restarts at once and the next request
comes.

Three sessions and two users let a user move between sessions and a session between users,
and there are more sessions than users, so that the maps could have more entries than
`EntriesBounded` allows; two adds are the fewest of which one can be stale. In
`loan_page` there is one session: to this page a login elsewhere by its own user is what a
logout in another tab is, and `SessionsHaveUser` is proved for any sessions. Two requests
are the fewest whose answers can be exchanged; two loans are the fewest of which a table
can mix two users. `CHECK_DEADLOCK` is off where the modelled part really comes to an end:
`services` and `org_added` when everything is stopped, `logger` and `log_midnight` after the last
day and message (`MaxDays`, `MaxMessages`), `page_selection` when nothing is shown after
the last fetch is counted (`MaxBuilds`). In `logger`,
`prevDays` stays at the first day, so the second and the third are the days on which every
message closes the file, and a text taken on the one may be printed on the other.

### Fairness

Liveness is checked under weak fairness of each thread (the JVM schedules it;
POSTs, statements, mails and file operations return or throw) and of the timer
(`schedule` with a period, and a task that never throws). Nothing is assumed of
users, Insights, the clock or crashes. Status checks have strong fairness in
`InsightsAssist`, because starting a retrieval waits for a slot there; slots are a
bound of the model, the code starts a thread at once. `RowsExpire` does not
say that EXPIRED stays, since every handler overwrites it: it says that the
sweep stores it again and again. `LoanPage` has weak fairness of each request: the server
answers it and the browser runs its callback (an answer that gets lost is one that the page
takes for an error). The user need do nothing. `KLogger` has weak fairness of
whoever holds the lock, which includes that a mail to the support ends, since the lock is
held while it is sent, and strong fairness of the timer, from which threads that log may
take the lock again and again.

## 4. Proofs

The theorems are checked by TLAPS for every value of the constants that meets the
assumptions (`TableAssumption`: at most a natural number of failures, `NoDate` and `NoRow`
are no data; `AttemptsAssumption`, `RetrievalAssumption`, `LinkAssumption`,
`SessionAssumption`, `PageAssumption`, `OrganisationAssumption`, `LoggerAssumption`, and, for
the bound on entries, `UsersAssumption`: users are finitely many), so for
any number of transactions, threads, failures, sessions, users, requests, organisations,
days and messages.

*The flow of transactions.* `StatusIsTrue` alone is not inductive: a status thread stores an
answer it got some time ago. `AnswersWereTrue` says that an answer in a thread's
hands, though out of date, was true and that Insights does not go back; the two
together are preserved. `LinkStatesHaveLink` needs `DateIsSet`, which says that the
shared field is never empty while a thread is between its POST and its last UPDATE:
a crash empties the field and ends all such threads in one step. `MailedLinkIsStored`
says nothing of a mail that is not out yet; `StoredFirst` says it of the threads past
their first UPDATE and of the text in the mailer's field, whoever put it there, so that
it does not matter whose recipients the mail is sent to. It needs `FormFirst` (without a
failed statement, a thread has a row for its UPDATE to change) and that a stored link
stays stored whatever the other handlers write (`StoredKept`). `OneWriter` says in
addition that nobody writes a file that is complete, which makes it inductive
without a fact about who created the directory. `Inv` is the conjunction; run
`assist_safety` checks it and `Invariance` proves it.

*Layout.* Lemmas about the statements say what each does to a row. One lemma per
thread gives the possible changes of a row by a step (`RowChanges`) and of the disk
(`DiskChanges`, `LocationChanges`); then one lemma per conjunct and action gives the
step of `Inv`. `DeliveryKept` maps a step to `Offer`, `Complete` or a stutter: the
location never goes away, the disk only goes forward, and a complete file is not
opened again because `OneWriter` holds.

*Dates and reports* (`DatesReports_proofs`, on top of `Inv`). `LastDateInv` adds to
`LastDateWins` that a transaction without an answer is not in the shared field; no statement
of another thread takes its own date out of a row while the field names it (`OwnDateKept`).
`OfferedIsBacked` needs `BackedInv`: a directory whose file is not complete has its writer, and
neither a stored location nor a thread about to store one lacks the directory.

*What steps do* (`InsightsSteps_proofs`). `RowsKept` goes through the possible changes of
a row once more: an UPDATE that names the link comes with a link, and by `DateIsSet`
with a date that is not null; a row that is there is not inserted again (`FormFirst`).
`ThreadsBounded` and `WorkCorrect` are the half of termination that the prover can do: each
thread has a variant (`LinkWork`, `FetchWork`, `PollWork`: the attempts that are left, then
the place in the handler), which is at most `MaxAttempts + 5` and which every step of the
thread makes smaller, whatever the others do. That a thread takes its steps at all is
fairness, and stays with TLC (`ThreadsEnd`).

*Sessions.* `SessionsCorrect` needs only `SessionTypeOK`. `RegistryKept` maps a login
to `LogIn` and everything else to `Forget`, also a login between the two halves of
`restart()`. `PageSessionsCorrect` and `ServicesKeepRegistry` carry both over to the
modules that use the service, and `PageKeepsRegistry` maps the steps of the page and of its
server to the operations of the interface (`PageServerStep`). `EntriesCorrect`: in every
state a user has one session (`OneSessionEach`), so the map from sessions that are known to
users is one-to-one and there are no more of them than users. It is also why the `put` in a login
never throws (`LogInNeverThrows`).

*Loan page.* `PageInv` says of every answer under way what `OneOwner` says of the table:
its loans belong to one user (`Owned`), and that a loan keeps its owner, so that an answer
does not become wrong while it waits (`OwnedKept`). `ShownCorrect` needs `UsersInv`, which
says of each fetch under way that the user it was answered for, from the moment the server
has looked the user up, has been seen since the page was opened (`SeenUser`): whoever is on the
session is seen, `Leave` empties `seen` together with the table and the slots of the
fetches, and nothing else takes a user out of `seen`.

*Organisations.* `Progress` says which columns a row has at each point of its add. It is
preserved by the statements of other adds because the table only grows
(`StatementsGrow`), and it covers what a thread has read (`PreloadedServed` needs it of a
stale answer too). `CachedAtStart` says when the cache has been filled. `FoundCorrect` needs
the same of every answer that is still to be installed: it is at most what the table has, and the
table only grows, so the order of the answers does not matter.

*Logger.* `TextsOK`: every text is made of messages that have been logged. `PlacedOK`: the
date of the open file is not behind any message in the buffer or in the hands of the timer,
but for those of the day that `start()` remembers, nor ahead of the clock; so whoever prints to
it prints nothing of a later day that was found to be new.
`FirstDayOK`: until midnight nobody changes the stream, so what the timer is about to print
goes where everything before it went, and printing moves text from its hand to the file
without changing the whole (the lemmas on concatenation). `OnePlace`: as long as the logger
is up, a message is in the buffer, in the hand of the timer or in one file, and a step moves
whole texts from one place to another (`PrintMoves`) or loses them. `BookKept` maps a step to
`Given`, `File`, `Lose` or a stutter: a print puts what it prints into `Filed` or, when the
stream is closed, drops it from `Pending` (`PrintFiles`, `StepLoses`); while the log is calm
`FirstDayOK` says that everything logged is in the file, in the timer's hand or in the buffer,
so that `Lost` is empty, and the log never becomes calm again (`CalmEnds`).

| theorem | states |
|---|---|
| `TypeCorrect`, `Invariance` | `[]TypeOK`, `[]Inv` |
| `StatusCorrect`, `PerfiosIdCorrect`, `LinkStatesCorrect`, `OneWriterCorrect` | the safety properties of the same runs |
| `MailedCorrect`, `DateCorrect` | `[]MailedLinkIsStored`, `[]DateIsSet` |
| `LastDateCorrect`, `OfferedCorrect` | `[]LastDateWins`, `[]OfferedIsBacked` |
| `DeliveryKept` | `InsightsAssist` implements `ReportDelivery` |
| `RowsKept` | the action property `RowsKeep`: nothing stored is taken from a row |
| `ThreadsBounded`, `WorkCorrect` | the action property `ThreadsAdvance`; `[]WorkOK`, the bound on the variants |
| `SessionsCorrect`, `PageSessionsCorrect` | `[]SessionsHaveUser` under the server's calls, and with the page |
| `EntriesCorrect`, `ServicesKeepBound` | `[]EntriesBounded` under every operation, and in `Services` |
| `LogInNeverThrows` | the `put` of a login finds no other session with the user |
| `RegistryKept`, `ServicesKeepRegistry`, `PageKeepsRegistry` | `SessionService`, `Services` and `LoanPage` implement `SessionRegistry` |
| `PageTypeCorrect`, `OneOwnerCorrect`, `ShownCorrect` | `[]PageTypeOK`, `[]OneOwner`, `[]ShowsItsUsers` |
| `AddedCorrect`, `PreloadedCorrect`, `FoundCorrect` | `[]AddedHasKeys`, `[]PreloadedServed`, `[]FoundIsStored` |
| `LoggerTypeCorrect` | `[]LoggerTypeOK` |
| `FilesKeepDays`, `CompleteCorrect`, `OnceCorrect` | `[]NeverInEarlierFile`, `[]CompleteUntilMidnight`, `[]LoggedOnce` |
| `BookKept` | `KLogger` implements `LogBook` |

Only model-checked: all liveness (`LinkThreadsEnd`, `FetchersEnd`, `ThreadsEnd`,
`RowsExpire`, `AcceptedIsShown`, `Flushed`), which is out of the prover's reach. Four
properties are false of the code and only stated: `MailGoesToApplicant`, `AddedIsCached`, `ClickSelects`, `ChangesAtMidnight`.

## 5. Not modelled

* Payloads, signatures and XML: an answer is the branch it selects.
  The Perfios id is present or absent: Insights gives one id to a transaction. Client ids are
  random strings of ten characters that are taken to be different. `TIMESTAMP` is taken at
  the granularity of "past or not".
* Administration other than adding an organisation. `StoreUserData` is one INSERT; the page
  calls the organisation `org` (`dashboard.html:134`) where the action reads `organisation`
  (`StoreUserData.java:55`), so a request of the page ends at the test for empty fields.
  `/adminLogout` is the action of `Logout`. The other administrative paths that
  `ActionServiceImpl` registers (lines 17-22) are bound to classes whose source is not in the
  repository (`ActionsModule`, lines 20-24). `AdminLogin`, `DeleteOrganisation`,
  `ImportOrganisation`, `OrganisationCacheRefresh` and the rest are bound to no path, so that
  no request reaches them; nor is the source of `AdminDatabaseUtil` there.
* The job scheduler is not wired in. Forms, encryption, templates, filters
  and temporary files keep no state that a property here is about.
* Of the JavaScript, the application's own files are `loanMgmt.js`, `admin.js` and
  `showNotification.js`, some four hundred lines, of which the first and the add of an
  organisation in the second are modelled. Everything else under `src/htdocs` (some 87000
  lines: jQuery UI, DataTables, Select2, Bootstrap, editors, charts, calendars and the
  theme's demo pages) is third-party code that the pages load. It
  is modelled only by what the application sees of it: `$.ajax` and its callbacks, event
  handlers that add up, a table that replaces its rows. The map therefore covers a small
  share of all lines of JavaScript although it covers nearly all that was written for this
  program.

## 6. Where the work stands

The components that keep state and that a request, a thread or a timer reaches are
modelled, checked and, for their safety and action properties and their refinements, proved.
What could follow: a module on the job scheduler, should it be wired in, and on the rest of
the administration, should the classes it is bound to be added.
