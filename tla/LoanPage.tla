------------------------------ MODULE LoanPage ------------------------------
(***************************************************************************)
(* The pages login.html and loanMgmt.html in one tab of a browser, with    *)
(* the requests they send (loanMgmt.js) and what the server does for them  *)
(* (IAServer, FetchUserData, GenerateInsightsStatementUploadUrl, Logout,   *)
(* LoginAuthenticate).  Other tabs of the browser, which share its session *)
(* Here, and other browsers log in and out at any time.                    *)
(*                                                                         *)
(* A request is checked, looks for its user and does its work in steps of  *)
(* their own; its answer comes whenever the network lets it, in any order, *)
(* and a page that has been left hears no answer.                          *)
(***************************************************************************)
EXTENDS SessionService

CONSTANTS
    Here,           \* the session of the browser
    Loans,          \* transaction ids (a bound on the applications)
    Calls           \* slots for requests under way (a bound)

ASSUME PageAssumption == Here \in Sessions

VARIABLES
    page,       \* the page in the tab; "opening" until its document is ready
    div,        \* which half of loanMgmt.html is shown
    call,       \* call[c]: the request in slot c
    owner,      \* owner[l]: the user_id of l's row in ia_transactions
    shown       \* the loans in the table of the page

tabVars == <<page, div, shown>>
pvars == <<svars, tabVars, call, owner>>

Kind == {"fetch", "generate", "logout", "login"}
Free == [pc |-> "free"]

\* An answer is "accepted", with success = true, or anything else.
\* live: the page that sent the request is still there.  user: whom the login
\* is for, or whom the server found and works for; data: the loans of the answer.
Call == [ kind : Kind, live : BOOLEAN,
          pc   : {"sent", "checked", "user", "accepted", "refused"},
          user : Users \cup {Nobody},
          data : SUBSET Loans ]

PageTypeOK ==
    /\ SessionTypeOK
    /\ page \in {"login", "opening", "loans"}
    /\ div \in {"view", "form"}
    /\ call \in [Calls -> Call \cup {Free}]
    /\ owner \in [Loans -> Users \cup {Nobody}]
    /\ shown \subseteq Loans

PageInit ==
    /\ SessionInit
    /\ page = "login"
    /\ div = "view"
    /\ call = [c \in Calls |-> Free]
    /\ owner = [l \in Loans |-> Nobody]
    /\ shown = {}

Request(kind, user) ==
    [kind |-> kind, live |-> TRUE, pc |-> "sent", user |-> user, data |-> {}]

\* $.ajax takes a slot that is free; which one does not matter.
FreeSlot(c) == call[c] = Free

Ajax(kind, user) ==
    /\ \E c \in Calls : FreeSlot(c)
    /\ call' = [call EXCEPT ![CHOOSE c \in Calls : FreeSlot(c)] = Request(kind, user)]

-----------------------------------------------------------------------------
(* The server's side of a request.                                         *)

At(c, kind, pc) == call[c].pc = pc /\ call[c].kind = kind

Becomes(c, pc, user) == call' = [call EXCEPT ![c].pc = pc, ![c].user = user]

Answer(c, pc, data) ==
    call' = [call EXCEPT ![c].pc = pc, ![c].user = Nobody, ![c].data = data]

Accepts(c, data) == Answer(c, "accepted", data)
Refuses(c) == Answer(c, "refused", {})

\* getAction: without a login, every action but the login is answered with a
\* 404.
CheckLogin(c) ==
    /\ call[c].pc = "sent" /\ call[c].kind # "login"
    /\ IF SessionKnown(Here) THEN Becomes(c, "checked", Nobody) ELSE Refuses(c)
    /\ UNCHANGED <<svars, tabVars, owner>>

\* getUser, another time: FetchUserData and GenerateInsightsStatementUploadUrl
\* answer success = false when it is null.
FindUser(c) ==
    /\ At(c, "fetch", "checked") \/ At(c, "generate", "checked")
    /\ IF getUser(Here) # Nobody THEN Becomes(c, "user", getUser(Here)) ELSE Refuses(c)
    /\ UNCHANGED <<svars, tabVars, owner>>

OwnedBy(u) == {l \in Loans : owner[l] = u}

\* getUserData: the rows of the user, or null, and no message, if it throws.
FetchData(c) ==
    /\ At(c, "fetch", "user")
    /\ Accepts(c, OwnedBy(call[c].user)) \/ Refuses(c)
    /\ UNCHANGED <<svars, tabVars, owner>>

\* An id that no transaction has (generateRandomString).
Unused(l) == owner[l] = Nobody

\* A valid form: the row is inserted, and the request is accepted whether or
\* not that worked.
GenerateUrl(c) ==
    /\ At(c, "generate", "user")
    /\ \E l \in Loans : Unused(l)
    /\ LET l == CHOOSE l \in Loans : Unused(l) IN
       /\ Accepts(c, {l})
       /\ owner' = [owner EXCEPT ![l] = call[c].user] \/ UNCHANGED owner
    /\ UNCHANGED <<svars, tabVars>>

\* An invalid form: a 400.
RefuseForm(c) ==
    /\ At(c, "generate", "user")
    /\ Refuses(c)
    /\ UNCHANGED <<svars, tabVars, owner>>

\* Logout: a session that is no longer logged in is logged out as well;
\* handleUserLogOut throws if the session is known but its user is not.
LogOut(c) ==
    /\ At(c, "logout", "checked")
    /\ \/ handleUserLogOut(Here) /\ Accepts(c, {})
       \/ ~SessionKnown(Here) /\ UNCHANGED svars /\ Accepts(c, {})
       \/ SessionKnown(Here) /\ getUser(Here) = Nobody /\ UNCHANGED svars /\ Refuses(c)
    /\ UNCHANGED <<tabVars, owner>>

\* LoginAuthenticate, with credentials that are right or wrong.
LogIn(c) ==
    /\ At(c, "login", "sent")
    /\ \/ handleUserLogIn(Here, call[c].user) /\ Becomes(c, "user", Nobody)
       \/ UNCHANGED svars /\ Refuses(c)
    /\ UNCHANGED <<tabVars, owner>>

\* It answers only if the session is still logged in.
ConfirmLogIn(c) ==
    /\ At(c, "login", "user")
    /\ IF SessionKnown(Here) THEN Accepts(c, {}) ELSE Refuses(c)
    /\ UNCHANGED <<svars, tabVars, owner>>

\* The connection breaks: the page hears of an error, whatever the server did.
Disconnect(c) ==
    /\ call[c].pc \in {"sent", "accepted"} /\ call[c].live
    /\ Refuses(c)
    /\ UNCHANGED <<svars, tabVars, owner>>

ServerStep(c) ==
    \/ CheckLogin(c) \/ FindUser(c) \/ FetchData(c)
    \/ GenerateUrl(c) \/ RefuseForm(c) \/ LogOut(c) \/ LogIn(c) \/ ConfirmLogIn(c)

\* Other tabs and browsers, and the end of the service.
Elsewhere == ServerNext /\ UNCHANGED <<tabVars, call, owner>>

-----------------------------------------------------------------------------
(* What the user does in the tab.                                          *)

SubmitLogIn(u) ==
    /\ page = "login"
    /\ Ajax("login", u)
    /\ UNCHANGED <<svars, tabVars, owner>>

requestForLoan ==
    /\ page = "loans" /\ div = "view"
    /\ div' = "form"
    /\ UNCHANGED <<svars, page, call, owner, shown>>

\* The form may be submitted again while it waits for its answer.
generateLink ==
    /\ page = "loans" /\ div = "form"
    /\ Ajax("generate", Nobody)
    /\ UNCHANGED <<svars, tabVars, owner>>

\* The Refresh button.
viewLoans ==
    /\ page = "loans" /\ div = "view"
    /\ Ajax("fetch", Nobody)
    /\ UNCHANGED <<svars, tabVars, owner>>

\* The Cancel button of the form, and the ready handler of the document.
cancel ==
    /\ (page = "loans" /\ div = "form") \/ page = "opening"
    /\ page' = "loans"
    /\ div' = "view"
    /\ Ajax("fetch", Nobody)
    /\ UNCHANGED <<svars, owner, shown>>

logout ==
    /\ page = "loans"
    /\ Ajax("logout", Nobody)
    /\ UNCHANGED <<svars, tabVars, owner>>

-----------------------------------------------------------------------------
(* Answers.  A new page is without the table of the old one and hears none *)
(* of its answers; its fetches, which change nothing else, are forgotten.  *)

HasAnswer(c) == call[c].pc \in {"accepted", "refused"}

\* Mutant: the new page hears the answers to what the old one asked for.
LeaveAndHear(new) ==
    /\ page' = new
    /\ div' = "view"
    /\ call' = [c \in Calls |-> IF call[c] # Free /\ call[c].kind = "fetch"
                                THEN call[c] ELSE Free]
    /\ shown' = {}

Leave(new) ==
    /\ page' = new
    /\ div' = "view"
    /\ call' = [c \in Calls |->
                    IF call[c] = Free \/ HasAnswer(c) \/ call[c].kind = "fetch" THEN Free
                    ELSE [call[c] EXCEPT !.live = FALSE]]
    /\ shown' = {}

Done(c) == call' = [call EXCEPT ![c] = Free]

Answered(c, kind, pc) == At(c, kind, pc) /\ call[c].live

\* Mutant: the old table is not destroyed, the rows are added to it.
AddToTable(c) ==
    /\ Answered(c, "fetch", "accepted")
    /\ call[c].data # {}
    /\ Done(c)
    /\ shown' = shown \cup call[c].data
    /\ UNCHANGED <<svars, page, div, owner>>

\* Rows replace the table.
ShowLoans(c) ==
    /\ Answered(c, "fetch", "accepted")
    /\ call[c].data # {}
    /\ Done(c)
    /\ shown' = call[c].data
    /\ UNCHANGED <<svars, page, div, owner>>

\* Mutant: the view comes back without a new fetch.
CloseForm(c) ==
    /\ Answered(c, "generate", "accepted")
    /\ div' = "view"
    /\ Done(c)
    /\ UNCHANGED <<svars, page, owner, shown>>

\* cancel() in the success callback, even if the user has opened the form
\* again by now.  The new fetch takes the slot of the call.
LinkGenerated(c) ==
    /\ Answered(c, "generate", "accepted")
    /\ div' = "view"
    /\ call' = [call EXCEPT ![c] = Request("fetch", Nobody)]
    /\ UNCHANGED <<svars, page, owner, shown>>

\* Answers that change nothing on the page: "No data for specified request",
\* where the table stays as it is; LOGIN_REQUIRED or no message, where
\* JSON.parse throws; a failed request, reported or written to the console; a
\* message for which showNotification, without a type, shows nothing.
NothingHappens(c) ==
    /\ \/ Answered(c, "fetch", "accepted") /\ call[c].data = {}
       \/ call[c].pc = "refused" /\ call[c].live
    /\ Done(c)
    /\ UNCHANGED <<svars, tabVars, owner>>

LoggedIn(c) ==
    /\ Answered(c, "login", "accepted")
    /\ Leave("opening")
    /\ UNCHANGED <<svars, owner>>

LoggedOut(c) ==
    /\ Answered(c, "logout", "accepted")
    /\ Leave("login")
    /\ UNCHANGED <<svars, owner>>

\* The answer for a page that has been left.
Unheard(c) ==
    /\ HasAnswer(c) /\ ~call[c].live
    /\ Done(c)
    /\ UNCHANGED <<svars, tabVars, owner>>

Callback(c) ==
    \/ ShowLoans(c) \/ LinkGenerated(c) \/ NothingHappens(c)
    \/ LoggedIn(c) \/ LoggedOut(c) \/ Unheard(c)

UserStep ==
    \/ \E u \in Users : SubmitLogIn(u)
    \/ requestForLoan \/ generateLink \/ viewLoans \/ cancel \/ logout

PageNext ==
    \/ UserStep
    \/ \E c \in Calls : ServerStep(c) \/ Disconnect(c) \/ Callback(c)
    \/ Elsewhere

\* Every request goes on: the server answers it, then the browser runs its
\* callback.  The user and everybody else need do nothing.
PageFairness == \A c \in Calls : WF_(call[c])(ServerStep(c) \/ Callback(c))

PageSpec == PageInit /\ [][PageNext]_pvars /\ PageFairness

-----------------------------------------------------------------------------

\* The table never mixes the loans of two users, although logins elsewhere
\* change the user of the session between any two requests and their answers
\* come in any order: every answer holds what one user owns (FetchUserData,
\* line 46) and replaces what was there (loanMgmt.js, line 60).
OneOwner == \A k, l \in shown : owner[k] = owner[l]

\* An application that was accepted and stored comes into the table: the
\* success callback fetches the loans again (loanMgmt.js, lines 31 and 54);
\* unless the page is left, the session becomes somebody else's, or a request
\* is refused.  (It need not stay there: the answer to an older fetch may come
\* later.)
AcceptedIsShown ==
    \A l \in Loans :
        (owner[l] # Nobody /\ \E c \in Calls :
                Answered(c, "generate", "accepted") /\ call[c].data = {l})
            ~> \/ l \in shown
               \/ page # "loans" \/ getUser(Here) # owner[l]
               \/ \E c \in Calls : call[c].pc = "refused"
=============================================================================
