-------------------------- MODULE LoanPage_proofs --------------------------
(***************************************************************************)
(* Theorems about LoanPage, with and without its history of users, for any *)
(* sets of sessions, users, loans and requests under way.                  *)
(***************************************************************************)
EXTENDS LoanPageUsers, SessionService_proofs

\* The loans of a set belong to one user.
Owned(S) == \A k, l \in S : owner[k] = owner[l] /\ owner[k] # Nobody

\* A request for which the server works, or a login, has a user.
UserFound(x) ==
    (x.pc = "user" /\ x.kind # "login") \/ (x.pc = "sent" /\ x.kind = "login")
        => x.user \in Users

\* The answer to a fetch holds the loans of one user.
OneUserAnswer(x) == x.kind = "fetch" /\ x.pc = "accepted" => Owned(x.data)

Right(x) == x = Free \/ (UserFound(x) /\ OneUserAnswer(x))

PageInv ==
    /\ PageTypeOK
    /\ Owned(shown)
    /\ \A c \in Calls : Right(call[c])

\* A slot that is not free holds a request.
LEMMA SlotType ==
    ASSUME PageTypeOK, NEW c \in Calls, call[c].pc # "free"
    PROVE  call[c] \in Call /\ call[c] # Free
BY DEF PageTypeOK, Free

-----------------------------------------------------------------------------
(* What keeps the invariant.                                               *)

OwnerKept == \A l \in Loans : owner[l] # Nobody => owner'[l] = owner[l]

\* A loan that has an owner keeps it, so a set that is one user's remains so.
LEMMA OwnedKept ==
    ASSUME OwnerKept, NEW S \in SUBSET Loans, Owned(S)
    PROVE  Owned(S)'
BY DEF OwnerKept, Owned

LEMMA RightKept ==
    ASSUME PageInv, OwnerKept, NEW c \in Calls
    PROVE  Right(call[c])' \/ call'[c] # call[c]
<1> SUFFICES ASSUME call'[c] = call[c], call[c] # Free
             PROVE  Right(call[c])'
  BY DEF Right
<1>1. call[c] \in Call /\ UserFound(call[c]) /\ OneUserAnswer(call[c])
  BY DEF PageInv, PageTypeOK, Right
<1>2. OneUserAnswer(call[c])'
  <2> SUFFICES ASSUME call[c].kind = "fetch", call[c].pc = "accepted"
               PROVE  Owned(call[c].data)'
    BY DEF OneUserAnswer
  <2>1. Owned(call[c].data) /\ call[c].data \in SUBSET Loans
    BY <1>1 DEF OneUserAnswer, Call
  <2> QED
    BY <2>1 DEF Owned, OwnerKept
<1>3. UserFound(call[c])'
  BY <1>1 DEF UserFound
<1> QED
  BY <1>2, <1>3 DEF Right

\* A step that changes one slot, and the table perhaps to that slot's data.
LEMMA SlotStep ==
    ASSUME PageInv, SessionTypeOK', OwnerKept, owner' \in [Loans -> Users \cup {Nobody}],
           page' \in {"login", "opening", "loans"}, div' \in {"view", "form"},
           NEW c \in Calls, NEW x \in Call \cup {Free},
           call' = [call EXCEPT ![c] = x],
           call'[c] = x => Right(call[c])',
           \/ shown' = shown
           \/ shown' = call[c].data /\ call[c].kind = "fetch" /\ call[c].pc = "accepted"
    PROVE  PageInv'
<1>1. call' \in [Calls -> Call \cup {Free}] /\ call'[c] = x
  BY DEF PageInv, PageTypeOK
<1>2. \A d \in Calls : Right(call[d])'
  <2> TAKE d \in Calls
  <2>1. CASE d = c
    BY <1>1, <2>1
  <2>2. CASE d # c
    <3>1. call'[d] = call[d]
      BY <2>2 DEF PageInv, PageTypeOK
    <3> QED
      BY <3>1, RightKept
  <2> QED
    BY <2>1, <2>2
<1>3. shown' \in SUBSET Loans /\ Owned(shown)'
  <2>1. CASE shown' = shown
    BY <2>1 DEF PageInv, PageTypeOK, Owned, OwnerKept
  <2>2. CASE shown' = call[c].data /\ call[c].kind = "fetch" /\ call[c].pc = "accepted"
    <3>1. call[c] \in Call /\ call[c] # Free
      BY <2>2, SlotType DEF PageInv
    <3>2. Owned(call[c].data) /\ call[c].data \in SUBSET Loans
      BY <2>2, <3>1 DEF PageInv, Right, OneUserAnswer, Call
    <3> QED
      BY <2>2, <3>2 DEF Owned, OwnerKept
  <2> QED
    BY <2>1, <2>2
<1> QED
  BY <1>1, <1>2, <1>3 DEF PageInv, PageTypeOK

-----------------------------------------------------------------------------
(* The ways in which a slot changes.                                       *)

LEMMA AnswerStep ==
    ASSUME PageInv, NEW c \in Calls, call[c].pc # "free",
           NEW pc \in {"accepted", "refused"}, NEW data \in SUBSET Loans,
           Answer(c, pc, data), UNCHANGED tabVars, SessionTypeOK',
           OwnerKept, owner' \in [Loans -> Users \cup {Nobody}],
           pc = "accepted" /\ call[c].kind = "fetch" => Owned(data)'
    PROVE  PageInv'
<1> DEFINE x == [call[c] EXCEPT !.pc = pc, !.user = Nobody, !.data = data]
<1>1. call[c] \in Call
  BY SlotType DEF PageInv
<1>2. x \in Call /\ x.kind = call[c].kind /\ x.pc = pc /\ x.data = data
  BY <1>1 DEF Call
<1>3. call' = [call EXCEPT ![c] = x]
  BY <1>1 DEF Answer, PageInv, PageTypeOK
<1> HIDE DEF x
<1>4. call'[c] = x => Right(call[c])'
  BY <1>2 DEF Right, UserFound, OneUserAnswer
<1> QED
  BY <1>2, <1>3, <1>4, SlotStep DEF tabVars, PageInv, PageTypeOK

LEMMA BecomesStep ==
    ASSUME PageInv, NEW c \in Calls, call[c].pc # "free",
           NEW pc \in {"checked", "user"}, NEW user \in Users \cup {Nobody},
           Becomes(c, pc, user), UNCHANGED <<tabVars, owner>>, SessionTypeOK',
           user \in Users \/ pc = "checked" \/ call[c].kind = "login"
    PROVE  PageInv'
<1> DEFINE x == [call[c] EXCEPT !.pc = pc, !.user = user]
<1>1. call[c] \in Call
  BY SlotType DEF PageInv
<1>2. x \in Call /\ x.kind = call[c].kind /\ x.pc = pc /\ x.user = user
  BY <1>1 DEF Call
<1>3. call' = [call EXCEPT ![c] = x]
  BY <1>1 DEF Becomes, PageInv, PageTypeOK
<1> HIDE DEF x
<1>4. call'[c] = x => Right(call[c])'
  BY <1>2 DEF Right, UserFound, OneUserAnswer
<1> QED
  BY <1>2, <1>3, <1>4, SlotStep DEF tabVars, PageInv, PageTypeOK, OwnerKept

\* A callback that frees its slot.
LEMMA DoneStep ==
    ASSUME PageInv, NEW c \in Calls, Done(c), UNCHANGED <<svars, page, owner>>,
           div' \in {"view", "form"},
           \/ shown' = shown
           \/ shown' = call[c].data /\ call[c].kind = "fetch" /\ call[c].pc = "accepted"
    PROVE  PageInv'
<1>1. call'[c] = Free => Right(call[c])'
  BY DEF Right
<1>2. SessionTypeOK'
  BY DEF PageInv, PageTypeOK, SessionTypeOK, svars
<1> QED
  BY <1>1, <1>2, SlotStep DEF Done, PageInv, PageTypeOK, OwnerKept

\* A request that is sent from a slot c.
LEMMA RequestStep ==
    ASSUME PageInv, NEW c \in Calls, NEW kind \in Kind, NEW user \in Users \cup {Nobody},
           call' = [call EXCEPT ![c] = Request(kind, user)],
           kind = "login" => user \in Users,
           UNCHANGED <<svars, owner, shown>>,
           page' \in {"login", "opening", "loans"}, div' \in {"view", "form"}
    PROVE  PageInv'
<1>1. /\ Request(kind, user) \in Call
      /\ Request(kind, user).kind = kind /\ Request(kind, user).user = user
      /\ Request(kind, user).pc = "sent"
  BY DEF Request, Call
<1>2. call'[c] = Request(kind, user) => Right(call[c])'
  BY <1>1 DEF Right, UserFound, OneUserAnswer
<1>3. SessionTypeOK'
  BY DEF PageInv, PageTypeOK, SessionTypeOK, svars
<1> QED
  BY <1>1, <1>2, <1>3, SlotStep DEF PageInv, PageTypeOK, OwnerKept

\* $.ajax finds a free slot.
LEMMA AjaxStep ==
    ASSUME PageInv, NEW kind \in Kind, NEW user \in Users \cup {Nobody},
           Ajax(kind, user), kind = "login" => user \in Users,
           UNCHANGED <<svars, owner, shown>>,
           page' \in {"login", "opening", "loans"}, div' \in {"view", "form"}
    PROVE  PageInv'
<1> DEFINE d == CHOOSE e \in Calls : FreeSlot(e)
<1>1. d \in Calls
  BY DEF Ajax
<1>2. call' = [call EXCEPT ![d] = Request(kind, user)]
  BY DEF Ajax
<1> HIDE DEF d
<1> QED
  BY <1>1, <1>2, RequestStep

-----------------------------------------------------------------------------
(* The steps.                                                              *)

LEMMA ServerStepInv ==
    ASSUME PageInv, NEW c \in Calls, ServerStep(c) \/ Disconnect(c)
    PROVE  PageInv'
<1> USE DEF At
<1>0. UNCHANGED owner => OwnerKept /\ owner' \in [Loans -> Users \cup {Nobody}]
  BY DEF OwnerKept, PageInv, PageTypeOK
<1>s. SessionTypeOK /\ (UNCHANGED svars => SessionTypeOK')
  BY DEF PageInv, PageTypeOK, SessionTypeOK, svars
<1>1. CASE CheckLogin(c)
  BY <1>1, <1>0, <1>s, BecomesStep, AnswerStep DEF CheckLogin, Refuses, tabVars
<1>2. CASE FindUser(c)
  <2>1. getUser(Here) \in Users \cup {Nobody}
    BY <1>s, PageAssumption DEF PageAssumption, getUser, SessionTypeOK
  <2>2. CASE getUser(Here) # Nobody /\ Becomes(c, "user", getUser(Here))
    BY <1>2, <1>s, <2>1, <2>2, BecomesStep DEF FindUser
  <2>3. CASE Refuses(c)
    BY <1>2, <1>0, <1>s, <2>3, AnswerStep DEF FindUser, Refuses, tabVars
  <2> QED
    BY <1>2, <2>2, <2>3 DEF FindUser
<1>3. CASE FetchData(c)
  <2>1. CASE Accepts(c, OwnedBy(call[c].user))
    <3>1. call[c] \in Call /\ call[c].user \in Users
      BY <1>3, SlotType DEF FetchData, PageInv, Right, UserFound
    <3>2. PICK data \in SUBSET Loans : data = OwnedBy(call[c].user)
      BY DEF OwnedBy
    <3>3. Owned(data)'
      BY <1>3, <3>1, <3>2, SessionAssumption DEF FetchData, OwnedBy, Owned, SessionAssumption
    <3>4. Answer(c, "accepted", data)
      BY <2>1, <3>2 DEF Accepts
    <3> QED
      BY <1>3, <1>0, <1>s, <3>3, <3>4, AnswerStep DEF FetchData
  <2>2. CASE Refuses(c)
    BY <1>3, <1>0, <1>s, <2>2, AnswerStep DEF FetchData, Refuses
  <2> QED
    BY <1>3, <2>1, <2>2 DEF FetchData
<1>4. CASE GenerateUrl(c)
  <2> DEFINE l == CHOOSE k \in Loans : Unused(k)
  <2>1. call[c] \in Call /\ call[c].kind = "generate"
    BY <1>4, SlotType DEF GenerateUrl, PageInv
  <2>2. l \in Loans /\ owner[l] = Nobody
    BY <1>4 DEF GenerateUrl, Unused
  <2>3. /\ Accepts(c, {l})
        /\ owner' = [owner EXCEPT ![l] = call[c].user] \/ UNCHANGED owner
        /\ UNCHANGED <<svars, tabVars>>
    BY <1>4 DEF GenerateUrl
  <2> HIDE DEF l
  <2>4. OwnerKept /\ owner' \in [Loans -> Users \cup {Nobody}]
    BY <2>1, <2>2, <2>3 DEF OwnerKept, PageInv, PageTypeOK, Call
  <2>5. call[c].pc # "free"
    BY <1>4 DEF GenerateUrl
  <2> QED
    BY <1>s, <2>1, <2>2, <2>3, <2>4, <2>5, AnswerStep DEF Accepts
<1>5. CASE RefuseForm(c) \/ Disconnect(c)
  BY <1>5, <1>0, <1>s, AnswerStep DEF RefuseForm, Disconnect, Refuses
<1>6. CASE LogOut(c)
  <2>1. SessionTypeOK'
    BY <1>6, <1>s, SessionNextType, PageAssumption
    DEF LogOut, PageAssumption, InterfaceNext, ServerNext
  <2> QED
    BY <1>6, <1>0, <2>1, AnswerStep DEF LogOut, Accepts, Refuses
<1>7. CASE LogIn(c)
  <2>1. call[c].user \in Users
    BY <1>7, SlotType DEF LogIn, PageInv, Right, UserFound
  <2>2. SessionTypeOK'
    BY <1>7, <1>s, <2>1, SessionNextType, PageAssumption
    DEF LogIn, PageAssumption, InterfaceNext, ServerNext
  <2> QED
    BY <1>7, <1>0, <2>2, BecomesStep, AnswerStep DEF LogIn, Refuses
<1>8. CASE ConfirmLogIn(c)
  BY <1>8, <1>0, <1>s, AnswerStep DEF ConfirmLogIn, Accepts, Refuses
<1> QED
  BY <1>1, <1>2, <1>3, <1>4, <1>5, <1>6, <1>7, <1>8 DEF ServerStep

LEMMA UserStepInv ==
    ASSUME PageInv, UserStep
    PROVE  PageInv'
<1> USE DEF tabVars, Kind
<1>0. page \in {"login", "opening", "loans"} /\ div \in {"view", "form"}
  BY DEF PageInv, PageTypeOK
<1>1. ASSUME NEW u \in Users, SubmitLogIn(u)
      PROVE  PageInv'
  BY <1>0, <1>1, AjaxStep DEF SubmitLogIn
<1>2. CASE requestForLoan
  BY <1>2 DEF requestForLoan, PageInv, PageTypeOK, SessionTypeOK, svars, Owned, Right,
             UserFound, OneUserAnswer
<1>3. CASE generateLink
  BY <1>0, <1>3, AjaxStep DEF generateLink
<1>4. CASE viewLoans
  BY <1>0, <1>4, AjaxStep DEF viewLoans
<1>5. CASE cancel
  BY <1>5, AjaxStep DEF cancel
<1>6. CASE logout
  BY <1>0, <1>6, AjaxStep DEF logout
<1> QED
  BY <1>1, <1>2, <1>3, <1>4, <1>5, <1>6 DEF UserStep

\* A page that is left: requests are forgotten or go on unheard.
LEMMA LeaveStep ==
    ASSUME PageInv, NEW new \in {"login", "opening"}, Leave(new), UNCHANGED <<svars, owner>>
    PROVE  PageInv'
<1>1. ASSUME NEW d \in Calls
      PROVE  call'[d] \in Call \cup {Free} /\ Right(call[d])'
  <2>1. CASE call'[d] = Free
    BY <2>1 DEF Right
  <2>2. CASE call'[d] # Free
    <3>1. call'[d] = [call[d] EXCEPT !.live = FALSE] /\ call[d] # Free
      BY <2>2 DEF Leave
    <3>2. call[d] \in Call /\ UserFound(call[d]) /\ OneUserAnswer(call[d])
      BY <3>1 DEF PageInv, PageTypeOK, Right
    <3>3. /\ call'[d] \in Call
          /\ call'[d].kind = call[d].kind /\ call'[d].pc = call[d].pc
          /\ call'[d].user = call[d].user /\ call'[d].data = call[d].data
      BY <3>1, <3>2 DEF Call
    <3> QED
      BY <3>2, <3>3 DEF Right, UserFound, OneUserAnswer, Owned
  <2> QED
    BY <2>1, <2>2
<1>2. call' \in [Calls -> Call \cup {Free}]
  BY <1>1 DEF Leave
<1>3. Owned(shown)' /\ shown' \subseteq Loans
  BY DEF Leave, Owned
<1> QED
  BY <1>1, <1>2, <1>3 DEF Leave, PageInv, PageTypeOK, SessionTypeOK, svars

LEMMA CallbackInv ==
    ASSUME PageInv, NEW c \in Calls, Callback(c)
    PROVE  PageInv'
<1> USE DEF tabVars, Answered, At
<1>0. page \in {"login", "opening", "loans"} /\ div \in {"view", "form"}
  BY DEF PageInv, PageTypeOK
<1>1. CASE ShowLoans(c) \/ NothingHappens(c) \/ Unheard(c)
  BY <1>0, <1>1, DoneStep DEF ShowLoans, NothingHappens, Unheard
<1>2. CASE LinkGenerated(c)
  BY <1>0, <1>2, RequestStep DEF LinkGenerated, Kind
<1>3. CASE LoggedIn(c) \/ LoggedOut(c)
  BY <1>3, LeaveStep DEF LoggedIn, LoggedOut
<1> QED
  BY <1>1, <1>2, <1>3 DEF Callback

\* Logins and logouts elsewhere touch nothing on the page.
LEMMA ElsewhereInv ==
    ASSUME PageInv, ServerNext \/ UNCHANGED svars, UNCHANGED <<tabVars, call, owner>>
    PROVE  PageInv'
<1>1. SessionTypeOK'
  BY SessionNextType DEF PageInv, PageTypeOK, InterfaceNext
<1> QED
  BY <1>1 DEF tabVars, PageInv, PageTypeOK, Owned, Right, UserFound, OneUserAnswer

LEMMA PageInitInv == PageInit => PageInv
BY SessionInitType DEF PageInit, PageInv, PageTypeOK, Owned, Right, Free

LEMMA PageNextInv ==
    ASSUME PageInv, [PageNext]_pvars
    PROVE  PageInv'
<1>1. CASE UserStep
  BY <1>1, UserStepInv
<1>2. ASSUME NEW c \in Calls, ServerStep(c) \/ Disconnect(c)
      PROVE  PageInv'
  BY <1>2, ServerStepInv
<1>3. ASSUME NEW c \in Calls, Callback(c)
      PROVE  PageInv'
  BY <1>3, CallbackInv
<1>4. CASE Elsewhere \/ UNCHANGED pvars
  BY <1>4, ElsewhereInv DEF Elsewhere, pvars
<1> QED
  BY <1>1, <1>2, <1>3, <1>4 DEF PageNext

-----------------------------------------------------------------------------
(* Theorems.                                                               *)

\* The page, its requests and the registry keep their types.
THEOREM PageTypeCorrect == PageSpec => []PageTypeOK
<1>1. PageInv /\ [PageNext]_pvars => PageInv'
  BY PageNextInv
<1>2. PageInv => PageTypeOK
  BY DEF PageInv
<1> QED
  BY <1>1, <1>2, PageInitInv, PTL DEF PageSpec

\* The table never mixes the loans of two users: what a fetch answers is one
\* user's (FetchUserData), it replaces the table, and no loan changes hands.
THEOREM OneOwnerCorrect == PageSpec => []OneOwner
<1>1. PageInv /\ [PageNext]_pvars => PageInv'
  BY PageNextInv
<1>2. PageInv => OneOwner
  BY DEF PageInv, Owned, OneOwner
<1> QED
  BY <1>1, <1>2, PageInitInv, PTL DEF PageSpec

\* What the page's requests do to the registry is what the server calls.
LEMMA PageServerStep ==
    ASSUME PageInv, [PageNext]_pvars
    PROVE  [ServerNext]_svars
<1> USE DEF At
<1>1. ASSUME NEW c \in Calls, LogIn(c)
      PROVE  [ServerNext]_svars
  <2>1. call[c].user \in Users
    BY <1>1, SlotType DEF LogIn, PageInv, Right, UserFound
  <2> QED
    BY <1>1, <2>1, PageAssumption DEF PageAssumption, LogIn, ServerNext
<1>2. ASSUME NEW c \in Calls, LogOut(c)
      PROVE  [ServerNext]_svars
  BY <1>2, PageAssumption DEF PageAssumption, LogOut, ServerNext
<1>3. ASSUME NEW c \in Calls, ServerStep(c), ~LogIn(c), ~LogOut(c)
      PROVE  UNCHANGED svars
  BY <1>3 DEF ServerStep, CheckLogin, FindUser, FetchData, GenerateUrl, RefuseForm, ConfirmLogIn
<1>4. ASSUME NEW c \in Calls, Callback(c) \/ Disconnect(c)
      PROVE  UNCHANGED svars
  BY <1>4 DEF Callback, ShowLoans, LinkGenerated, NothingHappens, LoggedIn, LoggedOut, Unheard,
             Disconnect
<1>5. CASE UserStep
  BY <1>5 DEF UserStep, SubmitLogIn, requestForLoan, generateLink, viewLoans, cancel, logout
<1>6. CASE Elsewhere \/ UNCHANGED pvars
  BY <1>6 DEF Elsewhere, pvars
<1> QED
  BY <1>1, <1>2, <1>3, <1>4, <1>5, <1>6 DEF PageNext

\* With pages in use, however their requests interleave with logins elsewhere,
\* a session that is logged in has a user (SessionsCorrect).
THEOREM PageSessionsCorrect == PageSpec => []SessionsHaveUser
<1>1. PageInv /\ [PageNext]_pvars => PageInv'
  BY PageNextInv
<1>2. PageInv /\ [PageNext]_pvars => [ServerNext]_svars
  BY PageServerStep
<1>3. PageInit => SessionInit
  BY DEF PageInit
<1> QED
  BY <1>1, <1>2, <1>3, PageInitInv, SessionsCorrect, PTL DEF PageSpec, ServerSpec

\* Nor do they make a request run for a user the registry does not promise
\* (RegistryKept).
THEOREM PageKeepsRegistry == PageSpec => KeepsRegistry
<1>1. PageInv /\ [PageNext]_pvars => PageInv'
  BY PageNextInv
<1>2. PageInv /\ [PageNext]_pvars => [InterfaceNext]_svars
  BY PageServerStep DEF InterfaceNext
<1>3. PageInit => SessionInit
  BY DEF PageInit
<1> QED
  BY <1>1, <1>2, <1>3, PageInitInv, RegistryKept, PTL DEF PageSpec, InterfaceSpec

-----------------------------------------------------------------------------
(* Whose loans the page shows.                                             *)

\* A fetch for which the server works or which it has answered is for a user
\* that the page may show.
SeenUser(x) ==
    x.kind = "fetch" =>
        /\ x.pc = "user" => x.user \in seen
        /\ x.pc = "accepted" => \A l \in x.data : owner[l] \in seen

UsersInv ==
    /\ PageInv
    /\ Nobody \notin seen
    /\ getUser(Here) \in seen \cup {Nobody}
    /\ \A c \in Calls : call[c] # Free => SeenUser(call[c])
    /\ ShowsItsUsers

\* How the request in a slot comes to need a user, or the loans of one.
SlotChange(d) ==
    \/ call'[d] \in {call[d], Free}
    \/ call'[d].kind # "fetch"
    \/ call'[d].pc \in {"sent", "checked", "refused"}
    \/ call'[d].pc = "user" /\ call'[d].user = getUser(Here) /\ getUser(Here) # Nobody
    \/ /\ call[d].kind = "fetch" /\ call[d].pc = "user" /\ call[d] # Free
       /\ call'[d].pc = "accepted" /\ call'[d].data = OwnedBy(call[d].user)
       /\ UNCHANGED owner

LEMMA BecomesSlot ==
    ASSUME PageInv, NEW c \in Calls, call[c].pc # "free", NEW pc, NEW user, Becomes(c, pc, user)
    PROVE  /\ \A d \in Calls : d # c => call'[d] = call[d]
           /\ call'[c].kind = call[c].kind /\ call'[c].pc = pc /\ call'[c].user = user
<1>1. call[c] \in Call
  BY SlotType DEF PageInv
<1> QED
  BY <1>1 DEF Becomes, PageInv, PageTypeOK, Call

LEMMA AnswerSlot ==
    ASSUME PageInv, NEW c \in Calls, call[c].pc # "free", NEW pc, NEW data, Answer(c, pc, data)
    PROVE  /\ \A d \in Calls : d # c => call'[d] = call[d]
           /\ call'[c].kind = call[c].kind /\ call'[c].pc = pc /\ call'[c].data = data
<1>1. call[c] \in Call
  BY SlotType DEF PageInv
<1> QED
  BY <1>1 DEF Answer, PageInv, PageTypeOK, Call

\* What the server does for a request changes its slot only.
LEMMA ServerSlots ==
    ASSUME PageInv, NEW c \in Calls, ServerStep(c) \/ Disconnect(c), NEW d \in Calls
    PROVE  SlotChange(d)
<1> USE DEF At, Refuses, Accepts
<1>1. CASE CheckLogin(c)
  BY <1>1, BecomesSlot, AnswerSlot DEF CheckLogin, SlotChange
<1>2. CASE FindUser(c)
  BY <1>2, BecomesSlot, AnswerSlot DEF FindUser, SlotChange
<1>3. CASE FetchData(c)
  <2>1. call[c].pc # "free" /\ call[c] # Free /\ call[c].kind = "fetch" /\ call[c].pc = "user"
        /\ UNCHANGED owner
    BY <1>3 DEF FetchData, Free
  <2> QED
    BY <1>3, <2>1, AnswerSlot DEF FetchData, SlotChange
<1>4. CASE GenerateUrl(c) \/ RefuseForm(c)
  BY <1>4, AnswerSlot DEF GenerateUrl, RefuseForm, SlotChange
<1>5. CASE LogOut(c)
  BY <1>5, AnswerSlot DEF LogOut, SlotChange
<1>6. CASE LogIn(c) \/ ConfirmLogIn(c)
  BY <1>6, BecomesSlot, AnswerSlot DEF LogIn, ConfirmLogIn, SlotChange
<1>7. CASE Disconnect(c)
  BY <1>7, AnswerSlot DEF Disconnect, SlotChange
<1> QED
  BY <1>1, <1>2, <1>3, <1>4, <1>5, <1>6, <1>7 DEF ServerStep

\* So it is with every step.
LEMMA NextSlots ==
    ASSUME PageInv, [PageNext]_pvars, NEW d \in Calls
    PROVE  SlotChange(d)
<1> USE DEF tabVars
<1>0. call \in [Calls -> Call \cup {Free}]
  BY DEF PageInv, PageTypeOK
<1>1. ASSUME NEW c \in Calls, NEW kind, NEW user, call' = [call EXCEPT ![c] = Request(kind, user)]
      PROVE  SlotChange(d)
  <2>1. Request(kind, user).pc = "sent"
    BY DEF Request
  <2>2. call'[d] = IF d = c THEN Request(kind, user) ELSE call[d]
    BY <1>0, <1>1
  <2> QED
    BY <2>1, <2>2 DEF SlotChange
<1>2. ASSUME NEW kind, NEW user, Ajax(kind, user)
      PROVE  SlotChange(d)
  BY <1>1, <1>2 DEF Ajax
<1>3. ASSUME NEW new, Leave(new)
      PROVE  SlotChange(d)
  <2>1. CASE call'[d] = Free
    BY <2>1 DEF SlotChange
  <2>2. CASE call'[d] # Free
    <3>1. call'[d] = [call[d] EXCEPT !.live = FALSE] /\ call[d] # Free /\ call[d].kind # "fetch"
      BY <1>3, <2>2 DEF Leave
    <3>2. call'[d].kind = call[d].kind
      BY <1>0, <3>1 DEF Call
    <3> QED
      BY <3>1, <3>2 DEF SlotChange
  <2> QED
    BY <2>1, <2>2
<1>4. ASSUME NEW c \in Calls, Done(c)
      PROVE  SlotChange(d)
  BY <1>0, <1>4 DEF Done, SlotChange
<1>5. CASE UserStep
  BY <1>2, <1>5
  DEF UserStep, SubmitLogIn, requestForLoan, generateLink, viewLoans, cancel, logout, SlotChange
<1>6. ASSUME NEW c \in Calls, Callback(c)
      PROVE  SlotChange(d)
  BY <1>1, <1>3, <1>4, <1>6
  DEF Callback, ShowLoans, LinkGenerated, NothingHappens, LoggedIn, LoggedOut, Unheard
<1>7. CASE Elsewhere \/ UNCHANGED pvars
  BY <1>7 DEF Elsewhere, pvars, SlotChange
<1> QED
  BY <1>5, <1>6, <1>7, ServerSlots DEF PageNext

\* A loan that has an owner keeps it.
LEMMA OwnersKept ==
    ASSUME PageInv, [PageNext]_pvars
    PROVE  OwnerKept
<1>1. CASE UNCHANGED owner
  BY <1>1 DEF OwnerKept
<1>2. ASSUME NEW c \in Calls, GenerateUrl(c)
      PROVE  OwnerKept
  <2> DEFINE k == CHOOSE l \in Loans : Unused(l)
  <2>1. k \in Loans /\ owner[k] = Nobody
    BY <1>2 DEF GenerateUrl, Unused
  <2>2. owner' = [owner EXCEPT ![k] = call[c].user] \/ UNCHANGED owner
    BY <1>2 DEF GenerateUrl
  <2> HIDE DEF k
  <2> QED
    BY <2>1, <2>2 DEF OwnerKept, PageInv, PageTypeOK
<1> QED
  BY <1>1, <1>2
  DEF PageNext, UserStep, SubmitLogIn, requestForLoan, generateLink, viewLoans, cancel, logout,
      ServerStep, CheckLogin, FindUser, FetchData, RefuseForm, LogOut, LogIn, ConfirmLogIn,
      Disconnect, Callback, ShowLoans, LinkGenerated, NothingHappens, LoggedIn, LoggedOut,
      Unheard, Elsewhere, tabVars, pvars

\* What a step does to the page: a page that is left is empty, and only the
\* answer to a fetch brings loans.
LEMMA PageChanges ==
    ASSUME PageInv, [PageNext]_pvars
    PROVE  \/ \E new : Leave(new)
           \/ /\ ~PageIsNew
              /\ \/ shown' = shown
                 \/ \E c \in Calls : /\ call[c] # Free /\ UNCHANGED owner
                                     /\ call[c].kind = "fetch" /\ call[c].pc = "accepted"
                                     /\ shown' = call[c].data
<1> USE DEF tabVars
<1>1. CASE UNCHANGED <<page, shown>>
  BY <1>1 DEF PageIsNew
<1>2. CASE cancel
  BY <1>2 DEF cancel, PageIsNew
<1>3. ASSUME NEW c \in Calls, ShowLoans(c)
      PROVE  /\ ~PageIsNew /\ call[c] # Free /\ UNCHANGED owner
             /\ call[c].kind = "fetch" /\ call[c].pc = "accepted"
             /\ shown' = call[c].data
  BY <1>3 DEF ShowLoans, Answered, At, Free, PageIsNew
<1> QED
  BY <1>1, <1>2, <1>3
  DEF PageNext, UserStep, SubmitLogIn, requestForLoan, generateLink, viewLoans, logout,
      ServerStep, CheckLogin, FindUser, FetchData, GenerateUrl, RefuseForm, LogOut, LogIn,
      ConfirmLogIn, Disconnect, Callback, LinkGenerated, NothingHappens, LoggedIn, LoggedOut,
      Unheard, Elsewhere, pvars

LEMMA UsersNextInv ==
    ASSUME UsersInv, [UsersNext]_uvars
    PROVE  UsersInv'
<1>0. PageInv /\ [PageNext]_pvars
  BY DEF UsersInv, UsersNext, uvars
<1>1. PageInv' /\ OwnerKept
  BY <1>0, PageNextInv, OwnersKept
<1>2. CASE UNCHANGED uvars
  BY <1>1, <1>2
  DEF UsersInv, uvars, pvars, tabVars, svars, getUser, SeenUser, ShowsItsUsers
<1>3. CASE UsersNext
  <2>1. seen' = ((IF PageIsNew THEN {} ELSE seen) \cup {getUser(Here)'}) \ {Nobody}
    BY <1>3 DEF UsersNext
  <2>2. Nobody \notin seen' /\ getUser(Here)' \in seen' \cup {Nobody}
    BY <2>1
  <2>3. CASE \E new : Leave(new)
    <3>1. shown' = {} /\ \A c \in Calls : call'[c] = Free \/ call'[c].kind # "fetch"
      <4>1. shown' = {}
        BY <2>3 DEF Leave
      <4>2. ASSUME NEW c \in Calls, call'[c] # Free
            PROVE  call'[c].kind # "fetch"
        <5>1. call'[c] = [call[c] EXCEPT !.live = FALSE] /\ call[c] # Free /\ call[c].kind # "fetch"
          BY <2>3, <4>2 DEF Leave
        <5>2. call[c] \in Call
          BY <1>0, <5>1 DEF PageInv, PageTypeOK
        <5> QED
          BY <5>1, <5>2 DEF Call
      <4> QED
        BY <4>1, <4>2
    <3> QED
      BY <1>1, <2>2, <3>1 DEF UsersInv, SeenUser, ShowsItsUsers
  <2>4. CASE ~\E new : Leave(new)
    <3>1. ~PageIsNew
      BY <1>0, <2>4, PageChanges
    <3>2. seen \subseteq seen'
      BY <2>1, <3>1 DEF UsersInv
    <3>3. ASSUME NEW S \in SUBSET Loans, Owned(S), \A l \in S : owner[l] \in seen
          PROVE  \A l \in S : owner'[l] \in seen'
      BY <1>1, <3>2, <3>3 DEF Owned, OwnerKept
    <3>4. ShowsItsUsers'
      <4>1. CASE shown' = shown
        <5>1. shown \in SUBSET Loans /\ Owned(shown) /\ \A l \in shown : owner[l] \in seen
          BY <1>0 DEF PageInv, PageTypeOK, UsersInv, ShowsItsUsers
        <5> QED
          BY <3>3, <4>1, <5>1 DEF ShowsItsUsers
      <4>2. ASSUME NEW c \in Calls, call[c] # Free, UNCHANGED owner, call[c].kind = "fetch",
                   call[c].pc = "accepted", shown' = call[c].data
            PROVE  ShowsItsUsers'
        <5>1. \A l \in call[c].data : owner[l] \in seen
          BY <4>2 DEF UsersInv, SeenUser
        <5> QED
          BY <3>2, <4>2, <5>1 DEF ShowsItsUsers
      <4> QED
        BY <1>0, <2>4, <4>1, <4>2, PageChanges
    <3>5. ASSUME NEW c \in Calls, call'[c] # Free
          PROVE  SeenUser(call[c])'
      <4>1. CASE call'[c] = call[c]
        <5>1. call[c] \in Call /\ OneUserAnswer(call[c]) /\ SeenUser(call[c])
          BY <1>0, <3>5, <4>1 DEF PageInv, PageTypeOK, Right, UsersInv
        <5>2. ASSUME call[c].kind = "fetch", call[c].pc = "accepted"
              PROVE  \A l \in call[c].data : owner'[l] \in seen'
          <6>1. call[c].data \in SUBSET Loans /\ Owned(call[c].data)
            BY <5>1, <5>2 DEF Call, OneUserAnswer
          <6>2. \A l \in call[c].data : owner[l] \in seen
            BY <5>1, <5>2 DEF SeenUser
          <6> QED
            BY <3>3, <6>1, <6>2
        <5> QED
          BY <3>2, <4>1, <5>1, <5>2 DEF SeenUser
      <4>2. CASE call'[c].pc = "user" /\ call'[c].user = getUser(Here) /\ getUser(Here) # Nobody
        BY <3>2, <4>2 DEF UsersInv, SeenUser
      <4>3. CASE /\ call[c].kind = "fetch" /\ call[c].pc = "user" /\ call[c] # Free
                 /\ call'[c].pc = "accepted" /\ call'[c].data = OwnedBy(call[c].user)
                 /\ UNCHANGED owner
        <5>1. call[c].user \in seen
          BY <4>3 DEF UsersInv, SeenUser
        <5> QED
          BY <3>2, <4>3, <5>1 DEF OwnedBy, SeenUser
      <4>4. CASE call'[c].kind # "fetch" \/ call'[c].pc \in {"sent", "checked", "refused"}
        BY <4>4 DEF SeenUser
      <4> QED
        BY <1>0, <3>5, <4>1, <4>2, <4>3, <4>4, NextSlots DEF SlotChange
    <3> QED
      BY <1>1, <2>2, <3>4, <3>5 DEF UsersInv
  <2> QED
    BY <2>3, <2>4
<1> QED
  BY <1>2, <1>3

\* In whatever order requests, answers and logins on the session come, the page
\* shows the loans only of users who were logged in on its session while it was
\* open.
THEOREM ShownCorrect == UsersSpec => []ShowsItsUsers
<1>1. UsersInit => UsersInv
  <2> SUFFICES ASSUME UsersInit PROVE UsersInv
    OBVIOUS
  <2>1. PageInv
    BY PageInitInv DEF UsersInit
  <2>2. getUser(Here) = Nobody
    BY PageAssumption DEF PageAssumption, UsersInit, PageInit, SessionInit, getUser
  <2>3. \A c \in Calls : call[c] = Free
    BY DEF UsersInit, PageInit
  <2> QED
    BY <2>1, <2>2, <2>3 DEF UsersInit, PageInit, UsersInv, ShowsItsUsers
<1>2. UsersInv /\ [UsersNext]_uvars => UsersInv'
  BY UsersNextInv
<1>3. UsersInv => ShowsItsUsers
  BY DEF UsersInv
<1> QED
  BY <1>1, <1>2, <1>3, PTL DEF UsersSpec

\* The history only watches: whatever holds of the loan page holds with it.
THEOREM UsersArePage == UsersSpec => PageSpec
<1>1. UsersInit => PageInit
  BY DEF UsersInit
<1>2. [UsersNext]_uvars => [PageNext]_pvars
  BY DEF UsersNext, uvars, pvars
<1> QED
  BY <1>1, <1>2, PTL DEF UsersSpec, PageSpec
=============================================================================
