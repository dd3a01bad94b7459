--------------------------- MODULE SessionService ---------------------------
(***************************************************************************)
(* SessionServiceImpl: who is logged in, in two BiMaps.  Every operation   *)
(* is one critical section of LOCK, except restart(), which clears the two *)
(* maps in two of them, and stop(), which clears the first map only.       *)
(***************************************************************************)
EXTENDS Naturals, FiniteSets

CONSTANTS
    Sessions,   \* ids of HTTP sessions
    Users,      \* user ids (greater than 0)
    Nobody      \* null

ASSUME SessionAssumption == Nobody \notin Users

\* User ids are ints.
ASSUME UsersAssumption == IsFiniteSet(Users)

VARIABLES
    session,    \* sessionIdToUserIdMap: session[s] is a user id or Nobody
    cached,     \* the user ids with a User in userCache
    restarting  \* restart() is between its two critical sections

svars == <<session, cached, restarting>>

SessionTypeOK ==
    /\ session \in [Sessions -> Users \cup {Nobody}]
    /\ cached \subseteq Users
    /\ restarting \in BOOLEAN

SessionInit ==
    /\ session = [s \in Sessions |-> Nobody]
    /\ cached = {}
    /\ restarting = FALSE

-----------------------------------------------------------------------------

\* isLoggedIn: by session id or by user id.
SessionKnown(s) == session[s] # Nobody
UserKnown(u) == \E s \in Sessions : session[s] = u

\* getUser: null also for a session whose user is not in the cache.
getUser(s) == IF session[s] \in cached THEN session[s] ELSE Nobody

\* removeUserFromMaps, for the first map.
WithoutUser(u) == [s \in Sessions |-> IF session[s] = u THEN Nobody ELSE session[s]]

\* BiMap.put: the key gets the value; it throws if another key has it.
CanPut(map, s, u) == \A r \in Sessions \ {s} : map[r] # u

removeUserFromMaps(u) ==
    /\ session' = WithoutUser(u)
    /\ cached' = cached \ {u}
    /\ UNCHANGED restarting

\* Mutant: the user is removed after the new entries are put.
LogInThenRemove(s, u) ==
    /\ session' = [session EXCEPT ![s] = u]
    /\ cached' = cached \ {u}
    /\ UNCHANGED restarting

\* Mutant: plain maps instead of BiMaps, and no removal.
LogInWithPlainMaps(s, u) ==
    /\ session' = [session EXCEPT ![s] = u]
    /\ cached' = cached \cup {u}
    /\ UNCHANGED restarting

\* handleUserLogIn.  The map that addUserToUserMaps finds is without the user
\* if the session or the user was known; what else the session held is
\* overwritten, but stays in the cache.
MapForLogIn(s, u) ==
    IF SessionKnown(s) \/ UserKnown(u) THEN WithoutUser(u) ELSE session

handleUserLogIn(s, u) ==
    /\ CanPut(MapForLogIn(s, u), s, u)
    /\ session' = [MapForLogIn(s, u) EXCEPT ![s] = u]
    /\ cached' = cached \cup {u}
    /\ UNCHANGED restarting

\* handleUserLogOut; handleUserSessionExpired is the same.  Without a cached
\* User it throws and changes nothing.
handleUserLogOut(s) ==
    /\ SessionKnown(s)
    /\ getUser(s) # Nobody
    /\ removeUserFromMaps(getUser(s))

\* forceLogout throws after it has removed a user that was not cached.
forceLogout(u) == UserKnown(u) /\ removeUserFromMaps(u)

invalidateUserCache(u) ==
    /\ cached' = cached \ {u}
    /\ UNCHANGED <<session, restarting>>

restart ==
    /\ ~restarting
    /\ restarting' = TRUE
    /\ session' = [s \in Sessions |-> Nobody]
    /\ UNCHANGED cached

restartClearsCache ==
    /\ restarting
    /\ restarting' = FALSE
    /\ cached' = {}
    /\ UNCHANGED session

stop ==
    /\ session' = [s \in Sessions |-> Nobody]
    /\ UNCHANGED <<cached, restarting>>

\* What the server calls: LoginAuthenticate, Logout and the servlet listener.
ServerNext ==
    \/ \E s \in Sessions, u \in Users : handleUserLogIn(s, u)
    \/ \E s \in Sessions : handleUserLogOut(s)
    \/ stop

\* What the interface offers besides.
InterfaceNext ==
    \/ ServerNext
    \/ \E u \in Users : forceLogout(u) \/ invalidateUserCache(u)
    \/ restart
    \/ restartClearsCache

ServerSpec == SessionInit /\ [][ServerNext]_svars
InterfaceSpec == SessionInit /\ [][InterfaceNext]_svars

-----------------------------------------------------------------------------

\* At no time does isLoggedIn() accept a session for which getUser() finds
\* null: nobody is locked out with a session that only a logout could end, and
\* the logout of such a session throws (line 155).
SessionsHaveUser == \A s \in Sessions : SessionKnown(s) => getUser(s) # Nobody

\* The maps never hold more sessions than there are users, although HTTP
\* sessions expire without a word to the service (nobody calls
\* handleUserSessionExpired) and every visit brings a new session id: a login
\* takes the place of the entry that its user left behind (lines 110-122).
EntriesBounded ==
    Cardinality({s \in Sessions : SessionKnown(s)}) <= Cardinality(Users)

\* Whatever is called, requests run for the users the registry promises.
Registry == INSTANCE SessionRegistry WITH who <- [s \in Sessions |-> getUser(s)]
KeepsRegistry == Registry!Spec
=============================================================================
