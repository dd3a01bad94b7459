------------------------ MODULE SessionService_proofs ------------------------
(***************************************************************************)
(* Theorems about SessionService, for any sets of sessions and users.      *)
(***************************************************************************)
EXTENDS SessionService, FunctionTheorems, FiniteSetTheorems, TLAPS

LEMMA SessionInitType == SessionInit => SessionTypeOK
BY DEF SessionInit, SessionTypeOK

\* Every operation of the interface keeps the types.
LEMMA SessionNextType ==
    ASSUME SessionTypeOK, [InterfaceNext]_svars
    PROVE  SessionTypeOK'
<1> USE DEF SessionTypeOK, removeUserFromMaps, WithoutUser
<1>1. ASSUME NEW s \in Sessions, NEW u \in Users, handleUserLogIn(s, u)
      PROVE  SessionTypeOK'
  <2>1. MapForLogIn(s, u) \in [Sessions -> Users \cup {Nobody}]
    BY DEF MapForLogIn
  <2> QED
    BY <1>1, <2>1 DEF handleUserLogIn
<1>2. ASSUME NEW s \in Sessions, handleUserLogOut(s)
      PROVE  SessionTypeOK'
  BY <1>2 DEF handleUserLogOut
<1>3. CASE stop \/ restart \/ restartClearsCache
  BY <1>3 DEF stop, restart, restartClearsCache
<1>4. ASSUME NEW u \in Users, forceLogout(u) \/ invalidateUserCache(u)
      PROVE  SessionTypeOK'
  BY <1>4 DEF forceLogout, invalidateUserCache
<1>5. CASE UNCHANGED svars
  BY <1>5 DEF svars
<1> QED
  BY <1>1, <1>2, <1>3, <1>4, <1>5 DEF InterfaceNext, ServerNext

\* The maps keep their types under every operation of the interface.
THEOREM SessionTypeCorrect == InterfaceSpec => []SessionTypeOK
<1>1. SessionTypeOK /\ [InterfaceNext]_svars => SessionTypeOK'
  BY SessionNextType
<1> QED
  BY <1>1, SessionInitType, PTL DEF InterfaceSpec

\* What the server calls keeps the two maps together: the session map never
\* names a user that the cache has lost.
THEOREM SessionsCorrect == ServerSpec => []SessionsHaveUser
<1> DEFINE I == SessionTypeOK /\ SessionsHaveUser
<1>1. SessionInit => I
  BY SessionInitType DEF SessionInit, SessionsHaveUser, SessionKnown
<1>2. I /\ [ServerNext]_svars => I'
  <2> SUFFICES ASSUME I, [ServerNext]_svars
               PROVE  I'
    OBVIOUS
  <2> USE SessionAssumption
      DEF SessionAssumption, SessionTypeOK, SessionsHaveUser, SessionKnown, getUser
  <2>1. SessionTypeOK'
    BY SessionNextType DEF InterfaceNext
  <2>2. ASSUME NEW s \in Sessions, NEW u \in Users, handleUserLogIn(s, u)
        PROVE  SessionsHaveUser'
    BY <2>2 DEF handleUserLogIn, MapForLogIn, WithoutUser
  <2>3. ASSUME NEW s \in Sessions, handleUserLogOut(s)
        PROVE  SessionsHaveUser'
    BY <2>3 DEF handleUserLogOut, removeUserFromMaps, WithoutUser
  <2>4. CASE stop
    BY <2>4 DEF stop
  <2>5. CASE UNCHANGED svars
    BY <2>5 DEF svars
  <2> QED
    BY <2>1, <2>2, <2>3, <2>4, <2>5 DEF ServerNext
<1>3. I => SessionsHaveUser
  OBVIOUS
<1> QED
  BY <1>1, <1>2, <1>3, PTL DEF ServerSpec

\* A change that only makes sessions nobody's is a Forget of the registry.
LEMMA ForgetStep ==
    ASSUME \A s \in Sessions : getUser(s)' \in {getUser(s), Nobody}
    PROVE  Registry!Forget
<1> DEFINE who == [s \in Sessions |-> getUser(s)]
           gone == {s \in Sessions : getUser(s)' = Nobody}
<1>1. who' = [s \in Sessions |-> IF s \in gone THEN Nobody ELSE who[s]]
  OBVIOUS
<1> QED
  BY <1>1 DEF Registry!Forget

\* Whatever operations of the interface are called, in whatever order, each
\* is a step of the registry: SessionService implements SessionRegistry.
THEOREM RegistryKept == InterfaceSpec => KeepsRegistry
<1>1. SessionInit => Registry!Init
  BY DEF SessionInit, Registry!Init, getUser
<1>2. SessionTypeOK /\ [InterfaceNext]_svars
        => [Registry!Next]_([s \in Sessions |-> getUser(s)])
  <2> SUFFICES ASSUME SessionTypeOK, [InterfaceNext]_svars
               PROVE  [Registry!Next]_([s \in Sessions |-> getUser(s)])
    OBVIOUS
  <2> USE SessionAssumption DEF SessionAssumption, SessionTypeOK, getUser
  <2>1. ASSUME NEW s \in Sessions, NEW u \in Users, handleUserLogIn(s, u)
        PROVE  Registry!LogIn(s, u)
    <3>1. \A r \in Sessions : getUser(r)' = IF r = s THEN u
                                           ELSE IF getUser(r) = u THEN Nobody ELSE getUser(r)
      <4>1. CASE SessionKnown(s) \/ UserKnown(u)
        BY <2>1, <4>1 DEF handleUserLogIn, MapForLogIn, WithoutUser
      <4>2. CASE ~(SessionKnown(s) \/ UserKnown(u))
        BY <2>1, <4>2 DEF handleUserLogIn, MapForLogIn, SessionKnown, UserKnown
      <4> QED
        BY <4>1, <4>2
    <3> QED
      BY <3>1 DEF Registry!LogIn
  <2>2. ASSUME NEW u \in Users, removeUserFromMaps(u) \/ invalidateUserCache(u)
        PROVE  Registry!Forget
    BY <2>2, ForgetStep DEF removeUserFromMaps, WithoutUser, invalidateUserCache
  <2>3. ASSUME NEW s \in Sessions, handleUserLogOut(s)
        PROVE  Registry!Forget
    BY <2>2, <2>3 DEF handleUserLogOut
  <2>4. CASE stop \/ restart \/ restartClearsCache
    <3>1. \A s \in Sessions : getUser(s)' = Nobody
      BY <2>4 DEF stop, restart, restartClearsCache
    <3> QED
      BY <3>1, ForgetStep DEF Registry!Next
  <2>5. CASE UNCHANGED svars
    BY <2>5 DEF svars
  <2> QED
    BY <2>1, <2>2, <2>3, <2>4, <2>5
    DEF InterfaceNext, ServerNext, forceLogout, Registry!Next
<1> QED
  BY <1>1, <1>2, SessionTypeCorrect, PTL DEF InterfaceSpec, KeepsRegistry, Registry!Spec

-----------------------------------------------------------------------------
(* How large the maps become.                                              *)

\* The put of a login never throws: the removal before it leaves no other
\* session with the user.
THEOREM LogInNeverThrows ==
    ASSUME NEW s \in Sessions, NEW u \in Users
    PROVE  CanPut(MapForLogIn(s, u), s, u)
BY SessionAssumption
DEF SessionAssumption, CanPut, MapForLogIn, WithoutUser, UserKnown

\* No two sessions have one user, as the first map is a BiMap.
OneSessionEach ==
    \A r, s \in Sessions : session[r] = session[s] /\ SessionKnown(r) => r = s

LEMMA OneSessionEachNext ==
    ASSUME SessionTypeOK, OneSessionEach, [InterfaceNext]_svars
    PROVE  OneSessionEach'
<1> USE DEF SessionTypeOK, OneSessionEach, SessionKnown
<1>1. ASSUME NEW s \in Sessions, NEW u \in Users, handleUserLogIn(s, u)
      PROVE  OneSessionEach'
  <2> DEFINE map == MapForLogIn(s, u)
  <2>1. /\ map \in [Sessions -> Users \cup {Nobody}]
        /\ \A r \in Sessions : map[r] \in {session[r], Nobody}
    BY DEF MapForLogIn, WithoutUser
  <2>2. session' = [map EXCEPT ![s] = u] /\ \A r \in Sessions \ {s} : map[r] # u
    BY <1>1 DEF handleUserLogIn, CanPut
  <2> QED
    BY <2>1, <2>2
<1>2. ASSUME NEW u \in Users \cup {Nobody}, removeUserFromMaps(u)
      PROVE  OneSessionEach'
  BY <1>2 DEF removeUserFromMaps, WithoutUser
<1>3. ASSUME NEW s \in Sessions, handleUserLogOut(s)
      PROVE  OneSessionEach'
  BY <1>2, <1>3 DEF handleUserLogOut, getUser
<1>4. CASE stop \/ restart
  BY <1>4 DEF stop, restart
<1>5. CASE UNCHANGED session
  BY <1>5
<1> QED
  BY <1>1, <1>2, <1>3, <1>4, <1>5
  DEF InterfaceNext, ServerNext, forceLogout, invalidateUserCache, restartClearsCache, svars

\* An injection of the sessions that are logged in into the users.
LEMMA OneSessionEachBounds ==
    ASSUME SessionTypeOK, OneSessionEach
    PROVE  EntriesBounded
<1> DEFINE Known == {s \in Sessions : SessionKnown(s)}
           user == [s \in Known |-> session[s]]
<1>1. user \in Injection(Known, Users)
  <2>1. user \in [Known -> Users]
    BY DEF SessionTypeOK, SessionKnown
  <2>2. \A r, s \in Known : user[r] = user[s] => r = s
    BY DEF OneSessionEach
  <2> QED
    BY <2>1, <2>2 DEF Injection, IsInjective
<1>2. Cardinality(Known) <= Cardinality(Users)
  <2> HIDE DEF Known, user
  <2> QED
    BY <1>1, FS_Injection, UsersAssumption DEF UsersAssumption
<1> QED
  BY <1>2 DEF EntriesBounded

\* Whatever is called, and however many HTTP sessions come and go, the maps
\* hold at most one session for each user.
THEOREM EntriesCorrect == InterfaceSpec => []EntriesBounded
<1>1. SessionInit => OneSessionEach
  BY DEF SessionInit, OneSessionEach, SessionKnown
<1>2. SessionTypeOK /\ OneSessionEach /\ [InterfaceNext]_svars => OneSessionEach'
  BY OneSessionEachNext
<1>3. SessionTypeOK /\ OneSessionEach => EntriesBounded
  BY OneSessionEachBounds
<1> QED
  BY <1>1, <1>2, <1>3, SessionTypeCorrect, PTL DEF InterfaceSpec
=============================================================================
