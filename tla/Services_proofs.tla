-------------------------- MODULE Services_proofs --------------------------
(***************************************************************************)
(* Theorems about Services and OrganisationService, for any organisations, *)
(* requests, sessions and users.                                           *)
(***************************************************************************)
EXTENDS Services, SessionService_proofs

\* What the statements of an add have done to its row so far.
Progress(r) ==
    /\ add[r].pc \in {"named", "insights", "added", "read", "success"}
         => "organisation_name" \in rows[add[r].name]
    /\ add[r].pc \in {"insights", "added", "read", "success"}
         => "insights_key" \in rows[add[r].name]
    /\ add[r].pc \in {"added", "read", "success"} => "key" \in rows[add[r].name]
    /\ add[r].pc = "read" => /\ add[r].read[add[r].name] = Columns
                             /\ \A n \in Preloaded : add[r].read[n] = Columns

OrganisationInv ==
    /\ OrganisationTypeOK
    /\ \A n \in Preloaded : rows[n] = Columns
    /\ \A r \in Requests : Progress(r)

CachedAtStart ==
    /\ context = "up" => "organisation" \in running
    /\ context \in {"starting", "up"} /\ "organisation" \in running
         => \A n \in Preloaded : cache[n] = Columns

LEMMA OrganisationInitInv == OrganisationInit => OrganisationInv
BY OrganisationAssumption
DEF OrganisationAssumption, OrganisationInit, OrganisationInv, OrganisationTypeOK,
    Progress, Idle, Cleared, Table, NoRow

-----------------------------------------------------------------------------
(* The steps of an add.                                                    *)

LEMMA RequestType ==
    ASSUME OrganisationTypeOK, NEW r \in Requests, add[r].pc # "idle"
    PROVE  add[r] \in Add
BY DEF OrganisationTypeOK, Idle

RowsGrow ==
    /\ rows' \in Table
    /\ \A n \in Names : rows[n] \subseteq rows'[n]

\* A row never loses a column: the table only grows.
LEMMA StatementsGrow ==
    ASSUME OrganisationInv, NEW r \in Requests, AddStep(r)
    PROVE  RowsGrow
<1> USE DEF OrganisationInv, OrganisationTypeOK, RowsGrow, Table, Columns
<1>1. CASE InsertName(r)
  <2>1. add[r].name \in Names
    BY <1>1, RequestType DEF InsertName, At, Add
  <2> QED
    BY <1>1, <2>1 DEF InsertName, NoRow
<1>2. ASSUME NEW column \in Columns, rows' = WithKey(column)
      PROVE  RowsGrow
  BY <1>2 DEF WithKey, NoRow
<1>3. CASE CopyInsightsKey(r) \/ CopyKey(r)
  BY <1>2, <1>3 DEF CopyInsightsKey, CopyKey
<1>4. CASE UNCHANGED rows
  BY <1>4
<1> QED
  BY <1>1, <1>3, <1>4 DEF AddStep, AddFails, FetchOrganisations, InstallOrganisations, Answered

\* The threads that do not move keep what they have reached.
LEMMA ProgressKept ==
    ASSUME OrganisationInv, RowsGrow, NEW r \in Requests, add'[r] = add[r]
    PROVE  Progress(r)'
<1>1. CASE add[r].pc = "idle"
  BY <1>1 DEF Progress
<1>2. CASE add[r].pc # "idle"
  <2>1. add[r] \in Add /\ add[r].name \in Names
    BY <1>2, RequestType DEF OrganisationInv, Add
  <2> QED
    BY <2>1 DEF OrganisationInv, Progress, RowsGrow
<1> QED
  BY <1>1, <1>2

\* Whatever thread r becomes, the invariant is left to show for r alone.
LEMMA ThreadStep ==
    ASSUME OrganisationInv, RowsGrow, NEW r \in Requests, NEW x \in Add \cup {Idle},
           add' = [add EXCEPT ![r] = x], add'[r] = x => Progress(r)', cache' \in Table
    PROVE  OrganisationInv'
<1>1. add' \in [Requests -> Add \cup {Idle}] /\ add'[r] = x
  BY DEF OrganisationInv, OrganisationTypeOK
<1>2. \A q \in Requests : Progress(q)'
  <2> TAKE q \in Requests
  <2>1. CASE q = r
    BY <1>1, <2>1
  <2>2. CASE q # r
    BY <2>2, ProgressKept DEF OrganisationInv, OrganisationTypeOK
  <2> QED
    BY <2>1, <2>2
<1>3. \A n \in Preloaded : rows'[n] = Columns
  BY OrganisationAssumption
  DEF OrganisationAssumption, OrganisationInv, RowsGrow, Table, Columns
<1> QED
  BY <1>1, <1>2, <1>3 DEF OrganisationInv, OrganisationTypeOK, RowsGrow

\* A thread that moves on with its name.
LEMMA GoesStep ==
    ASSUME OrganisationInv, RowsGrow, NEW r \in Requests, add[r].pc # "idle",
           NEW pc \in {"named", "insights", "added", "error"}, Goes(r, pc),
           UNCHANGED cache,
           pc # "error" => {"organisation_name"} \subseteq rows'[add[r].name],
           pc \in {"insights", "added"} => "insights_key" \in rows'[add[r].name],
           pc = "added" => "key" \in rows'[add[r].name]
    PROVE  OrganisationInv'
<1> DEFINE x == [add[r] EXCEPT !.pc = pc]
<1>1. add[r] \in Add
  BY RequestType DEF OrganisationInv
<1>2. x \in Add /\ x.pc = pc /\ x.name = add[r].name
  BY <1>1 DEF Add
<1>3. add' = [add EXCEPT ![r] = x]
  BY DEF Goes, OrganisationInv, OrganisationTypeOK
<1> HIDE DEF x
<1>4. add'[r] = x => Progress(r)'
  BY <1>2 DEF Progress
<1> QED
  BY <1>2, <1>3, <1>4, ThreadStep DEF OrganisationInv, OrganisationTypeOK

LEMMA AddStepInv ==
    ASSUME OrganisationInv, NEW r \in Requests, AddStep(r)
    PROVE  OrganisationInv'
<1>0. RowsGrow
  BY StatementsGrow
<1> USE DEF At
<1>t. add[r].pc # "idle" => add[r] \in Add /\ add[r].name \in Names /\ add[r].read \in Table
  BY RequestType DEF OrganisationInv, Add
<1>1. CASE InsertName(r)
  BY <1>0, <1>1, <1>t, GoesStep
  DEF InsertName, OrganisationInv, OrganisationTypeOK, Table
<1>2. CASE CopyInsightsKey(r)
  <2>1. "organisation_name" \in rows[add[r].name]
    BY <1>2 DEF CopyInsightsKey, OrganisationInv, Progress
  <2>2. {"organisation_name", "insights_key"} \subseteq rows'[add[r].name]
    BY <1>2, <1>t, <2>1 DEF CopyInsightsKey, WithKey, NoRow
  <2> QED
    BY <1>0, <1>2, <2>2, GoesStep DEF CopyInsightsKey
<1>3. CASE CopyKey(r)
  <2>1. {"organisation_name", "insights_key"} \subseteq rows[add[r].name]
    BY <1>3 DEF CopyKey, OrganisationInv, Progress
  <2>2. {"organisation_name", "insights_key", "key"} \subseteq rows'[add[r].name]
    BY <1>3, <1>t, <2>1 DEF CopyKey, WithKey, NoRow
  <2> QED
    BY <1>0, <1>3, <2>2, GoesStep DEF CopyKey
<1>4. CASE AddFails(r)
  BY <1>0, <1>4, GoesStep DEF AddFails
<1>5. CASE FetchOrganisations(r)
  <2> DEFINE x == [add[r] EXCEPT !.pc = "read", !.read = rows]
  <2>1. x \in Add /\ x.pc = "read" /\ x.name = add[r].name /\ x.read = rows
    BY <1>5, <1>t DEF FetchOrganisations, Add, OrganisationInv, OrganisationTypeOK
  <2>2. add' = [add EXCEPT ![r] = x] /\ UNCHANGED <<rows, cache>>
    BY <1>5 DEF FetchOrganisations, OrganisationInv, OrganisationTypeOK
  <2> HIDE DEF x
  <2>3. rows[add[r].name] = Columns /\ \A n \in Preloaded : rows[n] = Columns
    BY <1>5, <1>t
    DEF FetchOrganisations, OrganisationInv, OrganisationTypeOK, Progress, Table, Columns
  <2>4. add'[r] = x => Progress(r)'
    BY <2>1, <2>2, <2>3 DEF Progress, Columns
  <2> QED
    BY <1>0, <2>1, <2>2, <2>4, ThreadStep DEF OrganisationInv, OrganisationTypeOK
<1>6. CASE InstallOrganisations(r)
  <2> DEFINE x == [add[r] EXCEPT !.pc = "success", !.read = Cleared]
  <2>0. Cleared \in Table
    BY DEF Cleared, Table, NoRow
  <2>1. x \in Add /\ x.pc = "success" /\ x.name = add[r].name
    BY <1>6, <1>t, <2>0 DEF InstallOrganisations, Add
  <2>2. add' = [add EXCEPT ![r] = x] /\ UNCHANGED rows /\ cache' \in Table
    BY <1>6, <1>t DEF InstallOrganisations, OrganisationInv, OrganisationTypeOK
  <2> HIDE DEF x
  <2>3. add'[r] = x => Progress(r)'
    BY <1>6, <2>1, <2>2 DEF InstallOrganisations, OrganisationInv, Progress
  <2> QED
    BY <1>0, <2>1, <2>2, <2>3, ThreadStep
<1>7. CASE Answered(r)
  <2>1. add'[r] = Idle => Progress(r)'
    BY DEF Progress, Idle
  <2> QED
    BY <1>0, <1>7, <2>1, ThreadStep DEF Answered, OrganisationInv, OrganisationTypeOK
<1> QED
  BY <1>1, <1>2, <1>3, <1>4, <1>5, <1>6, <1>7 DEF AddStep

-----------------------------------------------------------------------------
(* The cache under the listener.                                           *)

LEMMA OrganisationIsService == "organisation" \in Service
<1>1. getServiceClasses[5] = "organisation" /\ 5 \in DOMAIN getServiceClasses
  BY DEF getServiceClasses
<1> QED
  BY <1>1 DEF Service

\* The initial states of every part.
LEMMA ServicesInitInv == ServicesInit => OrganisationInv /\ CachedAtStart
BY OrganisationInitInv DEF ServicesInit, CachedAtStart

\* An add that begins, and the service that starts or stops.
LEMMA OtherOrganisationSteps ==
    ASSUME OrganisationInv,
           \/ \E r \in Requests, n \in Names : AddOrganisation(r, n)
           \/ startOrganisations
           \/ stopOrganisations
           \/ UNCHANGED ovars
    PROVE  OrganisationInv'
<1>1. ASSUME NEW r \in Requests, NEW n \in Names, AddOrganisation(r, n)
      PROVE  OrganisationInv'
  <2> DEFINE x == [pc |-> "accepted", name |-> n, read |-> Cleared]
  <2>1. x \in Add /\ x.pc = "accepted"
    BY DEF Add, Cleared, Table, NoRow
  <2>2. add' = [add EXCEPT ![r] = x] /\ UNCHANGED <<rows, cache>>
    BY <1>1 DEF AddOrganisation
  <2> HIDE DEF x
  <2>3. RowsGrow
    BY <2>2 DEF RowsGrow, OrganisationInv, OrganisationTypeOK
  <2>4. add'[r] = x => Progress(r)'
    BY <2>1 DEF Progress
  <2> QED
    BY <2>1, <2>2, <2>3, <2>4, ThreadStep DEF OrganisationInv, OrganisationTypeOK
<1>2. CASE UNCHANGED <<rows, add>> /\ cache' \in Table
  BY <1>2 DEF OrganisationInv, OrganisationTypeOK, Progress
<1>3. CASE startOrganisations \/ stopOrganisations \/ UNCHANGED ovars
  BY <1>2, <1>3
  DEF startOrganisations, stopOrganisations, ovars, Cleared, Table, NoRow,
      OrganisationInv, OrganisationTypeOK
<1> QED
  BY <1>1, <1>3

LEMMA ServicesNextOrganisations ==
    ASSUME OrganisationInv, [ServicesNext]_servicesVars
    PROVE  OrganisationInv'
<1>1. ASSUME NEW x \in Service, StartService(x) \/ StopService(x)
      PROVE  OrganisationInv'
  BY <1>1, OtherOrganisationSteps DEF StartService, StopService
<1>2. ASSUME NEW s \in Sessions, NEW r \in Requests, NEW n \in Names, OrganisationCall(s, r, n)
      PROVE  OrganisationInv'
  BY <1>2, OtherOrganisationSteps DEF OrganisationCall
<1>3. ASSUME NEW r \in Requests, OrganisationStep(r)
      PROVE  OrganisationInv'
  BY <1>3, AddStepInv DEF OrganisationStep
<1>4. CASE Initialised \/ StartFails \/ Destroy \/ SessionCall \/ RestartGoesOn
  BY <1>4, OtherOrganisationSteps
  DEF Initialised, StartFails, Destroy, SessionCall, RestartGoesOn
<1>5. CASE UNCHANGED servicesVars
  BY <1>5, OtherOrganisationSteps DEF servicesVars
<1> QED
  BY <1>1, <1>2, <1>3, <1>4, <1>5 DEF ServicesNext

\* Only an install and the listener change the cache, and an install brings
\* what was read when the preloaded rows were there.
LEMMA ServicesNextCache ==
    ASSUME OrganisationInv, CachedAtStart, [ServicesNext]_servicesVars
    PROVE  CachedAtStart'
<1> USE DEF CachedAtStart
<1>1. ASSUME NEW x \in Service, StartService(x)
      PROVE  CachedAtStart'
  BY <1>1 DEF StartService, startOrganisations, ovars, OrganisationInv
<1>2. ASSUME NEW x \in Service, StopService(x)
      PROVE  CachedAtStart'
  BY <1>2 DEF StopService
<1>3. CASE Initialised
  BY <1>3, OrganisationIsService DEF Initialised, ovars
<1>4. CASE StartFails \/ Destroy
  BY <1>4 DEF StartFails, Destroy
<1>5. CASE SessionCall \/ RestartGoesOn
  BY <1>5 DEF SessionCall, RestartGoesOn, ovars, cvars
<1>6. ASSUME NEW s \in Sessions, NEW r \in Requests, NEW n \in Names, OrganisationCall(s, r, n)
      PROVE  CachedAtStart'
  BY <1>6 DEF OrganisationCall, AddOrganisation, cvars
<1>7. ASSUME NEW r \in Requests, OrganisationStep(r)
      PROVE  CachedAtStart'
  <2>1. CASE InstallOrganisations(r)
    BY <1>7, <2>1
    DEF OrganisationStep, InstallOrganisations, At, OrganisationInv, Progress, cvars
  <2>2. CASE ~InstallOrganisations(r)
    BY <1>7, <2>2
    DEF OrganisationStep, AddStep, InsertName, CopyInsightsKey, CopyKey, AddFails,
        FetchOrganisations, Answered, cvars
  <2> QED
    BY <2>1, <2>2
<1>8. CASE UNCHANGED servicesVars
  BY <1>8 DEF servicesVars, ovars, cvars
<1> QED
  BY <1>1, <1>2, <1>3, <1>4, <1>5, <1>6, <1>7, <1>8 DEF ServicesNext

\* To the session service, the listener and the requests are calls of its
\* interface.
LEMMA ServicesNextSessions ==
    ASSUME [ServicesNext]_servicesVars
    PROVE  [InterfaceNext]_svars
<1>1. ASSUME NEW x \in Service, StartService(x) \/ StopService(x)
      PROVE  [InterfaceNext]_svars
  BY <1>1 DEF StartService, StopService, InterfaceNext, ServerNext
<1>2. CASE SessionCall \/ RestartGoesOn
  BY <1>2 DEF SessionCall, RestartGoesOn, InterfaceNext, ServerNext
<1>3. CASE \/ Initialised \/ StartFails \/ Destroy
           \/ \E s \in Sessions, r \in Requests, n \in Names : OrganisationCall(s, r, n)
           \/ \E r \in Requests : OrganisationStep(r)
           \/ UNCHANGED servicesVars
  BY <1>3
  DEF Initialised, StartFails, Destroy, OrganisationCall, OrganisationStep, servicesVars
<1> QED
  BY <1>1, <1>2, <1>3 DEF ServicesNext

-----------------------------------------------------------------------------
(* Theorems.                                                               *)

\* An add that goes on to success has its row with both keys, in the table and
\* in what it has read, however the statements of the adds mix.
THEOREM AddedCorrect == ServicesSpec => []AddedHasKeys
<1>1. OrganisationInv /\ [ServicesNext]_servicesVars => OrganisationInv'
  BY ServicesNextOrganisations
<1>2. OrganisationInv => AddedHasKeys
  <2> SUFFICES ASSUME OrganisationInv, NEW r \in Requests
               PROVE  /\ add[r].pc \in {"added", "read", "success"}
                           => rows[add[r].name] = Columns
                      /\ At(r, "read") => add[r].read[add[r].name] = Columns
    BY DEF AddedHasKeys
  <2>1. add[r].pc # "idle" => add[r].name \in Names
    BY RequestType DEF OrganisationInv, Add
  <2> QED
    BY <2>1 DEF OrganisationInv, OrganisationTypeOK, Table, Progress, Columns, At
<1> QED
  BY <1>1, <1>2, ServicesInitInv, PTL DEF ServicesSpec

\* As long as the server is up, every request finds the organisations that
\* were there at the start, with their keys.
THEOREM PreloadedCorrect == ServicesSpec => []PreloadedServed
<1>1. OrganisationInv /\ [ServicesNext]_servicesVars => OrganisationInv'
  BY ServicesNextOrganisations
<1>2. OrganisationInv /\ CachedAtStart /\ [ServicesNext]_servicesVars => CachedAtStart'
  BY ServicesNextCache
<1>3. CachedAtStart => PreloadedServed
  BY DEF CachedAtStart, PreloadedServed
<1> QED
  BY <1>1, <1>2, <1>3, ServicesInitInv, PTL DEF ServicesSpec

\* What the cache holds, and what a thread is about to install, is in the table.
NothingAhead ==
    /\ FoundIsStored
    /\ \A r \in Requests : At(r, "read") => \A n \in Names : add[r].read[n] \subseteq rows[n]

\* A step that lets the table grow, and reads nothing but the table.
LEMMA NothingAheadKept ==
    ASSUME NothingAhead, RowsGrow,
           \A n \in Names : cache'[n] \subseteq rows[n],
           \A r \in Requests : At(r, "read")' =>
               \/ At(r, "read") /\ add'[r].read = add[r].read
               \/ add'[r].read = rows
    PROVE  NothingAhead'
BY DEF NothingAhead, FoundIsStored, RowsGrow

LEMMA NothingAheadNext ==
    ASSUME OrganisationInv, NothingAhead, [ServicesNext]_servicesVars
    PROVE  NothingAhead'
<1> USE DEF At
<1>0. rows \in Table /\ add \in [Requests -> Add \cup {Idle}] /\ Idle.pc # "read"
  BY DEF OrganisationInv, OrganisationTypeOK, Idle
<1>1. ASSUME UNCHANGED rows
      PROVE  RowsGrow
  BY <1>0, <1>1 DEF RowsGrow
<1>2. \A n \in Names : cache[n] \subseteq rows[n]
  BY DEF NothingAhead, FoundIsStored
<1>3. CASE UNCHANGED ovars
  BY <1>1, <1>2, <1>3, NothingAheadKept DEF ovars
<1>4. CASE startOrganisations \/ stopOrganisations
  <2>1. \A n \in Names : cache'[n] \subseteq rows[n]
    BY <1>4 DEF startOrganisations, stopOrganisations, Cleared, NoRow
  <2> QED
    BY <1>1, <1>4, <2>1, NothingAheadKept DEF startOrganisations, stopOrganisations
<1>5. ASSUME NEW r \in Requests, NEW n \in Names, AddOrganisation(r, n)
      PROVE  NothingAhead'
  <2>1. UNCHANGED <<rows, cache>> /\ \A q \in Requests : add'[q] = add[q] \/ add'[q].pc = "accepted"
    BY <1>0, <1>5 DEF AddOrganisation
  <2> QED
    BY <1>1, <1>2, <2>1, NothingAheadKept
<1>6. ASSUME NEW r \in Requests, AddStep(r)
      PROVE  NothingAhead'
  <2>1. RowsGrow
    BY <1>6, StatementsGrow
  <2>2. \A q \in Requests \ {r} : add'[q] = add[q]
    BY <1>0, <1>6
    DEF AddStep, InsertName, CopyInsightsKey, CopyKey, AddFails, FetchOrganisations,
        InstallOrganisations, Answered, Goes
  <2>3. \A n \in Names : cache'[n] \subseteq rows[n]
    BY <1>2, <1>6
    DEF AddStep, InsertName, CopyInsightsKey, CopyKey, AddFails, FetchOrganisations,
        InstallOrganisations, Answered, NothingAhead
  <2>4. add'[r].pc = "read" => add'[r].read = rows
    <3>1. CASE FetchOrganisations(r)
      <4>1. add[r] \in Add
        BY <3>1, RequestType DEF FetchOrganisations, OrganisationInv
      <4> QED
        BY <1>0, <3>1, <4>1 DEF FetchOrganisations, Add
    <3>2. ASSUME NEW pc \in {"named", "insights", "added", "error"}, Goes(r, pc),
                 add[r].pc # "idle"
          PROVE  add'[r].pc # "read"
      <4>1. add[r] \in Add
        BY <3>2, RequestType DEF OrganisationInv
      <4> QED
        BY <1>0, <3>2, <4>1 DEF Goes, Add
    <3>3. CASE InstallOrganisations(r)
      <4>1. add[r] \in Add
        BY <3>3, RequestType DEF InstallOrganisations, OrganisationInv
      <4> QED
        BY <1>0, <3>3, <4>1 DEF InstallOrganisations, Add
    <3>4. CASE Answered(r)
      BY <1>0, <3>4 DEF Answered
    <3> QED
      BY <1>6, <3>1, <3>2, <3>3, <3>4 DEF AddStep, InsertName, CopyInsightsKey, CopyKey, AddFails
  <2> QED
    BY <2>1, <2>2, <2>3, <2>4, NothingAheadKept
<1> QED
  BY <1>3, <1>4, <1>5, <1>6
  DEF ServicesNext, StartService, StopService, Initialised, StartFails, Destroy, SessionCall,
      RestartGoesOn, OrganisationCall, OrganisationStep, servicesVars

\* Whatever is read and installed in whatever order, nothing is found that is
\* not stored.
THEOREM FoundCorrect == ServicesSpec => []FoundIsStored
<1>1. ServicesInit => NothingAhead
  BY DEF ServicesInit, OrganisationInit, NothingAhead, FoundIsStored, At, Idle, Cleared, NoRow
<1>2. OrganisationInv /\ [ServicesNext]_servicesVars => OrganisationInv'
  BY ServicesNextOrganisations
<1>3. OrganisationInv /\ NothingAhead /\ [ServicesNext]_servicesVars => NothingAhead'
  BY NothingAheadNext
<1>4. NothingAhead => FoundIsStored
  BY DEF NothingAhead
<1> QED
  BY <1>1, <1>2, <1>3, <1>4, ServicesInitInv, PTL DEF ServicesSpec

\* The bound on the session maps, under the listener.
THEOREM ServicesKeepBound == ServicesSpec => []EntriesBounded
<1>1. ServicesInit => SessionInit
  BY DEF ServicesInit
<1>2. [ServicesNext]_servicesVars => [InterfaceNext]_svars
  BY ServicesNextSessions
<1> QED
  BY <1>1, <1>2, EntriesCorrect, PTL DEF ServicesSpec, InterfaceSpec

\* Under the listener, with all services and requests together, the session
\* service implements SessionRegistry.
THEOREM ServicesKeepRegistry == ServicesSpec => KeepsRegistry
<1>1. ServicesInit => SessionInit
  BY DEF ServicesInit
<1>2. [ServicesNext]_servicesVars => [InterfaceNext]_svars
  BY ServicesNextSessions
<1> QED
  BY <1>1, <1>2, RegistryKept, PTL DEF ServicesSpec, InterfaceSpec
=============================================================================
