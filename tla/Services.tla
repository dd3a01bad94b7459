------------------------------ MODULE Services ------------------------------
(***************************************************************************)
(* IAServicesListener: the services of AllServices are started in their    *)
(* order when the context is initialised, and stopped in the reverse order *)
(* when it is destroyed; the actions of SessionService and                 *)
(* OrganisationService run between.                                        *)
(*                                                                         *)
(* Requests come when the context is initialised, and are dispatched as    *)
(* long as the action service has its paths; what has been dispatched goes *)
(* on whatever is stopped.                                                 *)
(***************************************************************************)
EXTENDS SessionService, OrganisationService, Sequences

VARIABLES
    running,    \* the services that have been started and not yet stopped
    context     \* of the servlet context

cvars == <<running, context>>
servicesVars == <<svars, ovars, cvars>>

getServiceClasses == <<"mailer", "action", "session", "template", "organisation">>
Service == {getServiceClasses[i] : i \in DOMAIN getServiceClasses}

ServicesTypeOK ==
    /\ SessionTypeOK
    /\ OrganisationTypeOK
    /\ running \subseteq Service
    /\ context \in {"starting", "up", "failed", "stopping"}

ServicesInit ==
    /\ SessionInit
    /\ OrganisationInit
    /\ running = {}
    /\ context = "starting"

Before(a, b) ==
    \E i, j \in DOMAIN getServiceClasses :
        i < j /\ getServiceClasses[i] = a /\ getServiceClasses[j] = b

-----------------------------------------------------------------------------

\* contextInitialized: the next service; of the starts, that of the
\* organisation service reads the database.
StartService(x) ==
    /\ context = "starting"
    /\ x \notin running /\ \A y \in Service : Before(y, x) => y \in running
    /\ running' = running \cup {x}
    /\ IF x = "organisation" THEN startOrganisations ELSE UNCHANGED ovars
    /\ UNCHANGED <<svars, context>>

Initialised ==
    /\ context = "starting" /\ running = Service
    /\ context' = "up"
    /\ UNCHANGED <<svars, ovars, running>>

\* A start that throws ends the initialisation: no request is served.  The
\* container destroys the context, and every service is stopped, whether it
\* was started or not.
StartFails ==
    /\ context = "starting" /\ running # Service
    /\ context' = "failed"
    /\ running' = Service
    /\ UNCHANGED <<svars, ovars>>

\* contextDestroyed.
Destroy ==
    /\ context = "up"
    /\ context' = "stopping"
    /\ UNCHANGED <<svars, ovars, running>>

StopService(x) ==
    /\ context \in {"stopping", "failed"}
    /\ x \in running /\ \A y \in Service : Before(x, y) => y \notin running
    /\ running' = running \ {x}
    /\ IF x = "organisation" THEN stopOrganisations ELSE UNCHANGED ovars
    /\ IF x = "session" THEN stop ELSE UNCHANGED svars
    /\ UNCHANGED context

\* getAction: the path is registered, and the session is logged in for an
\* action that requires it.
Dispatched == context \in {"up", "stopping"} /\ "action" \in running

SessionCall ==
    /\ Dispatched
    /\ \/ \E s \in Sessions, u \in Users : handleUserLogIn(s, u)
       \/ \E s \in Sessions : handleUserLogOut(s)
       \/ \E u \in Users : forceLogout(u) \/ invalidateUserCache(u)
       \/ restart
    /\ UNCHANGED <<ovars, cvars>>

RestartGoesOn ==
    /\ restartClearsCache
    /\ UNCHANGED <<ovars, cvars>>

OrganisationCall(s, r, n) ==
    /\ Dispatched
    /\ SessionKnown(s)
    /\ AddOrganisation(r, n)
    /\ UNCHANGED <<svars, cvars>>

OrganisationStep(r) ==
    /\ AddStep(r)
    /\ UNCHANGED <<svars, cvars>>

ServicesNext ==
    \/ \E x \in Service : StartService(x) \/ StopService(x)
    \/ Initialised \/ StartFails \/ Destroy
    \/ SessionCall \/ RestartGoesOn
    \/ \E s \in Sessions, r \in Requests, n \in Names : OrganisationCall(s, r, n)
    \/ \E r \in Requests : OrganisationStep(r)

ServicesSpec == ServicesInit /\ [][ServicesNext]_servicesVars

-----------------------------------------------------------------------------

\* As long as the server is up, an organisation that was there at the start is
\* found by every request, with its keys: whatever is added meanwhile and
\* however old the answer is that a restart() installs, the cache is never
\* seen empty or without it (OrganisationServiceImpl, lines 98-121).
PreloadedServed ==
    context = "up" => \A n \in Preloaded : cache[n] = Columns

\* "Reload data": after restart() an organisation that has been added is
\* found, by the time that the success is reported (StoreOrganisation, lines
\* 60-62), as long as the server is up.
AddedIsCached ==
    context = "up" => \A r \in Requests : At(r, "success") => Found(add[r].name)
=============================================================================
