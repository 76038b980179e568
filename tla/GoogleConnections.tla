------------------------- MODULE GoogleConnections -------------------------
(***************************************************************************)
(* Google connections of one organization: authorizations, the resources   *)
(* connected under them, and the synchronisation of their data.            *)
(*                                                                         *)
(* A completed OAuth callback stores an authorization (a row of its own,   *)
(* never updated by a later one), discovers what it can reach, connects    *)
(* the resource of each provider that matches the business and notes in    *)
(* the authorization what it connected: five transactions in a row.  A     *)
(* connected resource has one integration and one scheduled job.           *)
(*                                                                         *)
(* A sync - the scheduled job's or a user's - reads the integration, gets  *)
(* an access token, asks the provider, and persists in one transaction     *)
(* under the lock of the integration's data set.  The data of a resource   *)
(* is the version of the provider's data it was taken from: rows of the    *)
(* same days are overwritten by every sync.                                *)
(***************************************************************************)
EXTENDS Integers, Sequences, FiniteSets

CONSTANTS
  Resource, NoResource, \* properties, sites and locations at Google
  ProviderOf,           \* the provider of each resource
  Reviewed,             \* business profiles whose account is known
  GoogleState,          \* OAuth states handed out
  Flow,                 \* overlapping callbacks
  Sync,                 \* overlapping syncs
  MaxAuthorizations,    \* bound on authorizations stored
  MaxVersion,           \* bound on changes of the provider's data
  MaxGoogleFaults       \* bound on requests that die and on disconnects

Authorization == 1..MaxAuthorizations
NoAuth == 0
GoogleProvider == {ProviderOf[r] : r \in Resource}

ASSUME GoogleAssumption ==
  /\ MaxAuthorizations \in Nat /\ MaxVersion \in Nat \ {0} /\ MaxGoogleFaults \in Nat
  /\ NoResource \notin Resource /\ Reviewed \subseteq Resource

VARIABLES
  states,    \* oauth_states of the organization
  auths,     \* integration_authorizations, in the order they were stored
  google,    \* integrations.status and authorization_id of each resource
  jobOn,     \* scheduled_jobs.enabled of each resource's google-sync
  linked,    \* pairs <<authorization, resource>> ever connected
  source,    \* the provider's current data of each resource
  data,      \* the version analytics_daily holds
  reviews,   \* the version gbp_reviews holds
  cursor,    \* the version integration_sync_states speaks of
  flow,      \* where each callback is
  sync,      \* where each sync is
  googleFaults

googleVars == <<states, auths, google, jobOn, linked, source, data, reviews,
                cursor, flow, sync, googleFaults>>

NoFlow == [pc |-> "idle", auth |-> NoAuth, todo |-> {}, done |-> {}]
NoSync == [pc |-> "idle", res |-> NoResource, auth |-> NoAuth, version |-> 0]

GoogleTypeOK ==
  /\ states \in [GoogleState -> {"none", "pending", "consumed"}]
  /\ Len(auths) <= MaxAuthorizations
  /\ \A a \in DOMAIN auths :
       auths[a] \in [refreshable : BOOLEAN, expired : BOOLEAN,
                     noted : BOOLEAN, connected : SUBSET Resource]
  /\ google \in [Resource -> [status : {"none", "connected", "revoked"},
                              auth : Authorization \union {NoAuth}]]
  /\ jobOn \in [Resource -> BOOLEAN]
  /\ linked \subseteq Authorization \X Resource
  /\ source \in [Resource -> 0..MaxVersion]
  /\ data \in [Resource -> 0..MaxVersion]
  /\ reviews \in [Resource -> 0..MaxVersion]
  /\ cursor \in [Resource -> 0..MaxVersion]
  /\ flow \in [Flow -> [pc : {"idle", "exchange", "discover", "connect"},
                        auth : Authorization \union {NoAuth},
                        todo : SUBSET Resource, done : SUBSET Resource]]
  /\ sync \in [Sync -> [pc : {"idle", "token", "fetch", "reviews", "persist"},
                        res : Resource \union {NoResource},
                        auth : Authorization \union {NoAuth},
                        version : 0..MaxVersion]]
  /\ googleFaults \in 0..MaxGoogleFaults
  /\ \A r \in Resource :
       google[r].status # "none" <=> google[r].auth \in DOMAIN auths

GoogleInit ==
  /\ states = [s \in GoogleState |-> "none"]
  /\ auths = <<>>
  /\ google = [r \in Resource |-> [status |-> "none", auth |-> NoAuth]]
  /\ jobOn = [r \in Resource |-> FALSE]
  /\ linked = {}
  /\ source = [r \in Resource |-> 1]
  /\ data = [r \in Resource |-> 0] /\ reviews = [r \in Resource |-> 0]
  /\ cursor = [r \in Resource |-> 0]
  /\ flow = [f \in Flow |-> NoFlow]
  /\ sync = [s \in Sync |-> NoSync]
  /\ googleFaults = 0

-----------------------------------------------------------------------------
(* Google itself: its data changes, and access tokens run out.             *)

SourceChanges(r) ==
  /\ source[r] < MaxVersion
  /\ source' = [source EXCEPT ![r] = @ + 1]
  /\ UNCHANGED <<states, auths, google, jobOn, linked, data, reviews, cursor,
                 flow, sync, googleFaults>>

TokenExpires(a) ==
  /\ a \in DOMAIN auths /\ ~ auths[a].expired
  /\ auths' = [auths EXCEPT ![a].expired = TRUE]
  /\ UNCHANGED <<states, google, jobOn, linked, source, data, reviews, cursor,
                 flow, sync, googleFaults>>

-----------------------------------------------------------------------------
(* GoogleService: authorization and automatic connection.                  *)

BeginGoogle(s) ==
  /\ states[s] = "none"
  /\ states' = [states EXCEPT ![s] = "pending"]
  /\ UNCHANGED <<auths, google, jobOn, linked, source, data, reviews, cursor,
                 flow, sync, googleFaults>>

ConsumeGoogle(f, s) ==
  /\ flow[f].pc = "idle" /\ states[s] = "pending"
  /\ states' = [states EXCEPT ![s] = "consumed"]
  /\ flow' = [flow EXCEPT ![f] = [NoFlow EXCEPT !.pc = "exchange"]]
  /\ UNCHANGED <<auths, google, jobOn, linked, source, data, reviews, cursor,
                 sync, googleFaults>>

NewAuthorization == Len(auths) + 1

(* The code is exchanged and the authorization stored.                     *)
StoreAuthorization(f) ==
  /\ flow[f].pc = "exchange" /\ Len(auths) < MaxAuthorizations
  /\ \E refreshable \in BOOLEAN :
       auths' = Append(auths, [refreshable |-> refreshable, expired |-> FALSE,
                               noted |-> FALSE, connected |-> {}])
  /\ flow' = [flow EXCEPT ![f].pc = "discover", ![f].auth = NewAuthorization]
  /\ UNCHANGED <<states, google, jobOn, linked, source, data, reviews, cursor,
                 sync, googleFaults>>

(* discoverProvider: a request Google does not answer is a warning, and    *)
(* the resources of that provider, or of that account, are not found.      *)
Answering == SUBSET GoogleProvider

(* discoverResources: what the providers that answer list.                 *)
Discovered(answering) ==
  SUBSET {r \in Resource : ProviderOf[r] \in answering}

(* The matchers: at most one resource of each provider, by its name or its *)
(* domain, and without question the only one there is.                     *)
Chosen(found) ==
  {todo \in SUBSET found : \A p \in GoogleProvider :
     LET listed == {r \in found : ProviderOf[r] = p}
         taken == listed \intersect todo
     IN  Cardinality(taken) <= 1 /\ (Cardinality(listed) = 1 => taken = listed)}

(* autoConnectResources, up to its loop.                                   *)
DiscoverAndMatch(f) ==
  /\ flow[f].pc = "discover"
  /\ \E answering \in Answering : \E found \in Discovered(answering) :
       \E todo \in Chosen(found) :
         flow' = [flow EXCEPT ![f].pc = "connect", ![f].todo = todo]
  /\ UNCHANGED <<states, auths, google, jobOn, linked, source, data, reviews,
                 cursor, sync, googleFaults>>

(* connectResource: the integration of the resource, its event and its     *)
(* job, in one transaction.                                                *)
Linked(r, a) == [status |-> "connected", auth |-> a]

ConnectResource(r, a) ==
  /\ google' = [google EXCEPT ![r] = Linked(r, a)]
  /\ jobOn' = [jobOn EXCEPT ![r] = TRUE]
  /\ linked' = linked \union {<<a, r>>}

ConnectMatched(f) ==
  /\ flow[f].pc = "connect"
  /\ \E r \in flow[f].todo :
       /\ ConnectResource(r, flow[f].auth)
       /\ flow' = [flow EXCEPT ![f].todo = @ \ {r}, ![f].done = @ \union {r}]
  /\ UNCHANGED <<states, auths, source, data, reviews, cursor, sync,
                 googleFaults>>

ConnectByUser(r, a) ==
  /\ a \in DOMAIN auths /\ google[r] # Linked(r, a)
  /\ ConnectResource(r, a)
  /\ UNCHANGED <<states, auths, source, data, reviews, cursor, flow, sync,
                 googleFaults>>

(* What the callback says it connected.                                    *)
Noted(f) == flow[f].done

NoteConnected(f) ==
  /\ flow[f].pc = "connect" /\ flow[f].todo = {}
  /\ auths' = [auths EXCEPT ![flow[f].auth].noted = TRUE,
                            ![flow[f].auth].connected = Noted(f)]
  /\ flow' = [flow EXCEPT ![f] = NoFlow]
  /\ UNCHANGED <<states, google, jobOn, linked, source, data, reviews, cursor,
                 sync, googleFaults>>

(* The exchange or the discovery throws, or the process dies: what was     *)
(* stored and connected so far stays.                                      *)
FlowFails(f) ==
  /\ flow[f].pc # "idle" /\ googleFaults < MaxGoogleFaults
  /\ flow' = [flow EXCEPT ![f] = NoFlow]
  /\ googleFaults' = googleFaults + 1
  /\ UNCHANGED <<states, auths, google, jobOn, linked, source, data, reviews,
                 cursor, sync>>

(* IntegrationService.disconnect: the authorization and the job stay.      *)
DisconnectGoogle(r) ==
  /\ google[r].status = "connected" /\ googleFaults < MaxGoogleFaults
  /\ google' = [google EXCEPT ![r].status = "revoked"]
  /\ googleFaults' = googleFaults + 1
  /\ UNCHANGED <<states, auths, jobOn, linked, source, data, reviews, cursor,
                 flow, sync>>

-----------------------------------------------------------------------------
(* GoogleSyncService.sync.                                                 *)

(* The job of a resource, whatever the status of its integration, or a     *)
(* user: the integration is read.                                          *)
SyncBegin(s, r) ==
  /\ sync[s].pc = "idle" /\ google[r].auth # NoAuth
  /\ sync' = [sync EXCEPT ![s] = [NoSync EXCEPT
       !.pc = "token", !.res = r, !.auth = google[r].auth]]
  /\ UNCHANGED <<states, auths, google, jobOn, linked, source, data, reviews,
                 cursor, flow, googleFaults>>

(* GoogleTokenService.accessToken: an expired token is refreshed under the *)
(* authorization's lock; Google sends no new refresh token, the old stays. *)
Refreshed(a) == [a EXCEPT !.expired = FALSE]

AccessToken(s) ==
  LET a == sync[s].auth IN
  /\ sync[s].pc = "token"
  /\ auths[a].expired => auths[a].refreshable
  /\ auths' = IF auths[a].expired
              THEN [auths EXCEPT ![a] = Refreshed(@)] ELSE auths
  /\ sync' = [sync EXCEPT ![s].pc = "fetch"]
  /\ UNCHANGED <<states, google, jobOn, linked, source, data, reviews, cursor,
                 flow, googleFaults>>

Fetch(s) ==
  /\ sync[s].pc = "fetch"
  /\ sync' = [sync EXCEPT ![s].version = source[sync[s].res],
       ![s].pc = IF sync[s].res \in Reviewed THEN "reviews" ELSE "persist"]
  /\ UNCHANGED <<states, auths, google, jobOn, linked, source, data, reviews,
                 cursor, flow, googleFaults>>

(* syncGbpReviews: upserted before, and apart from, the transaction.       *)
ReviewsStored(s, old) == source[sync[s].res]

SyncReviews(s) ==
  /\ sync[s].pc = "reviews"
  /\ reviews' = [reviews EXCEPT ![sync[s].res] = ReviewsStored(s, @)]
  /\ sync' = [sync EXCEPT ![s].pc = "persist"]
  /\ UNCHANGED <<states, auths, google, jobOn, linked, source, data, cursor,
                 flow, googleFaults>>

(* The rows of days already stored are overwritten.                        *)
Stored(s, old) == sync[s].version

Persist(s) ==
  LET r == sync[s].res IN
  /\ sync[s].pc = "persist"
  /\ data' = [data EXCEPT ![r] = Stored(s, @)]
  /\ cursor' = [cursor EXCEPT ![r] = sync[s].version]
  /\ google' = [google EXCEPT ![r].status = "connected"]
  /\ sync' = [sync EXCEPT ![s] = NoSync]
  /\ UNCHANGED <<states, auths, jobOn, linked, source, reviews, flow,
                 googleFaults>>

(* An expired token that cannot be refreshed, or any error of Google's:    *)
(* the job fails, and is attempted again or due again tomorrow.            *)
SyncFails(s) ==
  /\ sync[s].pc \in {"token", "fetch", "reviews"}
  /\ sync' = [sync EXCEPT ![s] = NoSync]
  /\ UNCHANGED <<states, auths, google, jobOn, linked, source, data, reviews,
                 cursor, flow, googleFaults>>

-----------------------------------------------------------------------------
SyncStep(s) ==
  AccessToken(s) \/ Fetch(s) \/ SyncReviews(s) \/ Persist(s) \/ SyncFails(s)

FlowStep(f) ==
  StoreAuthorization(f) \/ DiscoverAndMatch(f) \/ ConnectMatched(f)
    \/ NoteConnected(f)

GoogleNext ==
  \/ \E r \in Resource :
       \/ SourceChanges(r)
       \/ DisconnectGoogle(r)
       \/ \E a \in Authorization : ConnectByUser(r, a)
  \/ \E a \in Authorization : TokenExpires(a)
  \/ \E s \in GoogleState : BeginGoogle(s)
  \/ \E f \in Flow :
       \/ \E s \in GoogleState : ConsumeGoogle(f, s)
       \/ FlowStep(f)
       \/ FlowFails(f)
  \/ \E s \in Sync :
       \/ \E r \in Resource : SyncBegin(s, r)
       \/ SyncStep(s)

(* The scheduler starts an enabled job again and again, a sync goes on     *)
(* until it ends, and Google now and then answers each kind of request.    *)
GoogleFairness ==
  /\ \A s \in Sync :
       /\ WF_googleVars(SyncStep(s))
       /\ SF_googleVars(AccessToken(s))
       /\ SF_googleVars(Fetch(s))
       /\ SF_googleVars(SyncReviews(s))
  /\ \A s \in Sync, r \in Resource :
       SF_googleVars(jobOn[r] /\ SyncBegin(s, r))

GoogleSpec == GoogleInit /\ [][GoogleNext]_googleVars /\ GoogleFairness

-----------------------------------------------------------------------------
(* The sync state tells which data is stored, in whatever order overlapping *)
(* syncs of one resource commit: an older answer that commits last takes    *)
(* the cursor back with the data.                                          *)
CursorTellsData == \A r \in Resource : cursor[r] = data[r]

(* What an authorization says was connected under it was connected under   *)
(* it - by its own callback, whatever users connected meanwhile.           *)
NotedWasLinked ==
  \A a \in DOMAIN auths : \A r \in auths[a].connected : <<a, r>> \in linked

(* Once a resource stays connected under an authorization that can be      *)
(* refreshed and Google's data stays as it is, what is stored becomes that *)
(* data and stays so, whatever older answers were still under way, tokens  *)
(* expire and syncs fail.                                                  *)
DataCatchesUp ==
  \A r \in Resource :
    <>[](\E a \in DOMAIN auths : google[r].auth = a /\ auths[a].refreshable)
      => <>[](/\ data[r] = source[r]
              /\ r \in Reviewed => reviews[r] = source[r])
=============================================================================
