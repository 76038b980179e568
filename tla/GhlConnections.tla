--------------------------- MODULE GhlConnections ---------------------------
(***************************************************************************)
(* GoHighLevel connections: which organization owns a location, and the    *)
(* credentials stored for it.                                              *)
(*                                                                         *)
(* A callback is one HTTP request: a completed OAuth authorization, an     *)
(* installation GoHighLevel started itself (of one location, or of every   *)
(* location of an agency, one after the other), or a private token typed   *)
(* in by a user.  It resolves the organization, and connects in a          *)
(* transaction that holds the location's advisory lock.  Callers that need *)
(* an access token refresh it in a transaction that holds the              *)
(* integration's advisory lock - another one - with the provider's answer  *)
(* awaited inside.  Users disconnect at any time.                          *)
(*                                                                         *)
(* The integration row of a location lives and dies with the location's    *)
(* row (ON DELETE CASCADE), and ghl_location_id is unique: one record per  *)
(* location, whose id tells a recreated integration from the old one.      *)
(* A token stands for an access and refresh token pair; the provider       *)
(* rotates the refresh token each time it is used.                         *)
(***************************************************************************)
EXTENDS Integers, FiniteSets

CONSTANTS
  Org, NoOrg,     \* organizations
  Location, NoLoc,\* GoHighLevel locations
  SlugOrg,        \* the organization whose slug is derived of a location
  OauthState,     \* states handed out by beginAuthorization
  StateOrg,       \* the organization each was handed to
  NoState,
  Callback,       \* overlapping requests that connect
  Caller,         \* overlapping requests that need an access token
  MaxTokens,      \* bound on the token pairs the provider issues
  MaxCallbacks,   \* bound on requests that connect
  MaxLost         \* bound on refreshes whose outcome is lost

Token == 1..MaxTokens
NoCred  == 0      \* encrypted_credentials IS NULL
Private == -1     \* a private integration token: never expires

ASSUME GhlAssumption ==
  /\ MaxTokens \in Nat /\ MaxCallbacks \in Nat /\ MaxLost \in Nat
  /\ NoOrg \notin Org /\ NoLoc \notin Location /\ NoState \notin OauthState
  /\ SlugOrg \in [Location -> Org] /\ StateOrg \in [OauthState -> Org]

VARIABLES
  oauth,      \* oauth_states: pending or consumed
  exchanged,  \* authorization codes exchanged under each state
  owner,      \* ghl_locations: the organization of each location
  integ,      \* the integration row: its id, status, credentials, expiry
  callback,   \* where each connecting request is
  refresh,    \* where each refresh is
  issued,     \* token pairs issued so far
  grantee,    \* organization and location each token pair was stored for
  presented,  \* times each refresh token was presented to the provider
  revived,    \* locations whose revoked integration a refresh set connected
  callbacks,  \* requests that connected so far
  lostRefreshes \* refreshes whose outcome was lost

ghlVars ==
  <<oauth, exchanged, owner, integ, callback, refresh, issued, grantee,
    presented, revived, callbacks, lostRefreshes>>

NoRow == [id |-> 0, status |-> "none", cred |-> NoCred, expired |-> FALSE]
AtRest == [pc |-> "idle", org |-> NoOrg, state |-> NoState, todo |-> {},
           failed |-> {}, installed |-> {}, loc |-> NoLoc, cred |-> NoCred,
           retire |-> FALSE]
NoRefresh == [loc |-> NoLoc, id |-> 0, cred |-> NoCred]

GhlTypeOK ==
  /\ oauth \in [OauthState -> {"none", "pending", "consumed"}]
  /\ exchanged \in [OauthState -> Nat]
  /\ owner \in [Location -> Org \union {NoOrg}]
  /\ integ \in [Location ->
       [id : Nat, status : {"none", "connected", "revoked"},
        cred : Token \union {NoCred, Private}, expired : BOOLEAN]]
  /\ callback \in [Callback ->
       [pc : {"idle", "exchange", "pick", "resolve", "connect", "commit"},
        org : Org \union {NoOrg}, state : OauthState \union {NoState},
        todo : SUBSET Location, failed : SUBSET Location,
        installed : SUBSET Location, loc : Location \union {NoLoc},
        cred : Token \union {NoCred, Private}, retire : BOOLEAN]]
  /\ refresh \in [Caller ->
       [loc : Location \union {NoLoc}, id : Nat, cred : Token \union {NoCred}]]
  /\ issued \in 0..MaxTokens
  /\ grantee \in [Token -> (Org \X Location) \union {NoOrg}]
  /\ presented \in [Token -> Nat]
  /\ revived \subseteq Location
  /\ callbacks \in 0..MaxCallbacks /\ lostRefreshes \in 0..MaxLost
  /\ \A l \in Location : owner[l] = NoOrg <=> integ[l].status = "none"
  /\ \A f \in Callback :
       /\ callback[f].loc # NoLoc
            <=> callback[f].pc \in {"resolve", "connect", "commit"}
       /\ callback[f].todo # {} => callback[f].pc # "idle"

GhlInit ==
  /\ oauth = [s \in OauthState |-> "none"]
  /\ exchanged = [s \in OauthState |-> 0]
  /\ owner = [l \in Location |-> NoOrg]
  /\ integ = [l \in Location |-> NoRow]
  /\ callback = [f \in Callback |-> AtRest]
  /\ refresh = [c \in Caller |-> NoRefresh]
  /\ issued = 0
  /\ grantee = [t \in Token |-> NoOrg]
  /\ presented = [t \in Token |-> 0]
  /\ revived = {} /\ callbacks = 0 /\ lostRefreshes = 0

-----------------------------------------------------------------------------
(* GhlOauthService.                                                        *)

BeginAuthorization(s) ==
  /\ oauth[s] = "none"
  /\ oauth' = [oauth EXCEPT ![s] = "pending"]
  /\ UNCHANGED <<exchanged, owner, integ, callback, refresh, issued, grantee,
                 presented, revived, callbacks, lostRefreshes>>

(* A callback that brings a state: SELECT ... FOR UPDATE of a pending,     *)
(* unexpired state and its consumption are one transaction.  A state that  *)
(* expires is never found again, as one that nobody brings back.           *)
Consumable(s) == oauth[s] = "pending"

ConsumeState(f, s) ==
  /\ callback[f].pc = "idle" /\ callbacks < MaxCallbacks
  /\ Consumable(s)
  /\ oauth' = [oauth EXCEPT ![s] = "consumed"]
  /\ callback' = [callback EXCEPT ![f] =
       [AtRest EXCEPT !.pc = "exchange", !.org = StateOrg[s], !.state = s]]
  /\ callbacks' = callbacks + 1
  /\ UNCHANGED <<exchanged, owner, integ, refresh, issued, grantee, presented,
                 revived, lostRefreshes>>

(* A callback without a state: an installation from the marketplace.       *)
BeginInstall(f) ==
  /\ callback[f].pc = "idle" /\ callbacks < MaxCallbacks
  /\ callback' = [callback EXCEPT ![f] = [AtRest EXCEPT !.pc = "exchange"]]
  /\ callbacks' = callbacks + 1
  /\ UNCHANGED <<oauth, exchanged, owner, integ, refresh, issued, grantee,
                 presented, revived, lostRefreshes>>

(* connectGhl: the private token of a location, typed in by a user.        *)
BeginPrivate(f, o, l) ==
  /\ callback[f].pc = "idle" /\ callbacks < MaxCallbacks
  /\ callback' = [callback EXCEPT ![f] =
       [AtRest EXCEPT !.pc = "connect", !.org = o, !.todo = {l}, !.loc = l,
                      !.cred = Private]]
  /\ callbacks' = callbacks + 1
  /\ UNCHANGED <<oauth, exchanged, owner, integ, refresh, issued, grantee,
                 presented, revived, lostRefreshes>>

(* What listCompanyLocations finds: its pages end at the first that brings *)
(* less than it asked for, so that any of the locations may be missing.    *)
Listed == (SUBSET Location) \ {{}}

(* adapter.exchangeCode: the one location of its token, or those listed    *)
(* for an agency, each to be connected under a token pair of its own.      *)
ExchangeCode(f) ==
  /\ callback[f].pc = "exchange"
  /\ exchanged' = IF callback[f].state = NoState THEN exchanged
                  ELSE [exchanged EXCEPT ![callback[f].state] = @ + 1]
  /\ \E found \in Listed :
       /\ callback[f].state # NoState => Cardinality(found) = 1
       /\ callback' = [callback EXCEPT ![f] =
            [@ EXCEPT !.pc = "pick", !.todo = found]]
  /\ UNCHANGED <<oauth, owner, integ, refresh, issued, grantee, presented,
                 revived, callbacks, lostRefreshes>>

(* The code is refused, or no location is found.                           *)
ExchangeFails(f) ==
  /\ callback[f].pc = "exchange"
  /\ callback' = [callback EXCEPT ![f] = AtRest]
  /\ exchanged' = IF callback[f].state = NoState THEN exchanged
                  ELSE [exchanged EXCEPT ![callback[f].state] = @ + 1]
  /\ UNCHANGED <<oauth, owner, integ, refresh, issued, grantee, presented,
                 revived, callbacks, lostRefreshes>>

-----------------------------------------------------------------------------
(* IntegrationService.installGhlOauth and connectGhlCredentials.           *)

(* The next location's token (ghl.locationToken, or the code's own).       *)
PickLocation(f) ==
  /\ callback[f].pc = "pick" /\ issued < MaxTokens
  /\ \E l \in callback[f].todo :
       callback' = [callback EXCEPT ![f] =
         [@ EXCEPT !.loc = l, !.cred = issued + 1,
                   !.pc = IF callback[f].state = NoState THEN "resolve" ELSE "connect"]]
  /\ issued' = issued + 1
  /\ UNCHANGED <<oauth, exchanged, owner, integ, refresh, grantee, presented,
                 revived, callbacks, lostRefreshes>>

(* The transaction that finds the organization of an installed location,   *)
(* or upserts the one its slug names.  Its lock is released with it.       *)
ResolveOrganization(f) ==
  /\ callback[f].pc = "resolve"
  /\ \A g \in Callback : ~ (callback[g].pc = "commit"
                            /\ callback[g].loc = callback[f].loc)
  /\ callback' = [callback EXCEPT ![f] =
       [@ EXCEPT !.pc = "connect",
                 !.org = IF owner[callback[f].loc] # NoOrg
                         THEN owner[callback[f].loc] ELSE SlugOrg[callback[f].loc]]]
  /\ UNCHANGED <<oauth, exchanged, owner, integ, refresh, issued, grantee,
                 presented, revived, callbacks, lostRefreshes>>

(* What the request does after the location in hand: the next one of the   *)
(* agency, or its answer.                                                  *)
AfterKeepsLocation(cb, done, bad) ==
  LET left == cb.todo \ {cb.loc}
  IN  [cb EXCEPT !.pc = IF left = {} THEN "idle" ELSE "pick",
                 !.todo = left, !.cred = NoCred,
                 !.org = IF cb.state = NoState THEN NoOrg ELSE cb.org,
                 !.retire = FALSE,
                 !.installed = @ \union done, !.failed = @ \union bad]
After(cb, done, bad) ==
  LET left == cb.todo \ {cb.loc}
  IN  [cb EXCEPT !.pc = IF left = {} THEN "idle" ELSE "pick",
                 !.todo = left, !.loc = NoLoc, !.cred = NoCred,
                 !.org = IF cb.state = NoState THEN NoOrg ELSE cb.org,
                 !.retire = FALSE,
                 !.installed = @ \union done, !.failed = @ \union bad]

(* Any error of one location - its token, getLocation, a conflict - is     *)
(* collected, and the agency's other locations are still installed.        *)
Failed(cb) == After(cb, {}, {cb.loc})

LocationFails(f) ==
  /\ \/ callback[f].pc \in {"resolve", "connect"}
        /\ callback' = [callback EXCEPT ![f] = Failed(@)]
     \/ callback[f].pc = "pick"
        /\ \E l \in callback[f].todo :
             callback' = [callback EXCEPT ![f] = Failed([@ EXCEPT !.loc = l])]
  /\ UNCHANGED <<oauth, exchanged, owner, integ, refresh, issued, grantee,
                 presented, revived, callbacks, lostRefreshes>>

(* The status of another organization's mapping that stops a connection.   *)
Stops(status) == status = "connected"

(* pg_advisory_xact_lock of the location: one transaction at a time.       *)
LocationFree(l) ==
  \A g \in Callback : ~ (callback[g].pc = "commit" /\ callback[g].loc = l)

(* The connecting transaction reads who occupies the location.             *)
ConnectSelect(f) ==
  LET l == callback[f].loc
      occupied == owner[l] \notin {NoOrg, callback[f].org}
  IN  /\ callback[f].pc = "connect" /\ LocationFree(l)
      /\ callback' =
           IF occupied /\ Stops(integ[l].status)
           THEN [callback EXCEPT ![f] = Failed(@)]
           ELSE [callback EXCEPT ![f] = [@ EXCEPT !.pc = "commit", !.retire = occupied]]
      /\ UNCHANGED <<oauth, exchanged, owner, integ, refresh, issued, grantee,
                     presented, revived, callbacks, lostRefreshes>>

(* It deletes an obsolete mapping with its integration, upserts the        *)
(* location and the integration under its stable id, publishes, commits.   *)
(* Provisioning of the dashboard follows and cannot undo it.               *)
ConnectCommit(f) ==
  LET l == callback[f].loc
      o == callback[f].org
      retired == callback[f].retire
      fresh == retired \/ owner[l] = NoOrg
  IN  /\ callback[f].pc = "commit"
      /\ owner' = [owner EXCEPT ![l] = o]
      /\ integ' = [integ EXCEPT ![l] =
           [id |-> IF fresh THEN @.id + 1 ELSE @.id, status |-> "connected",
            cred |-> callback[f].cred, expired |-> FALSE]]
      /\ grantee' = IF callback[f].cred = Private THEN grantee
                    ELSE [grantee EXCEPT ![callback[f].cred] = <<o, l>>]
      /\ revived' = revived \ {l}
      /\ callback' = [callback EXCEPT ![f] = After(@, {l}, {})]
      /\ UNCHANGED <<oauth, exchanged, refresh, issued, presented, callbacks,
                     lostRefreshes>>

-----------------------------------------------------------------------------
(* GhlTokenService.credentials.                                            *)

(* The access token is within five minutes of its end.                     *)
Expire(l) ==
  /\ integ[l].cred \in Token /\ ~ integ[l].expired
  /\ integ' = [integ EXCEPT ![l] = [@ EXCEPT !.expired = TRUE]]
  /\ UNCHANGED <<oauth, exchanged, owner, callback, refresh, issued, grantee,
                 presented, revived, callbacks, lostRefreshes>>

RefreshUnlocked(c, l) == TRUE
RefreshFree(c, l) ==
  \A d \in Caller : ~ (refresh[d].loc = l /\ refresh[d].id = integ[l].id)

(* Under the integration's lock the row is read again; only an expired     *)
(* pair is refreshed, and the provider is called inside the transaction.   *)
RefreshBegin(c, l) ==
  /\ refresh[c] = NoRefresh /\ RefreshFree(c, l)
  /\ integ[l].cred \in Token /\ integ[l].expired
  /\ refresh' = [refresh EXCEPT ![c] =
       [loc |-> l, id |-> integ[l].id, cred |-> integ[l].cred]]
  /\ presented' = [presented EXCEPT ![integ[l].cred] = @ + 1]
  /\ UNCHANGED <<oauth, exchanged, owner, integ, callback, issued, grantee,
                 revived, callbacks, lostRefreshes>>

(* The row the UPDATE finds: by id alone.                                  *)
Finds(c) == integ[refresh[c].loc].id = refresh[c].id

RefreshCommit(c) ==
  LET l == refresh[c].loc IN
  /\ refresh[c] # NoRefresh /\ issued < MaxTokens
  /\ issued' = issued + 1
  /\ grantee' = [grantee EXCEPT ![issued + 1] = grantee[refresh[c].cred]]
  /\ IF Finds(c)
     THEN /\ integ' = [integ EXCEPT ![l] =
               [@ EXCEPT !.status = "connected", !.cred = issued + 1, !.expired = FALSE]]
          /\ revived' = IF integ[l].status = "revoked"
                        THEN revived \union {l} ELSE revived
     ELSE UNCHANGED <<integ, revived>>
  /\ refresh' = [refresh EXCEPT ![c] = NoRefresh]
  /\ UNCHANGED <<oauth, exchanged, owner, callback, presented, callbacks,
                 lostRefreshes>>

(* The provider's answer, the process or the commit is lost: the stored    *)
(* refresh token is the one already presented.                             *)
RefreshLost(c) ==
  /\ refresh[c] # NoRefresh /\ lostRefreshes < MaxLost
  /\ refresh' = [refresh EXCEPT ![c] = NoRefresh]
  /\ lostRefreshes' = lostRefreshes + 1
  /\ UNCHANGED <<oauth, exchanged, owner, integ, callback, issued, grantee,
                 presented, revived, callbacks>>

-----------------------------------------------------------------------------
(* IntegrationService.disconnect.                                          *)

Revoked(row) ==
  [row EXCEPT !.status = "revoked", !.cred = NoCred, !.expired = FALSE]

Disconnect(l) ==
  /\ integ[l].status = "connected"
  /\ integ' = [integ EXCEPT ![l] = Revoked(@)]
  /\ revived' = revived \ {l}
  /\ UNCHANGED <<oauth, exchanged, owner, callback, refresh, issued, grantee,
                 presented, callbacks, lostRefreshes>>

-----------------------------------------------------------------------------
CallbackStep(f) ==
  \/ ExchangeCode(f) \/ ExchangeFails(f)
  \/ PickLocation(f) \/ LocationFails(f)
  \/ ResolveOrganization(f)
  \/ ConnectSelect(f) \/ ConnectCommit(f)

GhlNext ==
  \/ \E s \in OauthState : BeginAuthorization(s)
  \/ \E f \in Callback :
       \/ \E s \in OauthState : ConsumeState(f, s)
       \/ BeginInstall(f)
       \/ \E o \in Org, l \in Location : BeginPrivate(f, o, l)
       \/ CallbackStep(f)
  \/ \E l \in Location : Expire(l) \/ Disconnect(l)
  \/ \E c \in Caller :
       \/ \E l \in Location : RefreshBegin(c, l)
       \/ RefreshCommit(c)
       \/ RefreshLost(c)

GhlSpec == GhlInit /\ [][GhlNext]_ghlVars

-----------------------------------------------------------------------------
(* A code is exchanged at most once under a state, however many callbacks  *)
(* bring it.                                                               *)
StateUsedOnce == \A s \in OauthState : exchanged[s] <= 1

(* A connected integration has credentials and a revoked one has none,     *)
(* also when a refresh that was in flight revives it.                      *)
ConnectedHasCredentials ==
  \A l \in Location : integ[l].status = "connected" <=> integ[l].cred # NoCred

(* The credentials stored for a location were obtained for the             *)
(* organization that owns it: a refresh that outlives the mapping writes   *)
(* nothing into the next owner's integration.                              *)
CredentialsFit ==
  \A l \in Location :
    integ[l].cred \in Token => grantee[integ[l].cred] = <<owner[l], l>>

(* A refresh token is presented to the provider once, unless the outcome   *)
(* of a refresh was lost.                                                  *)
PresentedOnce == \A t \in Token : presented[t] <= 1 + lostRefreshes

(* A live mapping is never taken from its organization - unless it was     *)
(* revoked and a refresh in flight set it connected again.                 *)
LiveMappingKept ==
  [][\A l \in Location :
       owner'[l] # owner[l] /\ integ[l].status = "connected"
         => l \in revived]_ghlVars

(* One location of an agency that fails does not keep the others from      *)
(* being tried: a request that has answered has installed or collected     *)
(* every location it found.                                                *)
EveryLocationTried ==
  [][\A f \in Callback :
       callback[f].pc \notin {"idle", "exchange"} /\ callback'[f].pc = "idle"
         => callback'[f].installed \union callback'[f].failed
              = callback[f].todo \union callback[f].installed
                  \union callback[f].failed]_ghlVars
=============================================================================
