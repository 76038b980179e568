----------------------------- MODULE TenantsProofs -----------------------------
(***************************************************************************)
(* Proofs about tenants and their limits: the tenancy of GoHighLevel       *)
(* connections, webhooks and dashboard keys, the members of organizations, *)
(* the website assistant, and the budgets and competitors that are         *)
(* limited, each for every interleaving of its actions and every value of  *)
(* the constants.                                                          *)
(***************************************************************************)
EXTENDS GhlConnections, Webhooks, DashboardKeys, Access, MarketingChat,
        ModelBudget, SeoComparison, FiniteSetTheorems, TLAPS

-----------------------------------------------------------------------------
(* GoHighLevel connections and their tokens.                               *)

Cred == Token \union {NoCred, Private}
IntegRecord ==
  [id : Nat, status : {"none", "connected", "revoked"}, cred : Cred, expired : BOOLEAN]
CallbackRecord ==
  [pc : {"idle", "exchange", "pick", "resolve", "connect", "commit"},
   org : Org \union {NoOrg}, state : OauthState \union {NoState},
   todo : SUBSET Location, failed : SUBSET Location,
   installed : SUBSET Location, loc : Location \union {NoLoc},
   cred : Cred, retire : BOOLEAN]
RefreshRecord == [loc : Location, id : Nat, cred : Token]

GhlTypes ==
  /\ oauth \in [OauthState -> {"none", "pending", "consumed"}]
  /\ exchanged \in [OauthState -> Nat]
  /\ owner \in [Location -> Org \union {NoOrg}]
  /\ integ \in [Location -> IntegRecord]
  /\ callback \in [Callback -> CallbackRecord]
  /\ refresh \in [Caller -> {NoRefresh} \union RefreshRecord]
  /\ issued \in 0..MaxTokens
  /\ grantee \in [Token -> (Org \X Location) \union {NoOrg}]
  /\ presented \in [Token -> Nat]
  /\ revived \subseteq Location
  /\ callbacks \in 0..MaxCallbacks /\ lostRefreshes \in 0..MaxLost

(* One callback at most has consumed a state, and exchanges under it once. *)
Exchanging(f, s) == callback[f].pc = "exchange" /\ callback[f].state = s
StateInv(s) ==
  /\ exchanged[s] <= 1
  /\ oauth[s] # "consumed" => exchanged[s] = 0 /\ \A f \in Callback : ~ Exchanging(f, s)
  /\ \A f \in Callback : Exchanging(f, s) => exchanged[s] = 0
  /\ \A f, g \in Callback : Exchanging(f, s) /\ Exchanging(g, s) => f = g

(* What a callback holds where it is.                                      *)
Connecting == {"resolve", "connect", "commit"}
CallbackHolds(cb) ==
  /\ cb.loc # NoLoc <=> cb.pc \in Connecting
  /\ cb.pc = "idle" => cb.todo = {}
  /\ cb.pc \in Connecting => cb.cred # NoCred /\ cb.loc \in cb.todo
  /\ cb.pc \notin Connecting => cb.cred = NoCred
  /\ cb.pc \in {"connect", "commit"} => cb.org \in Org
  /\ cb.state # NoState /\ cb.pc # "idle" => cb.org \in Org
(* What a connecting transaction read is still so: it holds the location.  *)
CommitInv(f) ==
  callback[f].pc = "commit" =>
    LET l == callback[f].loc IN
    /\ callback[f].retire <=> owner[l] \notin {NoOrg, callback[f].org}
    /\ callback[f].retire /\ integ[l].status = "connected" => l \in revived
Committing(f, l) == callback[f].pc = "commit" /\ callback[f].loc = l
OneCommits ==
  \A l \in Location : \A f, g \in Callback : Committing(f, l) /\ Committing(g, l) => f = g

(* A token pair in a callback's hand is nobody else's, and was not used.   *)
InHandInv(f) ==
  LET t == callback[f].cred IN
  t \in Token =>
    /\ t <= issued /\ presented[t] = 0
    /\ \A g \in Callback : callback[g].cred = t => g = f
    /\ \A l \in Location : integ[l].cred # t
    /\ \A c \in Caller : refresh[c].cred # t

Refreshing(l) == \E d \in Caller : refresh[d].loc = l /\ refresh[d].id = integ[l].id
RowInv(l) ==
  LET t == integ[l].cred IN
  /\ owner[l] = NoOrg <=> integ[l].status = "none"
  /\ integ[l].status = "connected" <=> t # NoCred
  /\ t \in Token =>
       /\ t <= issued /\ grantee[t] = <<owner[l], l>>
       /\ Refreshing(l) \/ presented[t] <= lostRefreshes
(* A refresh knows the row it read by its id: while a row has the id, it   *)
(* belongs to whom the refreshed pair was granted.                         *)
RefreshInv(c) ==
  LET l == refresh[c].loc IN
  refresh[c] \in RefreshRecord =>
    /\ refresh[c].cred <= issued /\ owner[l] # NoOrg /\ refresh[c].id <= integ[l].id
    /\ refresh[c].id = integ[l].id => grantee[refresh[c].cred] = <<owner[l], l>>
TokenInv(t) ==
  /\ presented[t] <= 1 + lostRefreshes
  /\ t > issued => presented[t] = 0

GhlInv ==
  /\ GhlTypes
  /\ \A s \in OauthState : StateInv(s)
  /\ \A f \in Callback : CallbackHolds(callback[f]) /\ CommitInv(f) /\ InHandInv(f)
  /\ OneCommits
  /\ \A l \in Location : RowInv(l)
  /\ \A c \in Caller : RefreshInv(c)
  /\ \A t \in Token : TokenInv(t)

LEMMA TokenNumbers ==
  /\ \A t \in Token : t \in Nat /\ t # 0
  /\ NoCred \notin Token /\ Private \notin Token
  /\ NoCred # Private /\ Token \subseteq Cred /\ NoCred \in Cred /\ Private \in Cred
BY GhlAssumption DEF Token, NoCred, Private, Cred

LEMMA AtRestHolds ==
  /\ AtRest \in CallbackRecord /\ CallbackHolds(AtRest)
  /\ AtRest.pc = "idle" /\ AtRest.cred = NoCred
<1>1. FALSE \in BOOLEAN
  OBVIOUS
<1> QED
  BY <1>1, GhlAssumption, TokenNumbers DEF AtRest, CallbackRecord, CallbackHolds, Connecting

LEMMA NoRefreshIsNone == NoRefresh \notin RefreshRecord /\ NoRefresh.loc = NoLoc /\ NoRefresh.cred = NoCred
BY GhlAssumption DEF NoRefresh, RefreshRecord

LEMMA GhlInitInv == GhlInit => GhlInv
<1> SUFFICES ASSUME GhlInit PROVE GhlInv
  OBVIOUS
<1>1. MaxTokens \in Nat /\ MaxCallbacks \in Nat /\ MaxLost \in Nat
  BY GhlAssumption
<1>2. NoRow \in IntegRecord
  <2>1. FALSE \in BOOLEAN
    OBVIOUS
  <2> QED
    BY <2>1, TokenNumbers DEF NoRow, IntegRecord
<1>3. GhlTypes
  BY <1>1, <1>2, AtRestHolds DEF GhlInit, GhlTypes
<1>4. \A f \in Callback : callback[f] = AtRest
  BY DEF GhlInit
<1>5. \A f \in Callback : CallbackHolds(callback[f]) /\ CommitInv(f) /\ InHandInv(f)
  BY <1>4, AtRestHolds, TokenNumbers DEF CommitInv, InHandInv
<1>6. OneCommits /\ \A s \in OauthState : StateInv(s)
  BY <1>4, AtRestHolds DEF GhlInit, OneCommits, Committing, StateInv, Exchanging
<1>7. \A l \in Location : RowInv(l)
  BY TokenNumbers DEF GhlInit, RowInv, NoRow
<1>8. \A c \in Caller : RefreshInv(c)
  BY NoRefreshIsNone DEF GhlInit, RefreshInv
<1>9. \A t \in Token : TokenInv(t)
  BY <1>1 DEF GhlInit, TokenInv
<1> QED
  BY <1>3, <1>5, <1>6, <1>7, <1>8, <1>9 DEF GhlInv

(* What a callback becomes.                                                *)
LEMMA AfterFields ==
  ASSUME NEW cb \in CallbackRecord, NEW done, NEW bad, NEW a, a = After(cb, done, bad)
  PROVE  /\ a.pc = IF cb.todo \ {cb.loc} = {} THEN "idle" ELSE "pick"
         /\ a.todo = cb.todo \ {cb.loc} /\ a.loc = NoLoc /\ a.cred = NoCred
         /\ a.org = IF cb.state = NoState THEN NoOrg ELSE cb.org
         /\ a.installed = cb.installed \union done
         /\ a.failed = cb.failed \union bad /\ a.state = cb.state
BY DEF After, CallbackRecord

LEMMA AfterHolds ==
  ASSUME NEW cb \in CallbackRecord, NEW done \in SUBSET Location, NEW bad \in SUBSET Location,
         cb.pc = "idle" => cb.todo = {},
         cb.state # NoState /\ cb.pc # "idle" => cb.org \in Org
  PROVE  /\ After(cb, done, bad) \in CallbackRecord
         /\ CallbackHolds(After(cb, done, bad))
<1> DEFINE a == After(cb, done, bad)
<1>1. FALSE \in BOOLEAN
  OBVIOUS
<1>2. /\ a.pc = IF cb.todo \ {cb.loc} = {} THEN "idle" ELSE "pick"
      /\ a.todo = cb.todo \ {cb.loc} /\ a.loc = NoLoc /\ a.cred = NoCred
      /\ a.org = IF cb.state = NoState THEN NoOrg ELSE cb.org
      /\ a.installed = cb.installed \union done
      /\ a.failed = cb.failed \union bad /\ a.state = cb.state
  BY AfterFields
<1>3. a \in CallbackRecord
  <2>1. PICK pc \in {"idle", "pick"} : pc = IF cb.todo \ {cb.loc} = {} THEN "idle" ELSE "pick"
    OBVIOUS
  <2>2. PICK todo \in SUBSET Location : todo = cb.todo \ {cb.loc}
    BY DEF CallbackRecord
  <2>3. PICK org \in Org \union {NoOrg} : org = IF cb.state = NoState THEN NoOrg ELSE cb.org
    BY DEF CallbackRecord
  <2>4. PICK installed \in SUBSET Location : installed = cb.installed \union done
    BY DEF CallbackRecord
  <2>5. PICK failed \in SUBSET Location : failed = cb.failed \union bad
    BY DEF CallbackRecord
  <2>6. a = [cb EXCEPT !.pc = pc, !.todo = todo, !.loc = NoLoc, !.cred = NoCred, !.org = org,
                       !.retire = FALSE, !.installed = installed, !.failed = failed]
    BY <2>1, <2>2, <2>3, <2>4, <2>5 DEF After, CallbackRecord
  <2> HIDE DEF a
  <2> QED
    BY <1>1, <2>6, TokenNumbers DEF CallbackRecord
<1>4. CallbackHolds(a)
  BY <1>2, GhlAssumption DEF CallbackHolds, Connecting, CallbackRecord
<1> QED
  BY <1>2, <1>3, <1>4

(* States of callbacks that keep to theirs, when nothing is exchanged.     *)
LEMMA StatesRest ==
  ASSUME GhlInv, UNCHANGED <<oauth, exchanged>>,
         \A f \in Callback, s \in OauthState : Exchanging(f, s)' => Exchanging(f, s)
  PROVE  \A s \in OauthState : StateInv(s)'
BY DEF GhlInv, StateInv

(* A callback goes on, without a change of what is stored.                 *)
LEMMA CallbackGoes ==
  ASSUME GhlInv, NEW f \in Callback, NEW to \in CallbackRecord, CallbackHolds(to),
         callback' = [callback EXCEPT ![f] = to],
         UNCHANGED <<owner, integ, refresh, grantee, presented, revived, lostRefreshes>>,
         issued' \in 0..MaxTokens, issued \in Nat, issued' \in {issued, issued + 1},
         callbacks' \in 0..MaxCallbacks,
         oauth' \in [OauthState -> {"none", "pending", "consumed"}],
         exchanged' \in [OauthState -> Nat],
         to.pc = "commit" =>
           /\ LocationFree(to.loc)
           /\ to.retire <=> owner[to.loc] \notin {NoOrg, to.org}
           /\ to.retire => integ[to.loc].status # "connected",
         to.cred \in Token =>
           \/ to.cred = callback[f].cred
           \/ to.cred = issued + 1 /\ issued' = issued + 1,
         \A s \in OauthState : StateInv(s)'
  PROVE  GhlInv'
<1>1. /\ callback' \in [Callback -> CallbackRecord] /\ callback'[f] = to
      /\ \A g \in Callback : g # f => callback'[g] = callback[g]
  BY DEF GhlInv, GhlTypes
<1>2. GhlTypes'
  BY <1>1 DEF GhlInv, GhlTypes
<1>3. \A g \in Callback : CallbackHolds(callback[g])'
  <2>1. \A g \in Callback : CallbackHolds(callback'[g])
    BY <1>1 DEF GhlInv
  <2> QED
    BY <2>1 DEF CallbackHolds, Connecting
<1>4. \A g \in Callback : CommitInv(g)'
  BY <1>1 DEF GhlInv, CommitInv
<1>5. OneCommits'
  BY <1>1 DEF GhlInv, OneCommits, Committing, LocationFree
<1>6. ASSUME NEW g \in Callback PROVE InHandInv(g)'
  <2>1. \A t \in Token : t \in Nat
    BY TokenNumbers
  <2>2. ASSUME to.cred = issued + 1, to.cred \in Token
        PROVE  /\ presented[to.cred] = 0
               /\ \A h \in Callback : callback[h].cred # to.cred
               /\ \A l \in Location : integ[l].cred # to.cred
               /\ \A c \in Caller : refresh[c].cred # to.cred
    <3>1. presented[to.cred] = 0
      BY <2>1, <2>2 DEF GhlInv, TokenInv
    <3>2. \A h \in Callback : callback[h].cred # to.cred
      BY <2>1, <2>2 DEF GhlInv, InHandInv
    <3>3. \A l \in Location : integ[l].cred # to.cred
      BY <2>1, <2>2 DEF GhlInv, RowInv
    <3>4. \A c \in Caller : refresh[c].cred # to.cred
      BY <2>1, <2>2, NoRefreshIsNone, TokenNumbers DEF GhlInv, GhlTypes, RefreshInv
    <3> QED
      BY <3>1, <3>2, <3>3, <3>4
  <2>3. CASE g = f
    BY <1>1, <2>1, <2>2, <2>3 DEF GhlInv, InHandInv
  <2>4. CASE g # f
    <3>1. callback'[g] = callback[g] /\ InHandInv(g) /\ InHandInv(f)
      BY <1>1, <2>4 DEF GhlInv
    <3>2. callback[g].cred \in Token => callback[g].cred # to.cred
      BY <2>1, <2>2, <2>4, <3>1 DEF InHandInv
    <3> QED
      BY <1>1, <2>1, <3>1, <3>2 DEF InHandInv
  <2> QED
    BY <2>3, <2>4
<1>7. ASSUME NEW l \in Location PROVE RowInv(l)'
  <2>1. RowInv(l) /\ (Refreshing(l)' <=> Refreshing(l))
    BY DEF GhlInv, Refreshing
  <2>2. ASSUME integ[l].cred \in Token, integ[l].cred <= issued PROVE integ[l].cred <= issued'
    <3>1. integ[l].cred \in Nat
      BY <2>2, TokenNumbers
    <3> QED
      BY <2>2, <3>1
  <2> QED
    BY <2>1, <2>2 DEF RowInv
<1>8. ASSUME NEW c \in Caller PROVE RefreshInv(c)'
  <2> SUFFICES ASSUME refresh[c] \in RefreshRecord PROVE RefreshInv(c)'
    BY DEF RefreshInv, RefreshRecord
  <2>1. RefreshInv(c) /\ refresh[c].cred \in Nat
    BY TokenNumbers DEF GhlInv, RefreshRecord
  <2>2. refresh[c].cred <= issued'
    BY <2>1 DEF RefreshInv
  <2> QED
    BY <2>1, <2>2 DEF RefreshInv
<1>9. \A t \in Token : TokenInv(t)'
  BY TokenNumbers DEF GhlInv, TokenInv
<1> QED
  BY <1>2, <1>3, <1>4, <1>5, <1>6, <1>7, <1>8, <1>9 DEF GhlInv

(* What is common to the steps of a callback.                              *)
LEMMA GhlBounds ==
  ASSUME GhlInv
  PROVE  /\ issued \in Nat /\ issued \in 0..MaxTokens
         /\ callbacks \in 0..MaxCallbacks /\ (callbacks < MaxCallbacks => callbacks + 1 \in 0..MaxCallbacks)
         /\ oauth \in [OauthState -> {"none", "pending", "consumed"}]
         /\ exchanged \in [OauthState -> Nat]
         /\ MaxTokens \in Nat /\ NoOrg \notin Org /\ NoLoc \notin Location /\ NoState \notin OauthState
         /\ \A l \in Location : SlugOrg[l] \in Org
         /\ \A s \in OauthState : StateOrg[s] \in Org
BY GhlAssumption DEF GhlInv, GhlTypes

LEMMA CallbackIs ==
  ASSUME GhlInv, NEW f \in Callback
  PROVE  /\ callback[f] \in CallbackRecord /\ CallbackHolds(callback[f])
         /\ CommitInv(f) /\ InHandInv(f)
BY DEF GhlInv, GhlTypes

LEMMA ConsumeStateInv ==
  ASSUME GhlInv, NEW f \in Callback, NEW s \in OauthState, ConsumeState(f, s)
  PROVE  GhlInv'
<1>1. PICK to : to = [AtRest EXCEPT !.pc = "exchange", !.org = StateOrg[s], !.state = s]
  OBVIOUS
<1>2. /\ to.pc = "exchange" /\ to.org = StateOrg[s] /\ to.state = s /\ to.todo = {}
      /\ to.loc = NoLoc /\ to.cred = NoCred /\ to \in CallbackRecord
  <2>1. FALSE \in BOOLEAN
    OBVIOUS
  <2> QED
    BY <1>1, <2>1, GhlBounds, TokenNumbers DEF AtRest, CallbackRecord
<1>3. CallbackHolds(to)
  BY <1>2, GhlBounds DEF CallbackHolds, Connecting
<1>4. /\ callback' = [callback EXCEPT ![f] = to] /\ callback[f].pc = "idle"
      /\ callbacks' = callbacks + 1 /\ callbacks < MaxCallbacks
      /\ oauth[s] = "pending" /\ oauth' = [oauth EXCEPT ![s] = "consumed"]
      /\ UNCHANGED <<exchanged, owner, integ, refresh, issued, grantee, presented,
                     revived, lostRefreshes>>
  BY <1>1 DEF ConsumeState, Consumable
<1>5. /\ callback'[f] = to /\ \A g \in Callback : g # f => callback'[g] = callback[g]
      /\ oauth'[s] = "consumed" /\ \A r \in OauthState : r # s => oauth'[r] = oauth[r]
      /\ oauth' \in [OauthState -> {"none", "pending", "consumed"}]
  BY <1>4 DEF GhlInv, GhlTypes
<1>6. ASSUME NEW r \in OauthState PROVE StateInv(r)'
  <2>1. CASE r = s
    <3>1. /\ exchanged[s] = 0 /\ exchanged'[s] = 0 /\ \A g \in Callback : ~ Exchanging(g, s)
      BY <1>4 DEF GhlInv, StateInv
    <3>2. \A g \in Callback : Exchanging(g, s)' => g = f
      BY <1>5, <3>1 DEF Exchanging
    <3> QED
      BY <1>5, <2>1, <3>1, <3>2 DEF StateInv
  <2>2. CASE r # s
    <3>1. \A g \in Callback : Exchanging(g, r)' <=> Exchanging(g, r)
      BY <1>2, <1>4, <1>5, <2>2 DEF Exchanging
    <3> QED
      BY <1>4, <1>5, <2>2, <3>1 DEF GhlInv, StateInv
  <2> QED
    BY <2>1, <2>2
<1> QED
  BY <1>2, <1>3, <1>4, <1>5, <1>6, GhlBounds, CallbackGoes, TokenNumbers

LEMMA BeginInstallInv == ASSUME GhlInv, NEW f \in Callback, BeginInstall(f) PROVE GhlInv'
<1>1. PICK to : to = [AtRest EXCEPT !.pc = "exchange"]
  OBVIOUS
<1>2. /\ to.pc = "exchange" /\ to.state = NoState /\ to.todo = {}
      /\ to.loc = NoLoc /\ to.cred = NoCred /\ to \in CallbackRecord
  <2>1. FALSE \in BOOLEAN
    OBVIOUS
  <2> QED
    BY <1>1, <2>1, GhlBounds, TokenNumbers DEF AtRest, CallbackRecord
<1>3. CallbackHolds(to)
  BY <1>2, GhlBounds DEF CallbackHolds, Connecting
<1>4. /\ callback' = [callback EXCEPT ![f] = to] /\ callback[f].pc = "idle"
      /\ callbacks' = callbacks + 1 /\ callbacks < MaxCallbacks
      /\ UNCHANGED <<oauth, exchanged, owner, integ, refresh, issued, grantee, presented,
                     revived, lostRefreshes>>
  BY <1>1 DEF BeginInstall
<1>5. callback'[f] = to /\ \A g \in Callback : g # f => callback'[g] = callback[g]
  BY <1>4 DEF GhlInv, GhlTypes
<1>6. \A s \in OauthState : StateInv(s)'
  BY <1>2, <1>4, <1>5, StatesRest, GhlBounds DEF Exchanging
<1> QED
  BY <1>2, <1>3, <1>4, <1>6, GhlBounds, CallbackGoes, TokenNumbers

LEMMA BeginPrivateInv ==
  ASSUME GhlInv, NEW f \in Callback, NEW o \in Org, NEW l \in Location, BeginPrivate(f, o, l)
  PROVE  GhlInv'
<1>1. PICK to : to = [AtRest EXCEPT !.pc = "connect", !.org = o, !.todo = {l}, !.loc = l,
                                    !.cred = Private]
  OBVIOUS
<1>2. /\ to.pc = "connect" /\ to.org = o /\ to.state = NoState /\ to.todo = {l}
      /\ to.loc = l /\ to.cred = Private /\ to \in CallbackRecord
  <2>1. FALSE \in BOOLEAN
    OBVIOUS
  <2> QED
    BY <1>1, <2>1, GhlBounds, TokenNumbers DEF AtRest, CallbackRecord
<1>3. CallbackHolds(to)
  BY <1>2, GhlBounds, TokenNumbers DEF CallbackHolds, Connecting
<1>4. /\ callback' = [callback EXCEPT ![f] = to] /\ callback[f].pc = "idle"
      /\ callbacks' = callbacks + 1 /\ callbacks < MaxCallbacks
      /\ UNCHANGED <<oauth, exchanged, owner, integ, refresh, issued, grantee, presented,
                     revived, lostRefreshes>>
  BY <1>1 DEF BeginPrivate
<1>5. callback'[f] = to /\ \A g \in Callback : g # f => callback'[g] = callback[g]
  BY <1>4 DEF GhlInv, GhlTypes
<1>6. \A s \in OauthState : StateInv(s)'
  BY <1>2, <1>4, <1>5, StatesRest DEF Exchanging
<1> QED
  BY <1>2, <1>3, <1>4, <1>6, GhlBounds, CallbackGoes, TokenNumbers

LEMMA ExchangeInv ==
  ASSUME GhlInv, NEW f \in Callback, ExchangeCode(f) \/ ExchangeFails(f)
  PROVE  GhlInv'
<1>1. /\ callback[f] \in CallbackRecord /\ callback[f].pc = "exchange"
      /\ CallbackHolds(callback[f])
  BY CallbackIs DEF ExchangeCode, ExchangeFails
<1>2. PICK to \in CallbackRecord :
        /\ callback' = [callback EXCEPT ![f] = to] /\ CallbackHolds(to)
        /\ to.pc \in {"pick", "idle"} /\ to.cred = NoCred
  <2>1. CASE ExchangeCode(f)
    <3>1. PICK found \in SUBSET Location :
            callback' = [callback EXCEPT ![f] = [@ EXCEPT !.pc = "pick", !.todo = found]]
      BY <2>1 DEF ExchangeCode, Listed
    <3>2. PICK to : to = [callback[f] EXCEPT !.pc = "pick", !.todo = found]
      OBVIOUS
    <3>3. /\ to.pc = "pick" /\ to.todo = found /\ to.org = callback[f].org
          /\ to.state = callback[f].state /\ to.loc = callback[f].loc
          /\ to.cred = callback[f].cred /\ to \in CallbackRecord
      BY <1>1, <3>2 DEF CallbackRecord
    <3>4. CallbackHolds(to) /\ to.cred = NoCred
      BY <1>1, <3>3 DEF CallbackHolds, Connecting
    <3>5. callback' = [callback EXCEPT ![f] = to]
      BY <3>1, <3>2
    <3> QED
      BY <3>3, <3>4, <3>5
  <2>2. CASE ExchangeFails(f)
    BY <2>2, AtRestHolds DEF ExchangeFails
  <2> QED
    BY <1>1, <2>1, <2>2
<1>3. UNCHANGED <<oauth, owner, integ, refresh, issued, grantee, presented,
                  revived, callbacks, lostRefreshes>>
  BY <1>1 DEF ExchangeCode, ExchangeFails
<1>4. PICK s : s = callback[f].state
  OBVIOUS
<1>5. s \in OauthState \union {NoState}
  BY <1>1, <1>4 DEF CallbackRecord
<1>6. exchanged' = IF s = NoState THEN exchanged ELSE [exchanged EXCEPT ![s] = @ + 1]
  BY <1>1, <1>4 DEF ExchangeCode, ExchangeFails
<1>7. /\ callback'[f] = to /\ \A g \in Callback : g # f => callback'[g] = callback[g]
  BY <1>2 DEF GhlInv, GhlTypes
<1>8. exchanged \in [OauthState -> Nat] /\ exchanged' \in [OauthState -> Nat]
  BY <1>5, <1>6, GhlBounds
<1>9. ASSUME NEW r \in OauthState PROVE StateInv(r)'
  <2>1. StateInv(r) /\ ~ Exchanging(f, r)'
    BY <1>2, <1>7 DEF GhlInv, Exchanging
  <2>2. \A g \in Callback : Exchanging(g, r)' => g # f /\ Exchanging(g, r)
    BY <1>7, <2>1 DEF Exchanging
  <2>3. CASE r = s
    <3>1. Exchanging(f, r)
      BY <1>1, <1>4, <2>3 DEF Exchanging
    <3>2. exchanged[r] = 0 /\ oauth[r] = "consumed" /\ \A g \in Callback : g # f => ~ Exchanging(g, r)
      BY <2>1, <3>1 DEF StateInv
    <3>3. exchanged'[r] = 1
      BY <1>5, <1>6, <1>8, <2>3, <3>2, GhlBounds
    <3> QED
      BY <1>3, <2>2, <3>2, <3>3 DEF StateInv
  <2>4. CASE r # s
    <3>1. exchanged'[r] = exchanged[r]
      BY <1>6, <1>8, <2>4
    <3> QED
      BY <1>3, <2>1, <2>2, <3>1 DEF StateInv
  <2> QED
    BY <2>3, <2>4
<1>10. to.pc # "commit" /\ to.cred \notin Token
  BY <1>2, TokenNumbers
<1> QED
  BY <1>2, <1>3, <1>8, <1>9, <1>10, GhlBounds, CallbackGoes

LEMMA PickLocationInv == ASSUME GhlInv, NEW f \in Callback, PickLocation(f) PROVE GhlInv'
<1>1. /\ callback[f] \in CallbackRecord /\ callback[f].pc = "pick" /\ issued < MaxTokens
      /\ CallbackHolds(callback[f])
      /\ UNCHANGED <<oauth, exchanged, owner, integ, refresh, grantee, presented,
                     revived, callbacks, lostRefreshes>>
      /\ issued' = issued + 1
  BY CallbackIs DEF PickLocation
<1>2. issued + 1 \in Token /\ issued + 1 \in 0..MaxTokens
  BY <1>1, GhlBounds DEF Token
<1>3. PICK l \in callback[f].todo :
        callback' = [callback EXCEPT ![f] =
          [@ EXCEPT !.loc = l, !.cred = issued + 1,
                    !.pc = IF callback[f].state = NoState THEN "resolve" ELSE "connect"]]
  BY DEF PickLocation
<1>4. PICK pc : pc = IF callback[f].state = NoState THEN "resolve" ELSE "connect"
  OBVIOUS
<1>5. PICK to : to = [callback[f] EXCEPT !.loc = l, !.cred = issued + 1, !.pc = pc]
  OBVIOUS
<1>6. l \in Location
  BY <1>1 DEF CallbackRecord
<1>7. pc \in {"resolve", "connect"}
  BY <1>4
<1>8. /\ to.pc = pc /\ to.todo = callback[f].todo /\ to.org = callback[f].org
      /\ to.state = callback[f].state /\ to.loc = l /\ to.cred = issued + 1
      /\ to \in CallbackRecord
  BY <1>1, <1>2, <1>5, <1>6, <1>7, TokenNumbers DEF CallbackRecord
<1>9. callback' = [callback EXCEPT ![f] = to]
  BY <1>3, <1>4, <1>5
<1>10. CallbackHolds(to)
  BY <1>1, <1>2, <1>4, <1>6, <1>8, GhlBounds, TokenNumbers DEF CallbackHolds, Connecting
<1>11. callback'[f] = to /\ \A g \in Callback : g # f => callback'[g] = callback[g]
  BY <1>8, <1>9 DEF GhlInv, GhlTypes
<1>12. \A s \in OauthState : StateInv(s)'
  BY <1>1, <1>7, <1>8, <1>11, StatesRest DEF Exchanging
<1>13. to.pc # "commit"
  BY <1>7, <1>8
<1> QED
  BY <1>1, <1>2, <1>8, <1>9, <1>10, <1>12, <1>13, GhlBounds, CallbackGoes

LEMMA ResolveInv == ASSUME GhlInv, NEW f \in Callback, ResolveOrganization(f) PROVE GhlInv'
<1>1. /\ callback[f] \in CallbackRecord /\ callback[f].pc = "resolve"
      /\ CallbackHolds(callback[f])
      /\ UNCHANGED <<oauth, exchanged, owner, integ, refresh, issued, grantee, presented,
                     revived, callbacks, lostRefreshes>>
  BY CallbackIs DEF ResolveOrganization
<1>2. callback[f].loc \in Location
  BY <1>1 DEF CallbackHolds, Connecting, CallbackRecord
<1>3. PICK org : org = IF owner[callback[f].loc] # NoOrg
                       THEN owner[callback[f].loc] ELSE SlugOrg[callback[f].loc]
  OBVIOUS
<1>4. org \in Org
  BY <1>2, <1>3, GhlBounds DEF GhlInv, GhlTypes
<1>5. PICK to : to = [callback[f] EXCEPT !.pc = "connect", !.org = org]
  OBVIOUS
<1>6. /\ to.pc = "connect" /\ to.todo = callback[f].todo /\ to.org = org
      /\ to.state = callback[f].state /\ to.loc = callback[f].loc /\ to.cred = callback[f].cred
      /\ to \in CallbackRecord
  BY <1>1, <1>4, <1>5 DEF CallbackRecord
<1>7. callback' = [callback EXCEPT ![f] = to]
  BY <1>3, <1>5 DEF ResolveOrganization
<1>8. CallbackHolds(to)
  BY <1>1, <1>2, <1>4, <1>6, GhlBounds DEF CallbackHolds, Connecting
<1>9. callback'[f] = to /\ \A g \in Callback : g # f => callback'[g] = callback[g]
  BY <1>6, <1>7 DEF GhlInv, GhlTypes
<1>10. \A s \in OauthState : StateInv(s)'
  BY <1>1, <1>6, <1>9, StatesRest DEF Exchanging
<1>11. to.pc # "commit"
  BY <1>6
<1> QED
  BY <1>1, <1>6, <1>7, <1>8, <1>10, <1>11, GhlBounds, CallbackGoes

LEMMA FailedHolds ==
  ASSUME NEW cb \in CallbackRecord, cb.loc \in Location, cb.pc # "idle",
         cb.state # NoState => cb.org \in Org
  PROVE  /\ Failed(cb) \in CallbackRecord /\ CallbackHolds(Failed(cb))
         /\ Failed(cb).cred = NoCred /\ Failed(cb).pc \in {"idle", "pick"}
<1>1. {} \in SUBSET Location /\ {cb.loc} \in SUBSET Location
  OBVIOUS
<1>2. PICK a : a = After(cb, {}, {cb.loc})
  OBVIOUS
<1>3. a.cred = NoCred /\ a.pc \in {"idle", "pick"}
  BY <1>2, AfterFields
<1>4. \A x, y \in SUBSET Location :
        After(cb, x, y) \in CallbackRecord /\ CallbackHolds(After(cb, x, y))
  BY AfterHolds
<1>5. a \in CallbackRecord /\ CallbackHolds(a)
  BY <1>1, <1>2, <1>4
<1> QED
  BY <1>2, <1>3, <1>5 DEF Failed

LEMMA InstalledHolds ==
  ASSUME NEW cb \in CallbackRecord, NEW l \in Location, cb.pc # "idle",
         cb.state # NoState => cb.org \in Org
  PROVE  /\ After(cb, {l}, {}) \in CallbackRecord /\ CallbackHolds(After(cb, {l}, {}))
         /\ After(cb, {l}, {}).cred = NoCred /\ After(cb, {l}, {}).pc \in {"idle", "pick"}
<1>1. {l} \in SUBSET Location /\ {} \in SUBSET Location
  OBVIOUS
<1>2. PICK a : a = After(cb, {l}, {})
  OBVIOUS
<1>3. a.cred = NoCred /\ a.pc \in {"idle", "pick"}
  BY <1>2, AfterFields
<1>4. \A x, y \in SUBSET Location :
        After(cb, x, y) \in CallbackRecord /\ CallbackHolds(After(cb, x, y))
  BY AfterHolds
<1>5. a \in CallbackRecord /\ CallbackHolds(a)
  BY <1>1, <1>2, <1>4
<1> QED
  BY <1>2, <1>3, <1>5

LEMMA LocationFailsInv == ASSUME GhlInv, NEW f \in Callback, LocationFails(f) PROVE GhlInv'
<1>1. /\ callback[f] \in CallbackRecord /\ CallbackHolds(callback[f])
      /\ UNCHANGED <<oauth, exchanged, owner, integ, refresh, issued, grantee, presented,
                     revived, callbacks, lostRefreshes>>
  BY CallbackIs DEF LocationFails
<1>2. PICK cb \in CallbackRecord :
        /\ callback' = [callback EXCEPT ![f] = Failed(cb)] /\ cb.loc \in Location
        /\ cb.pc # "idle" /\ (cb.state # NoState => cb.org \in Org)
  <2>1. CASE callback[f].pc = "pick"
    <3>1. PICK l \in callback[f].todo :
            callback' = [callback EXCEPT ![f] = Failed([@ EXCEPT !.loc = l])]
      BY <2>1 DEF LocationFails
    <3>2. l \in Location
      BY <1>1 DEF CallbackRecord
    <3>3. PICK cb : cb = [callback[f] EXCEPT !.loc = l]
      OBVIOUS
    <3>4. /\ cb \in CallbackRecord /\ cb.loc = l /\ cb.pc = callback[f].pc
          /\ cb.state = callback[f].state /\ cb.org = callback[f].org
      BY <1>1, <3>2, <3>3 DEF CallbackRecord
    <3>5. callback' = [callback EXCEPT ![f] = Failed(cb)]
      BY <3>1, <3>3
    <3> QED
      BY <1>1, <2>1, <3>2, <3>4, <3>5 DEF CallbackHolds
  <2>2. CASE callback[f].pc # "pick"
    <3>1. /\ callback[f].pc \in {"resolve", "connect"}
          /\ callback' = [callback EXCEPT ![f] = Failed(callback[f])]
      BY <2>2 DEF LocationFails
    <3>2. callback[f].loc \in Location
      BY <1>1, <3>1 DEF CallbackHolds, Connecting, CallbackRecord
    <3> QED
      BY <1>1, <3>1, <3>2 DEF CallbackHolds
  <2> QED
    BY <2>1, <2>2
<1>3. PICK to : to = Failed(cb)
  OBVIOUS
<1>4. /\ to \in CallbackRecord /\ CallbackHolds(to) /\ to.cred = NoCred
      /\ to.pc \in {"idle", "pick"}
  BY <1>2, <1>3, FailedHolds
<1>5. callback' = [callback EXCEPT ![f] = to]
  BY <1>2, <1>3
<1>6. callback'[f] = to /\ \A g \in Callback : g # f => callback'[g] = callback[g]
  BY <1>4, <1>5 DEF GhlInv, GhlTypes
<1>7. \A s \in OauthState : StateInv(s)'
  BY <1>1, <1>4, <1>6, StatesRest DEF Exchanging
<1>8. to.pc # "commit" /\ to.cred \notin Token
  BY <1>4, TokenNumbers
<1> QED
  BY <1>1, <1>4, <1>5, <1>7, <1>8, GhlBounds, CallbackGoes

LEMMA ConnectSelectInv == ASSUME GhlInv, NEW f \in Callback, ConnectSelect(f) PROVE GhlInv'
<1>1. /\ callback[f] \in CallbackRecord /\ callback[f].pc = "connect"
      /\ CallbackHolds(callback[f]) /\ LocationFree(callback[f].loc)
      /\ UNCHANGED <<oauth, exchanged, owner, integ, refresh, issued, grantee, presented,
                     revived, callbacks, lostRefreshes>>
  BY CallbackIs DEF ConnectSelect
<1>2. PICK l \in Location : l = callback[f].loc
  BY <1>1 DEF CallbackHolds, Connecting, CallbackRecord
<1>3. PICK occupied \in BOOLEAN : occupied <=> owner[l] \notin {NoOrg, callback[f].org}
  <2>1. (owner[l] \notin {NoOrg, callback[f].org}) \in BOOLEAN
    OBVIOUS
  <2> QED
    BY <2>1
<1>4. CASE occupied /\ Stops(integ[l].status)
  <2>1. PICK to : to = Failed(callback[f])
    OBVIOUS
  <2>2. callback' = [callback EXCEPT ![f] = to]
    BY <1>2, <1>3, <1>4, <2>1 DEF ConnectSelect
  <2>3. /\ to \in CallbackRecord /\ CallbackHolds(to) /\ to.cred = NoCred
        /\ to.pc \in {"idle", "pick"}
    BY <1>1, <1>2, <2>1, FailedHolds DEF CallbackHolds
  <2>4. callback'[f] = to /\ \A g \in Callback : g # f => callback'[g] = callback[g]
    BY <2>2, <2>3 DEF GhlInv, GhlTypes
  <2>5. \A s \in OauthState : StateInv(s)'
    BY <1>1, <2>3, <2>4, StatesRest DEF Exchanging
  <2>6. to.pc # "commit" /\ to.cred \notin Token
    BY <2>3, TokenNumbers
  <2> QED
    BY <1>1, <2>2, <2>3, <2>5, <2>6, GhlBounds, CallbackGoes
<1>5. CASE ~ (occupied /\ Stops(integ[l].status))
  <2>1. PICK to : to = [callback[f] EXCEPT !.pc = "commit", !.retire = occupied]
    OBVIOUS
  <2>2. callback' = [callback EXCEPT ![f] = to]
    <3>1. occupied = (owner[l] \notin {NoOrg, callback[f].org})
      BY <1>3
    <3> QED
      BY <1>2, <1>5, <2>1, <3>1 DEF ConnectSelect
  <2>3. /\ to.pc = "commit" /\ to.todo = callback[f].todo /\ to.org = callback[f].org
        /\ to.state = callback[f].state /\ to.loc = l /\ to.cred = callback[f].cred
        /\ to.retire = occupied /\ to \in CallbackRecord
    BY <1>1, <1>2, <1>3, <2>1 DEF CallbackRecord
  <2>4. CallbackHolds(to)
    BY <1>1, <1>2, <2>3 DEF CallbackHolds, Connecting
  <2>5. callback'[f] = to /\ \A g \in Callback : g # f => callback'[g] = callback[g]
    BY <2>2, <2>3 DEF GhlInv, GhlTypes
  <2>6. \A s \in OauthState : StateInv(s)'
    BY <1>1, <2>3, <2>5, StatesRest DEF Exchanging
  <2>7. /\ LocationFree(to.loc)
        /\ to.retire <=> owner[to.loc] \notin {NoOrg, to.org}
        /\ to.retire => integ[to.loc].status # "connected"
    BY <1>1, <1>2, <1>3, <1>5, <2>3 DEF Stops
  <2> QED
    BY <1>1, <2>2, <2>3, <2>4, <2>6, <2>7, GhlBounds, CallbackGoes
<1> QED
  BY <1>4, <1>5

(* A connection is committed: the location has one owner and one row.      *)
LEMMA ConnectCommitInv == ASSUME GhlInv, NEW f \in Callback, ConnectCommit(f) PROVE GhlInv'
<1>1. /\ callback[f] \in CallbackRecord /\ callback[f].pc = "commit"
      /\ CallbackHolds(callback[f]) /\ CommitInv(f) /\ InHandInv(f)
      /\ UNCHANGED <<oauth, exchanged, refresh, issued, presented, callbacks, lostRefreshes>>
  BY CallbackIs DEF ConnectCommit
<1>2. PICK l \in Location : l = callback[f].loc
  BY <1>1 DEF CallbackHolds, Connecting, CallbackRecord
<1>3. PICK o \in Org : o = callback[f].org
  BY <1>1 DEF CallbackHolds
<1>4. PICK t \in Cred : t = callback[f].cred /\ t # NoCred
  BY <1>1 DEF CallbackHolds, Connecting, CallbackRecord
<1>5. PICK renewed \in BOOLEAN : renewed = (callback[f].retire \/ owner[l] = NoOrg)
  BY <1>1 DEF CallbackRecord
<1>6. /\ integ \in [Location -> IntegRecord] /\ owner \in [Location -> Org \union {NoOrg}]
      /\ grantee \in [Token -> (Org \X Location) \union {NoOrg}] /\ integ[l].id \in Nat
      /\ NoOrg \notin Org
  BY GhlAssumption DEF GhlInv, GhlTypes, IntegRecord
<1>7. PICK id \in Nat : id = IF renewed THEN integ[l].id + 1 ELSE integ[l].id
  BY <1>6
<1>8. PICK row \in IntegRecord : row = [id |-> id, status |-> "connected", cred |-> t, expired |-> FALSE]
  <2>1. FALSE \in BOOLEAN
    OBVIOUS
  <2> QED
    BY <2>1 DEF IntegRecord
<1>9. PICK to : to = After(callback[f], {l}, {})
  OBVIOUS
<1>10. /\ to \in CallbackRecord /\ CallbackHolds(to) /\ to.cred = NoCred
       /\ to.pc \in {"idle", "pick"}
  <2>2. PICK cb \in CallbackRecord : cb = callback[f]
    BY <1>1
  <2>3. cb.pc # "idle" /\ (cb.state # NoState => cb.org \in Org)
    BY <1>1, <1>3, <2>2
  <2>4. to = After(cb, {l}, {})
    BY <1>9, <2>2
  <2> QED
    BY <2>3, <2>4, InstalledHolds
<1>11. /\ owner' = [owner EXCEPT ![l] = o] /\ callback' = [callback EXCEPT ![f] = to]
       /\ integ' = [integ EXCEPT ![l] = row]
       /\ grantee' = IF t = Private THEN grantee ELSE [grantee EXCEPT ![t] = <<o, l>>]
       /\ revived' = revived \ {l}
  BY <1>1, <1>2, <1>3, <1>4, <1>5, <1>6, <1>7, <1>8, <1>9 DEF ConnectCommit
<1>12. /\ owner'[l] = o /\ integ'[l] = row /\ callback'[f] = to
       /\ \A m \in Location : m # l => owner'[m] = owner[m] /\ integ'[m] = integ[m]
       /\ \A g \in Callback : g # f => callback'[g] = callback[g]
       /\ \A u \in Token : u # t => grantee'[u] = grantee[u]
       /\ t \in Token => grantee'[t] = <<o, l>>
       /\ owner' \in [Location -> Org \union {NoOrg}]
       /\ integ' \in [Location -> IntegRecord]
       /\ callback' \in [Callback -> CallbackRecord]
  BY <1>6, <1>10, <1>11, TokenNumbers DEF GhlInv, GhlTypes
<1>13. grantee' \in [Token -> (Org \X Location) \union {NoOrg}]
  <2>1. <<o, l>> \in Org \X Location
    OBVIOUS
  <2> QED
    BY <1>4, <1>6, <1>11, <2>1 DEF Cred
<1>14. GhlTypes'
  BY <1>1, <1>11, <1>12, <1>13 DEF GhlInv, GhlTypes
<1>15. row.id = id /\ row.status = "connected" /\ row.cred = t
  BY <1>8
<1>16. \A s \in OauthState : StateInv(s)'
  BY <1>1, <1>10, <1>12, StatesRest DEF Exchanging
<1>17. \A g \in Callback : CallbackHolds(callback[g])'
  <2>1. \A g \in Callback : CallbackHolds(callback'[g])
    BY <1>10, <1>12 DEF GhlInv
  <2> QED
    BY <2>1 DEF CallbackHolds, Connecting
<1>18. \A g \in Callback : g # f => ~ Committing(g, l)
  BY <1>1, <1>2 DEF GhlInv, OneCommits, Committing
<1>19. \A g \in Callback, m \in Location : Committing(g, m)' => m # l /\ g # f /\ Committing(g, m)
  BY <1>10, <1>12, <1>18 DEF Committing
<1>20. OneCommits'
  BY <1>19 DEF GhlInv, OneCommits
<1>21. ASSUME NEW g \in Callback PROVE CommitInv(g)'
  <2>1. CASE g = f
    BY <1>10, <1>12, <2>1 DEF CommitInv
  <2>2. CASE g # f /\ callback[g].pc = "commit"
    <3>1. PICK m \in Location : m = callback[g].loc
      BY <2>2, CallbackIs DEF CallbackHolds, Connecting, CallbackRecord
    <3>2. m # l /\ callback'[g] = callback[g] /\ CommitInv(g)
      BY <1>12, <1>18, <2>2, <3>1 DEF Committing, GhlInv
    <3>3. owner'[m] = owner[m] /\ integ'[m] = integ[m] /\ (m \in revived => m \in revived')
      BY <1>11, <1>12, <3>2
    <3> QED
      BY <2>2, <3>1, <3>2, <3>3 DEF CommitInv
  <2>3. CASE g # f /\ callback[g].pc # "commit"
    BY <1>12, <2>3 DEF CommitInv
  <2> QED
    BY <2>1, <2>2, <2>3
<1>22. \A g \in Callback : g # f => (callback[g].cred \in Token => callback[g].cred # t)
  BY <1>1, <1>4 DEF InHandInv
<1>23. ASSUME NEW g \in Callback PROVE InHandInv(g)'
  <2>1. CASE g = f
    BY <1>10, <1>12, <2>1, TokenNumbers DEF InHandInv
  <2>2. CASE g # f
    <3>1. InHandInv(g) /\ callback'[g] = callback[g]
      BY <1>12, <2>2 DEF GhlInv
    <3>2. \A m \in Location : callback[g].cred \in Token => integ'[m].cred # callback[g].cred
      BY <1>12, <1>15, <1>22, <2>2, <3>1 DEF InHandInv
    <3>3. \A h \in Callback : callback[g].cred \in Token /\ callback'[h].cred = callback[g].cred => h = g
      BY <1>10, <1>12, <3>1, TokenNumbers DEF InHandInv
    <3> QED
      BY <1>1, <3>1, <3>2, <3>3 DEF InHandInv
  <2> QED
    BY <2>1, <2>2
<1>24. ASSUME NEW m \in Location PROVE RowInv(m)'
  <2>1. CASE m = l
    <3>1. owner'[m] # NoOrg /\ integ'[m].status = "connected" /\ integ'[m].cred = t
      BY <1>6, <1>12, <1>15, <2>1
    <3>2. t \in Token => t <= issued /\ presented[t] = 0 /\ grantee'[t] = <<o, l>>
      BY <1>1, <1>4, <1>12 DEF InHandInv
    <3>3. lostRefreshes \in Nat
      BY GhlAssumption DEF GhlInv, GhlTypes
    <3> QED
      BY <1>1, <1>4, <1>12, <2>1, <3>1, <3>2, <3>3 DEF RowInv
  <2>2. CASE m # l
    <3>1. RowInv(m) /\ owner'[m] = owner[m] /\ integ'[m] = integ[m]
      BY <1>12, <2>2 DEF GhlInv
    <3>2. integ[m].cred \in Token => integ[m].cred # t
      BY <1>1, <1>4 DEF InHandInv
    <3>3. integ[m].cred \in Token => grantee'[integ[m].cred] = grantee[integ[m].cred]
      BY <1>12, <3>2
    <3>4. Refreshing(m) => Refreshing(m)'
      BY <1>1, <3>1 DEF Refreshing
    <3> QED
      BY <1>1, <3>1, <3>3, <3>4 DEF RowInv
  <2> QED
    BY <2>1, <2>2
<1>25. ASSUME NEW c \in Caller PROVE RefreshInv(c)'
  <2> SUFFICES ASSUME refresh[c] \in RefreshRecord PROVE RefreshInv(c)'
    BY <1>1 DEF RefreshInv, RefreshRecord
  <2>1. RefreshInv(c) /\ refresh'[c] = refresh[c]
    BY <1>1 DEF GhlInv
  <2>2. PICK m \in Location : m = refresh[c].loc
    BY DEF RefreshRecord
  <2>3. PICK u \in Token : u = refresh[c].cred
    BY DEF RefreshRecord
  <2>4. u # t
    BY <1>1, <1>4, <2>3 DEF InHandInv
  <2>5. grantee'[u] = grantee[u]
    BY <1>12, <2>4
  <2>6. /\ u <= issued /\ owner[m] # NoOrg /\ refresh[c].id <= integ[m].id
        /\ refresh[c].id = integ[m].id => grantee[u] = <<owner[m], m>>
    BY <2>1, <2>2, <2>3 DEF RefreshInv
  <2>7. refresh[c].id \in Nat
    BY DEF RefreshRecord
  <2>8. /\ owner'[m] # NoOrg /\ refresh[c].id <= integ'[m].id
        /\ refresh[c].id = integ'[m].id => grantee'[u] = <<owner'[m], m>>
    <3>1. CASE m # l
      BY <1>12, <2>5, <2>6, <3>1
    <3>2. CASE m = l /\ renewed
      <4>1. integ'[m].id = integ[m].id + 1
        BY <1>7, <1>12, <1>15, <3>2
      <4> QED
        BY <1>6, <1>12, <2>6, <2>7, <3>2, <4>1
    <3>3. CASE m = l /\ ~ renewed
      <4>1. integ'[m].id = integ[m].id
        BY <1>7, <1>12, <1>15, <3>3
      <4>2. owner[m] = o
        BY <1>1, <1>2, <1>3, <1>5, <2>6, <3>3 DEF CommitInv
      <4> QED
        BY <1>6, <1>12, <2>5, <2>6, <3>3, <4>1, <4>2
    <3> QED
      BY <3>1, <3>2, <3>3
  <2> QED
    BY <1>1, <2>1, <2>2, <2>3, <2>6, <2>8 DEF RefreshInv
<1>26. \A u \in Token : TokenInv(u)'
  BY <1>1 DEF GhlInv, TokenInv
<1> QED
  BY <1>14, <1>16, <1>17, <1>20, <1>21, <1>23, <1>24, <1>25, <1>26 DEF GhlInv

(* Credentials age, are refreshed, and are given up.                       *)
LEMMA ExpireInv == ASSUME GhlInv, NEW l \in Location, Expire(l) PROVE GhlInv'
<1>1. /\ integ' = [integ EXCEPT ![l] = [@ EXCEPT !.expired = TRUE]]
      /\ UNCHANGED <<oauth, exchanged, owner, callback, refresh, issued, grantee,
                     presented, revived, callbacks, lostRefreshes>>
  BY DEF Expire
<1>2. integ \in [Location -> IntegRecord] /\ integ[l] \in IntegRecord
  BY DEF GhlInv, GhlTypes
<1>3. PICK row : row = [integ[l] EXCEPT !.expired = TRUE]
  OBVIOUS
<1>4. /\ row \in IntegRecord /\ row.id = integ[l].id /\ row.status = integ[l].status
      /\ row.cred = integ[l].cred
  <2>1. TRUE \in BOOLEAN
    OBVIOUS
  <2> QED
    BY <1>2, <1>3, <2>1 DEF IntegRecord
<1>5. integ' = [integ EXCEPT ![l] = row]
  BY <1>1, <1>3
<1>6. /\ integ' \in [Location -> IntegRecord]
      /\ \A m \in Location : /\ integ'[m].id = integ[m].id /\ integ'[m].cred = integ[m].cred
                             /\ integ'[m].status = integ[m].status
  BY <1>2, <1>4, <1>5
<1>7. GhlTypes'
  BY <1>1, <1>6 DEF GhlInv, GhlTypes
<1>8. \A s \in OauthState : StateInv(s)'
  BY <1>1, StatesRest DEF Exchanging
<1>9. OneCommits' /\ \A f \in Callback : CallbackHolds(callback[f])'
  BY <1>1 DEF GhlInv, OneCommits, Committing, CallbackHolds, Connecting
<1>10. ASSUME NEW f \in Callback PROVE CommitInv(f)'
  <2>1. callback[f].pc = "commit" => callback[f].loc \in Location
    BY CallbackIs DEF CallbackHolds, Connecting, CallbackRecord
  <2> QED
    BY <1>1, <1>6, <2>1 DEF GhlInv, CommitInv
<1>11. \A f \in Callback : InHandInv(f)'
  BY <1>1, <1>6 DEF GhlInv, InHandInv
<1>12. ASSUME NEW m \in Location PROVE RowInv(m)'
  <2>1. Refreshing(m)' <=> Refreshing(m)
    BY <1>1, <1>6 DEF Refreshing
  <2> QED
    BY <1>1, <1>6, <2>1 DEF GhlInv, RowInv
<1>13. \A c \in Caller : RefreshInv(c)'
  BY <1>1, <1>6 DEF GhlInv, RefreshInv, RefreshRecord
<1>14. \A t \in Token : TokenInv(t)'
  BY <1>1 DEF GhlInv, TokenInv
<1> QED
  BY <1>7, <1>8, <1>9, <1>10, <1>11, <1>12, <1>13, <1>14 DEF GhlInv

LEMMA RefreshBeginInv ==
  ASSUME GhlInv, NEW c \in Caller, NEW l \in Location, RefreshBegin(c, l)
  PROVE  GhlInv'
<1>1. /\ refresh[c] = NoRefresh /\ RefreshFree(c, l)
      /\ integ[l].cred \in Token
      /\ UNCHANGED <<oauth, exchanged, owner, integ, callback, issued, grantee,
                     revived, callbacks, lostRefreshes>>
  BY DEF RefreshBegin
<1>2. PICK t \in Token : t = integ[l].cred
  BY <1>1
<1>3. PICK id \in Nat : id = integ[l].id
  BY DEF GhlInv, GhlTypes, IntegRecord
<1>4. PICK r \in RefreshRecord : r = [loc |-> l, id |-> id, cred |-> t]
  BY DEF RefreshRecord
<1>5. /\ refresh' = [refresh EXCEPT ![c] = r] /\ presented' = [presented EXCEPT ![t] = @ + 1]
  BY <1>2, <1>3, <1>4 DEF RefreshBegin
<1>6. /\ refresh \in [Caller -> {NoRefresh} \union RefreshRecord]
      /\ presented \in [Token -> Nat] /\ lostRefreshes \in Nat
  BY GhlAssumption DEF GhlInv, GhlTypes
<1>7. /\ refresh' \in [Caller -> {NoRefresh} \union RefreshRecord] /\ refresh'[c] = r
      /\ \A d \in Caller : d # c => refresh'[d] = refresh[d]
      /\ presented' \in [Token -> Nat] /\ presented'[t] = presented[t] + 1
      /\ \A u \in Token : u # t => presented'[u] = presented[u]
      /\ r.loc = l /\ r.id = id /\ r.cred = t
  BY <1>4, <1>5, <1>6
<1>8. GhlTypes'
  BY <1>1, <1>7 DEF GhlInv, GhlTypes
<1>9. \A s \in OauthState : StateInv(s)'
  BY <1>1, StatesRest DEF Exchanging
<1>10. /\ OneCommits' /\ \A f \in Callback : CallbackHolds(callback[f])'
       /\ \A f \in Callback : CommitInv(f)'
  BY <1>1 DEF GhlInv, OneCommits, Committing, CallbackHolds, Connecting, CommitInv
<1>11. ~ Refreshing(l) /\ t <= issued /\ grantee[t] = <<owner[l], l>> /\ presented[t] <= lostRefreshes
       /\ owner[l] # NoOrg
  <2>1. ~ Refreshing(l)
    BY <1>1 DEF RefreshFree, Refreshing
  <2>2. integ[l].status # "none"
    <3>1. grantee[t] = <<owner[l], l>> /\ grantee[t] \in (Org \X Location) \union {NoOrg}
      BY <1>1, <1>2 DEF GhlInv, GhlTypes, RowInv
    <3>2. RowInv(l) /\ t # NoCred
      BY TokenNumbers DEF GhlInv
    <3> QED
      BY <1>2, <3>2 DEF RowInv
  <2> QED
    BY <1>1, <1>2, <2>1, <2>2 DEF GhlInv, RowInv
<1>12. ASSUME NEW f \in Callback PROVE InHandInv(f)'
  <2>1. InHandInv(f) /\ callback'[f] = callback[f]
    BY <1>1 DEF GhlInv
  <2>2. callback[f].cred \in Token => callback[f].cred # t
    BY <1>2, <2>1 DEF InHandInv
  <2>3. \A d \in Caller : callback[f].cred \in Token => refresh'[d].cred # callback[f].cred
    BY <1>7, <2>1, <2>2 DEF InHandInv
  <2>4. callback[f].cred \in Token => presented'[callback[f].cred] = presented[callback[f].cred]
    BY <1>7, <2>2
  <2> QED
    BY <1>1, <2>1, <2>3, <2>4 DEF InHandInv
<1>13. ASSUME NEW m \in Location PROVE RowInv(m)'
  <2>1. RowInv(m)
    BY DEF GhlInv
  <2>2. CASE m = l
    <3>1. Refreshing(l)'
      BY <1>1, <1>3, <1>7 DEF Refreshing
    <3> QED
      BY <1>1, <2>1, <2>2, <3>1 DEF RowInv
  <2>3. CASE m # l
    <3>1. integ[m].cred \in Token => integ[m].cred # t
      BY <1>11, <2>1, <2>3 DEF RowInv
    <3>2. Refreshing(m) => Refreshing(m)'
      <4>1. \A d \in Caller : refresh[d].loc = m => d # c
        BY <1>1, GhlAssumption, NoRefreshIsNone
      <4> QED
        BY <1>1, <1>7, <4>1 DEF Refreshing
    <3> QED
      BY <1>1, <1>7, <2>1, <3>1, <3>2 DEF RowInv
  <2> QED
    BY <2>2, <2>3
<1>14. ASSUME NEW d \in Caller PROVE RefreshInv(d)'
  <2>1. CASE d = c
    BY <1>1, <1>2, <1>3, <1>7, <1>11, <2>1 DEF RefreshInv
  <2>2. CASE d # c
    BY <1>1, <1>7, <2>2 DEF GhlInv, RefreshInv, RefreshRecord
  <2> QED
    BY <2>1, <2>2
<1>15. ASSUME NEW u \in Token PROVE TokenInv(u)'
  <2>1. TokenInv(u) /\ u \in Nat /\ t \in Nat /\ issued \in Nat
    BY TokenNumbers, GhlBounds DEF GhlInv
  <2>2. CASE u = t
    BY <1>1, <1>6, <1>7, <1>11, <2>1, <2>2 DEF TokenInv
  <2>3. CASE u # t
    BY <1>1, <1>7, <2>1, <2>3 DEF TokenInv
  <2> QED
    BY <2>2, <2>3
<1> QED
  BY <1>8, <1>9, <1>10, <1>12, <1>13, <1>14, <1>15 DEF GhlInv

LEMMA RefreshCommitInv == ASSUME GhlInv, NEW c \in Caller, RefreshCommit(c) PROVE GhlInv'
<1>1. /\ refresh[c] # NoRefresh /\ issued < MaxTokens /\ issued' = issued + 1
      /\ refresh' = [refresh EXCEPT ![c] = NoRefresh]
      /\ UNCHANGED <<oauth, exchanged, owner, callback, presented, callbacks, lostRefreshes>>
  BY DEF RefreshCommit
<1>2. /\ refresh \in [Caller -> {NoRefresh} \union RefreshRecord]
      /\ refresh[c] \in RefreshRecord /\ integ \in [Location -> IntegRecord]
      /\ grantee \in [Token -> (Org \X Location) \union {NoOrg}]
      /\ lostRefreshes \in Nat /\ issued \in Nat /\ issued' \in 0..MaxTokens
  BY <1>1, GhlAssumption DEF GhlInv, GhlTypes
<1>3. PICK l \in Location : l = refresh[c].loc
  BY <1>2 DEF RefreshRecord
<1>4. PICK u \in Token : u = refresh[c].cred
  BY <1>2 DEF RefreshRecord
<1>5. PICK t \in Token : t = issued + 1
  BY <1>1, <1>2, GhlAssumption DEF Token
<1>6. PICK who \in (Org \X Location) \union {NoOrg} : who = grantee[u]
  BY <1>2
<1>7. /\ grantee' = [grantee EXCEPT ![t] = who]
      /\ grantee' \in [Token -> (Org \X Location) \union {NoOrg}]
      /\ grantee'[t] = who /\ \A v \in Token : v # t => grantee'[v] = grantee[v]
  BY <1>2, <1>4, <1>5, <1>6 DEF RefreshCommit
<1>8. /\ refresh' \in [Caller -> {NoRefresh} \union RefreshRecord] /\ refresh'[c] = NoRefresh
      /\ \A d \in Caller : d # c => refresh'[d] = refresh[d]
  BY <1>1, <1>2
<1>9. /\ u <= issued /\ owner[l] # NoOrg
      /\ refresh[c].id = integ[l].id => who = <<owner[l], l>>
  BY <1>2, <1>3, <1>4, <1>6 DEF GhlInv, RefreshInv
<1>10. integ[l].status # "none"
  BY <1>9 DEF GhlInv, RowInv
<1>11. PICK row \in IntegRecord :
         /\ row.id = integ[l].id /\ row.status = "connected" /\ row.cred = t
         /\ row = [integ[l] EXCEPT !.status = "connected", !.cred = t, !.expired = FALSE]
  <2>1. FALSE \in BOOLEAN /\ integ[l] \in IntegRecord
    BY <1>2
  <2> QED
    BY <2>1, TokenNumbers DEF IntegRecord
<1>12. /\ integ' \in [Location -> IntegRecord]
       /\ \A m \in Location : m # l => integ'[m] = integ[m]
       /\ integ'[l] = IF Finds(c) THEN row ELSE integ[l]
       /\ Finds(c) <=> refresh[c].id = integ[l].id
  <2>1. IF Finds(c) THEN integ' = [integ EXCEPT ![l] = row] ELSE UNCHANGED integ
    BY <1>3, <1>5, <1>11 DEF RefreshCommit
  <2>2. Finds(c) <=> refresh[c].id = integ[l].id
    BY <1>3 DEF Finds
  <2> QED
    BY <1>2, <1>11, <2>1, <2>2
<1>13. /\ revived' \subseteq Location /\ \A m \in revived : m \in revived'
       /\ Finds(c) /\ integ[l].status = "revoked" => l \in revived'
  BY <1>3 DEF RefreshCommit, GhlInv, GhlTypes
<1>14. GhlTypes'
  BY <1>1, <1>2, <1>7, <1>8, <1>12, <1>13 DEF GhlInv, GhlTypes
<1>15. \A s \in OauthState : StateInv(s)'
  BY <1>1, StatesRest DEF Exchanging
<1>16. OneCommits' /\ \A f \in Callback : CallbackHolds(callback[f])'
  BY <1>1 DEF GhlInv, OneCommits, Committing, CallbackHolds, Connecting
<1>17. ASSUME NEW f \in Callback PROVE CommitInv(f)'
  <2> SUFFICES ASSUME callback[f].pc = "commit" PROVE CommitInv(f)'
    BY <1>1 DEF CommitInv
  <2>1. PICK m \in Location : m = callback[f].loc
    BY CallbackIs DEF CallbackHolds, Connecting, CallbackRecord
  <2>2. /\ callback[f].retire <=> owner[m] \notin {NoOrg, callback[f].org}
        /\ callback[f].retire /\ integ[m].status = "connected" => m \in revived
    BY <2>1 DEF GhlInv, CommitInv
  <2>3. callback[f].retire /\ integ'[m].status = "connected" => m \in revived'
    <3>1. CASE m = l /\ Finds(c)
      <4>1. integ[l].status \in {"connected", "revoked"}
        BY <1>2, <1>10 DEF IntegRecord
      <4> QED
        BY <1>13, <2>2, <3>1, <4>1
    <3>2. CASE m # l \/ ~ Finds(c)
      BY <1>12, <1>13, <2>2, <3>2
    <3> QED
      BY <3>1, <3>2
  <2> QED
    BY <1>1, <2>1, <2>2, <2>3 DEF CommitInv
<1>18. ASSUME NEW f \in Callback PROVE InHandInv(f)'
  <2> SUFFICES ASSUME callback[f].cred \in Token PROVE InHandInv(f)'
    BY <1>1 DEF InHandInv
  <2>1. InHandInv(f) /\ callback[f].cred \in Nat
    BY TokenNumbers DEF GhlInv
  <2>2. callback[f].cred # t /\ callback[f].cred <= issued'
    BY <1>1, <1>2, <1>5, <2>1 DEF InHandInv
  <2>3. \A m \in Location : integ'[m].cred # callback[f].cred
    BY <1>11, <1>12, <2>1, <2>2 DEF InHandInv
  <2>4. \A d \in Caller : refresh'[d].cred # callback[f].cred
    BY <1>8, <2>1, NoRefreshIsNone, TokenNumbers DEF InHandInv
  <2> QED
    BY <1>1, <2>1, <2>2, <2>3, <2>4 DEF InHandInv
<1>19. ASSUME NEW m \in Location PROVE RowInv(m)'
  <2>1. RowInv(m)
    BY DEF GhlInv
  <2>2. CASE m = l /\ Finds(c)
    <3>1. integ'[l] = row /\ grantee'[t] = <<owner'[l], l>> /\ t <= issued'
      BY <1>1, <1>2, <1>5, <1>7, <1>9, <1>12, <2>2
    <3>2. presented'[t] = 0
      BY <1>1, <1>2, <1>5 DEF GhlInv, TokenInv
    <3>3. presented'[t] <= lostRefreshes'
      BY <1>1, <1>2, <3>2
    <3> QED
      BY <1>1, <1>9, <1>11, <2>2, <3>1, <3>3, TokenNumbers DEF RowInv
  <2>3. CASE m # l \/ ~ Finds(c)
    <3>1. integ'[m] = integ[m]
      BY <1>12, <2>3
    <3>2. ASSUME integ[m].cred \in Token PROVE integ[m].cred # t /\ integ[m].cred <= issued'
      <4>1. integ[m].cred \in Nat /\ integ[m].cred <= issued
        BY <2>1, <3>2, TokenNumbers DEF RowInv
      <4> QED
        BY <1>1, <1>2, <1>5, <4>1
    <3>3. Refreshing(m) => Refreshing(m)'
      <4>1. ~ (refresh[c].loc = m /\ refresh[c].id = integ[m].id)
        BY <1>3, <1>12, <2>3
      <4> QED
        BY <1>8, <3>1, <4>1 DEF Refreshing
    <3> QED
      BY <1>1, <1>7, <2>1, <3>1, <3>2, <3>3 DEF RowInv
  <2> QED
    BY <2>2, <2>3
<1>20. ASSUME NEW d \in Caller PROVE RefreshInv(d)'
  <2> SUFFICES ASSUME d # c, refresh[d] \in RefreshRecord PROVE RefreshInv(d)'
    BY <1>8, NoRefreshIsNone DEF RefreshInv, RefreshRecord
  <2>1. RefreshInv(d) /\ refresh'[d] = refresh[d]
    BY <1>8 DEF GhlInv
  <2>2. PICK m \in Location : m = refresh[d].loc
    BY DEF RefreshRecord
  <2>3. PICK v \in Token : v = refresh[d].cred
    BY DEF RefreshRecord
  <2>4. v <= issued /\ v \in Nat
    BY <2>1, <2>3, TokenNumbers DEF RefreshInv
  <2>5. v # t /\ v <= issued'
    BY <1>1, <1>2, <1>5, <2>4
  <2>6. integ'[m].id = integ[m].id /\ grantee'[v] = grantee[v]
    BY <1>7, <1>11, <1>12, <2>5
  <2> QED
    BY <1>1, <2>1, <2>2, <2>3, <2>5, <2>6 DEF RefreshInv
<1>21. ASSUME NEW v \in Token PROVE TokenInv(v)'
  <2>1. TokenInv(v) /\ v \in Nat
    BY TokenNumbers DEF GhlInv
  <2> QED
    BY <1>1, <1>2, <2>1 DEF TokenInv
<1> QED
  BY <1>14, <1>15, <1>16, <1>17, <1>18, <1>19, <1>20, <1>21 DEF GhlInv

LEMMA RefreshLostInv == ASSUME GhlInv, NEW c \in Caller, RefreshLost(c) PROVE GhlInv'
<1>1. /\ refresh[c] # NoRefresh /\ refresh' = [refresh EXCEPT ![c] = NoRefresh]
      /\ lostRefreshes < MaxLost /\ lostRefreshes' = lostRefreshes + 1
      /\ UNCHANGED <<oauth, exchanged, owner, integ, callback, issued, grantee,
                     presented, revived, callbacks>>
  BY DEF RefreshLost
<1>2. /\ refresh' \in [Caller -> {NoRefresh} \union RefreshRecord] /\ refresh'[c] = NoRefresh
      /\ \A d \in Caller : d # c => refresh'[d] = refresh[d]
      /\ presented \in [Token -> Nat] /\ lostRefreshes \in Nat /\ lostRefreshes' \in 0..MaxLost
  BY <1>1, GhlAssumption DEF GhlInv, GhlTypes
<1>3. GhlTypes'
  BY <1>1, <1>2 DEF GhlInv, GhlTypes
<1>4. \A s \in OauthState : StateInv(s)'
  BY <1>1, StatesRest DEF Exchanging
<1>5. /\ OneCommits' /\ \A f \in Callback : CallbackHolds(callback[f])'
      /\ \A f \in Callback : CommitInv(f)'
  BY <1>1 DEF GhlInv, OneCommits, Committing, CallbackHolds, Connecting, CommitInv
<1>6. \A f \in Callback : InHandInv(f)'
  BY <1>1, <1>2, NoRefreshIsNone, TokenNumbers DEF GhlInv, InHandInv
<1>7. \A t \in Token : TokenInv(t)'
  BY <1>1, <1>2 DEF GhlInv, TokenInv
<1>8. ASSUME NEW l \in Location PROVE RowInv(l)'
  <2>1. RowInv(l)
    BY DEF GhlInv
  <2>2. integ[l].cred \in Token => presented'[integ[l].cred] <= lostRefreshes'
    <3>1. integ[l].cred \in Token => presented[integ[l].cred] <= 1 + lostRefreshes
      BY DEF GhlInv, TokenInv
    <3> QED
      BY <1>1, <1>2, <3>1
  <2> QED
    BY <1>1, <2>1, <2>2 DEF RowInv
<1>9. ASSUME NEW d \in Caller PROVE RefreshInv(d)'
  <2>1. CASE d = c
    BY <1>2, <2>1, NoRefreshIsNone DEF RefreshInv, RefreshRecord
  <2>2. CASE d # c
    BY <1>1, <1>2, <2>2 DEF GhlInv, RefreshInv, RefreshRecord
  <2> QED
    BY <2>1, <2>2
<1> QED
  BY <1>3, <1>4, <1>5, <1>6, <1>7, <1>8, <1>9 DEF GhlInv

LEMMA DisconnectInv == ASSUME GhlInv, NEW l \in Location, Disconnect(l) PROVE GhlInv'
<1>1. /\ integ[l].status = "connected" /\ revived' = revived \ {l}
      /\ UNCHANGED <<oauth, exchanged, owner, callback, refresh, issued, grantee,
                     presented, callbacks, lostRefreshes>>
  BY DEF Disconnect
<1>2. integ \in [Location -> IntegRecord] /\ integ[l] \in IntegRecord
  BY DEF GhlInv, GhlTypes
<1>3. PICK row \in IntegRecord :
        /\ row = Revoked(integ[l]) /\ row.id = integ[l].id
        /\ row.status = "revoked" /\ row.cred = NoCred
  <2>1. FALSE \in BOOLEAN
    OBVIOUS
  <2>2. PICK row : row = Revoked(integ[l])
    OBVIOUS
  <2>3. row = [integ[l] EXCEPT !.status = "revoked", !.cred = NoCred, !.expired = FALSE]
    BY <2>2 DEF Revoked
  <2>4. /\ row \in IntegRecord /\ row.id = integ[l].id
        /\ row.status = "revoked" /\ row.cred = NoCred
    BY <1>2, <2>1, <2>3, TokenNumbers DEF IntegRecord
  <2> QED
    BY <2>2, <2>4
<1>4. integ' = [integ EXCEPT ![l] = row]
  BY <1>2, <1>3 DEF Disconnect
<1>5. /\ integ' \in [Location -> IntegRecord] /\ integ'[l] = row
      /\ \A m \in Location : m # l => integ'[m] = integ[m]
      /\ \A m \in Location : integ'[m].id = integ[m].id
  BY <1>2, <1>3, <1>4
<1>6. GhlTypes'
  BY <1>1, <1>5 DEF GhlInv, GhlTypes
<1>7. \A s \in OauthState : StateInv(s)'
  BY <1>1, StatesRest DEF Exchanging
<1>8. OneCommits' /\ \A f \in Callback : CallbackHolds(callback[f])'
  BY <1>1 DEF GhlInv, OneCommits, Committing, CallbackHolds, Connecting
<1>9. ASSUME NEW f \in Callback PROVE CommitInv(f)'
  <2>1. callback[f].pc = "commit" => callback[f].loc \in Location
    BY CallbackIs DEF CallbackHolds, Connecting, CallbackRecord
  <2> QED
    BY <1>1, <1>3, <1>5, <2>1 DEF GhlInv, CommitInv
<1>10. \A f \in Callback : InHandInv(f)'
  BY <1>1, <1>3, <1>5, TokenNumbers DEF GhlInv, InHandInv
<1>11. ASSUME NEW m \in Location PROVE RowInv(m)'
  <2>1. RowInv(m) /\ (Refreshing(m)' <=> Refreshing(m))
    BY <1>1, <1>5 DEF GhlInv, Refreshing
  <2>2. CASE m = l
    BY <1>1, <1>3, <1>5, <2>1, <2>2, TokenNumbers DEF RowInv
  <2>3. CASE m # l
    BY <1>1, <1>5, <2>1, <2>3 DEF RowInv
  <2> QED
    BY <2>2, <2>3
<1>12. \A c \in Caller : RefreshInv(c)'
  BY <1>1, <1>5 DEF GhlInv, RefreshInv, RefreshRecord
<1>13. \A t \in Token : TokenInv(t)'
  BY <1>1 DEF GhlInv, TokenInv
<1> QED
  BY <1>6, <1>7, <1>8, <1>9, <1>10, <1>11, <1>12, <1>13 DEF GhlInv

LEMMA BeginAuthorizationInv ==
  ASSUME GhlInv, NEW s \in OauthState, BeginAuthorization(s)
  PROVE  GhlInv'
<1>1. /\ oauth[s] = "none" /\ oauth' = [oauth EXCEPT ![s] = "pending"]
      /\ UNCHANGED <<exchanged, owner, integ, callback, refresh, issued, grantee,
                     presented, revived, callbacks, lostRefreshes>>
  BY DEF BeginAuthorization
<1>2. /\ oauth' \in [OauthState -> {"none", "pending", "consumed"}]
      /\ \A r \in OauthState : oauth[r] = "consumed" => oauth'[r] = "consumed"
      /\ \A r \in OauthState : oauth'[r] # "consumed" => oauth[r] # "consumed"
  BY <1>1 DEF GhlInv, GhlTypes
<1>3. GhlTypes'
  BY <1>1, <1>2 DEF GhlInv, GhlTypes
<1>4. \A r \in OauthState : StateInv(r)'
  BY <1>1, <1>2 DEF GhlInv, StateInv, Exchanging
<1>5. OneCommits' /\ \A f \in Callback : (CallbackHolds(callback[f]) /\ CommitInv(f) /\ InHandInv(f))'
  BY <1>1 DEF GhlInv, OneCommits, Committing, CallbackHolds, Connecting, CommitInv, InHandInv
<1>6. (\A l \in Location : RowInv(l)') /\ (\A c \in Caller : RefreshInv(c)')
  BY <1>1 DEF GhlInv, RowInv, Refreshing, RefreshInv, RefreshRecord
<1>7. \A t \in Token : TokenInv(t)'
  BY <1>1 DEF GhlInv, TokenInv
<1> QED
  BY <1>3, <1>4, <1>5, <1>6, <1>7 DEF GhlInv

LEMMA GhlStep == ASSUME GhlInv, [GhlNext]_ghlVars PROVE GhlInv'
<1>1. CASE UNCHANGED ghlVars
  BY <1>1 DEF ghlVars, GhlInv, GhlTypes, StateInv, Exchanging, OneCommits, Committing,
       CallbackHolds, Connecting, CommitInv, InHandInv, RowInv, Refreshing, RefreshInv,
       RefreshRecord, TokenInv
<1>2. CASE GhlNext
  BY <1>2, BeginAuthorizationInv, ConsumeStateInv, BeginInstallInv, BeginPrivateInv,
     ExchangeInv, PickLocationInv, LocationFailsInv, ResolveInv, ConnectSelectInv,
     ConnectCommitInv, ExpireInv, DisconnectInv, RefreshBeginInv, RefreshCommitInv,
     RefreshLostInv
     DEF GhlNext, CallbackStep
<1> QED
  BY <1>1, <1>2

GhlIsSafe ==
  GhlTypeOK /\ StateUsedOnce /\ ConnectedHasCredentials /\ CredentialsFit /\ PresentedOnce

LEMMA GhlInvImplies == GhlInv => GhlIsSafe
<1> SUFFICES ASSUME GhlInv PROVE GhlIsSafe
  OBVIOUS
<1>1. /\ \A r \in {NoRefresh} \union RefreshRecord :
           r \in [loc : Location \union {NoLoc}, id : Nat, cred : Token \union {NoCred}]
      /\ CallbackRecord =
           [pc : {"idle", "exchange", "pick", "resolve", "connect", "commit"},
            org : Org \union {NoOrg}, state : OauthState \union {NoState},
            todo : SUBSET Location, failed : SUBSET Location,
            installed : SUBSET Location, loc : Location \union {NoLoc},
            cred : Token \union {NoCred, Private}, retire : BOOLEAN]
      /\ IntegRecord =
           [id : Nat, status : {"none", "connected", "revoked"},
            cred : Token \union {NoCred, Private}, expired : BOOLEAN]
  BY DEF NoRefresh, RefreshRecord, CallbackRecord, IntegRecord, Cred
<1>2. GhlTypeOK
  <2>1. \A l \in Location : owner[l] = NoOrg <=> integ[l].status = "none"
    BY DEF GhlInv, RowInv
  <2>2. \A f \in Callback :
          /\ callback[f].loc # NoLoc <=> callback[f].pc \in {"resolve", "connect", "commit"}
          /\ callback[f].todo # {} => callback[f].pc # "idle"
    BY DEF GhlInv, CallbackHolds, Connecting
  <2>3. refresh \in [Caller ->
          [loc : Location \union {NoLoc}, id : Nat, cred : Token \union {NoCred}]]
    BY <1>1 DEF GhlInv, GhlTypes
  <2> QED
    BY <1>1, <2>1, <2>2, <2>3 DEF GhlInv, GhlTypes, GhlTypeOK
<1>3. StateUsedOnce
  BY DEF GhlInv, StateInv, StateUsedOnce
<1>4. ConnectedHasCredentials /\ CredentialsFit
  BY DEF GhlInv, RowInv, ConnectedHasCredentials, CredentialsFit
<1>5. PresentedOnce
  BY DEF GhlInv, TokenInv, PresentedOnce
<1> QED
  BY <1>2, <1>3, <1>4, <1>5 DEF GhlIsSafe

(* The steps of LiveMappingKept and EveryLocationTried.                    *)
MappingStep ==
  \A l \in Location :
    owner'[l] # owner[l] /\ integ[l].status = "connected" => l \in revived
TriedStep ==
  \A f \in Callback :
    callback[f].pc \notin {"idle", "exchange"} /\ callback'[f].pc = "idle"
      => callback'[f].installed \union callback'[f].failed
           = callback[f].todo \union callback[f].installed \union callback[f].failed

LEMMA MappingKeeps == ASSUME GhlInv, [GhlNext]_ghlVars PROVE MappingStep
<1> SUFFICES ASSUME NEW l \in Location, owner'[l] # owner[l], integ[l].status = "connected"
             PROVE  l \in revived
  BY DEF MappingStep
<1>1. PICK f \in Callback : ConnectCommit(f)
  BY DEF GhlNext, ghlVars, CallbackStep, BeginAuthorization, ConsumeState, BeginInstall,
       BeginPrivate, ExchangeCode, ExchangeFails, PickLocation, LocationFails,
       ResolveOrganization, ConnectSelect, Expire, Disconnect, RefreshBegin, RefreshCommit,
       RefreshLost
<1>2. /\ callback[f].pc = "commit" /\ owner' = [owner EXCEPT ![callback[f].loc] = callback[f].org]
  BY <1>1 DEF ConnectCommit
<1>3. l = callback[f].loc /\ owner[l] # callback[f].org
  BY <1>2 DEF GhlInv, GhlTypes
<1>4. owner[l] # NoOrg
  BY DEF GhlInv, RowInv
<1> QED
  BY <1>2, <1>3, <1>4 DEF GhlInv, CommitInv

LEMMA EachIsTried == ASSUME GhlInv, [GhlNext]_ghlVars PROVE TriedStep
<1> SUFFICES ASSUME NEW f \in Callback, callback[f].pc \notin {"idle", "exchange"},
                    callback'[f].pc = "idle"
             PROVE  callback'[f].installed \union callback'[f].failed
                      = callback[f].todo \union callback[f].installed \union callback[f].failed
  BY DEF TriedStep
<1>1. callback \in [Callback -> CallbackRecord] /\ CallbackHolds(callback[f])
  BY CallbackIs DEF GhlInv, GhlTypes
<1>2. callback[f] \in CallbackRecord /\ (callback[f].state # NoState => callback[f].org \in Org)
  BY <1>1 DEF CallbackHolds
<1>3. ASSUME NEW cb \in CallbackRecord, NEW done \in SUBSET Location, NEW bad \in SUBSET Location,
             callback'[f] = After(cb, done, bad), cb.pc # "idle",
             cb.state # NoState => cb.org \in Org,
             cb.installed = callback[f].installed, cb.failed = callback[f].failed,
             cb.todo = callback[f].todo, cb.loc \in cb.todo, done \union bad = {cb.loc}
      PROVE  callback'[f].installed \union callback'[f].failed
               = callback[f].todo \union callback[f].installed \union callback[f].failed
  <2>1. PICK a : a = After(cb, done, bad)
    OBVIOUS
  <2>3. /\ a.pc = "idle" <=> cb.todo \subseteq {cb.loc}
        /\ a.installed = cb.installed \union done /\ a.failed = cb.failed \union bad
    BY <1>3, <2>1, AfterFields
  <2>2. cb.todo = {cb.loc}
    BY <1>3, <2>1, <2>3
  <2> QED
    BY <1>3, <2>1, <2>2, <2>3
<1>4. CASE \E g \in Callback : LocationFails(g)
  <2>1. LocationFails(f)
    <3>1. PICK g \in Callback : LocationFails(g)
      BY <1>4
    <3>2. g # f => callback'[f] = callback[f]
      BY <1>1, <3>1 DEF LocationFails
    <3> QED
      BY <3>1, <3>2
  <2>2. CASE callback[f].pc = "pick"
    <3>1. PICK l \in callback[f].todo :
            callback' = [callback EXCEPT ![f] = Failed([@ EXCEPT !.loc = l])]
      BY <2>1, <2>2 DEF LocationFails
    <3>2. PICK cb : cb = [callback[f] EXCEPT !.loc = l]
      OBVIOUS
    <3>3. /\ cb \in CallbackRecord /\ cb.loc = l /\ cb.pc = callback[f].pc
          /\ cb.state = callback[f].state /\ cb.org = callback[f].org
          /\ cb.todo = callback[f].todo /\ cb.installed = callback[f].installed
          /\ cb.failed = callback[f].failed /\ l \in Location
      BY <1>2, <3>2 DEF CallbackRecord
    <3>4. callback'[f] = After(cb, {}, {l})
      BY <1>1, <3>1, <3>2, <3>3 DEF Failed
    <3>5. {} \in SUBSET Location /\ {l} \in SUBSET Location /\ {} \union {l} = {cb.loc}
      BY <3>3
    <3> QED
      BY <1>2, <1>3, <3>3, <3>4, <3>5
  <2>3. CASE callback[f].pc # "pick"
    <3>1. /\ callback[f].pc \in {"resolve", "connect"}
          /\ callback'[f] = After(callback[f], {}, {callback[f].loc})
      BY <1>1, <2>1, <2>3 DEF LocationFails, Failed
    <3>2. callback[f].loc \in callback[f].todo
      BY <1>1, <3>1 DEF CallbackHolds, Connecting
    <3>3. {callback[f].loc} \in SUBSET Location
      BY <1>2, <3>2 DEF CallbackRecord
    <3>4. {} \in SUBSET Location /\ {} \union {callback[f].loc} = {callback[f].loc}
      OBVIOUS
    <3> QED
      BY <1>2, <1>3, <3>1, <3>2, <3>3, <3>4
  <2> QED
    BY <2>2, <2>3
<1>5. CASE \E g \in Callback : ConnectSelect(g)
  <2>1. ConnectSelect(f)
    <3>1. PICK g \in Callback : ConnectSelect(g)
      BY <1>5
    <3>2. g # f => callback'[f] = callback[f]
      BY <1>1, <3>1 DEF ConnectSelect
    <3> QED
      BY <3>1, <3>2
  <2>2. /\ callback[f].pc = "connect"
        /\ callback'[f] = Failed(callback[f]) \/ callback'[f].pc = "commit"
    <3>1. PICK r : r = (owner[callback[f].loc] \notin {NoOrg, callback[f].org})
      OBVIOUS
    <3>2. [callback[f] EXCEPT !.pc = "commit", !.retire = r].pc = "commit"
      BY <1>2 DEF CallbackRecord
    <3> QED
      BY <1>1, <2>1, <3>1, <3>2 DEF ConnectSelect
  <2>3. callback'[f] = After(callback[f], {}, {callback[f].loc})
    BY <2>2 DEF Failed
  <2>4. callback[f].loc \in callback[f].todo
    BY <1>1, <2>2 DEF CallbackHolds, Connecting
  <2>5. {callback[f].loc} \in SUBSET Location
    BY <1>2, <2>4 DEF CallbackRecord
  <2>6. {} \in SUBSET Location /\ {} \union {callback[f].loc} = {callback[f].loc}
    OBVIOUS
  <2> QED
    BY <1>2, <1>3, <2>3, <2>4, <2>5, <2>6
<1>6. CASE \E g \in Callback : ConnectCommit(g)
  <2>1. ConnectCommit(f)
    <3>1. PICK g \in Callback : ConnectCommit(g)
      BY <1>6
    <3>2. g # f => callback'[f] = callback[f]
      BY <1>1, <3>1 DEF ConnectCommit
    <3> QED
      BY <3>1, <3>2
  <2>2. callback[f].pc = "commit" /\ callback'[f] = After(callback[f], {callback[f].loc}, {})
    BY <1>1, <2>1 DEF ConnectCommit
  <2>3. callback[f].loc \in callback[f].todo
    BY <1>1, <2>2 DEF CallbackHolds, Connecting
  <2>4. {callback[f].loc} \in SUBSET Location
    BY <1>2, <2>3 DEF CallbackRecord
  <2>5. {} \in SUBSET Location /\ {callback[f].loc} \union {} = {callback[f].loc}
    OBVIOUS
  <2> QED
    BY <1>2, <1>3, <2>2, <2>3, <2>4, <2>5
<1>7. CASE \E g \in Callback :
             \/ ExchangeCode(g) \/ ExchangeFails(g) \/ PickLocation(g)
             \/ ResolveOrganization(g) \/ BeginInstall(g)
             \/ \E s \in OauthState : ConsumeState(g, s)
             \/ \E o \in Org, l \in Location : BeginPrivate(g, o, l)
  <2>1. PICK g \in Callback :
          \/ ExchangeCode(g) \/ ExchangeFails(g) \/ PickLocation(g)
          \/ ResolveOrganization(g) \/ BeginInstall(g)
          \/ \E s \in OauthState : ConsumeState(g, s)
          \/ \E o \in Org, l \in Location : BeginPrivate(g, o, l)
    BY <1>7
  <2>2. g # f => callback'[f] = callback[f]
    BY <1>1, <2>1 DEF ExchangeCode, ExchangeFails, PickLocation, ResolveOrganization,
         BeginInstall, ConsumeState, BeginPrivate
  <2>3. PickLocation(f) \/ ResolveOrganization(f)
    BY <2>1, <2>2 DEF ExchangeCode, ExchangeFails, BeginInstall, ConsumeState, BeginPrivate
  <2>4. CASE PickLocation(f)
    <3>1. PICK l \in callback[f].todo : callback' = [callback EXCEPT ![f] =
            [@ EXCEPT !.loc = l, !.cred = issued + 1,
                      !.pc = IF callback[f].state = NoState THEN "resolve" ELSE "connect"]]
      BY <2>4 DEF PickLocation
    <3> QED
      BY <1>1, <1>2, <3>1 DEF CallbackRecord
  <2>5. CASE ResolveOrganization(f)
    BY <1>1, <1>2, <2>5 DEF ResolveOrganization, CallbackRecord
  <2> QED
    BY <2>3, <2>4, <2>5
<1>8. CASE UNCHANGED callback
  BY <1>8
<1>9. CASE \/ \E s \in OauthState : BeginAuthorization(s)
           \/ \E l \in Location : Expire(l) \/ Disconnect(l)
           \/ \E c \in Caller :
                (\E l \in Location : RefreshBegin(c, l)) \/ RefreshCommit(c) \/ RefreshLost(c)
           \/ UNCHANGED ghlVars
  <2>1. UNCHANGED callback
    BY <1>9 DEF ghlVars, BeginAuthorization, Expire, Disconnect, RefreshBegin,
         RefreshCommit, RefreshLost
  <2> QED
    BY <1>8, <2>1
<1>10. ASSUME NEW g \in Callback,
              \/ \E s \in OauthState : ConsumeState(g, s)
              \/ BeginInstall(g)
              \/ \E o \in Org, l \in Location : BeginPrivate(g, o, l)
              \/ CallbackStep(g)
       PROVE  callback'[f].installed \union callback'[f].failed
                = callback[f].todo \union callback[f].installed \union callback[f].failed
  <2>1. CASE LocationFails(g) \/ ConnectSelect(g) \/ ConnectCommit(g)
    BY <1>4, <1>5, <1>6, <2>1
  <2>2. CASE ~ (LocationFails(g) \/ ConnectSelect(g) \/ ConnectCommit(g))
    <3>1. \/ ExchangeCode(g) \/ ExchangeFails(g) \/ PickLocation(g)
          \/ ResolveOrganization(g) \/ BeginInstall(g)
          \/ \E s \in OauthState : ConsumeState(g, s)
          \/ \E o \in Org, l \in Location : BeginPrivate(g, o, l)
      BY <1>10, <2>2 DEF CallbackStep
    <3> QED
      BY <1>7, <3>1
  <2> QED
    BY <2>1, <2>2
<1> QED
  BY <1>9, <1>10 DEF GhlNext

(* Authorizations, installations, refreshes and disconnections in any      *)
(* order: each state is used once, a connected integration has credentials *)
(* that were obtained for its owner, a refresh token is presented once     *)
(* unless an outcome was lost, a live mapping stays its organization's,    *)
(* and an agency's installation tries every location it found.             *)
THEOREM GhlCorrect == GhlSpec => []GhlIsSafe /\ LiveMappingKept /\ EveryLocationTried
<1>1. GhlInv /\ [GhlNext]_ghlVars => GhlInv'
  BY GhlStep
<1>2. GhlSpec => []GhlInv
  BY <1>1, GhlInitInv, PTL DEF GhlSpec
<1>3. GhlInv /\ [GhlNext]_ghlVars => [MappingStep]_ghlVars
  BY MappingKeeps
<1>4. GhlInv /\ [GhlNext]_ghlVars => [TriedStep]_ghlVars
  BY EachIsTried
<1>5. GhlSpec => [][MappingStep]_ghlVars /\ [][TriedStep]_ghlVars
  BY <1>2, <1>3, <1>4, PTL DEF GhlSpec
<1>6. [][MappingStep]_ghlVars => LiveMappingKept
  BY DEF MappingStep, LiveMappingKept
<1>7. [][TriedStep]_ghlVars => EveryLocationTried
  BY DEF TriedStep, EveryLocationTried
<1> QED
  BY <1>2, <1>5, <1>6, <1>7, GhlInvImplies, PTL

-----------------------------------------------------------------------------
(* GoHighLevel's webhooks.                                                 *)

(* The location belonged to whoever has it now, what was published or      *)
(* answered as processed is logged as processed.                           *)
WebhookInv ==
  /\ WebhookTypeOK
  /\ tenant \in everTenant \union {NoTenant}
  /\ \A n \in Notification : \A o \in Tenant :
       published[n][o] > 0 => log[n] = "processed"
  /\ \A n \in Notification : "processed" \in answered[n] => log[n] = "processed"
  /\ PublishedOnce
  /\ AcceptedIsPublished

LEMMA WebhookInitInv == WebhookInit => WebhookInv
BY WebhookAssumption DEF WebhookInit, WebhookInv, WebhookTypeOK, PublishedOnce,
   AcceptedIsPublished, NoDelivery

(* A request is answered, and nothing of it is left.                       *)
LEMMA DeliveryEnds ==
  ASSUME WebhookInv, NEW d \in Delivery, delivery' = Answered(d),
         UNCHANGED <<tenant, handovers, everTenant, deliveries>>,
         log' \in [Notification -> {"none", "processed", "rejected", "ignored"}],
         published' \in [Notification -> [Tenant -> Nat]],
         answered' \in [Notification -> SUBSET {"processed", "duplicate", "unknown"}]
  PROVE  WebhookTypeOK'
<1>1. NoDelivery \in [note : Notification \union {Unsent}, genuine : BOOLEAN,
                      tenant : Tenant \union {NoTenant}]
  BY DEF NoDelivery
<1> QED
  BY <1>1 DEF WebhookInv, WebhookTypeOK, Answered, NoDelivery

LEMMA WebhookStep ==
  ASSUME WebhookInv, [WebhookNext]_webhookVars
  PROVE  WebhookInv'
<1> USE WebhookAssumption
<1>1. ASSUME NEW o \in Tenant \union {NoTenant}, Handover(o) PROVE WebhookInv'
  BY <1>1 DEF Handover, WebhookInv, WebhookTypeOK, PublishedOnce, AcceptedIsPublished
<1>2. ASSUME NEW d \in Delivery, NEW n \in Notification, Receive(d, n) PROVE WebhookInv'
  <2>1. PICK e, r, h \in Signature :
          delivery' = [delivery EXCEPT ![d] =
            [note |-> n, genuine |-> Verified(e, r, h), tenant |-> tenant]]
    BY <1>2 DEF Receive
  <2>2. Verified(e, r, h) \in BOOLEAN
    BY DEF Verified
  <2>3. WebhookTypeOK'
    BY <1>2, <2>1, <2>2 DEF Receive, WebhookInv, WebhookTypeOK
  <2> QED
    BY <1>2, <2>3 DEF Receive, WebhookInv, PublishedOnce, AcceptedIsPublished
<1>3. ASSUME NEW d \in Delivery, Reject(d) \/ IgnoreUnknown(d) PROVE WebhookInv'
  <2>1. PICK n \in Notification : n = delivery[d].note
    BY <1>3 DEF Reject, IgnoreUnknown, WebhookInv, WebhookTypeOK
  <2>2. PICK s \in {"rejected", "ignored"} :
          log' = Logged(n, s) /\ delivery' = Answered(d)
    BY <1>3, <2>1 DEF Reject, IgnoreUnknown
  <2>3. \/ answered' = answered
        \/ answered' = [answered EXCEPT ![n] = @ \union {"unknown"}]
    BY <1>3, <2>1 DEF Reject, IgnoreUnknown
  <2>4. /\ UNCHANGED <<tenant, handovers, everTenant, published, deliveries>>
    BY <1>3 DEF Reject, IgnoreUnknown
  <2>5. /\ log' \in [Notification -> {"none", "processed", "rejected", "ignored"}]
        /\ answered' \in [Notification -> SUBSET {"processed", "duplicate", "unknown"}]
        /\ \A m \in Notification :
             /\ log[m] # "none" => log'[m] = log[m]
             /\ log[m] = "none" => log'[m] \in {"none", "rejected", "ignored"}
             /\ \A x \in {"processed", "duplicate"} :
                  x \in answered'[m] <=> x \in answered[m]
    BY <2>2, <2>3 DEF Logged, WebhookInv, WebhookTypeOK
  <2>6. WebhookTypeOK'
    BY <2>2, <2>4, <2>5, DeliveryEnds DEF WebhookInv, WebhookTypeOK
  <2>7. AcceptedIsPublished'
    BY <2>4, <2>5 DEF WebhookInv, WebhookTypeOK, AcceptedIsPublished
  <2> QED
    BY <2>4, <2>5, <2>6, <2>7 DEF WebhookInv, WebhookTypeOK, PublishedOnce
<1>4. ASSUME NEW d \in Delivery, DropDuplicate(d) PROVE WebhookInv'
  <2>1. PICK n \in Notification : n = delivery[d].note
    BY <1>4 DEF DropDuplicate, WebhookInv, WebhookTypeOK
  <2>2. /\ log[n] # "none" /\ delivery' = Answered(d)
        /\ answered' = [answered EXCEPT ![n] = @ \union {"duplicate"}]
        /\ UNCHANGED <<tenant, handovers, everTenant, log, published, deliveries>>
    BY <1>4, <2>1 DEF DropDuplicate, Duplicate
  <2>3. /\ answered' \in [Notification -> SUBSET {"processed", "duplicate", "unknown"}]
        /\ \A m \in Notification :
             /\ "processed" \in answered'[m] <=> "processed" \in answered[m]
             /\ m # n => answered'[m] = answered[m]
    BY <2>2 DEF WebhookInv, WebhookTypeOK
  <2>4. WebhookTypeOK'
    BY <2>2, <2>3, DeliveryEnds DEF WebhookInv, WebhookTypeOK
  <2>5. AcceptedIsPublished'
    BY <2>2, <2>3 DEF WebhookInv, WebhookTypeOK, AcceptedIsPublished
  <2> QED
    BY <2>2, <2>3, <2>4, <2>5 DEF WebhookInv, PublishedOnce
<1>5. ASSUME NEW d \in Delivery, Process(d) PROVE WebhookInv'
  <2>1. PICK n \in Notification, t \in Tenant :
          n = delivery[d].note /\ t = delivery[d].tenant
    BY <1>5 DEF Process, WebhookInv, WebhookTypeOK
  <2>2. /\ log[n] = "none" /\ delivery' = Answered(d)
        /\ log' = [log EXCEPT ![n] = "processed"]
        /\ answered' = [answered EXCEPT ![n] = @ \union {"processed"}]
        /\ published' = IF Eventful(n) THEN [published EXCEPT ![n][t] = @ + 1]
                        ELSE published
        /\ UNCHANGED <<tenant, handovers, everTenant, deliveries>>
    BY <1>5, <2>1 DEF Process, Duplicate, Publishes, PublishedFor
  <2>3. \A o \in Tenant : published[n][o] = 0
    BY <2>2 DEF WebhookInv, WebhookTypeOK
  <2>4. /\ published' \in [Notification -> [Tenant -> Nat]]
        /\ \A m \in Notification : m # n => published'[m] = published[m]
        /\ \A o \in Tenant : published'[n][o] = IF Eventful(n) /\ o = t THEN 1 ELSE 0
    BY <2>2, <2>3 DEF WebhookInv, WebhookTypeOK
  <2>5. /\ answered' \in [Notification -> SUBSET {"processed", "duplicate", "unknown"}]
        /\ \A m \in Notification : m # n => answered'[m] = answered[m]
        /\ log' \in [Notification -> {"none", "processed", "rejected", "ignored"}]
        /\ log'[n] = "processed" /\ \A m \in Notification : m # n => log'[m] = log[m]
    BY <2>2 DEF WebhookInv, WebhookTypeOK
  <2>6. WebhookTypeOK'
    BY <2>2, <2>4, <2>5, DeliveryEnds DEF WebhookInv, WebhookTypeOK
  <2>7. PublishedOnce'
    BY <2>4 DEF WebhookInv, PublishedOnce
  <2>8. AcceptedIsPublished'
    BY <2>4, <2>5 DEF WebhookInv, AcceptedIsPublished, Eventful
  <2> QED
    BY <2>2, <2>4, <2>5, <2>6, <2>7, <2>8 DEF WebhookInv
<1>6. ASSUME NEW d \in Delivery, DeliveryLost(d) PROVE WebhookInv'
  <2>1. WebhookTypeOK'
    BY <1>6, DeliveryEnds DEF DeliveryLost, WebhookInv, WebhookTypeOK
  <2> QED
    BY <1>6, <2>1 DEF DeliveryLost, WebhookInv, PublishedOnce, AcceptedIsPublished
<1>7. CASE UNCHANGED webhookVars
  BY <1>7 DEF webhookVars, WebhookInv, WebhookTypeOK, PublishedOnce, AcceptedIsPublished
<1> QED
  BY <1>1, <1>2, <1>3, <1>4, <1>5, <1>6, <1>7 DEF WebhookNext

(* A step publishes only for the organization its delivery has looked up.  *)
LEMMA PublishesForReader ==
  ASSUME WebhookInv, [WebhookNext]_webhookVars,
         NEW n \in Notification, NEW o \in Tenant, published'[n][o] > published[n][o]
  PROVE  \E d \in Delivery : /\ delivery[d].note = n /\ delivery[d].tenant = o
                             /\ delivery[d].genuine
<1>1. published' # published
  BY DEF WebhookInv, WebhookTypeOK
<1>2. PICK d \in Delivery : Process(d)
  BY <1>1 DEF WebhookNext, webhookVars, Handover, Receive, Reject, IgnoreUnknown,
     DropDuplicate, DeliveryLost
<1>3. published' = [published EXCEPT ![delivery[d].note][delivery[d].tenant] = @ + 1]
  BY <1>1, <1>2 DEF Process, PublishedFor
<1>4. delivery[d].note \in Notification /\ delivery[d].tenant \in Tenant
  BY <1>2 DEF Process, WebhookInv, WebhookTypeOK
<1>5. delivery[d].note = n /\ delivery[d].tenant = o
  BY <1>3, <1>4 DEF WebhookInv, WebhookTypeOK
<1> QED
  BY <1>2, <1>5 DEF Process

(* A notification becomes an event at most once, for one organization, and *)
(* one that was answered as accepted has its event (ghl-webhook.service.ts *)
(* receive), however often it is delivered.                                *)
THEOREM WebhooksCorrect ==
  WebhookSpec => [](WebhookTypeOK /\ PublishedOnce /\ AcceptedIsPublished)
<1>1. WebhookInv /\ [WebhookNext]_webhookVars => WebhookInv'
  BY WebhookStep
<1>2. WebhookInv => WebhookTypeOK /\ PublishedOnce /\ AcceptedIsPublished
  BY DEF WebhookInv
<1> QED
  BY <1>1, <1>2, WebhookInitInv, PTL DEF WebhookSpec

-----------------------------------------------------------------------------
(* The keys of the embedded dashboard.                                     *)

KeyRecord == [state : {"active", "revoked"}, at : KeyLocation, byHand : BOOLEAN]

(* What a provisioning knows where it is: what it read is a key that was   *)
(* made, which does not open the dashboard once it was checked; the one it *)
(* has in hand is its location's, is valid unless it was lost, and is      *)
(* published nowhere.                                                      *)
ProvisionerInv(p) ==
  LET q == provisioner[p] IN
  /\ q.at \in Steps
  /\ q.at \in {"reading", "checking", "issuing", "publishing"} => q.location \in KeyLocation
  /\ q.at \in {"checking", "issuing", "publishing", "revoking"} =>
       q.current = NoKey \/ (q.current \in Key /\ key[q.current] \in KeyRecord)
  /\ q.at \in {"checking", "issuing", "publishing"} /\ q.current # NoKey =>
       Published(q.location) # NoKey
  /\ q.at \in {"issuing", "publishing"} => ~ Opens(q.current, q.location)
  /\ q.at = "publishing" =>
       /\ q.key \in Key /\ key[q.key] \in KeyRecord /\ key[q.key].at = q.location
       /\ Active(q.key) \/ q.key \in lostKeys
       /\ \A l \in KeyLocation : Published(l) # q.key

Holding(p, k) == provisioner[p].at = "publishing" /\ provisioner[p].key = k
HeldByOne ==
  \A k \in Key : \A p, o \in Provisioner : Holding(p, k) /\ Holding(o, k) => p = o

KeyInv(k) ==
  Active(k) /\ ~ key[k].byHand =>
    \/ k \in stray \/ \E p \in Provisioner : Holding(p, k)
    \/ Published(key[k].at) = k

UrlInv(l) ==
  LET k == Published(l) IN
  /\ k # NoKey => key[k] \in KeyRecord
  /\ l \in edited \/ k \in {NoKey} \union lostKeys \/ Opens(k, l)

KeyTypes ==
  /\ key \in [Key -> {Absent} \union KeyRecord]
  /\ values \in [KeyLocation -> Seq(Key)]
  /\ provisioner = [p \in Provisioner |-> provisioner[p]]
  /\ edited \subseteq KeyLocation /\ lostKeys \subseteq Key /\ stray \subseteq Key
  /\ keyEvents \in 0..MaxKeyEvents

KeysInv ==
  /\ KeyTypes
  /\ \A p \in Provisioner : ProvisionerInv(p)
  /\ HeldByOne
  /\ \A k \in Key : KeyInv(k)
  /\ \A l \in KeyLocation : UrlInv(l)

LEMMA PublishedIsKey ==
  ASSUME values \in [KeyLocation -> Seq(Key)], NEW l \in KeyLocation
  PROVE  /\ values[l] = <<>> => Published(l) = NoKey
         /\ values[l] # <<>> => Published(l) \in Key /\ Published(l) # NoKey
BY KeyAssumption DEF Published

LEMMA AbsentIsNone == Absent \notin KeyRecord
<1>1. Absent.state = "absent"
  BY DEF Absent
<1> QED
  BY <1>1 DEF KeyRecord

LEMMA KeysInitInv == KeysInit => KeysInv
<1> SUFFICES ASSUME KeysInit PROVE KeysInv
  OBVIOUS
<1>1. MaxKeyEvents \in Nat /\ NoKey \notin Key
  BY KeyAssumption
<1>2. KeyTypes
  BY <1>1 DEF KeysInit, KeyTypes
<1>3. \A k \in Key : ~ Active(k)
  BY DEF KeysInit, Active, Absent
<1>4. \A l \in KeyLocation : Published(l) = NoKey
  BY DEF KeysInit, Published
<1>5. \A p \in Provisioner : provisioner[p].at = "idle"
  BY DEF KeysInit, Resting
<1> QED
  BY <1>2, <1>3, <1>4, <1>5 DEF KeysInv, ProvisionerInv, Steps, HeldByOne, Holding, KeyInv, UrlInv

LEMMA ProvisionerMoves ==
  ASSUME KeyTypes, NEW p \in Provisioner, NEW to, ProvisionerGoes(p, to)
  PROVE  /\ provisioner'[p] = to
         /\ \A o \in Provisioner : o # p => provisioner'[o] = provisioner[o]
         /\ provisioner' = [o \in Provisioner |-> provisioner'[o]]
<1>1. provisioner = [o \in Provisioner |-> provisioner[o]]
  BY DEF KeyTypes
<1> HIDE DEF KeyTypes
<1>2. provisioner' = [o \in Provisioner |-> IF o = p THEN to ELSE provisioner[o]]
  BY <1>1 DEF ProvisionerGoes
<1> QED
  BY <1>2

(* Keys and values stay, no key leaves a provisioning's hand.              *)
LEMMA KeysRest ==
  ASSUME KeysInv, NEW p \in Provisioner, UNCHANGED <<key, values, lostKeys>>,
         edited' \subseteq edited,
         \A l \in edited \ edited' : Opens(Published(l), l),
         stray \subseteq stray', stray' \subseteq Key, keyEvents' \in 0..MaxKeyEvents,
         provisioner' = [o \in Provisioner |-> provisioner'[o]],
         \A o \in Provisioner : o # p => provisioner'[o] = provisioner[o],
         provisioner'[p].at # "publishing",
         provisioner[p].at = "publishing" => provisioner[p].key \in stray',
         ProvisionerInv(p)'
  PROVE  KeysInv'
<1>1. KeyTypes'
  BY DEF KeysInv, KeyTypes
<1>2. ASSUME NEW o \in Provisioner, o # p PROVE ProvisionerInv(o)'
  BY <1>2 DEF KeysInv, ProvisionerInv, Published, Opens, Active
<1>3. HeldByOne'
  BY DEF KeysInv, HeldByOne, Holding
<1>4. ASSUME NEW k \in Key PROVE KeyInv(k)'
  BY DEF KeysInv, KeyInv, Holding, Active, Published
<1>5. ASSUME NEW l \in KeyLocation PROVE UrlInv(l)'
  BY DEF KeysInv, UrlInv, Opens, Active, Published
<1> QED
  BY <1>1, <1>2, <1>3, <1>4, <1>5 DEF KeysInv

(* The value of a location after one is written to it.                     *)
LEMMA UrlWritten ==
  ASSUME KeysInv, NEW p \in Provisioner, provisioner[p].at = "publishing",
         NEW l \in KeyLocation, l = provisioner[p].location,
         NEW k \in Key, k = provisioner[p].key,
         values' = [values EXCEPT ![l] = Rewritten(p)]
  PROVE  /\ values' \in [KeyLocation -> Seq(Key)]
         /\ Head(Rewritten(p)) = Published(l)'
         /\ Published(l)' = IF provisioner[p].current = NoKey /\ Published(l) # NoKey
                            THEN Published(l) ELSE k
         /\ \A m \in KeyLocation : m # l => Published(m)' = Published(m)
<1>1. values \in [KeyLocation -> Seq(Key)] /\ values[l] \in Seq(Key)
  BY DEF KeysInv, KeyTypes
<1>2. provisioner[p].current # NoKey => values[l] # <<>>
  BY <1>1, PublishedIsKey DEF KeysInv, ProvisionerInv
<1>3. Rewritten(p) = IF provisioner[p].current = NoKey THEN Append(values[l], k)
                     ELSE <<k>> \o Tail(values[l])
  BY DEF Rewritten
<1>4. /\ Rewritten(p) \in Seq(Key) /\ Rewritten(p) # <<>>
      /\ Head(Rewritten(p)) = IF provisioner[p].current = NoKey /\ values[l] # <<>>
                              THEN Head(values[l]) ELSE k
  <2>1. CASE provisioner[p].current = NoKey /\ values[l] # <<>>
    BY <1>1, <1>3, <2>1
  <2>2. CASE provisioner[p].current = NoKey /\ values[l] = <<>>
    BY <1>1, <1>3, <2>2
  <2>3. CASE provisioner[p].current # NoKey
    BY <1>1, <1>2, <1>3, <2>3
  <2> QED
    BY <2>1, <2>2, <2>3
<1>5. values' \in [KeyLocation -> Seq(Key)] /\ values'[l] = Rewritten(p)
  BY <1>1, <1>4
<1>6. Published(l)' = Head(Rewritten(p))
  BY <1>4, <1>5 DEF Published
<1>7. \A m \in KeyLocation : m # l => Published(m)' = Published(m)
  BY <1>1 DEF Published
<1> QED
  BY <1>1, <1>4, <1>5, <1>6, <1>7, PublishedIsKey DEF Published

(* A provisioning writes a value: what it pushes out has no other that     *)
(* could revoke it, unless it is said to be stray.                         *)
LEMMA UrlPublished ==
  ASSUME KeysInv, NEW p \in Provisioner, provisioner[p].at = "publishing",
         NEW l \in KeyLocation, l = provisioner[p].location,
         NEW k \in Key, k = provisioner[p].key,
         values' = [values EXCEPT ![l] = Rewritten(p)],
         stray' = stray \union Displaced(p),
         UNCHANGED key \/ (key' = RevokedIn(key, k) /\ k \in lostKeys'),
         lostKeys \subseteq lostKeys', lostKeys' \subseteq Key,
         edited' = edited \/ (edited' = edited \ {l} /\ Published(l)' = k),
         keyEvents' \in 0..MaxKeyEvents,
         provisioner' = [o \in Provisioner |-> provisioner'[o]],
         \A o \in Provisioner : o # p => provisioner'[o] = provisioner[o],
         provisioner'[p].at # "publishing",
         ProvisionerInv(p)'
  PROVE  KeysInv'
<1>1. /\ values' \in [KeyLocation -> Seq(Key)]
      /\ Published(l)' = IF provisioner[p].current = NoKey /\ Published(l) # NoKey
                         THEN Published(l) ELSE k
      /\ \A m \in KeyLocation : m # l => Published(m)' = Published(m)
  BY UrlWritten
<1>2. NoKey \notin Key /\ \A m \in KeyLocation : Published(m) \in Key \union {NoKey}
  BY KeyAssumption, PublishedIsKey DEF KeysInv, KeyTypes
<1>3. /\ key[k] \in KeyRecord /\ key[k].at = l /\ (Active(k) \/ k \in lostKeys)
      /\ \A m \in KeyLocation : Published(m) # k
  BY DEF KeysInv, ProvisionerInv
<1>4. /\ key' \in [Key -> {Absent} \union KeyRecord]
      /\ \A j \in Key : j # k => key'[j] = key[j]
      /\ key'[k] \in KeyRecord /\ key'[k].at = l /\ key'[k].byHand = key[k].byHand
      /\ key'[k] = key[k] \/ k \in lostKeys'
  <2>1. [key[k] EXCEPT !.state = "revoked"] \in KeyRecord
    BY <1>3 DEF KeyRecord
  <2>2. /\ [key[k] EXCEPT !.state = "revoked"].at = key[k].at
        /\ [key[k] EXCEPT !.state = "revoked"].byHand = key[k].byHand
    BY <1>3 DEF KeyRecord
  <2>3. key \in [Key -> {Absent} \union KeyRecord]
    BY DEF KeysInv, KeyTypes
  <2> QED
    BY <1>3, <2>1, <2>2, <2>3 DEF RevokedIn
<1>5. Displaced(p) = IF Published(l) = provisioner[p].current THEN {}
                     ELSE IF provisioner[p].current = NoKey THEN {k} ELSE {Published(l)}
  BY DEF Displaced
<1>6. KeyTypes'
  <2>1. Published(l) = NoKey => Published(l) = provisioner[p].current \/ provisioner[p].current = NoKey
    BY DEF KeysInv, ProvisionerInv
  <2>2. stray \subseteq Key /\ edited \subseteq KeyLocation
    BY DEF KeysInv, KeyTypes
  <2>3. Displaced(p) \subseteq Key
    BY <1>2, <1>5, <2>1
  <2> QED
    BY <1>1, <1>4, <2>2, <2>3 DEF KeyTypes
<1>7. \A j \in Key : key[j] \in KeyRecord =>
        /\ key'[j] \in KeyRecord /\ key'[j].at = key[j].at
        /\ Active(j)' => Active(j)
        /\ Active(j) => Active(j)' \/ j \in lostKeys'
  <2>1. Active(k)' => Active(k) \/ k \in lostKeys
    BY <1>3
  <2>2. key'[k] = key[k] \/ key'[k].state = "revoked"
    BY <1>3, <1>4 DEF RevokedIn, KeysInv, KeyTypes, KeyRecord
  <2> QED
    BY <1>3, <1>4, <2>2 DEF Active
<1>8. ASSUME NEW o \in Provisioner, o # p PROVE ProvisionerInv(o)'
  <2>1. ProvisionerInv(o) /\ provisioner'[o] = provisioner[o]
    BY <1>8 DEF KeysInv
  <2>2. ~ Holding(o, k)
    BY <1>8 DEF KeysInv, HeldByOne, Holding
  <2>3. \A m \in KeyLocation : Published(m) # NoKey => Published(m)' # NoKey
    BY <1>1, <1>2
  <2>4. \A j \in Key, m \in KeyLocation : key[j] \in KeyRecord /\ ~ Opens(j, m) => ~ Opens(j, m)'
    BY <1>7 DEF Opens
  <2>5. ~ Opens(NoKey, provisioner[o].location)'
    BY <1>2 DEF Opens, Active
  <2>6. provisioner[o].at = "publishing" =>
          \A m \in KeyLocation : Published(m)' # provisioner[o].key
    BY <1>1, <2>1, <2>2 DEF ProvisionerInv, Holding
  <2> QED
    BY <1>7, <2>1, <2>3, <2>4, <2>5, <2>6 DEF ProvisionerInv
<1>9. HeldByOne'
  BY DEF KeysInv, HeldByOne, Holding
<1>10. ASSUME NEW j \in Key, Active(j)', ~ key'[j].byHand
       PROVE  \/ j \in stray' \/ \E o \in Provisioner : Holding(o, j)'
              \/ Published(key[j].at)' = j
  <2>1. CASE j = k
    <3>1. Published(l)' = k \/ k \in Displaced(p)
      BY <1>1, <1>5
    <3>2. CASE Published(l)' = k
      <4>1. key'[j].at = l
        BY <1>4, <2>1
      <4> QED
        BY <2>1, <3>2, <4>1
    <3> QED
      BY <2>1, <3>1, <3>2
  <2>2. CASE j # k
    <3>1. key'[j] = key[j] /\ Active(j) /\ ~ key[j].byHand /\ KeyInv(j) /\ key[j] \in KeyRecord
      BY <1>4, <1>10, <2>2, AbsentIsNone DEF KeysInv, KeyTypes, Active, Absent
    <3>2. CASE j \in stray
      BY <3>2
    <3>3. CASE \E o \in Provisioner : Holding(o, j)
      BY <2>2, <3>3 DEF Holding
    <3>4. CASE Published(key[j].at) = j
      <4>1. key[j].at \in KeyLocation
        BY <3>1 DEF KeyRecord
      <4>2. CASE key[j].at # l
        <5>1. PICK m \in KeyLocation : m = key[j].at
          BY <4>1
        <5>2. Published(m) = j /\ Published(m)' = j
          BY <1>1, <3>4, <4>2, <5>1
        <5>3. key'[j].at = m
          BY <3>1, <5>1
        <5> QED
          BY <5>2, <5>3
      <4>3. CASE key[j].at = l
        <5>1. Opens(j, l) /\ ~ Opens(provisioner[p].current, l)
          BY <3>1, <4>3 DEF Opens, KeysInv, ProvisionerInv
        <5>2. j # provisioner[p].current
          BY <5>1
        <5>3. provisioner[p].current = NoKey \/ Displaced(p) = {j}
          BY <1>5, <3>4, <4>3, <5>2
        <5>4. CASE Displaced(p) = {j}
          BY <5>4
        <5>5. CASE provisioner[p].current = NoKey
          <6>1. Published(l)' = j
            BY <1>1, <1>2, <3>4, <4>3, <5>5
          <6>2. key'[j].at = l
            BY <3>1, <4>3
          <6> QED
            BY <6>1, <6>2
        <5> QED
          BY <5>3, <5>4, <5>5
      <4> QED
        BY <4>2, <4>3
    <3> QED
      BY <3>1, <3>2, <3>3, <3>4 DEF KeyInv
  <2> QED
    BY <2>1, <2>2
<1>11. ASSUME NEW m \in KeyLocation PROVE UrlInv(m)'
  <2>1. CASE Published(m)' = Published(m) /\ Published(m) # k /\ (m \in edited' \/ m \notin edited)
    <3>1. Published(m) # NoKey => key'[Published(m)] = key[Published(m)]
      BY <1>2, <1>4, <2>1
    <3> QED
      BY <1>2, <2>1, <3>1 DEF KeysInv, UrlInv, Opens, Active
  <2>2. CASE Published(m)' = k /\ m = l
    BY <1>3, <1>4, <2>2 DEF UrlInv, Opens, Active
  <2> QED
    BY <1>1, <1>3, <2>1, <2>2
<1>12. ASSUME NEW j \in Key PROVE KeyInv(j)'
  BY <1>10 DEF KeyInv
<1>13. ProvisionerInv(p)'
  OBVIOUS
<1> QED
  BY <1>6, <1>8, <1>9, <1>11, <1>12, <1>13 DEF KeysInv

(* A key is revoked, and lost unless it is published nowhere; who had it   *)
(* in hand lets go of it.                                                  *)
LEMMA KeyRevoked ==
  ASSUME KeysInv, NEW k \in Key, key[k] \in KeyRecord, key' = RevokedIn(key, k),
         UNCHANGED <<values, edited, stray>>,
         lostKeys \subseteq lostKeys', lostKeys' \subseteq Key,
         \/ k \in lostKeys'
         \/ /\ \A l \in KeyLocation : Published(l) # k
            /\ \A o \in Provisioner : ~ Holding(o, k)',
         keyEvents' \in 0..MaxKeyEvents,
         provisioner' = [o \in Provisioner |-> provisioner'[o]],
         \A o \in Provisioner :
           \/ provisioner'[o] = provisioner[o]
           \/ provisioner'[o] = Resting
                /\ (provisioner[o].at = "publishing" => provisioner[o].key = k)
  PROVE  KeysInv'
<1>1. [key[k] EXCEPT !.state = "revoked"] \in KeyRecord
  BY DEF KeyRecord
<1>2. [key[k] EXCEPT !.state = "revoked"].at = key[k].at
  BY DEF KeyRecord
<1>3. [key[k] EXCEPT !.state = "revoked"].state = "revoked"
  BY DEF KeyRecord
<1>4. /\ key' \in [Key -> {Absent} \union KeyRecord]
      /\ \A j \in Key : j # k => key'[j] = key[j]
      /\ key'[k] \in KeyRecord /\ key'[k].at = key[k].at /\ ~ Active(k)'
  BY <1>1, <1>2, <1>3 DEF KeysInv, KeyTypes, RevokedIn, Active
<1>5. KeyTypes'
  BY <1>4 DEF KeysInv, KeyTypes
<1>6. \A j \in Key : key[j] \in KeyRecord =>
        /\ key'[j] \in KeyRecord /\ key'[j].at = key[j].at
        /\ Active(j)' => Active(j)
        /\ Active(j) /\ j # k => Active(j)'
  BY <1>4 DEF Active
<1>7. ASSUME NEW o \in Provisioner PROVE ProvisionerInv(o)'
  <2>1. CASE provisioner'[o] = Resting
    BY <2>1 DEF ProvisionerInv, Resting, Steps
  <2>2. CASE provisioner'[o] = provisioner[o]
    <3>1. ProvisionerInv(o)
      BY DEF KeysInv
    <3>2. \A j \in Key, m \in KeyLocation : key[j] \in KeyRecord /\ ~ Opens(j, m) => ~ Opens(j, m)'
      BY <1>6 DEF Opens
    <3>3. ~ Opens(NoKey, provisioner[o].location)'
      BY KeyAssumption DEF Opens, Active
    <3>4. \A m \in KeyLocation : Published(m)' = Published(m)
      BY DEF Published
    <3>5. provisioner[o].at = "publishing" /\ provisioner[o].key = k => k \in lostKeys'
      BY <2>2, <3>1, <3>4 DEF Holding
    <3> QED
      BY <1>6, <2>2, <3>1, <3>2, <3>3, <3>4, <3>5 DEF ProvisionerInv
  <2> QED
    BY <2>1, <2>2
<1>8. HeldByOne'
  BY DEF KeysInv, HeldByOne, Holding, Resting
<1>9. ASSUME NEW j \in Key PROVE KeyInv(j)'
  <2>1. CASE j = k
    BY <1>4, <2>1 DEF KeyInv
  <2>2. CASE j # k
    <3>1. key'[j] = key[j] /\ KeyInv(j)
      BY <1>4, <2>2 DEF KeysInv
    <3>2. \A o \in Provisioner : Holding(o, j) => Holding(o, j)'
      BY <2>2 DEF Holding, Resting
    <3> QED
      BY <3>1, <3>2 DEF KeyInv, Active, Published
  <2> QED
    BY <2>1, <2>2
<1>10. ASSUME NEW l \in KeyLocation PROVE UrlInv(l)'
  <2>1. Published(l)' = Published(l) /\ UrlInv(l)
    BY DEF KeysInv, Published
  <2>2. Published(l) \in Key \union {NoKey}
    BY PublishedIsKey DEF KeysInv, KeyTypes
  <2>3. Published(l) \in Key => (key[Published(l)] \in KeyRecord => key'[Published(l)] \in KeyRecord)
    BY <1>6
  <2>4. Published(l) \in Key /\ Opens(Published(l), l) =>
          Opens(Published(l), l)' \/ Published(l) \in lostKeys'
    <3>1. CASE Published(l) = k
      BY <3>1, <2>1
    <3>2. CASE Published(l) # k
      BY <1>4, <3>2, <2>1 DEF Opens, Active
    <3> QED
      BY <3>1, <3>2
  <2> QED
    BY <2>1, <2>2, <2>3, <2>4, KeyAssumption DEF UrlInv, Opens, Active
<1> QED
  BY <1>5, <1>7, <1>8, <1>9, <1>10 DEF KeysInv

(* A key that was not there is made: nothing refers to it yet.             *)
LEMMA KeyMade ==
  ASSUME KeysInv, NEW k \in Key, key[k] = Absent, NEW r \in KeyRecord,
         key' = [key EXCEPT ![k] = r],
         UNCHANGED <<values, edited, stray, lostKeys>>
  PROVE  /\ key' \in [Key -> {Absent} \union KeyRecord] /\ key'[k] = r
         /\ \A o \in Provisioner : ~ Holding(o, k)
         /\ \A o \in Provisioner : provisioner'[o] = provisioner[o] => ProvisionerInv(o)'
         /\ \A j \in Key : j # k => key'[j] = key[j]
         /\ \A l \in KeyLocation : Published(l) # k /\ Published(l)' = Published(l)
         /\ \A l \in KeyLocation : UrlInv(l)'
         /\ \A j \in Key : key[j] \in KeyRecord => key'[j] = key[j]
<1>1. key \in [Key -> {Absent} \union KeyRecord]
  BY DEF KeysInv, KeyTypes
<1>2. key' \in [Key -> {Absent} \union KeyRecord] /\ key'[k] = r
  BY <1>1
<1>3. \A j \in Key : j # k => key'[j] = key[j]
  BY <1>1
<1>4. key[k] \notin KeyRecord
  BY AbsentIsNone
<1>5. \A j \in Key : key[j] \in KeyRecord => key'[j] = key[j]
  BY <1>3, <1>4
<1>6. \A o \in Provisioner : ~ Holding(o, k)
  BY <1>4 DEF KeysInv, ProvisionerInv, Holding
<1>7. \A l \in KeyLocation : Published(l) # k /\ Published(l)' = Published(l)
  BY <1>4, KeyAssumption DEF KeysInv, UrlInv, Published
<1>8. ASSUME NEW o \in Provisioner, provisioner'[o] = provisioner[o] PROVE ProvisionerInv(o)'
  <2>1. ProvisionerInv(o)
    BY DEF KeysInv
  <2>2. \A j \in Key, m \in KeyLocation : key[j] \in KeyRecord /\ ~ Opens(j, m) => ~ Opens(j, m)'
    BY <1>5 DEF Opens, Active
  <2>3. ~ Opens(NoKey, provisioner[o].location)'
    BY KeyAssumption DEF Opens, Active
  <2>4. \A j \in Key : key[j] \in KeyRecord /\ Active(j) => Active(j)'
    BY <1>5 DEF Active
  <2> QED
    BY <1>5, <1>7, <1>8, <2>1, <2>2, <2>3, <2>4 DEF ProvisionerInv
<1>9. ASSUME NEW l \in KeyLocation PROVE UrlInv(l)'
  <2>1. UrlInv(l) /\ Published(l)' = Published(l) /\ Published(l) \in Key \union {NoKey}
    BY <1>7, PublishedIsKey DEF KeysInv, KeyTypes
  <2>2. Opens(Published(l), l) => Opens(Published(l), l)'
    BY <1>3, <1>7 DEF Opens, Active
  <2> QED
    BY <1>5, <2>1, <2>2 DEF UrlInv
<1> QED
  BY <1>2, <1>3, <1>5, <1>6, <1>7, <1>8, <1>9

LEMMA KeysStep == ASSUME KeysInv, [KeysNext]_keyVars PROVE KeysInv'
<1>1. KeyTypes
  BY DEF KeysInv
<1>2. /\ MaxKeyEvents \in Nat /\ NoKey \notin Key
      /\ edited \subseteq KeyLocation /\ lostKeys \subseteq Key /\ stray \subseteq Key
      /\ keyEvents \in 0..MaxKeyEvents
  BY <1>1, KeyAssumption DEF KeyTypes
<1>3. KeyEvent => keyEvents' \in 0..MaxKeyEvents
  BY <1>2 DEF KeyEvent
<1>4. ASSUME NEW p \in Provisioner, NEW l \in KeyLocation, Provision(p, l) PROVE KeysInv'
  <2>1. /\ provisioner'[p] = [at |-> "reading", location |-> l]
        /\ \A o \in Provisioner : o # p => provisioner'[o] = provisioner[o]
        /\ provisioner' = [o \in Provisioner |-> provisioner'[o]]
    BY <1>1, <1>4, ProvisionerMoves DEF Provision
  <2>2. ProvisionerInv(p)'
    BY <2>1 DEF ProvisionerInv, Steps
  <2> QED
    BY <1>2, <1>3, <1>4, <2>1, <2>2, KeysRest DEF Provision
<1>5. ASSUME NEW p \in Provisioner, ReadValues(p) PROVE KeysInv'
  <2>1. ProvisionerInv(p) /\ provisioner[p].at = "reading" /\ provisioner[p].location \in KeyLocation
    BY <1>5 DEF ReadValues, KeysInv, ProvisionerInv
  <2>2. PICK l \in KeyLocation : l = provisioner[p].location
    BY <2>1
  <2>3. PICK k : k = Published(l)
    OBVIOUS
  <2>4. k = NoKey \/ (k \in Key /\ key[k] \in KeyRecord)
    BY <1>1, <2>3, PublishedIsKey DEF KeysInv, KeyTypes, UrlInv
  <2>5. /\ provisioner'[p] = [at |-> "checking", location |-> l, current |-> k]
        /\ \A o \in Provisioner : o # p => provisioner'[o] = provisioner[o]
        /\ provisioner' = [o \in Provisioner |-> provisioner'[o]]
    BY <1>1, <1>5, <2>2, <2>3, ProvisionerMoves DEF ReadValues
  <2>6. Published(l)' = Published(l)
    BY <1>5 DEF ReadValues, Published
  <2>7. ProvisionerInv(p)'
    BY <1>5, <2>3, <2>4, <2>5, <2>6 DEF ProvisionerInv, Steps, ReadValues
  <2>8. UNCHANGED <<key, values, lostKeys, edited, stray, keyEvents>>
    BY <1>5 DEF ReadValues
  <2> QED
    BY <1>2, <2>1, <2>5, <2>7, <2>8, KeysRest
<1>6. ASSUME NEW p \in Provisioner, CheckUrl(p) PROVE KeysInv'
  <2>1. ProvisionerInv(p) /\ provisioner[p].at = "checking" /\ provisioner[p].location \in KeyLocation
    BY <1>6 DEF CheckUrl, KeysInv, ProvisionerInv
  <2>2. PICK l \in KeyLocation : l = provisioner[p].location
    BY <2>1
  <2>3. PICK k : k = provisioner[p].current
    OBVIOUS
  <2>4. PICK to : to = IF Opens(k, l) THEN Resting
                       ELSE [at |-> "issuing", location |-> l, current |-> k]
    OBVIOUS
  <2>5. /\ provisioner'[p] = to
        /\ \A o \in Provisioner : o # p => provisioner'[o] = provisioner[o]
        /\ provisioner' = [o \in Provisioner |-> provisioner'[o]]
    BY <1>1, <1>6, <2>2, <2>3, <2>4, ProvisionerMoves DEF CheckUrl
  <2>6. UNCHANGED <<key, values, lostKeys, stray, keyEvents>>
    BY <1>6 DEF CheckUrl
  <2>7. Published(l)' = Published(l) /\ (Opens(k, l)' <=> Opens(k, l))
    BY <2>6 DEF Published, Opens, Active
  <2>8. ProvisionerInv(p)'
    <3>1. CASE Opens(k, l)
      BY <2>4, <2>5, <3>1 DEF ProvisionerInv, Resting, Steps
    <3>2. CASE ~ Opens(k, l)
      BY <2>1, <2>2, <2>3, <2>4, <2>5, <2>6, <2>7, <3>2 DEF ProvisionerInv, Steps
    <3> QED
      BY <3>1, <3>2
  <2>9. /\ edited' \subseteq edited
        /\ \A m \in edited \ edited' : Opens(Published(m), m)
    BY <1>6, <2>2, <2>3 DEF CheckUrl
  <2>10. provisioner'[p].at # "publishing"
    BY <2>4, <2>5 DEF Resting
  <2> QED
    BY <1>2, <2>1, <2>5, <2>6, <2>8, <2>9, <2>10, KeysRest
<1>7. ASSUME NEW p \in Provisioner, NEW k \in Key, IssueKey(p, k) PROVE KeysInv'
  <2>1. /\ ProvisionerInv(p) /\ provisioner[p].at = "issuing" /\ key[k] = Absent
        /\ UNCHANGED <<values, edited, lostKeys, stray, keyEvents>>
    BY <1>7 DEF IssueKey, KeysInv
  <2>2. PICK l \in KeyLocation : l = provisioner[p].location
    BY <2>1 DEF ProvisionerInv
  <2>3. PICK c : c = provisioner[p].current
    OBVIOUS
  <2>4. PICK r \in KeyRecord : r = [state |-> "active", at |-> l, byHand |-> FALSE]
    <3>1. FALSE \in BOOLEAN
      OBVIOUS
    <3> QED
      BY <3>1 DEF KeyRecord
  <2>5. key' = [key EXCEPT ![k] = r]
    BY <1>7, <2>2, <2>4 DEF IssueKey
  <2>6. /\ key' \in [Key -> {Absent} \union KeyRecord] /\ key'[k] = r
        /\ \A o \in Provisioner : ~ Holding(o, k)
        /\ \A o \in Provisioner : provisioner'[o] = provisioner[o] => ProvisionerInv(o)'
        /\ \A j \in Key : j # k => key'[j] = key[j]
        /\ \A m \in KeyLocation : Published(m) # k /\ Published(m)' = Published(m)
        /\ \A m \in KeyLocation : UrlInv(m)'
        /\ \A j \in Key : key[j] \in KeyRecord => key'[j] = key[j]
    BY <2>1, <2>5, KeyMade
  <2>7. /\ provisioner'[p] = [at |-> "publishing", location |-> l, current |-> c, key |-> k]
        /\ \A o \in Provisioner : o # p => provisioner'[o] = provisioner[o]
        /\ provisioner' = [o \in Provisioner |-> provisioner'[o]]
    BY <1>1, <1>7, <2>2, <2>3, ProvisionerMoves DEF IssueKey
  <2>8. c = NoKey \/ (c \in Key /\ key[c] \in KeyRecord)
    BY <2>1, <2>3 DEF ProvisionerInv
  <2>9. ~ Opens(c, l)'
    <3>1. ~ Opens(c, l)
      BY <2>1, <2>2, <2>3 DEF ProvisionerInv
    <3> QED
      BY <1>2, <2>6, <2>8, <3>1 DEF Opens, Active
  <2>10. Active(k)' /\ key'[k].at = l /\ key'[k] \in KeyRecord
    BY <2>4, <2>6 DEF Active
  <2>11. ProvisionerInv(p)'
    BY <2>1, <2>2, <2>3, <2>6, <2>7, <2>8, <2>9, <2>10 DEF ProvisionerInv, Steps
  <2>12. KeyTypes'
    BY <1>1, <2>1, <2>6, <2>7 DEF KeyTypes
  <2>13. HeldByOne'
    BY <2>1, <2>6, <2>7 DEF KeysInv, HeldByOne, Holding
  <2>14. ASSUME NEW j \in Key PROVE KeyInv(j)'
    <3>1. CASE j = k
      BY <2>7, <3>1 DEF KeyInv, Holding
    <3>2. CASE j # k
      <4>1. key'[j] = key[j] /\ KeyInv(j)
        BY <2>6, <3>2 DEF KeysInv
      <4>2. \A o \in Provisioner : Holding(o, j) => Holding(o, j)'
        BY <2>1, <2>7 DEF Holding
      <4> QED
        BY <2>1, <4>1, <4>2 DEF KeyInv, Active, Published
    <3> QED
      BY <3>1, <3>2
  <2> QED
    BY <2>6, <2>7, <2>11, <2>12, <2>13, <2>14 DEF KeysInv
<1>8. ASSUME NEW p \in Provisioner, PublishUrl(p) PROVE KeysInv'
  <2>1. /\ ProvisionerInv(p) /\ provisioner[p].at = "publishing"
        /\ UNCHANGED <<key, lostKeys, keyEvents>> /\ stray' = stray \union Displaced(p)
    BY <1>8 DEF PublishUrl, KeysInv
  <2>2. PICK l \in KeyLocation : l = provisioner[p].location
    BY <2>1 DEF ProvisionerInv
  <2>3. PICK k \in Key : k = provisioner[p].key
    BY <2>1 DEF ProvisionerInv
  <2>4. values' = [values EXCEPT ![l] = Rewritten(p)]
    BY <1>8, <2>2 DEF PublishUrl
  <2>5. Head(Rewritten(p)) = Published(l)'
    BY <2>1, <2>2, <2>3, <2>4, UrlWritten
  <2>6. edited' = edited \/ (edited' = edited \ {l} /\ Published(l)' = k)
    BY <1>8, <2>2, <2>3, <2>5 DEF PublishUrl
  <2>7. /\ provisioner'[p] = [at |-> "revoking", current |-> provisioner[p].current]
        /\ \A o \in Provisioner : o # p => provisioner'[o] = provisioner[o]
        /\ provisioner' = [o \in Provisioner |-> provisioner'[o]]
    BY <1>1, <1>8, ProvisionerMoves DEF PublishUrl
  <2>8. ProvisionerInv(p)'
    BY <2>1, <2>7 DEF ProvisionerInv, Steps
  <2>9. provisioner'[p].at # "publishing"
    BY <2>7
  <2> QED
    BY <1>2, <2>1, <2>2, <2>3, <2>4, <2>6, <2>7, <2>8, <2>9, UrlPublished
<1>9. ASSUME NEW p \in Provisioner, NEW wrote \in BOOLEAN, PublishFails(p, wrote) PROVE KeysInv'
  <2>1. ProvisionerInv(p) /\ provisioner[p].at = "publishing" /\ UNCHANGED edited
    BY <1>9 DEF PublishFails, KeysInv
  <2>2. PICK l \in KeyLocation : l = provisioner[p].location
    BY <2>1 DEF ProvisionerInv
  <2>3. PICK k \in Key : k = provisioner[p].key
    BY <2>1 DEF ProvisionerInv
  <2>4. key' = RevokedIn(key, k) /\ key[k] \in KeyRecord /\ keyEvents' \in 0..MaxKeyEvents
    BY <1>3, <1>9, <2>1, <2>3 DEF PublishFails, FailedRevokes, ProvisionerInv
  <2>5. /\ provisioner'[p] = Resting
        /\ \A o \in Provisioner : o # p => provisioner'[o] = provisioner[o]
        /\ provisioner' = [o \in Provisioner |-> provisioner'[o]]
    BY <1>1, <1>9, ProvisionerMoves DEF PublishFails
  <2>6. provisioner'[p].at # "publishing" /\ ProvisionerInv(p)'
    BY <2>5 DEF ProvisionerInv, Resting, Steps
  <2>7. CASE wrote
    <3>1. /\ values' = [values EXCEPT ![l] = Rewritten(p)]
          /\ stray' = stray \union Displaced(p)
          /\ lostKeys' = lostKeys \union {k}
      BY <1>9, <2>2, <2>3, <2>7 DEF PublishFails
    <3> QED
      BY <1>2, <2>1, <2>2, <2>3, <2>4, <2>5, <2>6, <3>1, UrlPublished
  <2>8. CASE ~ wrote
    <3>1. UNCHANGED <<values, edited, stray, lostKeys>>
      BY <1>9, <2>1, <2>8 DEF PublishFails
    <3>2. \A m \in KeyLocation : Published(m) # k
      BY <2>1, <2>3 DEF ProvisionerInv
    <3>3. \A o \in Provisioner : ~ Holding(o, k)'
      <4>1. \A o \in Provisioner : o # p => ~ Holding(o, k)
        BY <2>1, <2>3 DEF KeysInv, HeldByOne, Holding
      <4> QED
        BY <2>5, <2>6, <4>1 DEF Holding
    <3>4. \A o \in Provisioner :
           \/ provisioner'[o] = provisioner[o]
           \/ provisioner'[o] = Resting
                /\ (provisioner[o].at = "publishing" => provisioner[o].key = k)
      BY <2>3, <2>5
    <3> QED
      BY <1>2, <2>4, <2>5, <3>1, <3>2, <3>3, <3>4, KeyRevoked
  <2> QED
    BY <2>7, <2>8
<1>10. ASSUME NEW p \in Provisioner, RevokeOld(p) PROVE KeysInv'
  <2>1. /\ ProvisionerInv(p) /\ provisioner[p].at = "revoking"
        /\ UNCHANGED <<values, edited, stray, keyEvents>>
    BY <1>10 DEF RevokeOld, KeysInv
  <2>2. PICK k : k = provisioner[p].current
    OBVIOUS
  <2>3. /\ provisioner'[p] = Resting
        /\ \A o \in Provisioner : o # p => provisioner'[o] = provisioner[o]
        /\ provisioner' = [o \in Provisioner |-> provisioner'[o]]
    BY <1>1, <1>10, ProvisionerMoves DEF RevokeOld
  <2>4. provisioner'[p].at # "publishing" /\ ProvisionerInv(p)'
    BY <2>3 DEF ProvisionerInv, Resting, Steps
  <2>5. CASE Active(k)
    <3>1. k \in Key /\ key[k] \in KeyRecord
      BY <1>2, <2>1, <2>2, <2>5 DEF ProvisionerInv, Active
    <3>2. key' = RevokedIn(key, k) /\ lostKeys' = lostKeys \union {k}
      BY <1>10, <2>2, <2>5 DEF RevokeOld
    <3>3. \A o \in Provisioner :
           \/ provisioner'[o] = provisioner[o]
           \/ provisioner'[o] = Resting
                /\ (provisioner[o].at = "publishing" => provisioner[o].key = k)
      BY <2>1, <2>3
    <3> QED
      BY <1>2, <2>1, <2>3, <3>1, <3>2, <3>3, KeyRevoked
  <2>6. CASE ~ Active(k)
    <3>1. UNCHANGED <<key, lostKeys>>
      BY <1>10, <2>2, <2>6 DEF RevokeOld
    <3> QED
      BY <1>2, <2>1, <2>3, <2>4, <3>1, KeysRest
  <2> QED
    BY <2>5, <2>6
<1>11. ASSUME NEW p \in Provisioner, ProvisionDies(p) PROVE KeysInv'
  <2>1. ProvisionerInv(p) /\ UNCHANGED <<key, values, edited, lostKeys>> /\ keyEvents' \in 0..MaxKeyEvents
    BY <1>3, <1>11 DEF ProvisionDies, KeysInv
  <2>2. /\ provisioner'[p] = Resting
        /\ \A o \in Provisioner : o # p => provisioner'[o] = provisioner[o]
        /\ provisioner' = [o \in Provisioner |-> provisioner'[o]]
    BY <1>1, <1>11, ProvisionerMoves DEF ProvisionDies
  <2>3. provisioner'[p].at # "publishing" /\ ProvisionerInv(p)'
    BY <2>2 DEF ProvisionerInv, Resting, Steps
  <2>4. /\ stray \subseteq stray' /\ stray' \subseteq Key
        /\ provisioner[p].at = "publishing" => provisioner[p].key \in stray'
    BY <1>2, <1>11, <2>1 DEF ProvisionDies, ProvisionerInv
  <2> QED
    BY <1>2, <2>1, <2>2, <2>3, <2>4, KeysRest
<1>12. ASSUME NEW k \in Key, NEW l \in KeyLocation, CreateByHand(k, l) PROVE KeysInv'
  <2>1. /\ UNCHANGED <<values, provisioner, edited, lostKeys, stray>>
        /\ keyEvents' \in 0..MaxKeyEvents /\ key[k] = Absent
    BY <1>3, <1>12 DEF CreateByHand
  <2>2. PICK r \in KeyRecord : r = [state |-> "active", at |-> l, byHand |-> TRUE]
    <3>1. TRUE \in BOOLEAN
      OBVIOUS
    <3> QED
      BY <3>1 DEF KeyRecord
  <2>3. key' = [key EXCEPT ![k] = r]
    BY <1>12, <2>2 DEF CreateByHand
  <2>4. /\ key' \in [Key -> {Absent} \union KeyRecord] /\ key'[k] = r
        /\ \A o \in Provisioner : provisioner'[o] = provisioner[o] => ProvisionerInv(o)'
        /\ \A j \in Key : j # k => key'[j] = key[j]
        /\ \A m \in KeyLocation : UrlInv(m)'
    BY <2>1, <2>3, KeyMade
  <2>5. KeyTypes'
    BY <1>1, <2>1, <2>4 DEF KeyTypes
  <2>6. HeldByOne'
    BY <2>1 DEF KeysInv, HeldByOne, Holding
  <2>7. ASSUME NEW j \in Key PROVE KeyInv(j)'
    <3>1. CASE j = k
      BY <2>2, <2>4, <3>1 DEF KeyInv
    <3>2. CASE j # k
      BY <2>1, <2>4, <3>2 DEF KeysInv, KeyInv, Active, Published, Holding
    <3> QED
      BY <3>1, <3>2
  <2> QED
    BY <2>1, <2>4, <2>5, <2>6, <2>7 DEF KeysInv
<1>13. ASSUME NEW k \in Key, RevokeByHand(k) PROVE KeysInv'
  <2>1. /\ UNCHANGED <<values, provisioner, edited, stray>> /\ key' = RevokedIn(key, k)
        /\ keyEvents' \in 0..MaxKeyEvents /\ lostKeys' = lostKeys \union {k} /\ Active(k)
    BY <1>3, <1>13 DEF RevokeByHand
  <2>2. key[k] \in KeyRecord
    BY <1>1, <2>1 DEF KeyTypes, Active, Absent
  <2>3. provisioner' = [o \in Provisioner |-> provisioner'[o]]
    BY <1>1, <2>1 DEF KeyTypes
  <2>4. \A o \in Provisioner : provisioner'[o] = provisioner[o]
    BY <2>1
  <2> QED
    BY <1>2, <2>1, <2>2, <2>3, <2>4, KeyRevoked
<1>14. ASSUME NEW l \in KeyLocation, NEW k \in Key, PasteUrl(l, k) PROVE KeysInv'
  <2>1. /\ UNCHANGED <<key, provisioner, lostKeys>> /\ keyEvents' \in 0..MaxKeyEvents
        /\ key[k] # Absent /\ edited' = edited \union {l}
        /\ stray' = stray \union ({Published(l)} \ {NoKey})
    BY <1>3, <1>14 DEF PasteUrl
  <2>2. \A o \in Provisioner : ~ Holding(o, k)
    BY <1>14 DEF PasteUrl, InHand, Holding
  <2>3. values \in [KeyLocation -> Seq(Key)] /\ key[k] \in KeyRecord
    BY <1>1, <2>1 DEF KeyTypes
  <2>4. PICK v : v = IF values[l] = <<>> THEN <<k>> ELSE <<k>> \o Tail(values[l])
    OBVIOUS
  <2>5. v \in Seq(Key) /\ v # <<>> /\ Head(v) = k
    BY <2>3, <2>4
  <2>6. values' = [values EXCEPT ![l] = v]
    BY <1>14, <2>3, <2>4 DEF PasteUrl
  <2>7. /\ values' \in [KeyLocation -> Seq(Key)] /\ Published(l)' = k
        /\ \A m \in KeyLocation : m # l => Published(m)' = Published(m)
    BY <2>3, <2>5, <2>6 DEF Published
  <2>8. \A m \in KeyLocation : Published(m) \in Key \union {NoKey}
    BY <2>3, PublishedIsKey
  <2>9. KeyTypes'
    BY <1>1, <2>1, <2>7, <2>8 DEF KeyTypes
  <2>10. ASSUME NEW o \in Provisioner PROVE ProvisionerInv(o)'
    <3>1. ProvisionerInv(o) /\ ~ Holding(o, k)
      BY <2>2 DEF KeysInv
    <3>2. provisioner'[o] = provisioner[o] /\ key' = key /\ lostKeys' = lostKeys
      BY <2>1
    <3>3. \A m \in KeyLocation : Published(m) # NoKey => Published(m)' # NoKey
      BY <1>2, <2>7
    <3>4. provisioner[o].at = "publishing" =>
            \A m \in KeyLocation : Published(m)' # provisioner[o].key
      BY <2>7, <3>1 DEF ProvisionerInv, Holding
    <3> QED
      BY <3>1, <3>2, <3>3, <3>4 DEF ProvisionerInv, Opens, Active
  <2>11. HeldByOne'
    BY <2>1 DEF KeysInv, HeldByOne, Holding
  <2>12. ASSUME NEW j \in Key PROVE KeyInv(j)'
    <3>1. KeyInv(j) /\ key'[j] = key[j]
      BY <2>1 DEF KeysInv
    <3>2. Active(j) => key[j].at \in KeyLocation
      BY <1>1 DEF KeyTypes, KeyRecord, Active, Absent
    <3>3. \A m \in KeyLocation : Published(m) = j => Published(m)' = j \/ j \in stray'
      BY <1>2, <2>1, <2>7
    <3>4. \A o \in Provisioner : Holding(o, j) => Holding(o, j)'
      BY <2>1 DEF Holding
    <3> QED
      BY <2>1, <3>1, <3>2, <3>3, <3>4 DEF KeyInv, Active
  <2>13. ASSUME NEW m \in KeyLocation PROVE UrlInv(m)'
    <3>1. CASE m = l
      BY <2>1, <2>3, <2>7, <3>1 DEF UrlInv
    <3>2. CASE m # l
      BY <2>1, <2>7, <3>2 DEF KeysInv, UrlInv, Opens, Active
    <3> QED
      BY <3>1, <3>2
  <2> QED
    BY <2>9, <2>10, <2>11, <2>12, <2>13 DEF KeysInv
<1>15. ASSUME UNCHANGED keyVars PROVE KeysInv'
  BY <1>15 DEF keyVars, KeysInv, KeyTypes, ProvisionerInv, HeldByOne, Holding, KeyInv, UrlInv,
       Opens, Active, Published
<1> QED
  BY <1>4, <1>5, <1>6, <1>7, <1>8, <1>9, <1>10, <1>11, <1>12, <1>13, <1>14, <1>15
     DEF KeysNext, ProvisionStep

LEMMA KeysInvImplies == KeysInv => KeysTypeOK /\ PublishedIsLive /\ KeysAccounted
<1> SUFFICES ASSUME KeysInv PROVE KeysTypeOK /\ PublishedIsLive /\ KeysAccounted
  OBVIOUS
<1>1. KeysTypeOK
  BY DEF KeysInv, KeyTypes, ProvisionerInv, KeyRecord, KeysTypeOK
<1>2. PublishedIsLive
  BY DEF KeysInv, UrlInv, PublishedIsLive, Opens
<1>3. KeysAccounted
  BY DEF KeysInv, KeyInv, KeysAccounted, InHand, Holding
<1> QED
  BY <1>1, <1>2, <1>3

(* Connecting, signing in and users working on the keys by hand, in any    *)
(* order, with calls that fail or are cut short: a published url opens its *)
(* location's dashboard, and a valid key is published or about to be, but  *)
(* for the ones that the properties name.                                  *)
THEOREM KeysCorrect == KeysSpec => [](KeysTypeOK /\ PublishedIsLive /\ KeysAccounted)
<1>1. KeysInv /\ [KeysNext]_keyVars => KeysInv'
  BY KeysStep
<1> QED
  BY <1>1, KeysInitInv, KeysInvImplies, PTL DEF KeysSpec

-----------------------------------------------------------------------------
(* The members of an organization.                                         *)

(* What a request that was admitted asks for.                              *)
Asked(m) ==
  manager[m] \in [at : {"admitted", "checked"}, target : User,
                  role : Manageable \union {NotMember}]

(* What was checked under the organization's lock still holds when it is   *)
(* written: nothing that takes no lock removes a member or an owner it     *)
(* relied on.                                                              *)
AccessInv ==
  /\ AccessTypeOK
  /\ OwnerRemains
  /\ member[Dashboard] = "owner" => promoted
  /\ manager = [m \in Manager |-> manager[m]]
  /\ \A m \in Manager : manager[m].at # "idle" => Asked(m)
  /\ \A m \in Manager : manager[m].at = "checked" =>
       Permitted(manager[m].target, manager[m].role)

LEMMA AccessInitInv == AccessInit => AccessInv
<1> SUFFICES ASSUME AccessInit PROVE AccessInv
  OBVIOUS
<1> USE AccessAssumption
<1>1. \A m \in Manager : manager[m].at = "idle" /\ m # orgLock
  BY DEF AccessInit, NoRequest
<1>2. member \in [User -> Role \union {NotMember}]
  BY DEF AccessInit, Role
<1>3. OwnerRemains /\ (member[Dashboard] = "owner" => promoted)
  BY DEF AccessInit, OwnerRemains, Owners, NotMember
<1>4. manager = [m \in Manager |-> manager[m]]
  BY DEF AccessInit
<1>5. orgActive \in BOOLEAN /\ promoted \in BOOLEAN /\ accesses \in 0..MaxAccess
  <2>1. orgActive = TRUE /\ promoted = FALSE /\ accesses = 0
    BY DEF AccessInit
  <2>2. TRUE \in BOOLEAN /\ FALSE \in BOOLEAN
    OBVIOUS
  <2>3. accesses \in 0..MaxAccess
    BY <2>1
  <2> QED
    BY <2>1, <2>2, <2>3
<1>6. orgLock \in Manager \union {NoManager}
  BY DEF AccessInit
<1> QED
  BY <1>1, <1>2, <1>3, <1>4, <1>5, <1>6 DEF AccessInv, AccessTypeOK

(* A request that moves on changes nothing of the others.                  *)
LEMMA ManagerMoves ==
  ASSUME AccessInv, NEW m \in Manager, NEW to, ManagerGoes(m, to)
  PROVE  /\ manager'[m] = to
         /\ \A o \in Manager : o # m => manager'[o] = manager[o]
         /\ manager' = [o \in Manager |-> manager'[o]]
<1>1. manager = [o \in Manager |-> manager[o]]
  BY DEF AccessInv
<1> HIDE DEF AccessInv
<1>2. manager' = [o \in Manager |-> IF o = m THEN to ELSE manager[o]]
  BY <1>1 DEF ManagerGoes
<1> QED
  BY <1>2

LEMMA AccessStep ==
  ASSUME AccessInv, [AccessNext]_accessVars
  PROVE  AccessInv'
<1> USE AccessAssumption
<1> DEFINE MembersKept == /\ \A m \in Manager : manager'[m].at \in {"idle", "admitted", "checked"}
                          /\ manager' = [m \in Manager |-> manager'[m]]
                          /\ orgLock' \in Manager \union {NoManager}
                          /\ \A m \in Manager : manager'[m].at = "checked" <=> orgLock' = m
                          /\ \A m \in Manager : manager'[m].at # "idle" => Asked(m)'
<1>1. ASSUME NEW m \in Manager, NEW u \in User, NEW target \in User,
             NEW role \in Manageable \union {NotMember}, ManageMember(m, u, target, role)
      PROVE  AccessInv'
  <2>1. /\ manager[m].at = "idle" /\ accesses' \in 0..MaxAccess
        /\ UNCHANGED <<member, orgActive, orgLock, promoted>>
    BY <1>1 DEF ManageMember, AccessCounted, AccessInv, AccessTypeOK
  <2>2. /\ manager'[m] = [at |-> "admitted", target |-> target, role |-> role]
        /\ \A o \in Manager : o # m => manager'[o] = manager[o]
        /\ manager' = [o \in Manager |-> manager'[o]]
    BY <1>1, ManagerMoves DEF ManageMember
  <2>3. MembersKept
    BY <2>1, <2>2 DEF AccessInv, AccessTypeOK, Asked
  <2> QED
    BY <2>1, <2>2, <2>3 DEF AccessInv, AccessTypeOK, OwnerRemains, Owners, Permitted
<1>2. ASSUME NEW m \in Manager, CheckMember(m) PROVE AccessInv'
  <2>1. /\ manager[m].at = "admitted" /\ orgLock = NoManager /\ Asked(m)
        /\ UNCHANGED <<member, orgActive, promoted, accesses>>
    BY <1>2 DEF CheckMember, LockFree, AccessInv
  <2>2. CASE Permitted(manager[m].target, manager[m].role)
    <3>1. /\ orgLock' = m
          /\ manager'[m] = [manager[m] EXCEPT !.at = "checked"]
          /\ \A o \in Manager : o # m => manager'[o] = manager[o]
          /\ manager' = [o \in Manager |-> manager'[o]]
      BY <1>2, <2>2, ManagerMoves DEF CheckMember
    <3>2. /\ manager'[m].at = "checked" /\ manager'[m].target = manager[m].target
          /\ manager'[m].role = manager[m].role
      BY <2>1, <3>1 DEF Asked
    <3>3. MembersKept
      BY <2>1, <3>1, <3>2 DEF AccessInv, AccessTypeOK, Asked
    <3>4. ASSUME NEW o \in Manager, manager'[o].at = "checked"
          PROVE  Permitted(manager[o].target, manager[o].role)' 
      <4>1. o = m
        BY <3>1, <3>3, <3>4
      <4>2. member' = member
        BY <2>1
      <4> QED
        BY <2>2, <3>2, <4>1, <4>2 DEF Permitted, Owners
    <3> QED
      BY <2>1, <3>3, <3>4 DEF AccessInv, AccessTypeOK, OwnerRemains, Owners
  <2>3. CASE ~ Permitted(manager[m].target, manager[m].role)
    <3>1. /\ orgLock' = orgLock /\ manager'[m] = NoRequest
          /\ \A o \in Manager : o # m => manager'[o] = manager[o]
          /\ manager' = [o \in Manager |-> manager'[o]]
      BY <1>2, <2>3, ManagerMoves DEF CheckMember
    <3>2. MembersKept
      BY <2>1, <3>1 DEF AccessInv, AccessTypeOK, Asked, NoRequest
    <3> QED
      BY <2>1, <3>1, <3>2 DEF AccessInv, AccessTypeOK, OwnerRemains, Owners, Permitted, NoRequest
  <2> QED
    BY <2>2, <2>3
<1>3. ASSUME NEW m \in Manager, WriteMember(m) PROVE AccessInv'
  <2>1. PICK target \in User, role \in Manageable \union {NotMember} :
          target = manager[m].target /\ role = manager[m].role
    BY <1>3 DEF WriteMember, AccessInv, Asked
  <2>2. /\ manager[m].at = "checked" /\ orgLock = m /\ orgLock' = NoManager
        /\ Permitted(target, role)
        /\ member' = [member EXCEPT ![target] = role]
        /\ promoted' = (promoted \/ member'[Dashboard] = "owner")
        /\ UNCHANGED <<orgActive, accesses>>
    BY <1>3, <2>1 DEF WriteMember, AccessInv, AccessTypeOK
  <2>3. /\ manager'[m] = NoRequest
        /\ \A o \in Manager : o # m => manager'[o] = manager[o]
        /\ manager' = [o \in Manager |-> manager'[o]]
    BY <1>3, ManagerMoves DEF WriteMember
  <2>4. MembersKept
    BY <2>2, <2>3 DEF AccessInv, AccessTypeOK, Asked, NoRequest
  <2>5. member' \in [User -> Role \union {NotMember}]
    BY <2>2 DEF AccessInv, AccessTypeOK, Manageable
  <2>6. Owners # {} => Owners' # {}
    BY <2>1, <2>2 DEF Owners, Permitted, AccessInv, AccessTypeOK
  <2> QED
    BY <2>2, <2>3, <2>4, <2>5, <2>6 DEF AccessInv, AccessTypeOK, OwnerRemains, NoRequest
<1>4. ASSUME NEW m \in Manager, ManagerDies(m) PROVE AccessInv'
  <2>1. /\ UNCHANGED <<member, orgActive, promoted, accesses>>
        /\ orgLock' = IF orgLock = m THEN NoManager ELSE orgLock
        /\ manager'[m] = NoRequest
        /\ \A o \in Manager : o # m => manager'[o] = manager[o]
        /\ manager' = [o \in Manager |-> manager'[o]]
    BY <1>4, ManagerMoves DEF ManagerDies
  <2>2. MembersKept
    BY <2>1 DEF AccessInv, AccessTypeOK, Asked, NoRequest
  <2> QED
    BY <2>1, <2>2 DEF AccessInv, AccessTypeOK, OwnerRemains, Owners, Permitted, NoRequest
<1>5. ASSUME NEW u \in User, NEW target \in User, NEW role \in Manageable,
             AddMember(u, target, role)
      PROVE  AccessInv'
  <2>1. /\ member[target] = NotMember /\ accesses' \in 0..MaxAccess
        /\ member' = [member EXCEPT ![target] = role]
        /\ promoted' = (promoted \/ member'[Dashboard] = "owner")
        /\ UNCHANGED <<orgActive, manager, orgLock>>
    BY <1>5 DEF AddMember, AccessCounted, AccessInv, AccessTypeOK
  <2>2. /\ member' \in [User -> Role \union {NotMember}]
        /\ Owners \subseteq Owners'
    BY <2>1 DEF AccessInv, AccessTypeOK, Manageable, Owners, NotMember
  <2>3. \A t \in User, r \in Manageable \union {NotMember} :
          Permitted(t, r) => Permitted(t, r)'
    BY <2>1, <2>2 DEF Permitted, AccessInv, AccessTypeOK, Owners
  <2> QED
    BY <2>1, <2>2, <2>3 DEF AccessInv, AccessTypeOK, OwnerRemains, Asked
<1>6. ASSUME NEW u \in User, NEW role \in Role, SignIn(u, role) PROVE AccessInv'
  <2>1. /\ accesses' \in 0..MaxAccess /\ u # Dashboard
        /\ role \in {"office_manager", "marketing_manager"}
        /\ member' = [member EXCEPT ![u] = Entered(@, role)]
        /\ UNCHANGED <<orgActive, manager, orgLock, promoted>>
    BY <1>6 DEF SignIn, AccessCounted, AccessInv, AccessTypeOK
  <2>2. /\ member' \in [User -> Role \union {NotMember}]
        /\ \A t \in User : member[t] # NotMember => member'[t] = member[t]
        /\ Owners' = Owners
    BY <2>1 DEF AccessInv, AccessTypeOK, Owners, NotMember, Entered
  <2>3. \A t \in User, r \in Manageable \union {NotMember} :
          Permitted(t, r) => Permitted(t, r)'
    BY <2>2 DEF Permitted
  <2> QED
    BY <2>1, <2>2, <2>3 DEF AccessInv, AccessTypeOK, OwnerRemains, Asked
<1>7. CASE EmbedSignIn
  <2>1. /\ accesses' \in 0..MaxAccess /\ ~ RowLocked(Dashboard)
        /\ member' = [member EXCEPT ![Dashboard] = "seo_specialist"]
        /\ UNCHANGED <<orgActive, manager, orgLock, promoted>>
    BY <1>7 DEF EmbedSignIn, AccessCounted, AccessInv, AccessTypeOK
  <2>2. /\ member' \in [User -> Role \union {NotMember}]
        /\ member'[Dashboard] = "seo_specialist"
        /\ \A t \in User : t # Dashboard => member'[t] = member[t]
    BY <2>1 DEF AccessInv, AccessTypeOK, Role
  <2>3. OwnerRemains'
    BY <2>1, <2>2 DEF AccessInv, OwnerRemains, Owners
  <2>4. ASSUME NEW m \in Manager, manager[m].at = "checked"
        PROVE  Permitted(manager[m].target, manager[m].role)'
    <3>1. /\ Permitted(manager[m].target, manager[m].role)
          /\ manager[m].target \in User /\ manager[m].target # Dashboard
          /\ ~ (member[manager[m].target] = "owner" /\ manager[m].role # "owner"
                  /\ member[Dashboard] = "owner")
      BY <2>1, <2>4 DEF RowLocked, AccessInv, Asked
    <3> QED
      BY <2>1, <2>2, <3>1 DEF Permitted, Owners
  <2> QED
    BY <2>1, <2>2, <2>3, <2>4 DEF AccessInv, AccessTypeOK, Asked
<1>8. CASE ChangeStatus
  BY <1>8 DEF ChangeStatus, AccessCounted, AccessInv, AccessTypeOK, OwnerRemains, Owners,
     Permitted, Asked
<1>9. CASE UNCHANGED accessVars
  BY <1>9 DEF accessVars, AccessInv, AccessTypeOK, OwnerRemains, Owners, Permitted, Asked
<1> QED
  BY <1>1, <1>2, <1>3, <1>4, <1>5, <1>6, <1>7, <1>8, <1>9 DEF AccessNext

(* A member's role changes under the lock, and no administrator's.         *)
LEMMA RolesChangeManaged ==
  ASSUME AccessInv, [AccessNext]_accessVars, NEW u \in User \ {Dashboard},
         member[u] # NotMember, member'[u] # member[u]
  PROVE  member[u] # "capere_admin" /\ orgLock # NoManager
<1>1. CASE \E m \in Manager : WriteMember(m)
  <2>1. PICK m \in Manager : WriteMember(m)
    BY <1>1
  <2>2. /\ member' = [member EXCEPT ![manager[m].target] = manager[m].role]
        /\ orgLock = m /\ Permitted(manager[m].target, manager[m].role)
    BY <2>1 DEF WriteMember, AccessInv, AccessTypeOK
  <2> QED
    BY <2>2, AccessAssumption DEF Permitted, AccessInv, AccessTypeOK
<1>2. CASE \E v, target \in User, role \in Manageable : AddMember(v, target, role)
  BY <1>2 DEF AddMember, AccessInv, AccessTypeOK
<1>3. CASE \E v \in User, role \in Role : SignIn(v, role)
  BY <1>3 DEF SignIn, Entered, AccessInv, AccessTypeOK
<1>4. CASE EmbedSignIn
  BY <1>4 DEF EmbedSignIn, AccessInv, AccessTypeOK
<1>5. CASE UNCHANGED member
  BY <1>5
<1> QED
  BY <1>1, <1>2, <1>3, <1>4, <1>5
  DEF AccessNext, accessVars, ManageMember, CheckMember, ManagerDies, ChangeStatus

(* An organization keeps an owner (organization.service.ts updateMember,   *)
(* removeMember), however requests, sign-ins and deaths of the process     *)
(* overlap.                                                                *)
THEOREM AccessCorrect == AccessSpec => [](AccessTypeOK /\ OwnerRemains)
<1>1. AccessInv /\ [AccessNext]_accessVars => AccessInv'
  BY AccessStep
<1>2. AccessInv => AccessTypeOK /\ OwnerRemains
  BY DEF AccessInv
<1> QED
  BY <1>1, <1>2, AccessInitInv, PTL DEF AccessSpec

-----------------------------------------------------------------------------
(* The assistant of the website.                                           *)

Metadata == [opened : BOOLEAN, hash : BOOLEAN, lead : Form \union {NoForm}]
VisitMessage == [role : {"user", "assistant"}, turn : Nat]

(* No message of the turn of inquiry i is stored yet.                      *)
Unsaid(i) ==
  \A v \in Visit : \A n \in DOMAIN said[v] : said[v][n].turn # inquiry[i].turn

(* What a request knows where it is: one that asks has a turn that is not  *)
(* said before it stores it, and no answer before it stores one; one that  *)
(* leaves details has verified the token, and what it read has its hash.   *)
InquiryInv(i) ==
  LET q == inquiry[i] IN
  /\ q.at \in {"idle", "reading", "storing", "asking", "merging", "saving", "sending"}
  /\ q.at # "idle" => q.visit \in Visit
  /\ q.at \in {"reading", "storing", "asking"} => q.turn \in 1..inquiries
  /\ q.at \in {"storing", "asking"} =>
       \A m \in ToSet(q.history) : m.turn # q.turn
  /\ q.at \in {"reading", "storing"} => Unsaid(i)
  /\ q.at = "asking" =>
       /\ \E n \in DOMAIN said[q.visit] : said[q.visit][n] = Message("user", q.turn)
       /\ \A v \in Visit : \A n \in DOMAIN said[v] :
            said[v][n] # Message("assistant", q.turn)
  /\ q.at \in {"merging", "saving", "sending"} => q.form \in Form /\ visit[q.visit].opened
  /\ q.at = "saving" => q.metadata \in Metadata /\ q.metadata.opened /\ q.metadata.hash
  /\ q.at = "sending" => visit[q.visit].lead # NoForm

(* An answer has no other of its turn, and its question before it.         *)
AnsweredAlone(v, n) ==
  said[v][n].role = "assistant" =>
    /\ \A m \in DOMAIN said[v] : said[v][m] = said[v][n] => m = n
    /\ \E m \in DOMAIN said[v] : m < n /\ said[v][m] = Message("user", said[v][n].turn)

Conversing(i) == inquiry[i].at \in {"reading", "storing", "asking"}
TurnsDiffer ==
  \A i, j \in Inquiry :
    Conversing(i) /\ Conversing(j) /\ inquiry[i].turn = inquiry[j].turn => i = j

SaidInv ==
  /\ said \in [Visit -> Seq(VisitMessage)]
  /\ \A v \in Visit : \A n \in DOMAIN said[v] : said[v][n].turn \in 1..inquiries
AnswersInv == \A v \in Visit : \A n \in DOMAIN said[v] : AnsweredAlone(v, n)

MarketingInv ==
  /\ visit \in [Visit -> Metadata]
  /\ SaidInv /\ AnswersInv /\ TurnsDiffer
  /\ inquiry = [i \in Inquiry |-> inquiry[i]]
  /\ contacts \union told \subseteq Visit \X Form
  /\ inquiries \in 0..MaxInquiries /\ inquiryFaults \in 0..MaxInquiryFaults
  /\ \A i \in Inquiry : InquiryInv(i)
  /\ VisitKeepsToken /\ DetailsAreKept

LEMMA MarketingInitInv == MarketingInit => MarketingInv
<1> SUFFICES ASSUME MarketingInit PROVE MarketingInv
  OBVIOUS
<1>1. MaxInquiries \in Nat /\ MaxInquiryFaults \in Nat
  BY MarketingAssumption
<1>2. visit \in [Visit -> Metadata] /\ VisitKeepsToken
  BY DEF MarketingInit, Metadata, VisitKeepsToken
<1>3. said \in [Visit -> Seq(VisitMessage)] /\ \A v \in Visit : DOMAIN said[v] = {}
  BY DEF MarketingInit
<1>4. \A i \in Inquiry : inquiry[i].at = "idle"
  BY DEF MarketingInit, AtHome
<1>5. inquiry = [i \in Inquiry |-> inquiry[i]]
  BY DEF MarketingInit
<1>6. SaidInv /\ AnswersInv
  BY <1>3 DEF SaidInv, AnswersInv
<1>7. TurnsDiffer /\ \A i \in Inquiry : InquiryInv(i)
  BY <1>4 DEF TurnsDiffer, Conversing, InquiryInv
<1>8. /\ contacts \union told = {} /\ inquiries = 0 /\ inquiryFaults = 0
  BY DEF MarketingInit
<1>9. DetailsAreKept
  BY <1>8 DEF DetailsAreKept
<1> QED
  BY <1>1, <1>2, <1>5, <1>6, <1>7, <1>8, <1>9 DEF MarketingInv

(* A request that moves on changes nothing of the others.                  *)
LEMMA InquiryMoves ==
  ASSUME MarketingInv, NEW i \in Inquiry, NEW to, InquiryGoes(i, to)
  PROVE  /\ inquiry'[i] = to
         /\ \A j \in Inquiry : j # i => inquiry'[j] = inquiry[j]
         /\ inquiry' = [j \in Inquiry |-> inquiry'[j]]
<1>1. inquiry = [j \in Inquiry |-> inquiry[j]]
  BY DEF MarketingInv
<1> HIDE DEF MarketingInv
<1>2. inquiry' = [j \in Inquiry |-> IF j = i THEN to ELSE inquiry[j]]
  BY <1>1 DEF InquiryGoes
<1> QED
  BY <1>2

(* Nothing is said, no session loses its token or its details: what holds  *)
(* of the other requests goes on to hold.                                  *)
LEMMA NothingSaid ==
  ASSUME MarketingInv, NEW i \in Inquiry, UNCHANGED <<said, contacts, told>>,
         inquiry' = [j \in Inquiry |-> inquiry'[j]],
         \A j \in Inquiry : j # i => inquiry'[j] = inquiry[j],
         inquiries' \in 0..MaxInquiries, inquiries <= inquiries',
         inquiryFaults' \in 0..MaxInquiryFaults,
         visit' \in [Visit -> Metadata],
         \A v \in Visit : /\ visit[v].opened => visit'[v].opened
                          /\ visit'[v].opened => visit'[v].hash
                          /\ visit[v].lead # NoForm => visit'[v].lead # NoForm,
         InquiryInv(i)',
         Conversing(i)' =>
           \A j \in Inquiry : j # i /\ Conversing(j) => inquiry[j].turn # inquiry'[i].turn
  PROVE  MarketingInv'
<1>1. inquiries \in Nat /\ inquiries' \in Nat /\ 1..inquiries \subseteq 1..inquiries'
  BY DEF MarketingInv
<1>2. SaidInv' /\ AnswersInv'
  BY <1>1 DEF MarketingInv, SaidInv, AnswersInv, AnsweredAlone
<1>3. ASSUME NEW j \in Inquiry, j # i PROVE InquiryInv(j)'
  <2>1. InquiryInv(j) /\ inquiry'[j] = inquiry[j] /\ said' = said
    BY <1>3 DEF MarketingInv
  <2>2. Unsaid(j)' <=> Unsaid(j)
    BY <2>1 DEF Unsaid
  <2> HIDE DEF MarketingInv
  <2> QED
    BY <1>1, <2>1, <2>2 DEF InquiryInv
<1>4. VisitKeepsToken' /\ DetailsAreKept'
  BY DEF MarketingInv, VisitKeepsToken, DetailsAreKept
<1>5. TurnsDiffer'
  BY DEF MarketingInv, TurnsDiffer, Conversing
<1>6. contacts' \union told' \subseteq Visit \X Form
  BY DEF MarketingInv
<1>7. \A j \in Inquiry : InquiryInv(j)'
  BY <1>3
<1> QED
  BY <1>2, <1>4, <1>5, <1>6, <1>7 DEF MarketingInv

LEMMA AskStepInv ==
  ASSUME MarketingInv, NEW i \in Inquiry,
         \/ \E v \in Visit : AskAssistant(i, v)
         \/ ReadConversation(i) \/ StoreVisitorQuestion(i) \/ StoreReply(i)
  PROVE  MarketingInv'
<1> USE MarketingAssumption
<1>1. ASSUME NEW v \in Visit, AskAssistant(i, v) PROVE MarketingInv'
  <2>1. /\ inquiry[i].at = "idle" /\ inquiries' = inquiries + 1 /\ inquiries' \in 0..MaxInquiries
        /\ UNCHANGED <<said, contacts, told, inquiryFaults>>
    BY <1>1 DEF AskAssistant, InquiryBegins, MarketingInv
  <2>2. /\ inquiry'[i] = [at |-> "reading", visit |-> v, turn |-> inquiries + 1]
        /\ \A j \in Inquiry : j # i => inquiry'[j] = inquiry[j]
        /\ inquiry' = [j \in Inquiry |-> inquiry'[j]]
    BY <1>1, InquiryMoves DEF AskAssistant, InquiryBegins
  <2>3. /\ visit' \in [Visit -> Metadata]
        /\ \A u \in Visit : /\ visit[u].opened => visit'[u].opened
                            /\ visit'[u].opened => visit'[u].hash
                            /\ visit'[u].lead = visit[u].lead
    <3>1. CASE OpensVisit(v)
      BY <3>1 DEF OpensVisit, MarketingInv, Metadata, VisitKeepsToken
    <3>2. CASE visit' = visit
      BY <3>2 DEF MarketingInv, VisitKeepsToken
    <3> QED
      BY <1>1, <3>1, <3>2 DEF AskAssistant
  <2>4. InquiryInv(i)'
    BY <2>1, <2>2 DEF InquiryInv, Unsaid, MarketingInv, SaidInv
  <2>5. \A j \in Inquiry : Conversing(j) => inquiry[j].turn # inquiries + 1
    BY DEF MarketingInv, InquiryInv, Conversing
  <2>6. inquiries <= inquiries' /\ inquiryFaults' \in 0..MaxInquiryFaults
    BY <2>1 DEF MarketingInv
  <2> QED
    BY <2>1, <2>2, <2>3, <2>4, <2>5, <2>6, NothingSaid
<1>2. ASSUME ReadConversation(i) PROVE MarketingInv'
  <2> DEFINE s == said[inquiry[i].visit]
             from == IF Len(s) > VisitWindow THEN Len(s) - VisitWindow + 1 ELSE 1
             h == SubSeq(s, from, Len(s))
  <2>1. /\ inquiry[i].at = "reading" /\ inquiry[i].visit \in Visit /\ Unsaid(i)
        /\ inquiry[i].turn \in 1..inquiries /\ s \in Seq(VisitMessage)
        /\ UNCHANGED <<visit, said, contacts, told, inquiries, inquiryFaults>>
    BY <1>2 DEF ReadConversation, MarketingInv, InquiryInv, SaidInv
  <2>2. /\ inquiry'[i] = [at |-> "storing", visit |-> inquiry[i].visit,
                          turn |-> inquiry[i].turn, history |-> h]
        /\ \A j \in Inquiry : j # i => inquiry'[j] = inquiry[j]
        /\ inquiry' = [j \in Inquiry |-> inquiry'[j]]
    BY <1>2, InquiryMoves DEF ReadConversation
  <2>3. \A m \in ToSet(h) : \E n \in DOMAIN s : m = s[n]
    <3>1. /\ Len(s) \in Nat /\ DOMAIN s = 1..Len(s) /\ from \in 1..(Len(s) + 1)
      BY <2>1
    <3> HIDE DEF s, from
    <3>2. DOMAIN h = 1..(Len(s) + 1 - from) /\ \A n \in DOMAIN h : h[n] = s[from + n - 1]
      BY <2>1, <3>1
    <3>3. \A n \in DOMAIN h : from + n - 1 \in DOMAIN s
      BY <3>1, <3>2
    <3> QED
      BY <3>2, <3>3 DEF ToSet
  <2>4. \A m \in ToSet(h) : m.turn # inquiry[i].turn
    BY <2>1, <2>3 DEF Unsaid
  <2>5. InquiryInv(i)'
    BY <2>1, <2>2, <2>4 DEF InquiryInv, Unsaid
  <2>6. \A j \in Inquiry : j # i /\ Conversing(j) => inquiry[j].turn # inquiry'[i].turn
    BY <2>1, <2>2 DEF MarketingInv, TurnsDiffer, Conversing
  <2>7. inquiries' \in 0..MaxInquiries /\ inquiries <= inquiries'
    BY <2>1 DEF MarketingInv
  <2> QED
    BY <2>1, <2>2, <2>5, <2>6, <2>7, NothingSaid DEF MarketingInv, VisitKeepsToken
<1>3. ASSUME StoreVisitorQuestion(i) \/ StoreReply(i) PROVE MarketingInv'
  <2>1. PICK role \in {"user", "assistant"} : role = "user" <=> inquiry[i].at = "storing"
    <3>1. CASE inquiry[i].at = "storing"
      BY <3>1
    <3>2. CASE inquiry[i].at # "storing"
      BY <3>2
    <3> QED
      BY <3>1, <3>2
  <2>2. PICK v \in Visit, t \in 1..inquiries : v = inquiry[i].visit /\ t = inquiry[i].turn
    BY <1>3 DEF StoreVisitorQuestion, StoreReply, MarketingInv, InquiryInv
  <2>3. /\ inquiry[i].at \in {"storing", "asking"} /\ Says(i, role)
        /\ UNCHANGED <<visit, contacts, told, inquiries, inquiryFaults>>
    BY <1>3, <2>1 DEF StoreVisitorQuestion, StoreReply
  <2>4. /\ inquiry'[i] = IF inquiry[i].at = "storing" THEN [inquiry[i] EXCEPT !.at = "asking"]
                         ELSE AtHome
        /\ \A j \in Inquiry : j # i => inquiry'[j] = inquiry[j]
        /\ inquiry' = [j \in Inquiry |-> inquiry'[j]]
    BY <1>3, InquiryMoves DEF StoreVisitorQuestion, StoreReply
  <2>5. PICK k : k = Len(said[v])
    OBVIOUS
  <2>6. /\ said' \in [Visit -> Seq(VisitMessage)]
        /\ \A u \in Visit : u # v => said'[u] = said[u]
        /\ k \in Nat /\ DOMAIN said[v] = 1..k
        /\ DOMAIN said'[v] = 1..(k + 1) /\ said'[v][k + 1] = Message(role, t)
        /\ \A n \in 1..k : said'[v][n] = said[v][n]
    <3>1. said \in [Visit -> Seq(VisitMessage)] /\ t \in Nat /\ t \in 1..inquiries
      BY <2>2 DEF MarketingInv, SaidInv
    <3>2. PICK m \in VisitMessage : m = Message(role, t)
      BY <2>1, <2>2, <3>1 DEF Message, VisitMessage
    <3>3. said' = [said EXCEPT ![v] = Append(said[v], m)]
      BY <2>2, <2>3, <3>1, <3>2 DEF Says
    <3>4. said[v] \in Seq(VisitMessage)
      BY <3>1
    <3>5. said'[v] = Append(said[v], m) /\ \A u \in Visit : u # v => said'[u] = said[u]
      BY <3>1, <3>3
    <3>6. Append(said[v], m) \in Seq(VisitMessage)
      BY <3>2, <3>4
    <3>7. said' \in [Visit -> Seq(VisitMessage)]
      BY <3>1, <3>3, <3>6
    <3> QED
      BY <2>5, <3>2, <3>4, <3>5, <3>7
  <2>7. Message(role, t).turn = t /\ Message(role, t).role = role
    BY DEF Message
  <2>8. \A u \in Visit : \A n \in DOMAIN said'[u] :
          \/ n \in DOMAIN said[u] /\ said'[u][n] = said[u][n]
          \/ u = v /\ n = k + 1 /\ said'[u][n] = Message(role, t)
    BY <2>6
  <2>9. SaidInv'
    <3>1. \A u \in Visit : \A n \in DOMAIN said'[u] : said'[u][n].turn \in 1..inquiries
      BY <2>7, <2>8 DEF MarketingInv, SaidInv
    <3> QED
      BY <2>3, <2>6, <3>1 DEF SaidInv
  <2>10. TurnsDiffer /\ SaidInv /\ AnswersInv /\ InquiryInv(i)
    BY DEF MarketingInv
  <2>11. ASSUME NEW j \in Inquiry, j # i PROVE InquiryInv(j)'
    <3>1. inquiry'[j] = inquiry[j] /\ InquiryInv(j)
      BY <2>4, <2>11 DEF MarketingInv
    <3>2. Conversing(j) => inquiry[j].turn # t
      BY <2>2, <2>3, <2>11, <2>10 DEF TurnsDiffer, Conversing
    <3>3. \A u \in Visit : \A n \in DOMAIN said[u] :
            n \in DOMAIN said'[u] /\ said'[u][n] = said[u][n]
      <4>1. 1..k \subseteq 1..(k + 1)
        BY <2>6
      <4> QED
        BY <2>6, <4>1
    <3>4. inquiry[j].at = "asking" =>
            \A u \in Visit : \A n \in DOMAIN said'[u] :
              said'[u][n] # Message("assistant", inquiry[j].turn)
      BY <2>7, <2>8, <3>1, <3>2 DEF InquiryInv, Message, Conversing
    <3>5. inquiry[j].at \in {"reading", "storing"} => Unsaid(j)'
      BY <2>7, <2>8, <3>1, <3>2 DEF InquiryInv, Unsaid, Conversing
    <3> QED
      BY <2>3, <3>1, <3>3, <3>4, <3>5 DEF InquiryInv
  <2>12. InquiryInv(i)'
    <3>1. CASE inquiry[i].at = "storing"
      <4>1. InquiryInv(i) /\ Unsaid(i)
        BY <3>1 DEF MarketingInv, InquiryInv
      <4>2. /\ inquiry'[i].at = "asking" /\ inquiry'[i].visit = v /\ inquiry'[i].turn = t
            /\ inquiry'[i].history = inquiry[i].history
        BY <2>2, <2>4, <3>1
      <4>3. role = "user"
        BY <2>1, <3>1
      <4>4. \A u \in Visit : \A n \in DOMAIN said'[u] : said'[u][n] # Message("assistant", t)
        BY <2>2, <2>7, <2>8, <4>1, <4>3 DEF Unsaid, Message
      <4>5. k + 1 \in DOMAIN said'[v] /\ said'[v][k + 1] = Message("user", t)
        BY <2>6, <4>3
      <4> QED
        BY <2>2, <2>3, <3>1, <4>1, <4>2, <4>4, <4>5 DEF InquiryInv
    <3>2. CASE inquiry[i].at # "storing"
      BY <2>4, <3>2 DEF InquiryInv, AtHome
    <3> QED
      BY <3>1, <3>2
  <2>13. ASSUME NEW u \in Visit, NEW n \in DOMAIN said'[u], said'[u][n].role = "assistant"
         PROVE  AnsweredAlone(u, n)'
    <3>1. CASE u # v
      <4>1. said'[u] = said[u] /\ AnsweredAlone(u, n)
        BY <2>6, <2>13, <2>10, <3>1 DEF AnswersInv
      <4> QED
        BY <4>1 DEF AnsweredAlone
    <3>2. CASE u = v /\ n \in 1..k
      <4>1. AnsweredAlone(v, n) /\ said'[v][n] = said[v][n]
        BY <2>6, <2>10, <3>2 DEF AnswersInv
      <4>2. said'[v][k + 1] # said[v][n]
        BY <2>2, <2>3, <2>6, <2>7, <2>13, <2>10, <3>2, <4>1 DEF InquiryInv, Unsaid
      <4>3. PICK m \in 1..k : m < n /\ said[v][m] = Message("user", said[v][n].turn)
        BY <2>6, <2>13, <3>2, <4>1 DEF AnsweredAlone
      <4>4. \A o \in 1..(k + 1) : said'[v][o] = said'[v][n] => o = n
        <5>1. said[v][n].role = "assistant" /\ n \in DOMAIN said[v]
          BY <2>6, <2>13, <3>2, <4>1
        <5>2. \A o \in 1..k : said[v][o] = said[v][n] => o = n
          BY <2>6, <4>1, <5>1 DEF AnsweredAlone
        <5>3. \A o \in 1..(k + 1) : o \in 1..k \/ o = k + 1
          BY <2>6
        <5> QED
          BY <2>6, <4>1, <4>2, <5>2, <5>3
      <4>5. m \in 1..(k + 1) /\ said'[v][m] = said[v][m]
        BY <2>6, <4>3
      <4> QED
        BY <2>6, <3>2, <4>1, <4>3, <4>4, <4>5 DEF AnsweredAlone
    <3>3. CASE u = v /\ n = k + 1
      <4>1. inquiry[i].at = "asking" /\ said'[v][n] = Message("assistant", t)
        BY <2>1, <2>3, <2>6, <2>7, <2>13, <3>3
      <4>2. /\ \E m \in 1..k : said[v][m] = Message("user", t)
            /\ \A m \in 1..k : said[v][m] # Message("assistant", t)
        BY <2>2, <2>6, <2>10, <4>1 DEF InquiryInv
      <4>3. Message("assistant", t).turn = t
        BY DEF Message
      <4>4. PICK m \in 1..k : said[v][m] = Message("user", t)
        BY <4>2
      <4>5. m \in 1..(k + 1) /\ m < n /\ said'[v][m] = Message("user", t)
        BY <2>6, <3>3, <4>4
      <4>6. \A o \in 1..(k + 1) : said'[v][o] = said'[v][n] => o = n
        BY <2>6, <3>3, <4>1, <4>2
      <4> QED
        BY <2>6, <3>3, <4>1, <4>3, <4>5, <4>6 DEF AnsweredAlone
    <3> QED
      BY <2>6, <3>1, <3>2, <3>3
  <2>14. VisitKeepsToken' /\ DetailsAreKept'
    BY <2>3 DEF MarketingInv, VisitKeepsToken, DetailsAreKept
  <2>15. TurnsDiffer'
    <3>1. \A a \in Inquiry :
            Conversing(a)' => Conversing(a) /\ inquiry'[a].turn = inquiry[a].turn
      <4>1. Conversing(i)' => Conversing(i) /\ inquiry'[i].turn = inquiry[i].turn
        BY <2>3, <2>4 DEF AtHome, Conversing
      <4> QED
        BY <2>4, <4>1 DEF Conversing
    <3> QED
      BY <2>10, <3>1 DEF TurnsDiffer
  <2>16. AnswersInv'
    BY <2>13 DEF AnswersInv, AnsweredAlone
  <2> QED
    BY <2>3, <2>4, <2>6, <2>9, <2>11, <2>12, <2>14, <2>15, <2>16 DEF MarketingInv
<1> QED
  BY <1>1, <1>2, <1>3

LEMMA DetailStepInv ==
  ASSUME MarketingInv, NEW i \in Inquiry,
         \/ \E v \in Visit, f \in Form : LeaveDetails(i, v, f)
         \/ ReadMetadata(i) \/ SaveDetails(i) \/ InquiryFails(i)
         \/ \E arrives \in BOOLEAN : SendDetails(i, arrives)
  PROVE  MarketingInv'
<1> USE MarketingAssumption
<1>1. ASSUME NEW v \in Visit, NEW f \in Form, LeaveDetails(i, v, f) PROVE MarketingInv'
  <2>1. /\ inquiry[i].at = "idle" /\ inquiries' = inquiries + 1 /\ inquiries' \in 0..MaxInquiries
        /\ visit[v].opened /\ inquiries <= inquiries'
        /\ UNCHANGED <<visit, said, contacts, told, inquiryFaults>>
    BY <1>1 DEF LeaveDetails, InquiryBegins, VisitVerified, MarketingInv
  <2>2. /\ inquiry'[i] = [at |-> "merging", visit |-> v, form |-> f]
        /\ \A j \in Inquiry : j # i => inquiry'[j] = inquiry[j]
        /\ inquiry' = [j \in Inquiry |-> inquiry'[j]]
    BY <1>1, InquiryMoves DEF LeaveDetails, InquiryBegins
  <2>3. InquiryInv(i)'
    BY <2>1, <2>2 DEF InquiryInv
  <2> QED
    BY <2>1, <2>2, <2>3, NothingSaid DEF MarketingInv, VisitKeepsToken, Conversing
<1>2. ASSUME ReadMetadata(i) PROVE MarketingInv'
  <2>1. /\ inquiry[i].at = "merging" /\ inquiry[i].visit \in Visit
        /\ inquiry[i].form \in Form /\ visit[inquiry[i].visit].opened
        /\ UNCHANGED <<visit, said, contacts, told, inquiries, inquiryFaults>>
    BY <1>2 DEF ReadMetadata, MarketingInv, InquiryInv
  <2>2. /\ inquiry'[i] = [at |-> "saving", visit |-> inquiry[i].visit,
                          form |-> inquiry[i].form, metadata |-> visit[inquiry[i].visit]]
        /\ \A j \in Inquiry : j # i => inquiry'[j] = inquiry[j]
        /\ inquiry' = [j \in Inquiry |-> inquiry'[j]]
    BY <1>2, InquiryMoves DEF ReadMetadata
  <2>3. InquiryInv(i)'
    BY <2>1, <2>2 DEF InquiryInv, MarketingInv, VisitKeepsToken
  <2> QED
    BY <2>1, <2>2, <2>3, NothingSaid DEF MarketingInv, VisitKeepsToken, Conversing
<1>3. ASSUME SaveDetails(i) PROVE MarketingInv'
  <2>1. PICK v \in Visit, f \in Form, m \in Metadata :
          /\ v = inquiry[i].visit /\ f = inquiry[i].form /\ m = inquiry[i].metadata
          /\ m.opened /\ m.hash /\ visit[v].opened
    BY <1>3 DEF SaveDetails, MarketingInv, InquiryInv
  <2>2. /\ visit' = [visit EXCEPT ![v] = [m EXCEPT !.lead = f]]
        /\ UNCHANGED <<said, contacts, told, inquiries, inquiryFaults>>
    BY <1>3, <2>1 DEF SaveDetails, Merged
  <2>3. /\ inquiry'[i] = [at |-> "sending", visit |-> v, form |-> f]
        /\ \A j \in Inquiry : j # i => inquiry'[j] = inquiry[j]
        /\ inquiry' = [j \in Inquiry |-> inquiry'[j]]
    BY <1>3, <2>1, InquiryMoves DEF SaveDetails
  <2>4. /\ [m EXCEPT !.lead = f] \in Metadata /\ [m EXCEPT !.lead = f].opened
        /\ [m EXCEPT !.lead = f].hash /\ [m EXCEPT !.lead = f].lead # NoForm
    BY <2>1 DEF Metadata
  <2>5. /\ visit' \in [Visit -> Metadata]
        /\ \A u \in Visit : /\ visit[u].opened => visit'[u].opened
                            /\ visit'[u].opened => visit'[u].hash
                            /\ visit[u].lead # NoForm => visit'[u].lead # NoForm
        /\ visit'[v].opened /\ visit'[v].lead # NoForm
    BY <2>2, <2>4 DEF MarketingInv, VisitKeepsToken
  <2>6. InquiryInv(i)'
    BY <2>3, <2>5 DEF InquiryInv
  <2>7. Conversing(i)' = FALSE
    BY <2>3 DEF Conversing
  <2>8. inquiries' \in 0..MaxInquiries /\ inquiryFaults' \in 0..MaxInquiryFaults
        /\ inquiries <= inquiries'
    BY <2>2 DEF MarketingInv
  <2> QED
    BY <2>2, <2>3, <2>5, <2>6, <2>7, <2>8, NothingSaid
<1>4. ASSUME NEW arrives \in BOOLEAN, SendDetails(i, arrives) PROVE MarketingInv'
  <2>1. PICK v \in Visit, f \in Form :
          v = inquiry[i].visit /\ f = inquiry[i].form /\ visit[v].lead # NoForm
    BY <1>4 DEF SendDetails, MarketingInv, InquiryInv
  <2>2. /\ contacts' \union told' \subseteq (contacts \union told) \union {<<v, f>>}
        /\ UNCHANGED <<visit, said, inquiries, inquiryFaults>>
    BY <1>4, <2>1 DEF SendDetails
  <2>3. /\ inquiry'[i] = AtHome
        /\ \A j \in Inquiry : j # i => inquiry'[j] = inquiry[j]
        /\ inquiry' = [j \in Inquiry |-> inquiry'[j]]
    BY <1>4, InquiryMoves DEF SendDetails
  <2>4. DetailsAreKept' /\ contacts' \union told' \subseteq Visit \X Form
    BY <2>1, <2>2 DEF MarketingInv, DetailsAreKept
  <2>5. InquiryInv(i)'
    BY <2>3 DEF InquiryInv, AtHome
  <2>6. ASSUME NEW j \in Inquiry, j # i PROVE InquiryInv(j)'
    BY <2>2, <2>3, <2>6 DEF MarketingInv, InquiryInv, Unsaid
  <2>7. SaidInv' /\ AnswersInv'
    BY <2>2 DEF MarketingInv, SaidInv, AnswersInv, AnsweredAlone
  <2>8. TurnsDiffer'
    BY <2>3 DEF MarketingInv, TurnsDiffer, Conversing, AtHome
  <2>9. \A j \in Inquiry : InquiryInv(j)'
    BY <2>5, <2>6
  <2> QED
    BY <2>2, <2>3, <2>4, <2>7, <2>8, <2>9 DEF MarketingInv, VisitKeepsToken
<1>5. ASSUME InquiryFails(i) PROVE MarketingInv'
  <2>1. /\ inquiryFaults' \in 0..MaxInquiryFaults
        /\ UNCHANGED <<visit, said, contacts, told, inquiries>>
    BY <1>5 DEF InquiryFails, MarketingInv
  <2>2. /\ inquiry'[i] = AtHome
        /\ \A j \in Inquiry : j # i => inquiry'[j] = inquiry[j]
        /\ inquiry' = [j \in Inquiry |-> inquiry'[j]]
    BY <1>5, InquiryMoves DEF InquiryFails
  <2>3. InquiryInv(i)'
    BY <2>2 DEF InquiryInv, AtHome
  <2> QED
    BY <2>1, <2>2, <2>3, NothingSaid DEF MarketingInv, VisitKeepsToken, AtHome, Conversing
<1> QED
  BY <1>1, <1>2, <1>3, <1>4, <1>5

LEMMA MarketingStep ==
  ASSUME MarketingInv, [MarketingNext]_marketingVars
  PROVE  MarketingInv'
<1>1. ASSUME NEW v \in Visit, StartSession(v) PROVE MarketingInv'
  <2>1. /\ UNCHANGED <<said, inquiry, contacts, told, inquiries, inquiryFaults>>
        /\ visit' \in [Visit -> Metadata]
        /\ \A u \in Visit : /\ visit[u].opened => visit'[u].opened
                            /\ visit'[u].opened => visit'[u].hash
                            /\ visit'[u].lead = visit[u].lead
    BY <1>1 DEF StartSession, OpensVisit, MarketingInv, Metadata, VisitKeepsToken
  <2>2. VisitKeepsToken' /\ DetailsAreKept'
    BY <2>1 DEF MarketingInv, VisitKeepsToken, DetailsAreKept
  <2>3. \A i \in Inquiry : InquiryInv(i)'
    BY <2>1 DEF MarketingInv, InquiryInv, Unsaid
  <2> QED
    BY <2>1, <2>2, <2>3
    DEF MarketingInv, SaidInv, AnswersInv, AnsweredAlone, TurnsDiffer, Conversing
<1>2. CASE UNCHANGED marketingVars
  BY <1>2 DEF marketingVars, MarketingInv, InquiryInv, Unsaid, SaidInv, AnswersInv,
     AnsweredAlone, TurnsDiffer, Conversing, VisitKeepsToken, DetailsAreKept
<1> QED
  BY <1>1, <1>2, AskStepInv, DetailStepInv DEF MarketingNext

LEMMA MarketingInvImplies ==
  ASSUME MarketingInv
  PROVE  MarketingTypeOK /\ VisitKeepsToken /\ DetailsAreKept /\ ReplyFollowsQuestion
<1>1. MarketingTypeOK
  BY DEF MarketingInv, MarketingTypeOK, InquiryInv, SaidInv, Metadata, ToSet
<1>2. \A i \in Inquiry : inquiry[i].at = "asking" =>
        \A m \in ToSet(inquiry[i].history) : m.turn # inquiry[i].turn
  BY DEF MarketingInv, InquiryInv
<1>3. ASSUME NEW v \in Visit, NEW n \in DOMAIN said[v], said[v][n].role = "assistant"
      PROVE  LET t == said[v][n].turn
                 of(role) == {m \in DOMAIN said[v] : said[v][m] = Message(role, t)}
             IN  of("assistant") = {n} /\ \E m \in of("user") : m < n
  <2>1. AnsweredAlone(v, n) /\ said[v][n] \in VisitMessage
    BY DEF MarketingInv, SaidInv, AnswersInv
  <2>2. said[v][n] = Message("assistant", said[v][n].turn)
    BY <1>3, <2>1 DEF VisitMessage, Message
  <2> QED
    BY <1>3, <2>1, <2>2 DEF AnsweredAlone
<1> QED
  BY <1>1, <1>2, <1>3 DEF MarketingInv, ReplyFollowsQuestion

(* A visitor's token opens the session for good, no details are taken back *)
(* and an answer follows its question (captureLead, chat), however the     *)
(* visitor's requests overlap or fail.                                     *)
THEOREM MarketingCorrect ==
  MarketingSpec =>
    [](MarketingTypeOK /\ VisitKeepsToken /\ DetailsAreKept /\ ReplyFollowsQuestion)
<1>1. MarketingInv /\ [MarketingNext]_marketingVars => MarketingInv'
  BY MarketingStep
<1>2. MarketingInv =>
        MarketingTypeOK /\ VisitKeepsToken /\ DetailsAreKept /\ ReplyFollowsQuestion
  BY MarketingInvImplies
<1> QED
  BY <1>1, <1>2, MarketingInitInv, PTL DEF MarketingSpec

-----------------------------------------------------------------------------
(* Calls of models, their budgets and alerts.                              *)

ModelCalls ==
  {NoModelCall} \union [at : {"asking"}, model : 1..ChainLength]
  \union [at : {"recording"}, cost : 0..MaxCost]
  \union {[at |-> "evaluating"]}
  \union [at : {"alerting"}, found : SUBSET Alert]

InFlight == {c \in Call : call[c].at \in {"asking", "recording"}}

(* Spend and what the calls in flight may cost pass the limit by no more   *)
(* than a call each.                                                       *)
Within(b) ==
  budget[b].enforced =>
    spend[b] + MaxCost * Cardinality(InFlight)
      <= budget[b].limit + MaxCost * Cardinality(Call) - (IF spend[b] = 0 THEN 0 ELSE 1)

(* A threshold that was crossed has its alert, or an evaluation is about   *)
(* to find or to write it.                                                 *)
ThisAlert(b, kind) == [budget |-> b, kind |-> kind, turn |-> turn[b]]
Noticed(a) ==
  a \in alerts \/ \E c \in Call : call[c].at = "alerting" /\ a \in call[c].found
AlertInv(b) ==
  \/ \E c \in Call : call[c].at = "evaluating"
  \/ /\ UsedUp(b) /\ spend[b] > 0 => Noticed(ThisAlert(b, "hard_limit"))
     /\ SoftCrossed(b) => \E kind \in Kind : Noticed(ThisAlert(b, kind))

BudgetTypes ==
  /\ BudgetTypeOK /\ call \in [Call -> ModelCalls] /\ IsFiniteSet(alerts)

BudgetInv ==
  /\ BudgetTypes
  /\ \A b \in Budget \ changed : Within(b)
  /\ \A b \in Budget \ (changed \union missed) : AlertInv(b)
  /\ NotifiedOnce

LEMMA ProductGrows == ASSUME NEW m \in Nat, NEW j \in Nat, NEW k \in Nat, j <= k PROVE m * j <= m * k
<1>1. PICK d \in Nat : k = j + d
  OBVIOUS
<1>2. m * k = m * j + m * d /\ m * d \in Nat /\ m * j \in Nat
  BY <1>1
<1> QED
  BY <1>2

LEMMA BudgetConstants ==
  /\ IsFiniteSet(Call) /\ Cardinality(Call) \in Nat /\ MaxCost \in Nat
  /\ ChainLength \in Nat \ {0} /\ MaxTurns \in Nat /\ MaxCallFaults \in Nat /\ MaxChanges \in Nat
  /\ \A l \in BudgetLimits : l \in Nat /\ l > 0
  /\ SoftNum \in Nat /\ SoftNum > 0 /\ SoftDen \in Nat
BY BudgetAssumption, FS_CardinalityType

LEMMA ModelCallIs ==
  ASSUME NEW x \in ModelCalls
  PROVE  /\ x.at \in {"idle", "asking", "recording", "evaluating", "alerting"}
         /\ x.at = "recording" => x.cost \in 0..MaxCost
         /\ x.at = "asking" => x.model \in 1..ChainLength
         /\ x.at = "alerting" => x.found \in SUBSET Alert
BY DEF ModelCalls, NoModelCall

LEMMA FlyingCount ==
  ASSUME NEW F \in SUBSET Call
  PROVE  /\ IsFiniteSet(F) /\ Cardinality(F) \in Nat /\ Cardinality(F) <= Cardinality(Call)
         /\ MaxCost * Cardinality(F) <= MaxCost * Cardinality(Call)
         /\ MaxCost * Cardinality(F) \in Nat /\ MaxCost * Cardinality(Call) \in Nat
<1>1. IsFiniteSet(F) /\ Cardinality(F) \in Nat /\ Cardinality(F) <= Cardinality(Call)
  BY BudgetConstants, FS_Subset, FS_CardinalityType
<1>2. MaxCost * Cardinality(F) <= MaxCost * Cardinality(Call)
  BY <1>1, BudgetConstants, ProductGrows
<1>3. MaxCost * Cardinality(F) \in Nat /\ MaxCost * Cardinality(Call) \in Nat
  BY <1>1, BudgetConstants
<1> QED
  BY <1>1, <1>2, <1>3

LEMMA BudgetRow ==
  ASSUME BudgetTypes, NEW b \in Budget
  PROVE  budget[b].limit \in Nat /\ budget[b].limit > 0 /\ spend[b] \in Nat /\ turn[b] \in 0..MaxTurns
BY BudgetConstants DEF BudgetTypes, BudgetTypeOK

(* Nothing spent crosses nothing: no limit and no threshold is zero.       *)
LEMMA NothingCrossed ==
  ASSUME NEW l \in Nat, l > 0, NEW s, s = 0 PROVE ~ (SoftDen * s >= SoftNum * l)
<1>1. SoftNum >= 1 /\ SoftNum \in Nat /\ l >= 1
  BY BudgetConstants
<1>2. SoftNum * 1 <= SoftNum * l
  BY <1>1, ProductGrows
<1>3. SoftDen * s = 0
  BY BudgetConstants
<1>4. SoftNum * l \in Nat /\ SoftNum * 1 = SoftNum
  BY <1>1
<1> QED
  BY <1>1, <1>2, <1>3, <1>4

LEMMA BudgetInitInv == BudgetInit => BudgetInv
<1> SUFFICES ASSUME BudgetInit PROVE BudgetInv
  OBVIOUS
<1> USE BudgetConstants
<1>1. NoModelCall \in ModelCalls /\ NoModelCall.at = "idle"
  BY DEF ModelCalls, NoModelCall
<1>2. call \in [Call -> ModelCalls] /\ \A c \in Call : call[c].at = "idle"
  BY <1>1 DEF BudgetInit
<1>3. BudgetTypes
  <2>1. \A c \in Call : call[c] \in ModelCalls
    BY <1>2
  <2>2. budget \in [Budget -> [limit : BudgetLimits, enforced : BOOLEAN]]
    BY DEF BudgetInit
  <2> QED
    BY <1>2, <2>1, <2>2, FS_EmptySet DEF BudgetInit, BudgetTypes, BudgetTypeOK, ModelCalls
<1>4. \A b \in Budget : Within(b)
  <2>1. InFlight = {} /\ Cardinality(InFlight) = 0
    BY <1>2, FS_EmptySet DEF InFlight
  <2>2. MaxCost * 0 = 0 /\ MaxCost * Cardinality(Call) \in Nat
    OBVIOUS
  <2> QED
    BY <1>3, <2>1, <2>2, BudgetRow DEF Within, BudgetInit
<1>5. ASSUME NEW b \in Budget PROVE AlertInv(b)
  <2>1. spend[b] = 0
    BY DEF BudgetInit
  <2> QED
    BY <1>3, <2>1, BudgetRow, NothingCrossed DEF AlertInv, SoftCrossed
<1>6. NotifiedOnce
  BY FS_EmptySet DEF BudgetInit, NotifiedOnce
<1> QED
  BY <1>3, <1>4, <1>5, <1>6 DEF BudgetInv

(* A call goes on.                                                         *)
LEMMA CallChanges ==
  ASSUME BudgetTypes, NEW c \in Call, NEW to \in ModelCalls, CallGoes(c, to)
  PROVE  /\ call' \in [Call -> ModelCalls] /\ call'[c] = to
         /\ \A d \in Call : d # c => call'[d] = call[d]
BY DEF BudgetTypes, CallGoes

(* What keeps the sum of spend and of what is in flight.                   *)
LEMMA WithinKeeps ==
  ASSUME BudgetTypes, NEW b \in Budget, Within(b), budget'[b] = budget[b], spend'[b] = spend[b],
         InFlight' \subseteq InFlight
  PROVE  Within(b)'
<1>1. InFlight \subseteq Call /\ InFlight' \subseteq Call
  BY DEF InFlight
<1>2. IsFiniteSet(InFlight)
  BY <1>1, FlyingCount
<1>3. PICK k \in Nat : k = Cardinality(InFlight)
  BY <1>1, FlyingCount
<1>4. PICK j \in Nat : j = Cardinality(InFlight')
  BY <1>1, FlyingCount
<1>5. j <= k
  BY <1>2, <1>3, <1>4, FS_Subset
<1>6. MaxCost * j <= MaxCost * k /\ MaxCost * j \in Nat /\ MaxCost * k \in Nat
      /\ MaxCost * Cardinality(Call) \in Nat
  BY <1>5, ProductGrows, BudgetConstants
<1> HIDE DEF InFlight
<1> QED
  BY <1>3, <1>4, <1>6, BudgetRow DEF Within

LEMMA AlertKeeps ==
  ASSUME NEW b \in Budget, AlertInv(b), budget'[b] = budget[b], spend'[b] = spend[b],
         turn'[b] = turn[b],
         \A a \in Alert : Noticed(a) => Noticed(a)',
         \A kind \in Kind : ThisAlert(b, kind) \in Alert,
         \A c \in Call : call[c].at = "evaluating" => call'[c].at = "evaluating"
  PROVE  AlertInv(b)'
<1>1. \A kind \in Kind : ThisAlert(b, kind)' = ThisAlert(b, kind)
  BY DEF ThisAlert
<1>2. \A kind \in Kind : Noticed(ThisAlert(b, kind)) => Noticed(ThisAlert(b, kind))'
  BY <1>1 DEF Noticed
<1>3. "hard_limit" \in Kind
  BY DEF Kind
<1>4. (UsedUp(b)' <=> UsedUp(b)) /\ (SoftCrossed(b)' <=> SoftCrossed(b))
  BY DEF UsedUp, SoftCrossed
<1> QED
  BY <1>2, <1>3, <1>4 DEF AlertInv

LEMMA ThisAlertIs ==
  ASSUME BudgetTypes, NEW b \in Budget, NEW kind \in Kind PROVE ThisAlert(b, kind) \in Alert
BY BudgetRow DEF ThisAlert, Alert

(* A call that goes on without evaluating: idle, asking or recording.      *)
LEMMA PlainStep ==
  ASSUME BudgetInv, NEW c \in Call, NEW to \in ModelCalls, CallGoes(c, to),
         call[c].at \notin {"evaluating", "alerting"},
         UNCHANGED configVars, UNCHANGED <<spend, alerts, alertEvents, missed>>,
         unbilled' \in Nat, callFaults' \in 0..MaxCallFaults,
         \A b \in Budget \ changed : Within(b)'
  PROVE  BudgetInv'
<1>1. /\ call' \in [Call -> ModelCalls] /\ call'[c] = to
      /\ \A d \in Call : d # c => call'[d] = call[d]
  BY CallChanges DEF BudgetInv
<1>2. BudgetTypes'
  <2>1. \A d \in Call : call'[d] \in ModelCalls
    BY <1>1
  <2> QED
    BY <1>1, <2>1 DEF BudgetInv, BudgetTypes, BudgetTypeOK, configVars, ModelCalls
<1>3. ASSUME NEW b \in Budget \ (changed \union missed) PROVE AlertInv(b)'
  <2>1. \A a \in Alert : Noticed(a) => Noticed(a)'
    BY <1>1 DEF Noticed
  <2>2. \A d \in Call : call[d].at = "evaluating" => call'[d].at = "evaluating"
    BY <1>1
  <2>3. AlertInv(b)
    BY DEF BudgetInv
  <2> QED
    BY <2>1, <2>2, <2>3, ThisAlertIs, AlertKeeps DEF BudgetInv, configVars
<1>4. changed' = changed /\ missed' = missed /\ NotifiedOnce'
  BY DEF configVars, BudgetInv, NotifiedOnce
<1> QED
  BY <1>2, <1>3, <1>4 DEF BudgetInv

LEMMA AdmitInv == ASSUME BudgetInv, NEW c \in Call, Admit(c) PROVE BudgetInv'
<1> USE BudgetConstants
<1>0. 1 \in 1..ChainLength
  OBVIOUS
<1>1. PICK to \in ModelCalls : to = [at |-> "asking", model |-> 1]
  BY <1>0 DEF ModelCalls
<1>2. /\ call[c].at = "idle" /\ CallGoes(c, to) /\ UNCHANGED configVars
      /\ UNCHANGED <<spend, alerts, alertEvents, unbilled, missed, callFaults>>
      /\ \A b \in Budget : ~ (UsedUp(b) /\ budget[b].enforced)
  BY <1>1 DEF Admit
<1>3. ASSUME NEW b \in Budget PROVE Within(b)'
  <2>1. PICK n \in Nat : n = MaxCost * Cardinality(Call)
    BY FlyingCount
  <2>2. PICK m \in Nat : m = MaxCost * Cardinality(InFlight') /\ m <= n
    <3>1. InFlight' \subseteq Call
      BY DEF InFlight
    <3> QED
      BY <2>1, <3>1, FlyingCount
  <2>3. budget[b].enforced => spend[b] < budget[b].limit
    BY <1>2, BudgetRow DEF UsedUp, BudgetInv
  <2> HIDE DEF InFlight
  <2> QED
    BY <1>2, <2>1, <2>2, <2>3, BudgetRow DEF Within, configVars, BudgetInv
<1>4. unbilled' \in Nat /\ callFaults' \in 0..MaxCallFaults
  BY <1>2 DEF BudgetInv, BudgetTypes, BudgetTypeOK
<1> QED
  BY <1>2, <1>3, <1>4, PlainStep

LEMMA AskInv ==
  ASSUME BudgetInv, NEW c \in Call,
         \/ \E cost \in 0..MaxCost : CallAnswered(c, cost)
         \/ \E retryable, sold \in BOOLEAN : AskFails(c, retryable, sold)
         \/ RecordFails(c)
  PROVE  BudgetInv'
<1> USE BudgetConstants
<1>1. PICK to \in ModelCalls :
        /\ CallGoes(c, to) /\ call[c].at \in {"asking", "recording"}
  <2>0. NoModelCall \in ModelCalls /\ call[c] \in ModelCalls
    BY DEF ModelCalls, BudgetInv, BudgetTypes
  <2>1. ASSUME NEW cost \in 0..MaxCost, CallAnswered(c, cost)
        PROVE  \E to \in ModelCalls : CallGoes(c, to) /\ call[c].at \in {"asking", "recording"}
    <3>1. [at |-> "recording", cost |-> cost] \in ModelCalls
      BY DEF ModelCalls
    <3> QED
      BY <2>1, <3>1 DEF CallAnswered
  <2>2. ASSUME NEW retryable \in BOOLEAN, NEW sold \in BOOLEAN, AskFails(c, retryable, sold)
        PROVE  \E to \in ModelCalls : CallGoes(c, to) /\ call[c].at \in {"asking", "recording"}
    <3>1. call[c].at = "asking" /\ call[c].model \in 1..ChainLength
      BY <2>0, <2>2, ModelCallIs DEF AskFails
    <3>2. PICK m \in 1..ChainLength : m = call[c].model
      BY <3>1
    <3>3. m < ChainLength => [at |-> "asking", model |-> m + 1] \in ModelCalls
      BY DEF ModelCalls
    <3> QED
      BY <2>0, <2>2, <3>1, <3>2, <3>3 DEF AskFails
  <2>3. ASSUME RecordFails(c)
        PROVE  \E to \in ModelCalls : CallGoes(c, to) /\ call[c].at \in {"asking", "recording"}
    BY <2>0, <2>3 DEF RecordFails
  <2> QED
    BY <2>1, <2>2, <2>3
<1>2. /\ UNCHANGED configVars /\ UNCHANGED <<spend, alerts, alertEvents, missed>>
      /\ unbilled' \in Nat /\ callFaults' \in 0..MaxCallFaults
  <2>1. unbilled \in Nat /\ callFaults \in 0..MaxCallFaults
    BY DEF BudgetInv, BudgetTypes, BudgetTypeOK
  <2>2. CASE \E cost \in 0..MaxCost : CallAnswered(c, cost)
    BY <2>1, <2>2 DEF CallAnswered
  <2>3. CASE \E retryable, sold \in BOOLEAN : AskFails(c, retryable, sold)
    BY <2>1, <2>3 DEF AskFails, Fault
  <2>4. CASE RecordFails(c)
    BY <2>1, <2>4 DEF RecordFails, Fault
  <2> QED
    BY <2>2, <2>3, <2>4
<1>3. InFlight' \subseteq InFlight
  BY <1>1, CallChanges DEF InFlight, BudgetInv
<1>4. ASSUME NEW b \in Budget \ changed PROVE Within(b)'
  BY <1>2, <1>3, WithinKeeps DEF configVars, BudgetInv
<1> QED
  BY <1>1, <1>2, <1>4, PlainStep

LEMMA RecordInv == ASSUME BudgetInv, NEW c \in Call, RecordUsage(c) PROVE BudgetInv'
<1> USE BudgetConstants
<1>1. PICK to \in ModelCalls : to = [at |-> "evaluating"]
  BY DEF ModelCalls
<1>2. /\ call[c].at = "recording" /\ CallGoes(c, to) /\ UNCHANGED configVars
      /\ UNCHANGED <<alerts, alertEvents, unbilled, missed, callFaults>>
      /\ spend' = [b \in Budget |-> spend[b] + call[c].cost]
  BY <1>1 DEF RecordUsage
<1>3. /\ call' \in [Call -> ModelCalls] /\ call'[c] = to
      /\ \A d \in Call : d # c => call'[d] = call[d]
  BY <1>2, CallChanges DEF BudgetInv
<1>4. PICK cost \in 0..MaxCost : cost = call[c].cost
  <2>1. call[c] \in ModelCalls
    BY DEF BudgetInv, BudgetTypes
  <2> QED
    BY <1>2, <2>1, ModelCallIs
<1>5. BudgetTypes'
  <2>1. \A d \in Call : call'[d] \in ModelCalls
    BY <1>3
  <2>2. \A b \in Budget : spend[b] \in Nat
    BY BudgetRow DEF BudgetInv
  <2>3. spend' \in [Budget -> Nat]
    BY <1>2, <1>4, <2>2
  <2> QED
    BY <1>2, <1>3, <2>1, <2>3 DEF BudgetInv, BudgetTypes, BudgetTypeOK, configVars, ModelCalls
<1>6. ASSUME NEW b \in Budget \ changed PROVE Within(b)'
  <2>1. PICK n \in Nat : n = MaxCost * Cardinality(Call)
    BY FlyingCount
  <2>2. InFlight \subseteq Call /\ c \in InFlight /\ InFlight' = InFlight \ {c}
    BY <1>1, <1>2, <1>3 DEF InFlight
  <2>3. IsFiniteSet(InFlight)
    BY <2>2, FlyingCount
  <2>4. PICK k \in Nat : k = Cardinality(InFlight)
    BY <2>2, FlyingCount
  <2>5. Cardinality(InFlight') = k - 1 /\ k - 1 \in Nat
    <3>1. Cardinality(InFlight \ {c}) = k - 1
      BY <2>2, <2>3, <2>4, FS_RemoveElement
    <3>2. Cardinality(InFlight \ {c}) \in Nat
      BY <2>2, FlyingCount
    <3> QED
      BY <2>2, <3>1, <3>2
  <2>6. MaxCost * k <= n
    BY <2>1, <2>2, <2>4, FlyingCount
  <2>7. MaxCost * k = MaxCost * (k - 1) + MaxCost
    BY <2>5
  <2>8. PICK m \in Nat : m = MaxCost * (k - 1)
    BY <2>5
  <2>9. PICK l \in Nat : l = budget[b].limit /\ l > 0
    BY BudgetRow DEF BudgetInv
  <2>10. PICK s \in Nat : s = spend[b]
    BY BudgetRow DEF BudgetInv
  <2>11. spend'[b] = s + cost /\ budget' = budget
    BY <1>2, <1>4, <2>10 DEF configVars
  <2>12. budget[b].enforced => s + (m + MaxCost) <= l + n - (IF s = 0 THEN 0 ELSE 1)
    <3>1. Within(b)
      BY DEF BudgetInv
    <3> HIDE DEF InFlight
    <3> QED
      BY <2>1, <2>4, <2>7, <2>8, <2>9, <2>10, <3>1 DEF Within
  <2>13. budget[b].enforced => (s + cost) + m <= l + n - (IF s + cost = 0 THEN 0 ELSE 1)
    BY <2>6, <2>7, <2>8, <2>9, <2>12
  <2> HIDE DEF InFlight
  <2> QED
    BY <2>1, <2>5, <2>8, <2>9, <2>11, <2>13 DEF Within
<1>7. \A b \in Budget : AlertInv(b)'
  BY <1>1, <1>3 DEF AlertInv
<1>8. changed' = changed /\ NotifiedOnce'
  BY <1>2 DEF configVars, BudgetInv, NotifiedOnce
<1> QED
  BY <1>5, <1>6, <1>7, <1>8 DEF BudgetInv

(* A call that evaluates: spend and what is in flight stay.                *)
LEMMA EvaluatingStep ==
  ASSUME BudgetInv, NEW c \in Call, NEW to \in ModelCalls, CallGoes(c, to),
         to.at \in {"idle", "alerting"}, UNCHANGED configVars, UNCHANGED spend
  PROVE  /\ call' \in [Call -> ModelCalls] /\ call'[c] = to
         /\ \A d \in Call : d # c => call'[d] = call[d]
         /\ \A b \in Budget \ changed' : Within(b)'
<1>1. /\ call' \in [Call -> ModelCalls] /\ call'[c] = to
      /\ \A d \in Call : d # c => call'[d] = call[d]
  BY CallChanges DEF BudgetInv
<1>2. InFlight' \subseteq InFlight
  BY <1>1 DEF InFlight
<1>3. \A b \in Budget \ changed' : Within(b)'
  BY <1>2, WithinKeeps DEF configVars, BudgetInv
<1> QED
  BY <1>1, <1>3

LEMMA CallTypesStay ==
  ASSUME BudgetInv, call' \in [Call -> ModelCalls], UNCHANGED configVars, UNCHANGED spend,
         alerts' \subseteq Alert, IsFiniteSet(alerts'), alertEvents' \in Nat, UNCHANGED unbilled,
         missed' \subseteq Budget, callFaults' \in 0..MaxCallFaults
  PROVE  BudgetTypes'
<1>1. \A d \in Call : call'[d] \in ModelCalls
  OBVIOUS
<1> QED
  BY <1>1 DEF BudgetInv, BudgetTypes, BudgetTypeOK, configVars, ModelCalls

LEMMA EvaluateInv == ASSUME BudgetInv, NEW c \in Call, Evaluate(c) PROVE BudgetInv'
<1> USE BudgetConstants
<1>1. PICK to \in ModelCalls :
        to = IF Found = {} THEN NoModelCall ELSE [at |-> "alerting", found |-> Found]
  <2>1. Found \in SUBSET Alert
    BY DEF Found
  <2>2. PICK found \in SUBSET Alert : found = Found
    BY <2>1
  <2>3. NoModelCall \in ModelCalls /\ [at |-> "alerting", found |-> found] \in ModelCalls
    BY DEF ModelCalls
  <2> QED
    BY <2>2, <2>3
<1>2. /\ to.at \in {"idle", "alerting"}
      /\ \A a \in Found : to.at = "alerting" /\ a \in to.found
  BY <1>1 DEF NoModelCall
<1>3. /\ CallGoes(c, to) /\ UNCHANGED configVars
      /\ UNCHANGED <<spend, alerts, alertEvents, unbilled, missed, callFaults>>
  BY <1>1 DEF Evaluate
<1>4. /\ call' \in [Call -> ModelCalls] /\ call'[c] = to
      /\ \A b \in Budget \ changed' : Within(b)'
  BY <1>2, <1>3, EvaluatingStep
<1>5. BudgetTypes'
  BY <1>3, <1>4, CallTypesStay DEF BudgetInv, BudgetTypes, BudgetTypeOK
<1>6. ASSUME NEW b \in Budget PROVE AlertInv(b)'
  <2>1. ASSUME NEW kind \in AlertKinds(b) PROVE Noticed(ThisAlert(b, kind))'
    <3>1. kind \in Kind
      BY DEF AlertKinds, Kind
    <3>2. PICK a \in Alert : a = ThisAlert(b, kind)
      BY <3>1, ThisAlertIs DEF BudgetInv
    <3>3. a.kind = kind /\ a.budget = b /\ a.turn = turn[b]
      BY <3>2 DEF ThisAlert
    <3>4. a \in Found
      BY <3>3 DEF Found
    <3>5. Noticed(a)'
      BY <1>2, <1>4, <3>4 DEF Noticed
    <3>6. ThisAlert(b, kind)' = a
      BY <1>3, <3>2 DEF ThisAlert, configVars
    <3> QED
      BY <3>5, <3>6 DEF Noticed
  <2>2. (UsedUp(b)' <=> UsedUp(b)) /\ (SoftCrossed(b)' <=> SoftCrossed(b))
    BY <1>3 DEF UsedUp, SoftCrossed, configVars
  <2>3. /\ UsedUp(b) => "hard_limit" \in AlertKinds(b)
        /\ SoftCrossed(b) => \E kind \in Kind : kind \in AlertKinds(b)
    BY DEF AlertKinds, Kind
  <2> QED
    BY <2>1, <2>2, <2>3 DEF AlertInv
<1>7. NotifiedOnce'
  BY <1>3 DEF BudgetInv, NotifiedOnce
<1> QED
  BY <1>4, <1>5, <1>6, <1>7 DEF BudgetInv

LEMMA RecordAlertInv ==
  ASSUME BudgetInv, NEW c \in Call, NEW a \in Alert, RecordAlert(c, a) PROVE BudgetInv'
<1> USE BudgetConstants
<1>1. /\ call[c].at = "alerting" /\ a \in call[c].found /\ call[c] \in ModelCalls
      /\ call[c].found \subseteq Alert
  BY ModelCallIs DEF RecordAlert, BudgetInv, BudgetTypes
<1>2. PICK left \in SUBSET Alert : left = call[c].found \ {a}
  BY <1>1
<1>3. PICK to \in ModelCalls :
        to = IF left = {} THEN NoModelCall ELSE [call[c] EXCEPT !.found = left]
  <2>1. call[c] \in [at : {"alerting"}, found : SUBSET Alert]
    BY <1>1 DEF ModelCalls, NoModelCall
  <2>2. [call[c] EXCEPT !.found = left] \in [at : {"alerting"}, found : SUBSET Alert]
    BY <2>1
  <2>3. NoModelCall \in ModelCalls /\ [call[c] EXCEPT !.found = left] \in ModelCalls
    BY <2>2 DEF ModelCalls
  <2> QED
    BY <2>3
<1>4. /\ to.at \in {"idle", "alerting"}
      /\ \A x \in left : to.at = "alerting" /\ x \in to.found
  <2>1. call[c] \in [at : {"alerting"}, found : SUBSET Alert]
    BY <1>1 DEF ModelCalls, NoModelCall
  <2> QED
    BY <1>3, <2>1 DEF NoModelCall
<1>5. /\ CallGoes(c, to) /\ UNCHANGED configVars
      /\ UNCHANGED <<spend, unbilled, missed, callFaults>>
      /\ alerts' = alerts \union {a}
      /\ alertEvents' = IF New(a) THEN alertEvents + 1 ELSE alertEvents
  BY <1>2, <1>3 DEF RecordAlert
<1>6. /\ call' \in [Call -> ModelCalls] /\ call'[c] = to
      /\ \A d \in Call : d # c => call'[d] = call[d]
      /\ \A b \in Budget \ changed' : Within(b)'
  BY <1>4, <1>5, EvaluatingStep
<1>7. /\ IsFiniteSet(alerts) /\ Cardinality(alerts) \in Nat /\ alertEvents = Cardinality(alerts)
      /\ alerts \subseteq Alert /\ missed \subseteq Budget /\ callFaults \in 0..MaxCallFaults
  BY FS_CardinalityType DEF BudgetInv, BudgetTypes, BudgetTypeOK, NotifiedOnce
<1>8. IsFiniteSet(alerts') /\ alerts' \subseteq Alert /\ alertEvents' = Cardinality(alerts')
      /\ alertEvents' \in Nat
  <2>1. CASE New(a)
    <3>1. Cardinality(alerts \union {a}) = Cardinality(alerts) + 1 /\ IsFiniteSet(alerts \union {a})
      BY <1>7, <2>1, FS_AddElement DEF New
    <3> QED
      BY <1>5, <1>7, <2>1, <3>1
  <2>2. CASE ~ New(a)
    <3>1. alerts \union {a} = alerts
      BY <2>2 DEF New
    <3> QED
      BY <1>5, <1>7, <2>2, <3>1
  <2> QED
    BY <2>1, <2>2
<1>9. BudgetTypes'
  BY <1>5, <1>6, <1>7, <1>8, CallTypesStay
<1>10. ASSUME NEW b \in Budget \ (changed \union missed) PROVE AlertInv(b)'
  <2>1. \A x \in Alert : Noticed(x) => Noticed(x)'
    BY <1>1, <1>2, <1>4, <1>5, <1>6 DEF Noticed
  <2>2. \A d \in Call : call[d].at = "evaluating" => call'[d].at = "evaluating"
    BY <1>1, <1>6
  <2>3. AlertInv(b)
    BY DEF BudgetInv
  <2> QED
    BY <1>5, <2>1, <2>2, <2>3, ThisAlertIs, AlertKeeps DEF BudgetInv, configVars
<1>11. NotifiedOnce' /\ changed' = changed /\ missed' = missed
  BY <1>5, <1>8 DEF NotifiedOnce, configVars
<1> QED
  BY <1>6, <1>9, <1>10, <1>11 DEF BudgetInv

LEMMA EvaluationLostInv == ASSUME BudgetInv, NEW c \in Call, EvaluationLost(c) PROVE BudgetInv'
<1> USE BudgetConstants
<1>1. PICK to \in ModelCalls : to = NoModelCall
  BY DEF ModelCalls
<1>2. /\ CallGoes(c, to) /\ UNCHANGED configVars /\ to.at = "idle" /\ missed' = Budget
      /\ UNCHANGED <<spend, alerts, alertEvents, unbilled>> /\ callFaults' = callFaults + 1
      /\ callFaults < MaxCallFaults
  BY <1>1 DEF EvaluationLost, Fault, NoModelCall
<1>3. /\ call' \in [Call -> ModelCalls] /\ \A b \in Budget \ changed' : Within(b)'
  BY <1>2, EvaluatingStep
<1>4. callFaults' \in 0..MaxCallFaults
  BY <1>2 DEF BudgetInv, BudgetTypes, BudgetTypeOK
<1>5. BudgetTypes'
  BY <1>2, <1>3, <1>4, CallTypesStay DEF BudgetInv, BudgetTypes, BudgetTypeOK
<1> QED
  BY <1>2, <1>3, <1>5 DEF BudgetInv, NotifiedOnce

LEMMA BudgetRowInv ==
  ASSUME BudgetInv, NEW b \in Budget,
         \/ PeriodEnds(b)
         \/ \E limit \in BudgetLimits, enforced \in BOOLEAN : SetBudget(b, limit, enforced)
  PROVE  BudgetInv'
<1> USE BudgetConstants
<1>1. UNCHANGED <<call, alerts, alertEvents, unbilled, callFaults>>
  BY DEF PeriodEnds, SetBudget
<1>2. BudgetTypes'
  <2>1. CASE PeriodEnds(b)
    <3>1. turn' \in [Budget -> 0..MaxTurns] /\ spend' \in [Budget -> Nat]
      BY <2>1 DEF PeriodEnds, BudgetInv, BudgetTypes, BudgetTypeOK
    <3> QED
      BY <2>1, <3>1 DEF PeriodEnds, BudgetInv, BudgetTypes, BudgetTypeOK
  <2>2. ASSUME NEW limit \in BudgetLimits, NEW enforced \in BOOLEAN, SetBudget(b, limit, enforced)
        PROVE  BudgetTypes'
    <3>1. PICK row \in [limit : BudgetLimits, enforced : BOOLEAN] :
            row = [limit |-> limit, enforced |-> enforced]
      OBVIOUS
    <3>2. budget' = [budget EXCEPT ![b] = row]
      BY <2>2, <3>1 DEF SetBudget
    <3>3. budget' \in [Budget -> [limit : BudgetLimits, enforced : BOOLEAN]]
      BY <3>1, <3>2 DEF BudgetInv, BudgetTypes, BudgetTypeOK
    <3>4. changes' \in 0..MaxChanges
      BY <2>2 DEF SetBudget, BudgetInv, BudgetTypes, BudgetTypeOK
    <3> QED
      BY <2>2, <3>3, <3>4 DEF SetBudget, BudgetInv, BudgetTypes, BudgetTypeOK
  <2> QED
    BY <2>1, <2>2
<1>3. /\ \A o \in Budget : o # b =>
           /\ budget'[o] = budget[o] /\ spend'[o] = spend[o] /\ turn'[o] = turn[o]
           /\ o \in changed' <=> o \in changed
           /\ o \in missed' <=> o \in missed
      /\ b \notin changed' =>
           spend'[b] = 0 /\ budget' = budget
  BY DEF PeriodEnds, SetBudget, BudgetInv, BudgetTypes, BudgetTypeOK
<1>4. ASSUME NEW o \in Budget \ changed' PROVE Within(o)'
  <2>1. CASE o # b
    <3>1. InFlight' = InFlight
      BY <1>1 DEF InFlight
    <3> QED
      BY <1>3, <2>1, <3>1, WithinKeeps DEF BudgetInv
  <2>2. CASE o = b
    <3>1. PICK n \in Nat : n = MaxCost * Cardinality(Call)
      BY FlyingCount
    <3>2. PICK m \in Nat : m = MaxCost * Cardinality(InFlight') /\ m <= n
      <4>1. InFlight' \subseteq Call
        BY DEF InFlight
      <4> QED
        BY <3>1, <4>1, FlyingCount
    <3> HIDE DEF InFlight
    <3> QED
      BY <1>3, <2>2, <3>1, <3>2, BudgetRow DEF Within, BudgetInv
  <2> QED
    BY <2>1, <2>2
<1>5. ASSUME NEW o \in Budget \ (changed' \union missed') PROVE AlertInv(o)'
  <2>1. CASE o # b
    <3>1. \A a \in Alert : Noticed(a) => Noticed(a)'
      BY <1>1 DEF Noticed
    <3>2. AlertInv(o)
      BY <1>3, <2>1 DEF BudgetInv
    <3> QED
      BY <1>1, <1>3, <2>1, <3>1, <3>2, ThisAlertIs, AlertKeeps DEF BudgetInv
  <2>2. CASE o = b
    <3>1. spend'[b] = 0
      BY <1>3, <2>2
    <3>2. ~ SoftCrossed(b)'
      BY <1>3, <2>2, <3>1, BudgetRow, NothingCrossed DEF BudgetInv, SoftCrossed
    <3> QED
      BY <2>2, <3>1, <3>2 DEF AlertInv
  <2> QED
    BY <2>1, <2>2
<1>6. NotifiedOnce'
  BY <1>1 DEF BudgetInv, NotifiedOnce
<1> QED
  BY <1>2, <1>4, <1>5, <1>6 DEF BudgetInv

LEMMA BudgetStep == ASSUME BudgetInv, [BudgetNext]_budgetVars PROVE BudgetInv'
<1>1. CASE UNCHANGED budgetVars
  BY <1>1 DEF budgetVars, BudgetInv, BudgetTypes, BudgetTypeOK, Within, InFlight, AlertInv,
     UsedUp, SoftCrossed, Noticed, ThisAlert, NotifiedOnce
<1>2. CASE BudgetNext
  BY <1>2, AdmitInv, AskInv, RecordInv, EvaluateInv, RecordAlertInv, EvaluationLostInv,
     BudgetRowInv DEF BudgetNext
<1> QED
  BY <1>1, <1>2

LEMMA BudgetInvImplies ==
  ASSUME BudgetInv PROVE BudgetTypeOK /\ OvershootBounded /\ AlertedWhenCrossed /\ NotifiedOnce
<1>1. OvershootBounded
  BY DEF BudgetInv, Within, InFlight, OvershootBounded
<1>2. ASSUME \A c \in Call : call[c].at \notin {"evaluating", "alerting"},
             NEW b \in Budget \ (changed \union missed)
      PROVE  /\ UsedUp(b) /\ spend[b] > 0 => ThisAlert(b, "hard_limit") \in alerts
             /\ SoftCrossed(b) => \E kind \in Kind : ThisAlert(b, kind) \in alerts
  BY <1>2 DEF BudgetInv, AlertInv, Noticed
<1>3. AlertedWhenCrossed
  BY <1>2 DEF AlertedWhenCrossed, ThisAlert, UsedUp
<1> QED
  BY <1>1, <1>3 DEF BudgetInv, BudgetTypes

(* For any number of calls and budgets: enforced budgets are overspent by  *)
(* no more than the calls in flight cost, and each threshold crossed has   *)
(* one alert with one event.                                               *)
THEOREM BudgetCorrect ==
  BudgetSpec => [](BudgetTypeOK /\ OvershootBounded /\ AlertedWhenCrossed /\ NotifiedOnce)
<1>1. BudgetInv /\ [BudgetNext]_budgetVars => BudgetInv'
  BY BudgetStep
<1> QED
  BY <1>1, BudgetInitInv, BudgetInvImplies, PTL DEF BudgetSpec

-----------------------------------------------------------------------------
(* Competitors and keyword suggestions.                                    *)

(* What an editor holds where it is.                                       *)
EditorHolds(q) ==
  /\ q.at \in Phases
  /\ q.at = "adding" => q.domain \in Domain
  /\ q.at = "renaming" => q.id \in 1..MaxRows /\ q.domain \in Domain
  /\ q.at = "measuring" => \A k \in DOMAIN q.seen : q.seen[k].domain \in Domain

RowsInv ==
  /\ rows \in Seq(Row) /\ created \in 0..MaxRows
  /\ \A i \in DOMAIN rows : rows[i].id <= created
  /\ \A i, j \in DOMAIN rows : i # j => rows[i].domain # rows[j].domain
  /\ \A i, j \in DOMAIN rows : i < j => rows[i].id < rows[j].id

EditorsInv ==
  /\ editor = [e \in Editor |-> editor[e]]
  /\ \A e \in Editor : EditorHolds(editor[e])
  /\ comparisonCalls \in 0..MaxComparisonCalls
  /\ fresh \in BOOLEAN /\ refreshJob \in BOOLEAN
  /\ vacated \in BOOLEAN /\ tainted \subseteq 1..MaxRows

(* The domains that requests in flight are about to add.                   *)
Awaited == {editor[e].domain : e \in {e \in Editor : editor[e].at = "adding"}}
Pending == Awaited \ Domains
RoomInv == vacated \/ Len(rows) + Cardinality(Pending) <= Limit - 1 + Cardinality(Editor)

(* While no two refreshes of the keywords overlapped, one at most is under *)
(* way, and what it has disabled is all there is.                          *)
Suggesting(e) == editor[e].at \in {"asking", "disabled"}
SuggestInv ==
  /\ suggestedBy \subseteq Editor /\ crossed \in BOOLEAN
  /\ ~ crossed =>
       /\ \A e, o \in Editor : Suggesting(e) /\ Suggesting(o) => e = o
       /\ \A e \in Editor : editor[e].at = "disabled" => editor[e].runs = suggestedBy
       /\ \A a, b \in suggestedBy : a = b

ComparisonInv ==
  RowsInv /\ EditorsInv /\ RoomInv /\ MetricsOfDomain /\ SuggestInv

LEMMA ComparisonConstants ==
  /\ NoDomain \notin Domain /\ IsFiniteSet(Editor) /\ Cardinality(Editor) \in Nat
  /\ Limit \in Nat /\ Limit > 0 /\ MaxRows \in Nat /\ MaxComparisonCalls \in Nat
BY ComparisonAssumption, FS_CardinalityType

LEMMA IdleHolds == Idle.at = "idle" /\ EditorHolds(Idle)
BY DEF Idle, EditorHolds, Phases

(* As many domains at most as there are editors.                           *)
LEMMA DomainsOfEditors ==
  ASSUME NEW A \in SUBSET Editor, NEW ed, NEW D, D \subseteq {ed[e].domain : e \in A}
  PROVE  IsFiniteSet(D) /\ Cardinality(D) \in Nat /\ Cardinality(D) <= Cardinality(Editor)
<1> DEFINE T == {ed[e].domain : e \in A}
           domainOf == [e \in A |-> ed[e].domain]
<1>1. IsFiniteSet(A) /\ Cardinality(A) <= Cardinality(Editor) /\ Cardinality(A) \in Nat
  BY ComparisonConstants, FS_Subset, FS_CardinalityType
<1>2. domainOf \in Surjection(A, T)
  BY DEF Surjection
<1>3. IsFiniteSet(T) /\ Cardinality(T) <= Cardinality(A)
  <2> HIDE DEF T, domainOf
  <2> QED
    BY <1>1, <1>2, FS_Surjection
<1>4. D \in SUBSET T
  OBVIOUS
<1>5. /\ IsFiniteSet(D) /\ Cardinality(D) <= Cardinality(T)
      /\ Cardinality(D) \in Nat /\ Cardinality(T) \in Nat
  <2> HIDE DEF T
  <2> QED
    BY <1>3, <1>4, FS_Subset, FS_CardinalityType
<1> HIDE DEF T
<1> QED
  BY <1>1, <1>3, <1>5, ComparisonConstants

LEMMA PendingCount ==
  /\ IsFiniteSet(Pending) /\ Cardinality(Pending) \in Nat
  /\ Cardinality(Pending) <= Cardinality(Editor)
<1>1. Pending \subseteq {editor[e].domain : e \in {e \in Editor : editor[e].at = "adding"}}
  BY DEF Pending, Awaited
<1> QED
  BY <1>1, DomainsOfEditors

LEMMA PendingAfter ==
  /\ IsFiniteSet(Pending') /\ Cardinality(Pending') \in Nat
  /\ Cardinality(Pending') <= Cardinality(Editor)
<1>1. Pending' \subseteq {editor'[e].domain : e \in {e \in Editor : editor'[e].at = "adding"}}
  BY DEF Pending, Awaited
<1> QED
  BY <1>1, DomainsOfEditors

LEMMA RoomKeeps ==
  ASSUME RoomInv, rows \in Seq(Row), rows' \in Seq(Row), Len(rows') <= Len(rows),
         Pending' \subseteq Pending, vacated => vacated'
  PROVE  RoomInv'
<1>1. PICK p \in Nat : p = Cardinality(Pending)
  BY PendingCount
<1>2. PICK n \in Nat : n = Cardinality(Pending')
  BY PendingCount, FS_Subset, FS_CardinalityType
<1>3. n <= p
  BY <1>1, <1>2, PendingCount, FS_Subset
<1>4. Len(rows) \in Nat /\ Len(rows') \in Nat /\ Cardinality(Editor) \in Nat /\ Limit \in Nat
  BY ComparisonConstants
<1> QED
  BY <1>1, <1>2, <1>3, <1>4 DEF RoomInv

LEMMA ComparisonInitInv == ComparisonInit => ComparisonInv
<1> SUFFICES ASSUME ComparisonInit PROVE ComparisonInv
  OBVIOUS
<1> USE ComparisonConstants
<1>1. rows = <<>> /\ rows \in Seq(Row) /\ DOMAIN rows = {} /\ Len(rows) = 0
  BY DEF ComparisonInit
<1>2. \A e \in Editor : editor[e].at = "idle" /\ EditorHolds(editor[e])
  BY IdleHolds DEF ComparisonInit
<1>3. RowsInv
  BY <1>1 DEF ComparisonInit, RowsInv
<1>4. EditorsInv
  <2>1. FALSE \in BOOLEAN
    OBVIOUS
  <2>2. editor = [e \in Editor |-> editor[e]]
    BY DEF ComparisonInit
  <2>3. fresh \in BOOLEAN /\ refreshJob \in BOOLEAN /\ vacated \in BOOLEAN
    BY <2>1 DEF ComparisonInit
  <2>4. comparisonCalls \in 0..MaxComparisonCalls /\ tainted \subseteq 1..MaxRows
    BY DEF ComparisonInit
  <2> QED
    BY <1>2, <2>2, <2>3, <2>4 DEF EditorsInv
<1>5. Pending = {}
  BY <1>2 DEF Pending, Awaited
<1>6. RoomInv
  BY <1>1, <1>5, FS_EmptySet DEF RoomInv
<1>7. MetricsOfDomain /\ SuggestInv
  BY <1>1, <1>2 DEF ComparisonInit, MetricsOfDomain, SuggestInv, Suggesting
<1> QED
  BY <1>3, <1>4, <1>6, <1>7 DEF ComparisonInv

-----------------------------------------------------------------------------
LEMMA EditorMoves ==
  ASSUME EditorsInv, NEW e \in Editor, NEW to, editor' = [editor EXCEPT ![e] = to]
  PROVE  /\ editor'[e] = to /\ \A o \in Editor : o # e => editor'[o] = editor[o]
         /\ editor' = [o \in Editor |-> editor'[o]]
<1>1. editor = [o \in Editor |-> editor[o]]
  BY DEF EditorsInv
<1> HIDE DEF EditorsInv
<1>2. editor' = [o \in Editor |-> IF o = e THEN to ELSE editor[o]]
  BY <1>1
<1> QED
  BY <1>2

LEMMA AwaitedAfter ==
  ASSUME EditorsInv, NEW e \in Editor, NEW to, editor' = [editor EXCEPT ![e] = to]
  PROVE  /\ to.at # "adding" => Awaited' \subseteq Awaited
         /\ to.at = "adding" => Awaited' \subseteq Awaited \union {to.domain}
BY EditorMoves DEF Awaited

LEMMA SuggestionsRest ==
  ASSUME EditorsInv, SuggestInv, NEW e \in Editor, NEW to, editor' = [editor EXCEPT ![e] = to],
         to.at \notin {"asking", "disabled"}, UNCHANGED keywordVars
  PROVE  SuggestInv'
BY EditorMoves DEF SuggestInv, Suggesting, keywordVars

LEMMA EditorsAfter ==
  ASSUME EditorsInv, NEW e \in Editor, NEW to, EditorHolds(to),
         editor' = [editor EXCEPT ![e] = to],
         comparisonCalls' \in 0..MaxComparisonCalls, fresh' \in BOOLEAN, refreshJob' \in BOOLEAN,
         vacated' \in BOOLEAN, tainted' \subseteq 1..MaxRows
  PROVE  EditorsInv'
<1>1. /\ editor'[e] = to /\ \A o \in Editor : o # e => editor'[o] = editor[o]
      /\ editor' = [o \in Editor |-> editor'[o]]
  BY EditorMoves
<1>2. \A o \in Editor : EditorHolds(editor'[o])
  BY <1>1 DEF EditorsInv
<1>3. \A o \in Editor : EditorHolds(editor[o])'
  BY <1>2 DEF EditorHolds
<1> QED
  BY <1>1, <1>3 DEF EditorsInv

(* A step of an editor that leaves the rows as they are.                   *)
LEMMA RowsRest ==
  ASSUME ComparisonInv, NEW e \in Editor, NEW to, EditorHolds(to),
         editor' = [editor EXCEPT ![e] = to],
         UNCHANGED <<rows, created, vacated, tainted>>,
         comparisonCalls' \in 0..MaxComparisonCalls, fresh' \in BOOLEAN, refreshJob' \in BOOLEAN,
         to.at = "adding" => Room(to.domain),
         SuggestInv'
  PROVE  ComparisonInv'
<1>1. EditorsInv'
  BY EditorsAfter DEF ComparisonInv, EditorsInv
<1>2. RowsInv' /\ MetricsOfDomain'
  BY DEF ComparisonInv, RowsInv, MetricsOfDomain
<1>3. Domains' = Domains
  BY DEF Domains
<1>4. RoomInv'
  <2>1. CASE Pending' \subseteq Pending
    <3>1. rows \in Seq(Row) /\ rows' \in Seq(Row) /\ Len(rows') <= Len(rows)
      BY DEF ComparisonInv, RowsInv
    <3> QED
      BY <2>1, <3>1, RoomKeeps DEF ComparisonInv
  <2>2. CASE to.at = "adding" /\ to.domain \notin Domains
    <3>1. Len(rows) < Limit /\ Len(rows) \in Nat
      BY <2>2 DEF Room, ComparisonInv, RowsInv
    <3>2. EditorsInv'
      BY <1>1
    <3>3. PICK n \in Nat : n = Cardinality(Pending') /\ n <= Cardinality(Editor)
      BY PendingAfter
    <3> QED
      BY <3>1, <3>3, ComparisonConstants DEF RoomInv
  <2>3. ~ (to.at = "adding" /\ to.domain \notin Domains) => Pending' \subseteq Pending
    BY <1>3, AwaitedAfter DEF Pending, ComparisonInv
  <2> QED
    BY <2>1, <2>2, <2>3
<1> QED
  BY <1>1, <1>2, <1>4 DEF ComparisonInv

-----------------------------------------------------------------------------
(* Additions.                                                              *)

LEMMA Began ==
  ASSUME ComparisonInv, NEW e \in Editor, NEW to, Begins(e, to)
  PROVE  /\ editor[e].at = "idle" /\ editor' = [editor EXCEPT ![e] = to]
         /\ comparisonCalls' \in 0..MaxComparisonCalls
BY ComparisonConstants DEF Begins, ComparisonInv, EditorsInv

LEMMA MovedOn ==
  ASSUME ComparisonInv, NEW e \in Editor, NEW to, MovesTo(e, to)
  PROVE  /\ editor' = [editor EXCEPT ![e] = to]
         /\ comparisonCalls' \in 0..MaxComparisonCalls
BY DEF MovesTo, ComparisonInv, EditorsInv

LEMMA AddReadsInv ==
  ASSUME ComparisonInv, NEW e \in Editor, NEW d \in Domain, AddReads(e, d) PROVE ComparisonInv'
<1>1. PICK to : to = [at |-> "adding", domain |-> d]
  OBVIOUS
<1>2. EditorHolds(to) /\ to.at = "adding" /\ to.domain = d
  BY <1>1 DEF EditorHolds, Phases
<1>3. /\ Begins(e, to) /\ Room(d) /\ UNCHANGED <<rows, created, vacated, tainted>>
      /\ UNCHANGED <<fresh, refreshJob>> /\ UNCHANGED keywordVars
  BY <1>1 DEF AddReads
<1>4. /\ editor' = [editor EXCEPT ![e] = to] /\ comparisonCalls' \in 0..MaxComparisonCalls
      /\ fresh' \in BOOLEAN /\ refreshJob' \in BOOLEAN
  BY <1>3, Began DEF ComparisonInv, EditorsInv
<1>5. SuggestInv'
  BY <1>2, <1>3, <1>4, SuggestionsRest DEF ComparisonInv
<1> QED
  BY <1>2, <1>3, <1>4, <1>5, RowsRest

LEMMA AddWritesInv ==
  ASSUME ComparisonInv, NEW e \in Editor, AddWrites(e) PROVE ComparisonInv'
<1> USE ComparisonConstants
<1>1. PICK to : to = [at |-> "scheduling"]
  OBVIOUS
<1>2. EditorHolds(to) /\ to.at = "scheduling"
  BY <1>1 DEF EditorHolds, Phases
<1>3. /\ MovesTo(e, to) /\ UNCHANGED <<fresh, refreshJob, vacated, tainted>>
      /\ UNCHANGED keywordVars /\ editor[e].at = "adding"
  BY <1>1 DEF AddWrites
<1>4. /\ editor' = [editor EXCEPT ![e] = to] /\ comparisonCalls' \in 0..MaxComparisonCalls
      /\ fresh' \in BOOLEAN /\ refreshJob' \in BOOLEAN /\ vacated' \in BOOLEAN
      /\ tainted' \subseteq 1..MaxRows
  BY <1>3, MovedOn DEF ComparisonInv, EditorsInv
<1>5. SuggestInv'
  BY <1>2, <1>3, <1>4, SuggestionsRest DEF ComparisonInv
<1>6. PICK d \in Domain : d = editor[e].domain
  BY <1>3 DEF ComparisonInv, EditorsInv, EditorHolds
<1>7. CASE d \in Domains
  <2>1. UNCHANGED <<rows, created, vacated, tainted>>
    BY <1>3, <1>6, <1>7 DEF AddWrites
  <2> QED
    BY <1>2, <1>4, <1>5, <2>1, RowsRest
<1>8. CASE d \notin Domains
  <2>1. PICK row \in Row : row = [id |-> created + 1, domain |-> d, measured |-> NoDomain]
    <3>1. created < MaxRows /\ created \in 0..MaxRows
      BY <1>6, <1>8 DEF AddWrites, ComparisonInv, RowsInv
    <3>2. created + 1 \in 1..MaxRows
      BY <3>1
    <3> QED
      BY <3>2 DEF Row
  <2>2. /\ row.id = created + 1 /\ row.domain = d /\ row.measured = NoDomain
    BY <2>1
  <2>3. rows' = Append(rows, row) /\ created' = created + 1 /\ created' \in 0..MaxRows
    BY <1>6, <1>8, <2>1 DEF AddWrites, ComparisonInv, RowsInv
  <2>4. /\ rows \in Seq(Row) /\ rows' \in Seq(Row) /\ Len(rows') = Len(rows) + 1
        /\ Len(rows) \in Nat
        /\ DOMAIN rows = 1..Len(rows) /\ DOMAIN rows' = 1..(Len(rows) + 1)
        /\ \A i \in DOMAIN rows : rows'[i] = rows[i]
        /\ rows'[Len(rows) + 1] = row
    BY <2>3 DEF ComparisonInv, RowsInv
  <2>5. Domains' = Domains \union {d}
    BY <2>2, <2>4 DEF Domains
  <2>6. RowsInv'
    <3>1. \A i \in DOMAIN rows : rows[i].id \in Nat /\ rows[i].id <= created
      <4>1. \A i \in DOMAIN rows : rows[i] \in Row
        BY <2>4
      <4>2. \A r \in Row : r.id \in Nat
        BY DEF Row
      <4> QED
        BY <4>1, <4>2 DEF ComparisonInv, RowsInv
    <3>2. created \in Nat
      BY DEF ComparisonInv, RowsInv
    <3>3. \A i \in DOMAIN rows' : i \in DOMAIN rows \/ i = Len(rows) + 1
      BY <2>4
    <3>4. \A i \in DOMAIN rows' : rows'[i].id <= created'
      BY <2>2, <2>3, <2>4, <3>1, <3>2, <3>3
    <3>5. \A i, j \in DOMAIN rows' : i # j => rows'[i].domain # rows'[j].domain
      BY <1>8, <2>2, <2>4, <3>3 DEF ComparisonInv, RowsInv, Domains
    <3>6. \A i, j \in DOMAIN rows' : i < j => rows'[i].id < rows'[j].id
      <4> SUFFICES ASSUME NEW i \in DOMAIN rows', NEW j \in DOMAIN rows', i < j
                   PROVE  rows'[i].id < rows'[j].id
        OBVIOUS
      <4>1. i \in DOMAIN rows
        BY <2>4
      <4>2. CASE j \in DOMAIN rows
        BY <2>4, <4>1, <4>2 DEF ComparisonInv, RowsInv
      <4>3. CASE j = Len(rows) + 1
        BY <2>2, <2>4, <3>1, <3>2, <4>1, <4>3
      <4> QED
        BY <3>3, <4>2, <4>3
    <3> QED
      BY <2>3, <2>4, <3>4, <3>5, <3>6 DEF RowsInv
  <2>7. RoomInv'
    <3>1. d \in Pending /\ Pending' \subseteq Pending \ {d}
      BY <1>2, <1>3, <1>4, <1>6, <1>8, <2>5, AwaitedAfter DEF Pending, Awaited, ComparisonInv
    <3>2. PICK p \in Nat : p = Cardinality(Pending)
      BY PendingCount
    <3>3. PICK n \in Nat : n = Cardinality(Pending')
      BY PendingAfter
    <3>4. IsFiniteSet(Pending \ {d}) /\ Cardinality(Pending \ {d}) = p - 1
      BY <3>1, <3>2, PendingCount, FS_RemoveElement
    <3>5. n <= p - 1
      BY <3>1, <3>3, <3>4, FS_Subset
    <3> HIDE DEF Pending
    <3> QED
      BY <1>3, <2>4, <3>2, <3>3, <3>5 DEF RoomInv, ComparisonInv
  <2>8. MetricsOfDomain'
    <3>1. \A i \in DOMAIN rows' : i \in DOMAIN rows \/ i = Len(rows) + 1
      BY <2>4
    <3> QED
      BY <1>3, <2>2, <2>4, <3>1 DEF MetricsOfDomain, ComparisonInv
  <2>9. EditorsInv'
    BY <1>2, <1>4, EditorsAfter DEF ComparisonInv
  <2> QED
    BY <1>5, <2>6, <2>7, <2>8, <2>9 DEF ComparisonInv
<1> QED
  BY <1>7, <1>8

LEMMA SchedulesInv == ASSUME ComparisonInv, NEW e \in Editor, Schedules(e) PROVE ComparisonInv'
<1>1. PICK to : to = Idle
  OBVIOUS
<1>2. EditorHolds(to) /\ to.at = "idle"
  BY <1>1, IdleHolds
<1>3. /\ MovesTo(e, to) /\ UNCHANGED <<rows, created, vacated, tainted>>
      /\ UNCHANGED fresh /\ refreshJob' = TRUE /\ UNCHANGED keywordVars
  BY <1>1 DEF Schedules
<1>4. /\ editor' = [editor EXCEPT ![e] = to] /\ comparisonCalls' \in 0..MaxComparisonCalls
      /\ fresh' \in BOOLEAN /\ refreshJob' \in BOOLEAN
  BY <1>3, MovedOn DEF ComparisonInv, EditorsInv
<1>5. SuggestInv'
  BY <1>2, <1>3, <1>4, SuggestionsRest DEF ComparisonInv
<1> QED
  BY <1>2, <1>3, <1>4, <1>5, RowsRest

-----------------------------------------------------------------------------
(* Renaming and removing.                                                  *)

LEMMA RowIs ==
  ASSUME ComparisonInv, NEW i \in DOMAIN rows
  PROVE  /\ rows[i] \in Row /\ rows[i].id \in 1..MaxRows /\ rows[i].domain \in Domain
         /\ rows[i].measured \in Domain \union {NoDomain}
<1>1. rows[i] \in Row
  BY DEF ComparisonInv, RowsInv
<1> QED
  BY <1>1 DEF Row

LEMMA RenameReadsInv ==
  ASSUME ComparisonInv, NEW e \in Editor, NEW d \in Domain, NEW i \in DOMAIN rows,
         RenameReads(e, i, d)
  PROVE  ComparisonInv'
<1>1. PICK to : to = [at |-> "renaming", id |-> rows[i].id, was |-> rows[i].domain, domain |-> d]
  OBVIOUS
<1>2. EditorHolds(to) /\ to.at = "renaming"
  BY <1>1, RowIs DEF EditorHolds, Phases
<1>3. /\ Begins(e, to) /\ UNCHANGED <<rows, created, vacated, tainted>>
      /\ UNCHANGED <<fresh, refreshJob>> /\ UNCHANGED keywordVars
  BY <1>1 DEF RenameReads
<1>4. /\ editor' = [editor EXCEPT ![e] = to] /\ comparisonCalls' \in 0..MaxComparisonCalls
      /\ fresh' \in BOOLEAN /\ refreshJob' \in BOOLEAN
  BY <1>3, Began DEF ComparisonInv, EditorsInv
<1>5. SuggestInv'
  BY <1>2, <1>3, <1>4, SuggestionsRest DEF ComparisonInv
<1> QED
  BY <1>2, <1>3, <1>4, <1>5, RowsRest

LEMMA RenameWritesInv ==
  ASSUME ComparisonInv, NEW e \in Editor, RenameWrites(e) PROVE ComparisonInv'
<1> DEFINE q == editor[e]
           absent == RowOf(q.id) = {}
           taken == \E j \in DOMAIN rows : rows[j].domain = q.domain /\ rows[j].id # q.id
<1> USE ComparisonConstants
<1>1. q.at = "renaming" /\ q.domain \in Domain /\ q.id \in 1..MaxRows
  BY DEF RenameWrites, ComparisonInv, EditorsInv, EditorHolds
<1>2. PICK to : MovesTo(e, to) /\ EditorHolds(to) /\ to.at \in {"idle", "rescheduling"}
  <2>1. PICK x : x = [at |-> "rescheduling"]
    OBVIOUS
  <2>2. EditorHolds(x) /\ x.at = "rescheduling"
    BY <2>1 DEF EditorHolds, Phases
  <2> QED
    BY <2>1, <2>2, IdleHolds DEF RenameWrites
<1>3. /\ editor' = [editor EXCEPT ![e] = to] /\ comparisonCalls' \in 0..MaxComparisonCalls
      /\ UNCHANGED <<created, fresh, refreshJob>> /\ UNCHANGED keywordVars
      /\ fresh' \in BOOLEAN /\ refreshJob' \in BOOLEAN
  BY <1>2, MovedOn DEF RenameWrites, ComparisonInv, EditorsInv
<1>4. SuggestInv'
  BY <1>2, <1>3, SuggestionsRest DEF ComparisonInv
<1>5. CASE absent \/ taken
  <2>1. UNCHANGED <<rows, vacated, tainted>>
    BY <1>5 DEF RenameWrites
  <2> QED
    BY <1>2, <1>3, <1>4, <2>1, RowsRest
<1>6. CASE ~ (absent \/ taken)
  <2>1. PICK i \in DOMAIN rows : i = (CHOOSE k \in RowOf(q.id) : TRUE) /\ rows[i].id = q.id
    BY <1>6 DEF RowOf
  <2>2. /\ rows' = [rows EXCEPT ![i] = Renamed(@, q.domain, q.was)]
        /\ tainted' = IF q.was # rows[i].domain THEN tainted \union {q.id} ELSE tainted
        /\ vacated' = (vacated \/ \E o \in Editor :
               /\ editor[o].at = "adding" /\ rows[i].domain # q.domain
               /\ editor[o].domain = rows[i].domain)
    BY <1>6, <2>1 DEF RenameWrites
  <2>3. PICK row \in Row :
          /\ row = Renamed(rows[i], q.domain, q.was) /\ row.id = q.id /\ row.domain = q.domain
          /\ row.measured = IF q.domain = q.was THEN rows[i].measured ELSE NoDomain
    <3>1. PICK r \in Row : r = rows[i] /\ r.id = q.id
      BY <2>1, RowIs
    <3>2. PICK d \in Domain : d = q.domain
      BY <1>1
    <3>3. PICK m \in Domain \union {NoDomain} : m = IF d = q.was THEN r.measured ELSE NoDomain
      BY <3>1 DEF Row
    <3>4. Renamed(r, d, q.was) = [r EXCEPT !.domain = d, !.measured = m]
      BY <3>3 DEF Renamed, Row
    <3>5. PICK x : x = [r EXCEPT !.domain = d, !.measured = m]
      OBVIOUS
    <3>6. x \in Row /\ x.id = r.id /\ x.domain = d /\ x.measured = m
      BY <3>5 DEF Row
    <3> QED
      BY <3>1, <3>2, <3>3, <3>4, <3>5, <3>6
  <2>4. rows' = [rows EXCEPT ![i] = row]
    BY <2>2, <2>3
  <2>5. /\ rows \in Seq(Row) /\ rows' \in Seq(Row) /\ Len(rows') = Len(rows)
        /\ DOMAIN rows' = DOMAIN rows
        /\ rows'[i] = row /\ \A j \in DOMAIN rows : j # i => rows'[j] = rows[j]
    BY <2>1, <2>4 DEF ComparisonInv, RowsInv
  <2>6. \A j \in DOMAIN rows : rows'[j].id = rows[j].id
    BY <2>1, <2>3, <2>5
  <2>7. \A j \in DOMAIN rows : j # i => rows[j].id # q.id
    <3> SUFFICES ASSUME NEW j \in DOMAIN rows, j # i, rows[j].id = rows[i].id PROVE FALSE
      BY <2>1
    <3>1. (i < j \/ j < i) /\ rows[i].id \in Nat /\ rows[j].id \in Nat
      BY <2>5, RowIs
    <3> QED
      BY <3>1 DEF ComparisonInv, RowsInv
  <2>8. RowsInv'
    <3>1. \A j, k \in DOMAIN rows : j # k => rows'[j].domain # rows'[k].domain
      BY <1>6, <2>3, <2>5, <2>7 DEF ComparisonInv, RowsInv
    <3> QED
      BY <1>3, <2>5, <2>6, <3>1 DEF ComparisonInv, RowsInv
  <2>9. RoomInv'
    <3>1. CASE vacated'
      BY <3>1 DEF RoomInv
    <3>2. CASE ~ vacated'
      <4>1. Domains \ {rows[i].domain} \subseteq Domains'
        BY <2>5 DEF Domains
      <4>2. rows[i].domain = q.domain => rows[i].domain \in Domains'
        BY <2>3, <2>5 DEF Domains
      <4>3. rows[i].domain \in Domains' \/ rows[i].domain \notin Awaited
        BY <2>2, <3>2, <4>2 DEF Awaited
      <4>4. Awaited' \subseteq Awaited
        BY <1>2, <1>3, AwaitedAfter DEF ComparisonInv
      <4>5. Pending' \subseteq Pending
        BY <4>1, <4>3, <4>4 DEF Pending
      <4>6. Len(rows) \in Nat /\ Len(rows') <= Len(rows)
        BY <2>5
      <4>7. vacated => vacated'
        BY <2>2
      <4> QED
        BY <2>5, <4>5, <4>6, <4>7, RoomKeeps DEF ComparisonInv
    <3> QED
      BY <3>1, <3>2
  <2>10. MetricsOfDomain'
    <3> SUFFICES ASSUME NEW j \in DOMAIN rows, rows'[j].id \notin tainted'
                 PROVE  rows'[j].measured \in {NoDomain, rows'[j].domain}
      BY <2>5 DEF MetricsOfDomain
    <3>1. rows[j].id \notin tainted /\ rows[j].measured \in {NoDomain, rows[j].domain}
      BY <2>2, <2>6 DEF ComparisonInv, MetricsOfDomain
    <3>2. CASE j # i
      BY <2>5, <3>1, <3>2
    <3>3. CASE j = i
      <4>1. q.was = rows[i].domain
        BY <2>1, <2>2, <2>6, <3>3
      <4> QED
        BY <2>3, <2>5, <3>1, <3>3, <4>1
    <3> QED
      BY <3>2, <3>3
  <2>11. EditorsInv'
    <3>1. vacated' \in BOOLEAN
      BY <2>2 DEF ComparisonInv, EditorsInv
    <3>2. tainted' \subseteq 1..MaxRows
      BY <1>1, <2>2 DEF ComparisonInv, EditorsInv
    <3> QED
      BY <1>2, <1>3, <3>1, <3>2, EditorsAfter DEF ComparisonInv
  <2> QED
    BY <1>4, <2>8, <2>9, <2>10, <2>11 DEF ComparisonInv
<1> QED
  BY <1>5, <1>6

(* One sequence after another.                                             *)
LEMMA Joined ==
  ASSUME NEW S, NEW s \in Seq(S), NEW t \in Seq(S)
  PROVE  /\ s \o t \in Seq(S) /\ Len(s \o t) = Len(s) + Len(t)
         /\ \A k \in 1..(Len(s) + Len(t)) :
              (s \o t)[k] = IF k <= Len(s) THEN s[k] ELSE t[k - Len(s)]
<1>1. s \o t \in Seq(S)
  OBVIOUS
<1>2. Len(s \o t) = Len(s) + Len(t)
  OBVIOUS
<1>3. \A k \in 1..(Len(s) + Len(t)) :
              (s \o t)[k] = IF k <= Len(s) THEN s[k] ELSE t[k - Len(s)]
  OBVIOUS
<1> QED
  BY <1>1, <1>2, <1>3

(* What is left after a row is removed, in the order it had.               *)
LEMMA RowsWithout ==
  ASSUME rows \in Seq(Row), NEW i \in DOMAIN rows, rows' = RemoveAt(rows, i)
  PROVE  /\ rows' \in Seq(Row) /\ Len(rows') = Len(rows) - 1
         /\ DOMAIN rows = 1..Len(rows) /\ DOMAIN rows' = 1..(Len(rows) - 1)
         /\ \A k \in 1..(Len(rows) - 1) : rows'[k] = IF k < i THEN rows[k] ELSE rows[k + 1]
<1>1. PICK n \in Nat : n = Len(rows)
  OBVIOUS
<1>2. i \in 1..n /\ DOMAIN rows = 1..n
  BY <1>1
<1>3. PICK s : s = SubSeq(rows, 1, i - 1)
  OBVIOUS
<1>4. PICK t : t = SubSeq(rows, i + 1, n)
  OBVIOUS
<1>5. /\ s \in Seq(Row) /\ Len(s) = i - 1 /\ \A k \in 1..(i - 1) : s[k] = rows[k]
  BY <1>1, <1>2, <1>3
<1>6. /\ t \in Seq(Row) /\ Len(t) = n - i /\ \A k \in 1..(n - i) : t[k] = rows[i + k]
  BY <1>1, <1>2, <1>4
<1>7. rows' = s \o t
  BY <1>1, <1>3, <1>4 DEF RemoveAt
<1>8. rows' \in Seq(Row) /\ Len(rows') = n - 1
  <2>1. rows' \in Seq(Row) /\ Len(rows') = Len(s) + Len(t)
    BY <1>5, <1>6, <1>7, Joined
  <2>2. (i - 1) + (n - i) = n - 1
    BY <1>2
  <2> QED
    BY <1>5, <1>6, <2>1, <2>2
<1>9. ASSUME NEW k \in 1..(n - 1) PROVE rows'[k] = IF k < i THEN rows[k] ELSE rows[k + 1]
  <2>1. CASE k < i
    <3>1. k \in 1..(i - 1)
      BY <1>2, <2>1
    <3>2. k \in 1..((i - 1) + (n - i)) /\ k <= i - 1
      BY <1>2, <2>1
    <3>3. rows'[k] = s[k]
      BY <1>5, <1>6, <1>7, <3>2, Joined
    <3> QED
      BY <1>5, <2>1, <3>1, <3>3
  <2>2. CASE ~ (k < i)
    <3>1. /\ k - (i - 1) \in 1..(n - i) /\ i + (k - (i - 1)) = k + 1
          /\ k \in 1..((i - 1) + (n - i)) /\ ~ (k <= i - 1)
      BY <1>2, <2>2
    <3>2. \A j \in 1..(Len(s) + Len(t)) :
             rows'[j] = IF j <= Len(s) THEN s[j] ELSE t[j - Len(s)]
      <4>1. s \in Seq(Row) /\ t \in Seq(Row)
        BY <1>5, <1>6
      <4>2. \A j \in 1..(Len(s) + Len(t)) :
              (s \o t)[j] = IF j <= Len(s) THEN s[j] ELSE t[j - Len(s)]
        BY ONLY <4>1, Joined
      <4> QED
        BY <1>7, <4>2
    <3>3. rows'[k] = t[k - (i - 1)]
      BY <1>5, <1>6, <3>1, <3>2
    <3> QED
      BY <1>6, <2>2, <3>1, <3>3
  <2> QED
    BY <2>1, <2>2
<1> QED
  BY <1>1, <1>2, <1>8, <1>9

LEMMA RemoveInv ==
  ASSUME ComparisonInv, NEW e \in Editor, NEW i \in DOMAIN rows, RemoveCompetitor(e, i)
  PROVE  ComparisonInv'
<1> USE ComparisonConstants
<1>1. /\ Begins(e, Idle) /\ rows' = RemoveAt(rows, i) /\ rows \in Seq(Row)
      /\ UNCHANGED <<created, fresh, refreshJob, vacated, tainted>> /\ UNCHANGED keywordVars
  BY DEF RemoveCompetitor, ComparisonInv, RowsInv
<1>2. /\ editor' = [editor EXCEPT ![e] = Idle] /\ comparisonCalls' \in 0..MaxComparisonCalls
      /\ fresh' \in BOOLEAN /\ refreshJob' \in BOOLEAN /\ vacated' \in BOOLEAN
      /\ tainted' \subseteq 1..MaxRows
  BY <1>1, Began DEF ComparisonInv, EditorsInv
<1>3. SuggestInv' /\ EditorsInv'
  BY <1>1, <1>2, IdleHolds, SuggestionsRest, EditorsAfter DEF ComparisonInv
<1>4. PICK n \in Nat : n = Len(rows)
  BY <1>1
<1>5. /\ rows' \in Seq(Row) /\ Len(rows') = n - 1
      /\ DOMAIN rows = 1..n /\ DOMAIN rows' = 1..(n - 1) /\ i \in 1..n
      /\ \A k \in 1..(n - 1) : rows'[k] = IF k < i THEN rows[k] ELSE rows[k + 1]
  BY <1>1, <1>4, RowsWithout
<1>6. PICK at \in [1..(n - 1) -> 1..n] : at = [k \in 1..(n - 1) |-> IF k < i THEN k ELSE k + 1]
  <2>1. [k \in 1..(n - 1) |-> IF k < i THEN k ELSE k + 1] \in [1..(n - 1) -> 1..n]
    BY <1>5
  <2> QED
    BY <2>1
<1>7. /\ \A k \in 1..(n - 1) : at[k] \in 1..n /\ rows'[k] = rows[at[k]]
      /\ \A j, k \in 1..(n - 1) : j < k => at[j] < at[k]
  BY <1>5, <1>6
<1>8. RowsInv'
  <2>1. \A j, k \in 1..(n - 1) : j # k => at[j] # at[k]
    <3>1. \A j, k \in 1..(n - 1) : j # k => j < k \/ k < j
      OBVIOUS
    <3> QED
      BY <1>7, <3>1
  <2>2. \A k \in DOMAIN rows' : rows'[k].id <= created'
    BY <1>1, <1>5, <1>7 DEF ComparisonInv, RowsInv
  <2>3. \A j, k \in DOMAIN rows' : j # k => rows'[j].domain # rows'[k].domain
    BY <1>5, <1>7, <2>1 DEF ComparisonInv, RowsInv
  <2>4. \A j, k \in DOMAIN rows' : j < k => rows'[j].id < rows'[k].id
    BY <1>5, <1>7 DEF ComparisonInv, RowsInv
  <2> QED
    BY <1>1, <1>5, <2>2, <2>3, <2>4 DEF ComparisonInv, RowsInv
<1>9. MetricsOfDomain'
  BY <1>1, <1>5, <1>7 DEF ComparisonInv, MetricsOfDomain
<1>10. RoomInv'
  <2>1. Domains \ {rows[i].domain} \subseteq Domains'
    <3> SUFFICES ASSUME NEW d \in Domains, d # rows[i].domain PROVE d \in Domains'
      OBVIOUS
    <3>a. PICK j \in 1..n : j # i /\ d = rows[j].domain
      BY <1>5 DEF Domains
    <3>1. CASE j < i
      <4>1. j \in 1..(n - 1)
        BY <1>5, <3>1
      <4> QED
        BY <1>5, <3>a, <3>1, <4>1 DEF Domains
    <3>2. CASE j > i
      <4>1. j - 1 \in 1..(n - 1) /\ ~ (j - 1 < i) /\ (j - 1) + 1 = j
        BY <1>5, <3>2
      <4>2. rows'[j - 1] = rows[j]
        BY <1>5, <4>1
      <4> QED
        BY <1>5, <3>a, <4>1, <4>2 DEF Domains
    <3> QED
      BY <1>5, <3>a, <3>1, <3>2
  <2>2. Awaited' \subseteq Awaited
    BY <1>2, IdleHolds, AwaitedAfter DEF ComparisonInv
  <2>3. PICK d : d = rows[i].domain
    OBVIOUS
  <2>4. Pending' \subseteq Pending \union {d}
    BY <2>1, <2>2, <2>3 DEF Pending
  <2>5. PICK p \in Nat : p = Cardinality(Pending)
    BY PendingCount
  <2>6. IsFiniteSet(Pending \union {d}) /\ Cardinality(Pending \union {d}) \in {p, p + 1}
    BY <2>5, PendingCount, FS_AddElement
  <2>7. PICK m \in Nat : m = Cardinality(Pending')
    BY PendingAfter
  <2>8. m <= p + 1
    BY <2>4, <2>5, <2>6, <2>7, FS_Subset
  <2> HIDE DEF Pending
  <2> QED
    BY <1>1, <1>4, <1>5, <2>5, <2>7, <2>8 DEF RoomInv, ComparisonInv
<1> QED
  BY <1>3, <1>8, <1>9, <1>10 DEF ComparisonInv

-----------------------------------------------------------------------------
(* Measuring.                                                              *)

LEMMA RefreshReadsInv ==
  ASSUME ComparisonInv, NEW e \in Editor, RefreshReads(e) PROVE ComparisonInv'
<1>1. PICK to : to = [at |-> "measuring", seen |-> ListedRows]
  OBVIOUS
<1>2. EditorHolds(to) /\ to.at = "measuring"
  <2>1. PICK m \in 0..Len(rows) : ListedRows = SubSeq(rows, 1, m)
    <3>1. (IF Len(rows) < Limit THEN Len(rows) ELSE Limit) \in 0..Len(rows)
      BY ComparisonConstants DEF ComparisonInv, RowsInv
    <3> QED
      BY <3>1 DEF ListedRows
  <2>2. DOMAIN ListedRows = 1..m /\ \A k \in 1..m : ListedRows[k] = rows[k] /\ k \in DOMAIN rows
    BY <2>1 DEF ComparisonInv, RowsInv
  <2>3. \A k \in DOMAIN ListedRows : ListedRows[k].domain \in Domain
    BY <2>2, RowIs
  <2> QED
    BY <1>1, <2>3 DEF EditorHolds, Phases
<1>3. /\ Begins(e, to) /\ UNCHANGED <<rows, created, vacated, tainted>>
      /\ UNCHANGED <<fresh, refreshJob>> /\ UNCHANGED keywordVars
  BY <1>1 DEF RefreshReads
<1>4. /\ editor' = [editor EXCEPT ![e] = to] /\ comparisonCalls' \in 0..MaxComparisonCalls
      /\ fresh' \in BOOLEAN /\ refreshJob' \in BOOLEAN
  BY <1>3, Began DEF ComparisonInv, EditorsInv
<1>5. SuggestInv'
  BY <1>2, <1>3, <1>4, SuggestionsRest DEF ComparisonInv
<1> QED
  BY <1>2, <1>3, <1>4, <1>5, RowsRest

(* A list of so many entries.                                              *)
LEMMA ListOf ==
  ASSUME NEW S, NEW n \in Nat, NEW f \in [1..n -> S]
  PROVE  f \in Seq(S) /\ Len(f) = n
<1>1. f \in Seq(S)
  OBVIOUS
<1> QED
  BY <1>1

LEMMA RefreshWritesInv ==
  ASSUME ComparisonInv, NEW e \in Editor, RefreshWrites(e) PROVE ComparisonInv'
<1> USE ComparisonConstants
<1> DEFINE of(i) == MeasuredOf(editor[e].seen, rows[i].id)
           new(i) == IF of(i) = {} THEN rows[i].measured ELSE CHOOSE d \in of(i) : TRUE
<1>1. PICK n \in Nat : n = Len(rows)
  BY DEF ComparisonInv, RowsInv
<1>2. DOMAIN rows = 1..n
  BY <1>1 DEF ComparisonInv, RowsInv
<1>3. /\ rows' = [i \in 1..n |-> IF of(i) = {} THEN rows[i]
                    ELSE [rows[i] EXCEPT !.measured = CHOOSE d \in of(i) : TRUE]]
      /\ tainted' = tainted \union {rows[i].id : i \in {i \in 1..n : ~ of(i) \subseteq {rows[i].domain}}}
      /\ MovesTo(e, Idle) /\ fresh' = TRUE
      /\ UNCHANGED <<created, refreshJob, vacated>> /\ UNCHANGED keywordVars
  BY <1>2 DEF RefreshWrites
<1>4. ASSUME NEW i \in 1..n PROVE of(i) \subseteq Domain
  BY DEF MeasuredOf, RefreshWrites, ComparisonInv, EditorsInv, EditorHolds
<1>5. \A i \in 1..n : of(i) # {} => new(i) \in of(i)
  OBVIOUS
<1>6. ASSUME NEW i \in 1..n
      PROVE  /\ rows'[i] \in Row /\ rows'[i].id = rows[i].id
             /\ rows'[i].domain = rows[i].domain /\ rows'[i].measured = new(i)
  <2>1. PICK r \in Row : r = rows[i]
    BY <1>2, RowIs
  <2>2. CASE of(i) = {}
    BY <1>3, <2>1, <2>2
  <2>3. CASE of(i) # {}
    <3>1. PICK m \in Domain : m = new(i)
      BY <1>4, <1>5, <2>3
    <3>2. PICK x : x = [r EXCEPT !.measured = m]
      OBVIOUS
    <3>3. x \in Row /\ x.id = r.id /\ x.domain = r.domain /\ x.measured = m
      BY <3>2 DEF Row
    <3>4. rows'[i] = x
      BY <1>3, <2>1, <2>3, <3>1, <3>2
    <3> QED
      BY <2>1, <3>1, <3>3, <3>4
  <2> QED
    BY <2>2, <2>3
<1> HIDE DEF new
<1>7. rows' \in Seq(Row) /\ Len(rows') = n /\ DOMAIN rows' = 1..n
  <2>1. rows' \in [1..n -> Row]
    <3>1. rows' = [i \in 1..n |-> rows'[i]]
      BY <1>3
    <3> QED
      BY <1>6, <3>1
  <2> QED
    BY <2>1, ListOf
<1>8. /\ editor' = [editor EXCEPT ![e] = Idle] /\ comparisonCalls' \in 0..MaxComparisonCalls
      /\ fresh' \in BOOLEAN /\ refreshJob' \in BOOLEAN /\ vacated' \in BOOLEAN
      /\ tainted' \subseteq 1..MaxRows
  <2>1. tainted' \subseteq 1..MaxRows
    BY <1>2, <1>3, RowIs DEF ComparisonInv, EditorsInv
  <2>2. TRUE \in BOOLEAN
    OBVIOUS
  <2> QED
    BY <1>3, <2>1, <2>2, MovedOn DEF ComparisonInv, EditorsInv
<1>9. SuggestInv' /\ EditorsInv'
  BY <1>3, <1>8, IdleHolds, SuggestionsRest, EditorsAfter DEF ComparisonInv
<1>10. RowsInv'
  BY <1>2, <1>3, <1>6, <1>7 DEF ComparisonInv, RowsInv
<1>11. RoomInv'
  <2>1. Domains' = Domains
    BY <1>2, <1>6, <1>7 DEF Domains
  <2>2. Awaited' \subseteq Awaited
    BY <1>8, IdleHolds, AwaitedAfter DEF ComparisonInv
  <2>3. Pending' \subseteq Pending
    BY <2>1, <2>2 DEF Pending
  <2>4. rows \in Seq(Row) /\ Len(rows') <= Len(rows) /\ (vacated => vacated')
    BY <1>1, <1>3, <1>7 DEF ComparisonInv, RowsInv
  <2> QED
    BY <1>7, <2>3, <2>4, RoomKeeps DEF ComparisonInv
<1>12. MetricsOfDomain'
  <2> SUFFICES ASSUME NEW i \in 1..n, rows'[i].id \notin tainted'
               PROVE  rows'[i].measured \in {NoDomain, rows'[i].domain}
    BY <1>7 DEF MetricsOfDomain
  <2>0. rows[i].id \notin tainted'
    BY <1>6
  <2>1. rows[i].id \notin tainted /\ of(i) \subseteq {rows[i].domain}
    <3>1. tainted \subseteq tainted'
      BY <1>3
    <3>2. ~ of(i) \subseteq {rows[i].domain} => rows[i].id \in tainted'
      BY <1>3
    <3> QED
      BY <2>0, <3>1, <3>2
  <2>2. CASE of(i) = {}
    BY <1>2, <1>6, <2>1, <2>2 DEF ComparisonInv, MetricsOfDomain, new
  <2>3. CASE of(i) # {}
    BY <1>5, <1>6, <2>1, <2>3
  <2> QED
    BY <2>2, <2>3
<1> QED
  BY <1>9, <1>10, <1>11, <1>12 DEF ComparisonInv

-----------------------------------------------------------------------------
(* Suggestions.                                                            *)

LEMMA AskKeywordsInv ==
  ASSUME ComparisonInv, NEW e \in Editor, AskKeywords(e) PROVE ComparisonInv'
<1>1. PICK to : to = [at |-> "asking"]
  OBVIOUS
<1>2. EditorHolds(to) /\ to.at = "asking"
  BY <1>1 DEF EditorHolds, Phases
<1>3. /\ Begins(e, to) /\ UNCHANGED <<rows, created, vacated, tainted>>
      /\ UNCHANGED <<fresh, refreshJob, suggestedBy>>
      /\ crossed' = (crossed \/ \E o \in Editor : Suggesting(o))
  BY <1>1 DEF AskKeywords, Suggesting
<1>4. /\ editor' = [editor EXCEPT ![e] = to] /\ comparisonCalls' \in 0..MaxComparisonCalls
      /\ fresh' \in BOOLEAN /\ refreshJob' \in BOOLEAN
  BY <1>3, Began DEF ComparisonInv, EditorsInv
<1>5. editor'[e] = to /\ \A o \in Editor : o # e => editor'[o] = editor[o]
  BY <1>4, EditorMoves DEF ComparisonInv
<1>6. SuggestInv'
  <2>1. crossed' \in BOOLEAN /\ suggestedBy' \subseteq Editor
    BY <1>3 DEF ComparisonInv, SuggestInv
  <2>2. ASSUME ~ crossed', NEW o \in Editor, o # e
        PROVE  editor'[o].at \notin {"asking", "disabled"}
    BY <1>3, <1>5, <2>2 DEF Suggesting
  <2>3. ~ crossed' => \A a, b \in suggestedBy' : a = b
    BY <1>3 DEF ComparisonInv, SuggestInv
  <2> QED
    BY <1>2, <1>5, <2>1, <2>2, <2>3 DEF SuggestInv, Suggesting
<1> QED
  BY <1>2, <1>3, <1>4, <1>6, RowsRest

LEMMA DisableSuggestionsInv ==
  ASSUME ComparisonInv, NEW e \in Editor, DisableSuggestions(e) PROVE ComparisonInv'
<1>1. PICK to : to = [at |-> "disabled", runs |-> suggestedBy]
  OBVIOUS
<1>2. EditorHolds(to) /\ to.at = "disabled" /\ to.runs = suggestedBy
  BY <1>1 DEF EditorHolds, Phases
<1>3. /\ MovesTo(e, to) /\ UNCHANGED <<rows, created, vacated, tainted>>
      /\ UNCHANGED <<fresh, refreshJob>> /\ UNCHANGED <<suggestedBy, crossed>>
      /\ editor[e].at = "asking"
  BY <1>1 DEF DisableSuggestions, keywordVars
<1>4. /\ editor' = [editor EXCEPT ![e] = to] /\ comparisonCalls' \in 0..MaxComparisonCalls
      /\ fresh' \in BOOLEAN /\ refreshJob' \in BOOLEAN
  BY <1>3, MovedOn DEF ComparisonInv, EditorsInv
<1>5. editor'[e] = to /\ \A o \in Editor : o # e => editor'[o] = editor[o]
  BY <1>4, EditorMoves DEF ComparisonInv
<1>6. SuggestInv'
  BY <1>2, <1>3, <1>5 DEF ComparisonInv, SuggestInv, Suggesting
<1> QED
  BY <1>2, <1>3, <1>4, <1>6, RowsRest

LEMMA CommitSuggestionsInv ==
  ASSUME ComparisonInv, NEW e \in Editor, NEW some \in BOOLEAN, CommitSuggestions(e, some)
  PROVE  ComparisonInv'
<1>1. PICK to : to = Idle /\ EditorHolds(to) /\ to.at = "idle"
  BY IdleHolds
<1>2. PICK new \in SUBSET {e} : new = IF some THEN {e} ELSE {}
  OBVIOUS
<1>3. /\ MovesTo(e, to) /\ UNCHANGED <<rows, created, vacated, tainted>>
      /\ UNCHANGED <<fresh, refreshJob>> /\ crossed' = crossed
      /\ editor[e].at = "disabled"
      /\ suggestedBy' = (suggestedBy \ editor[e].runs) \union new
  BY <1>1, <1>2 DEF CommitSuggestions, SuggestionsAfter
<1>4. /\ editor' = [editor EXCEPT ![e] = to] /\ comparisonCalls' \in 0..MaxComparisonCalls
      /\ fresh' \in BOOLEAN /\ refreshJob' \in BOOLEAN
  BY <1>3, MovedOn DEF ComparisonInv, EditorsInv
<1>5. editor'[e] = to /\ \A o \in Editor : o # e => editor'[o] = editor[o]
  BY <1>4, EditorMoves DEF ComparisonInv
<1>6. SuggestInv'
  <2>1. suggestedBy' \subseteq Editor /\ crossed' \in BOOLEAN
    BY <1>3 DEF ComparisonInv, SuggestInv
  <2>2. ASSUME ~ crossed, NEW o \in Editor PROVE editor'[o].at \notin {"asking", "disabled"}
    <3>1. o # e => ~ Suggesting(o)
      BY <1>3, <2>2 DEF ComparisonInv, SuggestInv, Suggesting
    <3> QED
      BY <1>1, <1>5, <3>1 DEF Suggesting
  <2>3. ~ crossed => suggestedBy' \subseteq {e}
    BY <1>3 DEF ComparisonInv, SuggestInv
  <2> QED
    BY <1>3, <2>1, <2>2, <2>3 DEF SuggestInv, Suggesting
<1> QED
  BY <1>1, <1>3, <1>4, <1>6, RowsRest

LEMMA EditorLostInv ==
  ASSUME ComparisonInv, NEW e \in Editor, EditorLost(e) PROVE ComparisonInv'
<1>1. PICK to : to = Idle /\ EditorHolds(to) /\ to.at = "idle"
  BY IdleHolds
<1>2. /\ MovesTo(e, to) /\ UNCHANGED <<rows, created, vacated, tainted>>
      /\ UNCHANGED <<fresh, refreshJob>> /\ UNCHANGED keywordVars
  BY <1>1 DEF EditorLost
<1>3. /\ editor' = [editor EXCEPT ![e] = to] /\ comparisonCalls' \in 0..MaxComparisonCalls
      /\ fresh' \in BOOLEAN /\ refreshJob' \in BOOLEAN
  BY <1>2, MovedOn DEF ComparisonInv, EditorsInv
<1>4. SuggestInv'
  BY <1>1, <1>2, <1>3, SuggestionsRest DEF ComparisonInv
<1> QED
  BY <1>1, <1>2, <1>3, <1>4, RowsRest

(* Steps that touch neither the rows nor an editor.                        *)
LEMMA ComparisonRest ==
  ASSUME ComparisonInv, fresh' \in BOOLEAN, refreshJob' \in BOOLEAN,
         UNCHANGED <<rows, created, editor, vacated, tainted, suggestedBy, crossed,
                     comparisonCalls>>
  PROVE  ComparisonInv'
<1>1. RowsInv' /\ MetricsOfDomain' /\ SuggestInv'
  BY DEF ComparisonInv, RowsInv, MetricsOfDomain, SuggestInv, Suggesting
<1>2. EditorsInv'
  BY DEF ComparisonInv, EditorsInv, EditorHolds
<1>3. RoomInv'
  <2>1. Pending' = Pending
    BY DEF Pending, Awaited, Domains
  <2> QED
    BY <2>1 DEF ComparisonInv, RoomInv
<1> QED
  BY <1>1, <1>2, <1>3 DEF ComparisonInv

LEMMA ComparisonStep == ComparisonInv /\ [ComparisonNext]_comparisonVars => ComparisonInv'
<1> SUFFICES ASSUME ComparisonInv, [ComparisonNext]_comparisonVars PROVE ComparisonInv'
  OBVIOUS
<1>0. FALSE \in BOOLEAN /\ TRUE \in BOOLEAN /\ fresh \in BOOLEAN /\ refreshJob \in BOOLEAN
  BY DEF ComparisonInv, EditorsInv
<1>1. CASE \E e \in Editor, d \in Domain : AddReads(e, d)
  BY <1>1, AddReadsInv
<1>2. CASE \E e \in Editor, d \in Domain : \E i \in DOMAIN rows : RenameReads(e, i, d)
  BY <1>2, RenameReadsInv
<1>3. CASE \E e \in Editor : \E i \in DOMAIN rows : RemoveCompetitor(e, i)
  BY <1>3, RemoveInv
<1>4. CASE \E e \in Editor : AddWrites(e) \/ Schedules(e) \/ RenameWrites(e)
  BY <1>4, AddWritesInv, SchedulesInv, RenameWritesInv
<1>5. CASE \E e \in Editor : RefreshReads(e) \/ RefreshWrites(e)
  BY <1>5, RefreshReadsInv, RefreshWritesInv
<1>6. CASE \E e \in Editor : AskKeywords(e) \/ DisableSuggestions(e)
  BY <1>6, AskKeywordsInv, DisableSuggestionsInv
<1>7. CASE \E e \in Editor, some \in BOOLEAN : CommitSuggestions(e, some)
  BY <1>7, CommitSuggestionsInv
<1>8. CASE \E e \in Editor : EditorLost(e)
  BY <1>8, EditorLostInv
<1>9. CASE DayPasses
  BY <1>0, <1>9, ComparisonRest DEF DayPasses, keywordVars
<1>10. CASE EnsureCompetitorSchedule
  BY <1>0, <1>10, ComparisonRest DEF EnsureCompetitorSchedule, keywordVars
<1>11. CASE UNCHANGED comparisonVars
  BY <1>0, <1>11, ComparisonRest DEF comparisonVars
<1> QED
  BY <1>1, <1>2, <1>3, <1>4, <1>5, <1>6, <1>7, <1>8, <1>9, <1>10, <1>11 DEF ComparisonNext

LEMMA ComparisonInvImplies ==
  ComparisonInv => ComparisonTypeOK /\ CompetitorsWithinLimit /\ MetricsOfDomain
                   /\ OpportunitiesAreLatest
<1> SUFFICES ASSUME ComparisonInv PROVE ComparisonTypeOK /\ CompetitorsWithinLimit
                   /\ MetricsOfDomain /\ OpportunitiesAreLatest
  OBVIOUS
<1>1. ComparisonTypeOK
  <2>1. ToSet(rows) \subseteq Row
    BY DEF ToSet, ComparisonInv, RowsInv
  <2>2. \A e \in Editor : editor[e].at \in Phases
    BY DEF ComparisonInv, EditorsInv, EditorHolds
  <2>3. crossed \in BOOLEAN /\ suggestedBy \subseteq Editor
    BY DEF ComparisonInv, SuggestInv
  <2> QED
    BY <2>1, <2>2, <2>3 DEF ComparisonTypeOK, ComparisonInv, RowsInv, EditorsInv
<1>2. CompetitorsWithinLimit
  BY DEF CompetitorsWithinLimit, ComparisonInv, RoomInv, Pending, Awaited
<1>3. OpportunitiesAreLatest
  <2> SUFFICES ASSUME ~ crossed PROVE Cardinality(suggestedBy) <= 1
    BY DEF OpportunitiesAreLatest
  <2>1. \A a, b \in suggestedBy : a = b
    BY DEF ComparisonInv, SuggestInv
  <2>2. CASE suggestedBy = {}
    BY <2>2, FS_EmptySet
  <2>3. CASE suggestedBy # {}
    <3>1. PICK a : suggestedBy = {a}
      BY <2>1, <2>3
    <3>2. Cardinality({a}) = 1
      BY FS_Singleton
    <3> QED
      BY <3>1, <3>2
  <2> QED
    BY <2>2, <2>3
<1> QED
  BY <1>1, <1>2, <1>3 DEF ComparisonInv

(* However requests and the daily job overlap, a website has at most so    *)
(* many competitors more than the limit, what is shown was measured of the *)
(* domain it is shown for, and the suggestions are those of one run, for   *)
(* any domains, editors and limit.                                         *)
THEOREM ComparisonCorrect ==
  ComparisonSpec => [](ComparisonTypeOK /\ CompetitorsWithinLimit /\ MetricsOfDomain
                       /\ OpportunitiesAreLatest)
<1>1. ComparisonInit => ComparisonInv
  BY ComparisonInitInv
<1>2. ComparisonInv /\ [ComparisonNext]_comparisonVars => ComparisonInv'
  BY ComparisonStep
<1>3. ComparisonInv => ComparisonTypeOK /\ CompetitorsWithinLimit /\ MetricsOfDomain
                       /\ OpportunitiesAreLatest
  BY ComparisonInvImplies
<1> QED
  BY <1>1, <1>2, <1>3, PTL DEF ComparisonSpec

===============================================================================
