--------------------------- MODULE BackgroundProofs ---------------------------
(***************************************************************************)
(* Proofs about what the workers do on their own: Advice,                  *)
(* GoogleConnections and SeoWebsites, each for any number of runs,         *)
(* callbacks, syncs, requests, submissions, polls and faults, and then     *)
(* MCBackground, where each step is a step of one of them.                 *)
(*                                                                         *)
(* Each component has an inductive invariant (AdviceInv, GoogleInv,        *)
(* WebsiteInv): its type invariant, the properties of the run, and what    *)
(* they rest on, which is said where it is defined.                        *)
(***************************************************************************)
EXTENDS MCBackground, FiniteSetTheorems, SequenceTheorems, WellFoundedInduction, TLAPS

(* Every non-empty set of naturals has a least element.                    *)
LEMMA LeastExists ==
  ASSUME NEW S \in SUBSET Nat, S # {}
  PROVE  \E e \in S : \A d \in S : e <= d
<1>1. PICK e \in S : \A d \in S : ~ (<<d, e>> \in OpToRel(<, Nat))
  BY NatLessThanWellFounded, WFMin, Zenon
<1>2. \A c, d \in Nat : <<c, d>> \in OpToRel(<, Nat) <=> c < d
  BY DEF OpToRel
<1>3. \A d \in S : ~ (d < e)
  BY <1>1, <1>2, Zenon
<1> QED
  BY <1>3

-----------------------------------------------------------------------------
(* Insights and recommendations.                                           *)

(* A run has found a row only while it is writing, and a job dismisses     *)
(* only recommendations that exist.                                        *)
AdviceInv ==
  /\ AdviceTypeOK
  /\ AdviceIsConsistent
  /\ \A s \in Sweep : found[s] => sweepPc[s] = "write"
  /\ \A j \in Job : jobPc[j] = "dismiss" => \A k \in todo[j] : rec[k] # "none"

LEMMA DraftsAreKeys ==
  /\ HealthDrafts \subseteq Key
  /\ \A p \in Provider, m, n \in Nat : GrowthDrafts(p, m, n) \subseteq Key
BY DEF HealthDrafts, GrowthDrafts, Key, Kind

LEMMA AdviceInitInv == AdviceInit => AdviceInv
BY AdviceAssumption DEF AdviceInit, AdviceInv, AdviceTypeOK, AdviceIsConsistent,
   AnnouncedOnce, HistoryIsCurrent, RecStatus

LEMMA AllowedTransitions ==
  ASSUME NEW from \in RecStatus, NEW to \in Allowed[from]
  PROVE  /\ to \in RecStatus \ {"none", "proposed"}
         /\ from \notin Settled \union {"none"}
<1>1. \/ from = "none" \/ from = "proposed" \/ from = "approved"
      \/ from = "in_progress" \/ from = "completed" \/ from = "dismissed"
      \/ from = "expired"
  BY DEF RecStatus
<1> QED
  BY <1>1 DEF Allowed, RecStatus, Settled

(* The parts of the invariant that a step of a sweep, of a job or of a     *)
(* user leaves alone.                                                      *)
LEMMA SweepKeepsAdvice ==
  ASSUME AdviceInv, NEW s \in Sweep,
         SweepStep(s) \/ GenerateGrowth(s) \/ GenerateThrows(s) \/ SweepDies(s)
  PROVE  AdviceInv' /\ UNCHANGED <<rec, jobPc, todo>>
<1> USE AdviceAssumption DEF AdviceInv, AdviceTypeOK, AdviceIsConsistent,
      AnnouncedOnce, HistoryIsCurrent, jobVars
<1>1. CASE GenerateHealth(s)
  BY <1>1, DraftsAreKeys DEF GenerateHealth
<1>2. CASE DismissResolved(s)
  BY <1>2 DEF DismissResolved, Resolved
<1>3. CASE PersistSelect(s)
  BY <1>3 DEF PersistSelect
<1>4. CASE PersistWrite(s)
  BY <1>4 DEF PersistWrite, Announced
<1>5. CASE PersistConflict(s)
  BY <1>5 DEF PersistConflict, SweepEnds
<1>6. CASE SweepReturns(s)
  BY <1>6 DEF SweepReturns, SweepEnds
<1>7. CASE GenerateGrowth(s)
  <2>1. PICK p \in Provider, w \in Weeks :
          drafts' = [drafts EXCEPT ![s] = GrowthDrafts(p, w[1], w[2])]
    BY <1>7 DEF GenerateGrowth
  <2>2. GrowthDrafts(p, w[1], w[2]) \subseteq Key
    BY DraftsAreKeys
  <2> QED
    BY <1>7, <2>1, <2>2 DEF GenerateGrowth
<1>8. CASE GenerateThrows(s)
  BY <1>8 DEF GenerateThrows
<1>9. CASE SweepDies(s)
  BY <1>9 DEF SweepDies, SweepEnds
<1> QED
  BY <1>1, <1>2, <1>3, <1>4, <1>5, <1>6, <1>7, <1>8, <1>9 DEF SweepStep

LEMMA JobKeepsAdvice ==
  ASSUME AdviceInv, NEW j \in Job, JobStep(j) \/ JobDies(j)
  PROVE  AdviceInv'
<1> USE AdviceAssumption DEF AdviceInv, AdviceTypeOK, AdviceIsConsistent,
      AnnouncedOnce, HistoryIsCurrent, sweepVars, RecStatus, Settled
<1>1. CASE ReadStale(j)
  BY <1>1 DEF ReadStale, Stale, Open
<1>2. CASE DismissStale(j)
  BY <1>2 DEF DismissStale
<1>3. CASE ReadActive(j)
  BY <1>3 DEF ReadActive
<1>4. CASE ProposeSelect(j)
  BY <1>4 DEF ProposeSelect
<1>5. CASE ProposeInsert(j)
  BY <1>5 DEF ProposeInsert, Proposable
<1>6. CASE ProposeConflict(j)
  BY <1>6 DEF ProposeConflict, JobEnds
<1>7. CASE JobReturns(j)
  BY <1>7 DEF JobReturns, JobEnds
<1>8. CASE JobDies(j)
  BY <1>8 DEF JobDies, JobEnds
<1> QED
  BY <1>1, <1>2, <1>3, <1>4, <1>5, <1>6, <1>7, <1>8 DEF JobStep

(* What a step must leave to the decisions about the recommendations.      *)
Stands ==
  \A k \in Key :
    /\ rec[k] \in Settled => rec'[k] \in Settled
    /\ Decided(k) => Decided(k)' /\ (rec'[k] = rec[k] \/ UserChanges(k))

LEMMA RestStands == UNCHANGED <<rec, jobPc, todo>> => Stands
BY DEF Stands, Decided, Dismissing

(* A run comes to dismiss only what it reads as open, and dismisses only   *)
(* what it has read.                                                       *)
LEMMA JobStands ==
  ASSUME AdviceInv, NEW j \in Job, JobStep(j) \/ JobDies(j)
  PROVE  Stands
<1>1. /\ rec \in [Key -> RecStatus] /\ jobPc \in [Job -> {"idle", "dismiss", "read", "propose", "insert"}]
      /\ todo \in [Job -> SUBSET Key]
      /\ \A i \in Job : jobPc[i] = "dismiss" => \A k \in todo[i] : rec[k] # "none"
  BY DEF AdviceInv, AdviceTypeOK
<1>2. \A i \in Job : i # j => jobPc'[i] = jobPc[i] /\ todo'[i] = todo[i]
  BY <1>1 DEF JobStep, JobEnds, JobDies, ReadStale, DismissStale, ReadActive, ProposeSelect,
     ProposeInsert, ProposeConflict, JobReturns
<1>3. ASSUME jobPc'[j] = "dismiss" PROVE \A k \in todo'[j] : rec[k] \in Open
  <2>1. CASE ReadStale(j)
    BY <1>1, <1>3, <2>1 DEF ReadStale, Stale
  <2>2. CASE DismissStale(j)
    BY <1>1, <1>3, <2>2 DEF DismissStale
  <2>3. CASE ReadActive(j)
    BY <1>1, <1>3, <2>3 DEF ReadActive
  <2>4. CASE ProposeSelect(j)
    BY <1>1, <1>3, <2>4 DEF ProposeSelect
  <2>5. CASE ProposeInsert(j)
    BY <1>1, <1>3, <2>5 DEF ProposeInsert, Proposable
  <2>6. CASE ProposeConflict(j)
    BY <1>1, <1>3, <2>6 DEF ProposeConflict, JobEnds
  <2>7. CASE JobReturns(j)
    BY <1>1, <1>3, <2>7 DEF JobReturns, JobEnds
  <2>8. CASE JobDies(j)
    BY <1>1, <1>3, <2>8 DEF JobDies, JobEnds
  <2> QED
    BY <2>1, <2>2, <2>3, <2>4, <2>5, <2>6, <2>7, <2>8 DEF JobStep
<1>4. ASSUME NEW k \in Key
      PROVE  \/ rec'[k] = rec[k]
             \/ rec[k] = "none" /\ rec'[k] = "proposed"
             \/ rec'[k] = "dismissed" /\ jobPc[j] = "dismiss" /\ k \in todo[j]
  <2>1. CASE ReadStale(j)
    BY <1>1, <1>4, <2>1 DEF ReadStale
  <2>2. CASE DismissStale(j)
    BY <1>1, <1>4, <2>2 DEF DismissStale
  <2>3. CASE ReadActive(j)
    BY <1>1, <1>4, <2>3 DEF ReadActive
  <2>4. CASE ProposeSelect(j)
    BY <1>1, <1>4, <2>4 DEF ProposeSelect
  <2>5. CASE ProposeInsert(j)
    BY <1>1, <1>4, <2>5 DEF ProposeInsert, Proposable
  <2>6. CASE ProposeConflict(j)
    BY <1>1, <1>4, <2>6 DEF ProposeConflict, JobEnds
  <2>7. CASE JobReturns(j)
    BY <1>1, <1>4, <2>7 DEF JobReturns, JobEnds
  <2>8. CASE JobDies(j)
    BY <1>1, <1>4, <2>8 DEF JobDies, JobEnds
  <2> QED
    BY <2>1, <2>2, <2>3, <2>4, <2>5, <2>6, <2>7, <2>8 DEF JobStep
<1>5. ASSUME NEW k \in Key, rec[k] \in Settled PROVE rec'[k] \in Settled
  BY <1>5, <1>4 DEF Settled
<1>6. ASSUME NEW k \in Key, Decided(k) PROVE Decided(k)' /\ rec'[k] = rec[k]
  <2>1. /\ rec[k] # "none" /\ rec[k] \notin Open
        /\ \A i \in Job : ~ (jobPc[i] = "dismiss" /\ k \in todo[i])
    BY <1>6 DEF Decided, Dismissing
  <2>2. rec'[k] = rec[k]
    BY <1>4, <2>1
  <2>3. ASSUME NEW i \in Job, jobPc'[i] = "dismiss", k \in todo'[i] PROVE FALSE
    <3>1. CASE i = j
      BY <1>3, <2>1, <2>3, <3>1
    <3>2. CASE i # j
      BY <1>2, <2>1, <2>3, <3>2
    <3> QED
      BY <3>1, <3>2
  <2> QED
    BY <2>1, <2>2, <2>3 DEF Decided, Dismissing
<1> QED
  BY <1>5, <1>6 DEF Stands

LEMMA AdviceStep ==
  ASSUME AdviceInv, [AdviceNext]_adviceVars
  PROVE  AdviceInv' /\ Stands
<1>1. ASSUME NEW p \in Provider, HealthChanges(p)
      PROVE  AdviceInv' /\ UNCHANGED <<rec, jobPc, todo>>
  BY <1>1 DEF HealthChanges, AdviceInv, AdviceTypeOK, AdviceIsConsistent,
     AnnouncedOnce, HistoryIsCurrent, sweepVars, jobVars
<1>2. ASSUME NEW k \in Key, NEW to \in RecStatus, Transition(k, to)
      PROVE  AdviceInv' /\ Stands
  <2>1. to \in RecStatus \ {"none", "proposed"} /\ rec[k] \notin Settled \union {"none"}
    BY <1>2, AllowedTransitions DEF Transition, AdviceInv, AdviceTypeOK
  <2>2. AdviceInv'
    BY <1>2, <2>1, AdviceAssumption DEF Transition, Recorded, AdviceInv, AdviceTypeOK,
       AdviceIsConsistent, AnnouncedOnce, HistoryIsCurrent, sweepVars, jobVars
  <2>3. /\ rec'[k] = to /\ to \in Allowed[rec[k]] /\ UNCHANGED <<jobPc, todo>>
        /\ transitions' = transitions + 1
        /\ \A i \in Key : i # k => rec'[i] = rec[i]
    BY <1>2 DEF Transition, AdviceInv, AdviceTypeOK, jobVars
  <2>4. ASSUME rec[k] \notin Open PROVE to \notin Open
    BY <1>2, <2>1, <2>3, <2>4 DEF Allowed, RecStatus, Open, Settled, AdviceInv, AdviceTypeOK
  <2> QED
    BY <2>1, <2>2, <2>3, <2>4 DEF Stands, Decided, Dismissing, UserChanges
<1>3. ASSUME UNCHANGED adviceVars PROVE AdviceInv' /\ UNCHANGED <<rec, jobPc, todo>>
  BY <1>3 DEF adviceVars, AdviceInv, AdviceTypeOK, AdviceIsConsistent,
     AnnouncedOnce, HistoryIsCurrent, sweepVars, jobVars
<1> QED
  BY <1>1, <1>2, <1>3, SweepKeepsAdvice, JobKeepsAdvice, JobStands, RestStands DEF AdviceNext

(* An insight is announced once and the history tells the truth of every   *)
(* recommendation, whatever sweeps and jobs overlap, conflict or die       *)
(* (insights.engine.ts:68-129, recommendation.service.ts:92-246).          *)
THEOREM AdviceCorrect == AdviceSpec => [](AdviceTypeOK /\ AdviceIsConsistent)
<1>1. AdviceInv /\ [AdviceNext]_adviceVars => AdviceInv'
  BY AdviceStep
<1>2. AdviceInv => AdviceTypeOK /\ AdviceIsConsistent
  BY DEF AdviceInv
<1> QED
  BY <1>1, <1>2, AdviceInitInv, PTL DEF AdviceSpec

(* What was decided about a recommendation stands, but for the runs that   *)
(* had read it before (recommendation.service.ts:27-34, 126-214).          *)
THEOREM AdviceDecisionsStand == AdviceSpec => DecisionsStand
<1>1. AdviceInv /\ [AdviceNext]_adviceVars => AdviceInv' /\ [Stands]_adviceVars
  BY AdviceStep
<1> QED
  BY <1>1, AdviceInitInv, PTL DEF AdviceSpec, DecisionsStand, Stands

-----------------------------------------------------------------------------
(* Google connections.                                                     *)

AuthRecord == [refreshable : BOOLEAN, expired : BOOLEAN, noted : BOOLEAN,
               connected : SUBSET Resource]

FlowRecord == [pc : {"idle", "exchange", "discover", "connect"},
               auth : Authorization \union {NoAuth},
               todo : SUBSET Resource, done : SUBSET Resource]

GoogleRecord == [status : {"none", "connected", "revoked"},
                 auth : Authorization \union {NoAuth}]

SyncRecord == [pc : {"idle", "token", "fetch", "reviews", "persist"},
               res : Resource \union {NoResource},
               auth : Authorization \union {NoAuth}, version : 0..MaxVersion]

(* A resource that was ever connected has an authorization; so has a       *)
(* callback beyond its exchange, and what it has connected is linked under *)
(* it; and a sync under way has that of a resource that was connected.     *)
ResourceInv(r) == google[r].auth # NoAuth => google[r].auth \in DOMAIN auths

FlowInv(f) ==
  /\ flow[f].pc \in {"discover", "connect"} => flow[f].auth \in DOMAIN auths
  /\ flow[f].pc = "exchange" => flow[f].done = {}
  /\ \A r \in flow[f].done : <<flow[f].auth, r>> \in linked

SyncInv(s) ==
  sync[s].pc # "idle" =>
    /\ sync[s].res \in Resource
    /\ sync[s].auth \in DOMAIN auths
    /\ google[sync[s].res].auth \in DOMAIN auths

GoogleInv ==
  /\ GoogleTypeOK
  /\ auths \in Seq(AuthRecord)
  /\ CursorTellsData /\ NotedWasLinked
  /\ \A r \in Resource : ResourceInv(r)
  /\ \A f \in Flow : FlowInv(f)
  /\ \A s \in Sync : SyncInv(s)

LEMMA GoogleInitInv == GoogleInit => GoogleInv
<1> SUFFICES ASSUME GoogleInit PROVE GoogleInv
  OBVIOUS
<1>1. auths \in Seq(AuthRecord) /\ Len(auths) = 0 /\ DOMAIN auths = {}
  BY DEF GoogleInit
<1>2. GoogleTypeOK
  BY <1>1, GoogleAssumption DEF GoogleInit, GoogleTypeOK, NoFlow, NoSync, NoAuth
<1> QED
  BY <1>1, <1>2 DEF GoogleInit, GoogleInv, ResourceInv, FlowInv, SyncInv, CursorTellsData,
     NotedWasLinked, NoFlow, NoSync

(* The type invariant with its records by name.                            *)
LEMMA GoogleTypes ==
  GoogleInv => /\ states \in [GoogleState -> {"none", "pending", "consumed"}]
               /\ auths \in Seq(AuthRecord) /\ Len(auths) <= MaxAuthorizations
               /\ google \in [Resource -> GoogleRecord]
               /\ jobOn \in [Resource -> BOOLEAN]
               /\ linked \subseteq Authorization \X Resource
               /\ flow \in [Flow -> FlowRecord]
               /\ sync \in [Sync -> SyncRecord]
               /\ googleFaults \in 0..MaxGoogleFaults
               /\ NotedWasLinked
               /\ DOMAIN auths = 1..Len(auths)
BY DEF GoogleInv, GoogleTypeOK, GoogleRecord, FlowRecord, SyncRecord

(* How a callback's record changes when its authorization is stored, when  *)
(* the resources are chosen and when one is connected.                     *)
LEMMA FlowAuthorized ==
  ASSUME flow \in [Flow -> FlowRecord], NEW f \in Flow, NEW a \in Authorization,
         flow' = [flow EXCEPT ![f].pc = "discover", ![f].auth = a]
  PROVE  /\ flow' \in [Flow -> FlowRecord]
         /\ flow'[f].pc = "discover" /\ flow'[f].auth = a
         /\ flow'[f].done = flow[f].done
         /\ \A g \in Flow : g # f => flow'[g] = flow[g]
BY DEF FlowRecord

LEMMA FlowMatched ==
  ASSUME flow \in [Flow -> FlowRecord], NEW f \in Flow, NEW rest \in SUBSET Resource,
         flow' = [flow EXCEPT ![f].pc = "connect", ![f].todo = rest]
  PROVE  /\ flow' \in [Flow -> FlowRecord]
         /\ flow'[f].pc = "connect" /\ flow'[f].auth = flow[f].auth
         /\ flow'[f].done = flow[f].done
         /\ \A g \in Flow : g # f => flow'[g] = flow[g]
BY DEF FlowRecord

LEMMA FlowConnected ==
  ASSUME flow \in [Flow -> FlowRecord], NEW f \in Flow, NEW r \in Resource,
         flow' = [flow EXCEPT ![f].todo = @ \ {r}, ![f].done = @ \union {r}]
  PROVE  /\ flow' \in [Flow -> FlowRecord]
         /\ flow'[f].pc = flow[f].pc /\ flow'[f].auth = flow[f].auth
         /\ flow'[f].done = flow[f].done \union {r}
         /\ \A g \in Flow : g # f => flow'[g] = flow[g]
BY DEF FlowRecord

(* A token that expires, is refreshed, and an authorization that notes     *)
(* what was connected.                                                     *)
LEMMA Noting ==
  ASSUME NEW r \in AuthRecord, NEW x \in BOOLEAN, NEW S \in SUBSET Resource
  PROVE  /\ [r EXCEPT !.expired = x] \in AuthRecord
         /\ [r EXCEPT !.expired = x].connected = r.connected
         /\ [r EXCEPT !.noted = TRUE, !.connected = S] \in AuthRecord
         /\ [r EXCEPT !.noted = TRUE, !.connected = S].connected = S
BY DEF AuthRecord

(* An authorization is replaced.                                           *)
LEMMA AuthsReplaced ==
  ASSUME auths \in Seq(AuthRecord), NEW a \in DOMAIN auths, NEW x \in AuthRecord,
         auths' = [auths EXCEPT ![a] = x]
  PROVE  /\ auths' \in Seq(AuthRecord) /\ DOMAIN auths' = DOMAIN auths
         /\ Len(auths') = Len(auths) /\ auths'[a] = x
         /\ \A b \in DOMAIN auths : b # a => auths'[b] = auths[b]
OBVIOUS

(* What a step must show that leaves the syncs and the data alone.         *)
LEMMA GoogleByParts ==
  ASSUME GoogleInv,
         UNCHANGED <<source, data, reviews, cursor, sync>>,
         states' \in [GoogleState -> {"none", "pending", "consumed"}],
         auths' \in Seq(AuthRecord), Len(auths') <= MaxAuthorizations,
         Len(auths) <= Len(auths'),
         google' \in [Resource -> GoogleRecord],
         jobOn' \in [Resource -> BOOLEAN],
         linked' \subseteq Authorization \X Resource, linked \subseteq linked',
         flow' \in [Flow -> FlowRecord],
         googleFaults' \in 0..MaxGoogleFaults,
         NotedWasLinked',
         \A r \in Resource :
           \/ google'[r] = google[r]
           \/ google'[r].status # "none" /\ google'[r].auth \in DOMAIN auths',
         \A f \in Flow : flow'[f] = flow[f] \/ FlowInv(f)'
  PROVE  GoogleInv'
<1>1. DOMAIN auths \subseteq DOMAIN auths'
  BY DEF GoogleInv
<1>2. \A a \in DOMAIN auths' : auths'[a] \in AuthRecord
  OBVIOUS
<1>3. \A r \in Resource :
        /\ google'[r].status # "none" <=> google'[r].auth \in DOMAIN auths'
        /\ ResourceInv(r)'
        /\ google[r].auth \in DOMAIN auths => google'[r].auth \in DOMAIN auths'
  <2>1. \A r \in Resource : google[r].status = "none" => google[r].auth = NoAuth
    BY DEF GoogleInv, GoogleTypeOK, ResourceInv
  <2>2. NoAuth \notin DOMAIN auths'
    BY DEF NoAuth
  <2> QED
    BY <1>1, <2>1, <2>2 DEF GoogleInv, GoogleTypeOK, ResourceInv
<1>4. \A f \in Flow : FlowInv(f)'
  BY <1>1 DEF GoogleInv, FlowInv
<1>5. \A s \in Sync : SyncInv(s)'
  BY <1>1, <1>3 DEF GoogleInv, SyncInv
<1>6. GoogleTypeOK'
  BY <1>2, <1>3 DEF GoogleInv, GoogleTypeOK, AuthRecord, GoogleRecord, FlowRecord
<1>7. CursorTellsData'
  BY DEF GoogleInv, CursorTellsData
<1> QED
  BY <1>3, <1>4, <1>5, <1>6, <1>7 DEF GoogleInv

LEMMA DataStep ==
  ASSUME GoogleInv,
         \/ \E r \in Resource : SourceChanges(r) \/ DisconnectGoogle(r)
         \/ \E s \in GoogleState : BeginGoogle(s)
         \/ \E a \in Authorization : TokenExpires(a)
  PROVE  GoogleInv' /\ linked' = linked
<1>1. ASSUME NEW r \in Resource, SourceChanges(r) PROVE GoogleInv' /\ linked' = linked
  BY <1>1, GoogleAssumption DEF SourceChanges, GoogleInv, GoogleTypeOK, CursorTellsData,
     NotedWasLinked, ResourceInv, FlowInv, SyncInv
<1>2. ASSUME NEW r \in Resource, DisconnectGoogle(r) PROVE GoogleInv' /\ linked' = linked
  <2>1. /\ google' \in [Resource -> GoogleRecord]
        /\ google'[r].status = "revoked" /\ google'[r].auth = google[r].auth
        /\ google[r].auth \in DOMAIN auths
        /\ \A q \in Resource : q # r => google'[q] = google[q]
    <3>1. google[r].auth \in DOMAIN auths
      BY <1>2 DEF DisconnectGoogle, GoogleInv, GoogleTypeOK
    <3> QED
      BY <1>2, <3>1, GoogleTypes DEF DisconnectGoogle, GoogleRecord
  <2>2. googleFaults' \in 0..MaxGoogleFaults /\ NotedWasLinked'
    BY <1>2, GoogleTypes, GoogleAssumption DEF DisconnectGoogle, NotedWasLinked
  <2> QED
    BY <1>2, <2>1, <2>2, GoogleByParts, GoogleTypes DEF DisconnectGoogle
<1>3. ASSUME NEW s \in GoogleState, BeginGoogle(s) PROVE GoogleInv' /\ linked' = linked
  BY <1>3 DEF BeginGoogle, GoogleInv, GoogleTypeOK, CursorTellsData, NotedWasLinked,
     ResourceInv, FlowInv, SyncInv
<1>4. ASSUME NEW a \in Authorization, TokenExpires(a) PROVE GoogleInv' /\ linked' = linked
  <2> DEFINE x == [auths[a] EXCEPT !.expired = TRUE]
  <2>1. a \in DOMAIN auths /\ auths' = [auths EXCEPT ![a] = x]
    BY <1>4 DEF TokenExpires
  <2>2. x \in AuthRecord /\ x.connected = auths[a].connected
    <3>1. auths[a] \in AuthRecord
      BY <2>1, GoogleTypes
    <3> QED
      BY <3>1, Noting
  <2> HIDE DEF x
  <2>3. /\ auths' \in Seq(AuthRecord) /\ DOMAIN auths' = DOMAIN auths
        /\ Len(auths') = Len(auths)
        /\ \A b \in DOMAIN auths : auths'[b].connected = auths[b].connected
    BY <2>1, <2>2, AuthsReplaced, GoogleTypes
  <2>4. NotedWasLinked'
    BY <1>4, <2>3, GoogleTypes DEF TokenExpires, NotedWasLinked
  <2> QED
    BY <1>4, <2>3, <2>4, GoogleByParts, GoogleTypes DEF TokenExpires
<1> QED
  BY <1>1, <1>2, <1>3, <1>4

LEMMA FlowStepInv ==
  ASSUME GoogleInv, NEW f \in Flow,
         (\E s \in GoogleState : ConsumeGoogle(f, s)) \/ FlowStep(f) \/ FlowFails(f)
  PROVE  GoogleInv'
<1> DEFINE Others == \A g \in Flow : g # f => flow'[g] = flow[g]
<1> USE GoogleTypes
<1>0. NoFlow \in FlowRecord /\ NoFlow.pc = "idle" /\ NoFlow.done = {} /\ NoFlow.auth = NoAuth
  BY DEF NoFlow, FlowRecord
<1>1. ASSUME NEW s \in GoogleState, ConsumeGoogle(f, s) PROVE GoogleInv' /\ linked' = linked
  <2>1. flow' \in [Flow -> FlowRecord] /\ FlowInv(f)' /\ Others
    BY <1>1 DEF ConsumeGoogle, NoFlow, FlowRecord, FlowInv
  <2>2. NotedWasLinked' /\ states' \in [GoogleState -> {"none", "pending", "consumed"}]
    BY <1>1 DEF ConsumeGoogle, NotedWasLinked
  <2> QED
    BY <1>1, <2>1, <2>2, GoogleByParts DEF ConsumeGoogle
<1>2. ASSUME StoreAuthorization(f) PROVE GoogleInv' /\ linked' = linked
  <2>1. PICK x \in AuthRecord : x.connected = {} /\ auths' = Append(auths, x)
    BY <1>2 DEF StoreAuthorization, AuthRecord
  <2>2. /\ auths' \in Seq(AuthRecord) /\ Len(auths') = Len(auths) + 1
        /\ \A a \in DOMAIN auths' :
             \/ a \in DOMAIN auths /\ auths'[a] = auths[a]
             \/ auths'[a] = x
    BY <2>1
  <2>3. Len(auths) + 1 <= MaxAuthorizations
    BY <1>2, GoogleAssumption DEF StoreAuthorization
  <2>4. NewAuthorization \in DOMAIN auths' /\ NewAuthorization \in Authorization
    BY <2>2, <2>3 DEF NewAuthorization, Authorization
  <2>5. flow[f].done = {}
    BY <1>2 DEF StoreAuthorization, GoogleInv, FlowInv
  <2>6. flow' \in [Flow -> FlowRecord] /\ FlowInv(f)' /\ Others
    BY <1>2, <2>4, <2>5, FlowAuthorized DEF StoreAuthorization, FlowInv
  <2>7. NotedWasLinked'
    BY <1>2, <2>1, <2>2 DEF StoreAuthorization, NotedWasLinked
  <2> QED
    BY <1>2, <2>2, <2>3, <2>6, <2>7, GoogleByParts DEF StoreAuthorization
<1>3. ASSUME DiscoverAndMatch(f) PROVE GoogleInv' /\ linked' = linked
  <2>1. PICK rest \in SUBSET Resource :
          flow' = [flow EXCEPT ![f].pc = "connect", ![f].todo = rest]
    BY <1>3 DEF DiscoverAndMatch, Discovered, Chosen
  <2>2. /\ flow' \in [Flow -> FlowRecord] /\ Others
        /\ flow'[f].pc = "connect" /\ flow'[f].auth = flow[f].auth
        /\ flow'[f].done = flow[f].done
    BY <2>1, FlowMatched
  <2>3. FlowInv(f)'
    BY <1>3, <2>2 DEF DiscoverAndMatch, GoogleInv, FlowInv
  <2>4. NotedWasLinked'
    BY <1>3 DEF DiscoverAndMatch, NotedWasLinked
  <2> QED
    BY <1>3, <2>2, <2>3, <2>4, GoogleByParts DEF DiscoverAndMatch
<1>4. ASSUME ConnectMatched(f) PROVE GoogleInv'
  <2>1. PICK r \in flow[f].todo :
          /\ ConnectResource(r, flow[f].auth)
          /\ flow' = [flow EXCEPT ![f].todo = @ \ {r}, ![f].done = @ \union {r}]
    BY <1>4 DEF ConnectMatched
  <2>2. flow[f].todo \subseteq Resource
    BY DEF FlowRecord
  <2>3. r \in Resource /\ flow[f].auth \in DOMAIN auths
    BY <1>4, <2>2 DEF ConnectMatched, GoogleInv, FlowInv
  <2>4. flow[f].auth \in Authorization
    BY <2>3, GoogleAssumption DEF Authorization
  <2>5. /\ google' \in [Resource -> GoogleRecord]
        /\ google'[r].status = "connected" /\ google'[r].auth = flow[f].auth
        /\ \A q \in Resource : q # r => google'[q] = google[q]
        /\ linked' = linked \union {<<flow[f].auth, r>>}
        /\ jobOn' \in [Resource -> BOOLEAN]
    BY <2>1, <2>3, <2>4 DEF ConnectResource, Linked, GoogleRecord
  <2>6. /\ flow' \in [Flow -> FlowRecord] /\ Others
        /\ flow'[f].pc = flow[f].pc /\ flow'[f].auth = flow[f].auth
        /\ flow'[f].done = flow[f].done \union {r}
    BY <2>1, <2>3, FlowConnected
  <2>7. FlowInv(f)'
    BY <1>4, <2>5, <2>6 DEF ConnectMatched, GoogleInv, FlowInv
  <2>8. NotedWasLinked'
    BY <1>4, <2>5 DEF ConnectMatched, NotedWasLinked
  <2>10. linked' \subseteq Authorization \X Resource
    BY <2>3, <2>4, <2>5
  <2>11. GoogleInv'
    BY <1>4, <2>3, <2>5, <2>6, <2>7, <2>8, <2>10, GoogleByParts DEF ConnectMatched
  <2> QED
    BY <2>11
<1>5. ASSUME NoteConnected(f) PROVE GoogleInv' /\ linked' = linked
  <2> DEFINE a == flow[f].auth
             x == [auths[a] EXCEPT !.noted = TRUE, !.connected = flow[f].done]
  <2>1. a \in DOMAIN auths /\ auths' = [auths EXCEPT ![a] = x]
    BY <1>5 DEF NoteConnected, Noted, GoogleInv, FlowInv
  <2>2. x \in AuthRecord /\ x.connected = flow[f].done
    <3>1. auths[a] \in AuthRecord /\ flow[f].done \in SUBSET Resource
      BY <2>1 DEF FlowRecord
    <3> QED
      BY <3>1, Noting
  <2> HIDE DEF x
  <2>3. /\ auths' \in Seq(AuthRecord) /\ DOMAIN auths' = DOMAIN auths
        /\ Len(auths') = Len(auths) /\ auths'[a] = x
        /\ \A b \in DOMAIN auths : b # a => auths'[b] = auths[b]
    BY <2>1, <2>2, AuthsReplaced
  <2>4. NotedWasLinked'
    BY <1>5, <2>1, <2>2, <2>3 DEF NoteConnected, NotedWasLinked, GoogleInv, FlowInv
  <2>5. flow' \in [Flow -> FlowRecord] /\ FlowInv(f)' /\ Others
    BY <1>0, <1>5 DEF NoteConnected, FlowInv
  <2> QED
    BY <1>5, <2>3, <2>4, <2>5, GoogleByParts DEF NoteConnected
<1>6. ASSUME FlowFails(f) PROVE GoogleInv' /\ linked' = linked
  <2>1. flow' \in [Flow -> FlowRecord] /\ FlowInv(f)' /\ Others
    BY <1>0, <1>6 DEF FlowFails, FlowInv
  <2>2. NotedWasLinked' /\ googleFaults' \in 0..MaxGoogleFaults
    BY <1>6, GoogleAssumption DEF FlowFails, NotedWasLinked
  <2> QED
    BY <1>6, <2>1, <2>2, GoogleByParts DEF FlowFails
<1> QED
  BY <1>1, <1>2, <1>3, <1>4, <1>5, <1>6 DEF FlowStep

LEMMA ConnectByUserInv ==
  ASSUME GoogleInv, NEW r \in Resource, NEW a \in Authorization, ConnectByUser(r, a)
  PROVE  GoogleInv'
<1>1. a \in DOMAIN auths
  BY DEF ConnectByUser
<1>2. /\ google' \in [Resource -> GoogleRecord]
      /\ google'[r].status = "connected" /\ google'[r].auth = a
      /\ \A q \in Resource : q # r => google'[q] = google[q]
      /\ linked' = linked \union {<<a, r>>}
      /\ jobOn' \in [Resource -> BOOLEAN]
      /\ linked \subseteq Authorization \X Resource
  BY GoogleTypes DEF ConnectByUser, ConnectResource, Linked, GoogleRecord, GoogleInv, GoogleTypeOK
<1>3. NotedWasLinked'
  BY <1>2 DEF ConnectByUser, GoogleInv, NotedWasLinked
<1>4. GoogleInv'
  BY <1>1, <1>2, <1>3, GoogleByParts, GoogleTypes DEF ConnectByUser
<1> QED
  BY <1>4

(* What a step of a sync must show.                                        *)
LEMMA SyncByParts ==
  ASSUME GoogleInv,
         UNCHANGED <<states, jobOn, linked, source, flow, googleFaults>>,
         auths' \in Seq(AuthRecord), Len(auths') = Len(auths),
         \A a \in DOMAIN auths : auths'[a].connected = auths[a].connected,
         google' \in [Resource -> GoogleRecord],
         \A r \in Resource :
           \/ google'[r] = google[r]
           \/ google'[r].status # "none" /\ google'[r].auth \in DOMAIN auths',
         sync' \in [Sync -> SyncRecord],
         reviews' \in [Resource -> 0..MaxVersion],
         data' \in [Resource -> 0..MaxVersion], cursor' \in [Resource -> 0..MaxVersion],
         CursorTellsData',
         \A s \in Sync : sync'[s] = sync[s] \/ SyncInv(s)'
  PROVE  GoogleInv'
<1>1. DOMAIN auths' = DOMAIN auths /\ DOMAIN auths = 1..Len(auths)
  BY DEF GoogleInv
<1>2. \A a \in DOMAIN auths' : auths'[a] \in AuthRecord
  OBVIOUS
<1>3. \A r \in Resource :
        /\ google'[r].status # "none" <=> google'[r].auth \in DOMAIN auths'
        /\ ResourceInv(r)'
        /\ google[r].auth \in DOMAIN auths => google'[r].auth \in DOMAIN auths'
  BY <1>1 DEF GoogleInv, GoogleTypeOK, ResourceInv
<1>4. \A f \in Flow : FlowInv(f)'
  BY <1>1 DEF GoogleInv, FlowInv
<1>5. \A s \in Sync : SyncInv(s)'
  BY <1>1, <1>3 DEF GoogleInv, SyncInv
<1>6. NotedWasLinked'
  BY <1>1 DEF GoogleInv, NotedWasLinked
<1>7. GoogleTypeOK'
  BY <1>2, <1>3 DEF GoogleInv, GoogleTypeOK, AuthRecord, GoogleRecord, SyncRecord
<1> QED
  BY <1>3, <1>4, <1>5, <1>6, <1>7 DEF GoogleInv

(* How a sync's record changes.                                            *)
LEMMA SyncFetched ==
  ASSUME sync \in [Sync -> SyncRecord], NEW s \in Sync, NEW v \in 0..MaxVersion,
         NEW there \in {"fetch", "reviews", "persist"},
         \/ sync' = [sync EXCEPT ![s].pc = there]
         \/ sync' = [sync EXCEPT ![s].version = v, ![s].pc = there]
  PROVE  /\ sync' \in [Sync -> SyncRecord]
         /\ sync'[s].res = sync[s].res /\ sync'[s].auth = sync[s].auth
         /\ \A t \in Sync : t # s => sync'[t] = sync[t]
<1>1. CASE sync' = [sync EXCEPT ![s].pc = there]
  BY <1>1 DEF SyncRecord
<1>2. CASE sync' = [sync EXCEPT ![s].version = v, ![s].pc = there]
  BY <1>2 DEF SyncRecord
<1> QED
  BY <1>1, <1>2

LEMMA SyncStepInv ==
  ASSUME GoogleInv, NEW s \in Sync,
         (\E r \in Resource : SyncBegin(s, r)) \/ SyncStep(s)
  PROVE  GoogleInv' /\ linked' = linked
<1> DEFINE Others == \A t \in Sync : t # s => sync'[t] = sync[t]
           Versions == [Resource -> 0..MaxVersion]
<1> USE GoogleTypes
<1>0. /\ reviews \in Versions /\ data \in Versions /\ cursor \in Versions
      /\ source \in Versions /\ CursorTellsData
  BY DEF GoogleInv, GoogleTypeOK
<1>a. NoSync \in SyncRecord /\ NoSync.pc = "idle"
  BY GoogleAssumption DEF NoSync, SyncRecord
<1>1. ASSUME NEW r \in Resource, SyncBegin(s, r) PROVE GoogleInv' /\ linked' = linked
  <2>1. google[r].auth \in DOMAIN auths
    BY <1>1 DEF SyncBegin, GoogleInv, ResourceInv
  <2>2. google[r].auth \in Authorization \union {NoAuth}
    BY DEF GoogleRecord
  <2> DEFINE x == [NoSync EXCEPT !.pc = "token", !.res = r, !.auth = google[r].auth]
  <2>3. x \in SyncRecord /\ x.res = r /\ x.auth = google[r].auth
    BY <1>a, <2>2 DEF SyncRecord, NoSync
  <2>4. sync' = [sync EXCEPT ![s] = x]
    BY <1>1 DEF SyncBegin
  <2> HIDE DEF x
  <2>5. sync' \in [Sync -> SyncRecord] /\ Others /\ SyncInv(s)'
    BY <1>1, <2>1, <2>3, <2>4 DEF SyncBegin, SyncInv
  <2>6. CursorTellsData'
    BY <1>0, <1>1 DEF SyncBegin, CursorTellsData
  <2> QED
    BY <1>0, <1>1, <2>5, <2>6, SyncByParts DEF SyncBegin
<1>2. ASSUME AccessToken(s) PROVE GoogleInv' /\ linked' = linked
  <2> DEFINE a == sync[s].auth
  <2>1. a \in DOMAIN auths /\ sync[s].res \in Resource /\ google[sync[s].res].auth \in DOMAIN auths
    BY <1>2 DEF AccessToken, GoogleInv, SyncInv
  <2>2. /\ auths' \in Seq(AuthRecord) /\ Len(auths') = Len(auths)
        /\ DOMAIN auths' = DOMAIN auths
        /\ \A b \in DOMAIN auths : auths'[b].connected = auths[b].connected
    <3> DEFINE x == Refreshed(auths[a])
    <3>1. x \in AuthRecord /\ x.connected = auths[a].connected
      <4>1. auths[a] \in AuthRecord
        BY <2>1
      <4> QED
        BY <4>1, Noting DEF Refreshed
    <3>2. auths' = [auths EXCEPT ![a] = x] \/ auths' = auths
      BY <1>2 DEF AccessToken
    <3> HIDE DEF x
    <3> QED
      BY <2>1, <3>1, <3>2, AuthsReplaced
  <2>3. sync' = [sync EXCEPT ![s].pc = "fetch"]
    BY <1>2 DEF AccessToken
  <2>4. /\ sync' \in [Sync -> SyncRecord] /\ Others
        /\ sync'[s].res = sync[s].res /\ sync'[s].auth = sync[s].auth
    <3>1. sync' = [sync EXCEPT ![s].pc = "fetch"] /\ 0 \in 0..MaxVersion
      BY <2>3, GoogleAssumption
    <3> QED
      BY <3>1, SyncFetched
  <2>5. SyncInv(s)' /\ CursorTellsData'
    BY <1>0, <1>2, <2>1, <2>2, <2>4 DEF AccessToken, SyncInv, CursorTellsData
  <2> QED
    BY <1>0, <1>2, <2>2, <2>4, <2>5, SyncByParts DEF AccessToken
<1>3. ASSUME Fetch(s) \/ SyncReviews(s) PROVE GoogleInv' /\ linked' = linked
  <2>1. sync[s].pc # "idle"
    BY <1>3 DEF Fetch, SyncReviews
  <2>2. /\ sync[s].auth \in DOMAIN auths /\ sync[s].res \in Resource
        /\ google[sync[s].res].auth \in DOMAIN auths
    BY <2>1 DEF GoogleInv, SyncInv
  <2>3. /\ sync' \in [Sync -> SyncRecord] /\ Others
        /\ sync'[s].res = sync[s].res /\ sync'[s].auth = sync[s].auth
    <3>1. source[sync[s].res] \in 0..MaxVersion
      BY <1>0, <2>2
    <3>2. CASE Fetch(s)
      <4>1. PICK there \in {"reviews", "persist"} :
              sync' = [sync EXCEPT ![s].version = source[sync[s].res], ![s].pc = there]
        BY <3>2 DEF Fetch
      <4> QED
        BY <3>1, <4>1, SyncFetched
    <3>3. CASE SyncReviews(s)
      BY <3>1, <3>3, SyncFetched DEF SyncReviews
    <3> QED
      BY <1>3, <3>2, <3>3
  <2>4. /\ UNCHANGED <<states, auths, google, jobOn, linked, source, data, cursor, flow,
                        googleFaults>>
        /\ reviews' \in Versions
    BY <1>0, <1>3, <2>2 DEF Fetch, SyncReviews, ReviewsStored
  <2>5. SyncInv(s)' /\ CursorTellsData'
    BY <1>0, <2>2, <2>3, <2>4 DEF SyncInv, CursorTellsData
  <2> QED
    BY <1>0, <2>3, <2>4, <2>5, SyncByParts
<1>4. ASSUME Persist(s) PROVE GoogleInv' /\ linked' = linked
  <2> DEFINE r == sync[s].res
  <2>1. r \in Resource /\ google[r].auth \in DOMAIN auths /\ sync[s].version \in 0..MaxVersion
    <3>1. r \in Resource /\ google[r].auth \in DOMAIN auths
      BY <1>4 DEF Persist, GoogleInv, SyncInv
    <3> QED
      BY <3>1 DEF SyncRecord
  <2>2. /\ google' \in [Resource -> GoogleRecord]
        /\ google'[r].status = "connected" /\ google'[r].auth = google[r].auth
        /\ \A q \in Resource : q # r => google'[q] = google[q]
    BY <1>4, <2>1 DEF Persist, GoogleRecord
  <2>3. data' \in Versions /\ cursor' \in Versions /\ CursorTellsData'
    BY <1>0, <1>4, <2>1 DEF Persist, Stored, CursorTellsData
  <2>4. sync' \in [Sync -> SyncRecord] /\ Others /\ SyncInv(s)'
    BY <1>a, <1>4 DEF Persist, SyncInv
  <2> QED
    BY <1>0, <1>4, <2>1, <2>2, <2>3, <2>4, SyncByParts DEF Persist
<1>5. ASSUME SyncFails(s) PROVE GoogleInv' /\ linked' = linked
  <2>1. sync' \in [Sync -> SyncRecord] /\ Others /\ SyncInv(s)'
    BY <1>a, <1>5 DEF SyncFails, SyncInv
  <2>2. CursorTellsData'
    BY <1>0, <1>5 DEF SyncFails, CursorTellsData
  <2> QED
    BY <1>0, <1>5, <2>1, <2>2, SyncByParts DEF SyncFails
<1> QED
  BY <1>1, <1>2, <1>3, <1>4, <1>5 DEF SyncStep

LEMMA GoogleStep ==
  ASSUME GoogleInv, [GoogleNext]_googleVars
  PROVE  GoogleInv'
<1>1. ASSUME UNCHANGED googleVars PROVE GoogleInv' /\ linked' = linked
  BY <1>1 DEF googleVars, GoogleInv, GoogleTypeOK, CursorTellsData, NotedWasLinked,
     ResourceInv, FlowInv, SyncInv
<1> QED
  BY <1>1, DataStep, ConnectByUserInv, FlowStepInv, SyncStepInv DEF GoogleNext

(* The cursor tells which data is stored, and an authorization notes only  *)
(* what was connected under it, in whatever order callbacks, users and     *)
(* overlapping syncs commit (google-sync.service.ts, google.service.ts).   *)
THEOREM GoogleCorrect == GoogleSpec => [](GoogleTypeOK /\ CursorTellsData /\ NotedWasLinked)
<1>1. GoogleInv /\ [GoogleNext]_googleVars => GoogleInv'
  BY GoogleStep
<1>2. GoogleInv => GoogleTypeOK /\ CursorTellsData /\ NotedWasLinked
  BY DEF GoogleInv
<1> QED
  BY <1>1, <1>2, GoogleInitInv, PTL DEF GoogleSpec

-----------------------------------------------------------------------------
(* Websites and audits.                                                    *)

RequestRecord == [at : {"idle", "creating", "listing", "retiring"}, site : Sites,
                  active : Sites, obsolete : SUBSET Website]

SiteTypes ==
  /\ project \in [Website -> {"absent", "enabled", "disabled"}]
  /\ born \in Seq(Website)
  /\ ToSet(born) = {w \in Website : project[w] # "absent"} /\ IsInjective(born)
  /\ auditJob \subseteq Website /\ keywordJob \subseteq Website /\ raced \subseteq Website
  /\ siteRequest \in [SiteRequest -> RequestRecord]
  /\ siteRequests \in 0..MaxSiteRequests /\ contested \in BOOLEAN
  /\ \A r \in SiteRequest : siteRequest[r].at # "idle" => siteRequest[r].site \in Website

(* While nothing is contested, only the request that created the last      *)
(* website may still retire others, and that website is enabled.           *)
LastOneEnabled ==
  ~ contested =>
    /\ born # <<>> => EnabledSites # {}
    /\ \A r \in SiteRequest : Retiring(r) =>
         /\ Enabled(siteRequest[r].site)
         /\ \A o \in SiteRequest : Retiring(o) => o = r

(* What a list misses is the request's own or was created since.           *)
ListsAreComplete ==
  \A r \in SiteRequest : siteRequest[r].at = "retiring" =>
    /\ siteRequest[r].site \notin siteRequest[r].obsolete
    /\ \A w \in EnabledSites \ raced :
         w = siteRequest[r].site \/ w \in siteRequest[r].obsolete

SiteInv == SiteTypes /\ LastOneEnabled /\ ListsAreComplete /\ RetiredIsSilent

(* The active website is an enabled one, when there is one.                *)
LEMMA ActiveIsEnabled ==
  ASSUME SiteTypes
  PROVE  IF EnabledSites = {} THEN ActiveProject = NoWebsite ELSE ActiveProject \in EnabledSites
<1> SUFFICES ASSUME EnabledSites # {} PROVE ActiveProject \in EnabledSites
  BY DEF ActiveProject
<1> DEFINE Live(i) == Enabled(born[i])
           Newest(i) == Live(i) /\ \A k \in DOMAIN born : k > i => ~ Live(k)
           Ages == {n \in Nat : \E i \in DOMAIN born : Live(i) /\ n = Len(born) - i}
<1>1. DOMAIN born = 1..Len(born) /\ Len(born) \in Nat
  BY DEF SiteTypes
<1>2. PICK i \in DOMAIN born : Live(i)
  <2>1. PICK w \in EnabledSites : TRUE
    OBVIOUS
  <2>2. w \in ToSet(born) /\ Enabled(w)
    BY <2>1 DEF EnabledSites, Enabled, SiteTypes
  <2> QED
    BY <2>2 DEF ToSet
<1>3. Len(born) - i \in Ages
  BY <1>1, <1>2
<1>4. PICK n \in Ages : \A m \in Ages : n <= m
  <2> HIDE DEF Ages
  <2>1. Ages \in SUBSET Nat
    BY DEF Ages
  <2> QED
    BY <1>3, <2>1, LeastExists
<1>5. PICK j \in DOMAIN born : Live(j) /\ n = Len(born) - j
  BY <1>4
<1>6. Newest(j)
  <2> SUFFICES ASSUME NEW k \in DOMAIN born, k > j, Live(k) PROVE FALSE
    BY <1>5
  <2>1. Len(born) - k \in Ages
    BY <1>1
  <2> QED
    BY <1>1, <1>4, <1>5, <2>1
<1>7. ActiveProject = born[CHOOSE k \in DOMAIN born : Newest(k)]
  BY DEF ActiveProject
<1> HIDE DEF Newest
<1>8. \E k \in DOMAIN born : ActiveProject = born[k] /\ Newest(k)
  BY <1>5, <1>6, <1>7, Zenon
<1> QED
  BY <1>1, <1>8 DEF Newest, EnabledSites, Enabled, SiteTypes

LEMMA BornGrows ==
  ASSUME born \in Seq(Website), NEW w \in Website, born' = Append(born, w)
  PROVE  /\ born' \in Seq(Website) /\ born' # <<>>
         /\ ToSet(born') = ToSet(born) \union {w}
         /\ IsInjective(born) /\ w \notin ToSet(born) => IsInjective(born')
<1>1. /\ born' \in Seq(Website) /\ Len(born') = Len(born) + 1 /\ born' # <<>>
      /\ \A i \in 1..Len(born) : born'[i] = born[i]
      /\ born'[Len(born) + 1] = w
      /\ DOMAIN born = 1..Len(born) /\ DOMAIN born' = 1..(Len(born) + 1)
  OBVIOUS
<1>2. ToSet(born') = ToSet(born) \union {w}
  BY <1>1 DEF ToSet
<1>3. ASSUME IsInjective(born), w \notin ToSet(born) PROVE IsInjective(born')
  <2>1. \A i \in 1..Len(born) : born[i] # w
    BY <1>1, <1>3 DEF ToSet
  <2> QED
    BY <1>1, <1>3, <2>1 DEF IsInjective
<1> QED
  BY <1>1, <1>2, <1>3

LEMMA RequestsChange ==
  ASSUME siteRequest \in [SiteRequest -> RequestRecord], NEW r \in SiteRequest,
         NEW at \in {"listing", "retiring"}, NEW S \in SUBSET Website,
         \/ siteRequest' = [siteRequest EXCEPT ![r].at = at]
         \/ siteRequest' = [siteRequest EXCEPT ![r].at = at, ![r].obsolete = S]
  PROVE  /\ siteRequest' \in [SiteRequest -> RequestRecord]
         /\ siteRequest'[r].at = at /\ siteRequest'[r].site = siteRequest[r].site
         /\ \A o \in SiteRequest : o # r => siteRequest'[o] = siteRequest[o]
<1>1. CASE siteRequest' = [siteRequest EXCEPT ![r].at = at]
  BY <1>1 DEF RequestRecord
<1>2. CASE siteRequest' = [siteRequest EXCEPT ![r].at = at, ![r].obsolete = S]
  BY <1>2 DEF RequestRecord
<1> QED
  BY <1>1, <1>2

LEMMA SiteInitInv == WebsiteInit => SiteInv
<1> SUFFICES ASSUME WebsiteInit PROVE SiteInv
  OBVIOUS
<1>1. SiteTypes
  <2>1. DOMAIN born = {} /\ born \in Seq(Website)
    BY DEF WebsiteInit
  <2>2. ToSet(born) = {w \in Website : project[w] # "absent"} /\ IsInjective(born)
    BY <2>1 DEF ToSet, IsInjective, WebsiteInit
  <2>3. NoRequest \in RequestRecord /\ NoRequest.at = "idle"
    BY DEF NoRequest, RequestRecord, Sites
  <2>4. MaxSiteRequests \in Nat
    BY WebsiteAssumption
  <2>5. contested \in BOOLEAN /\ siteRequests \in 0..MaxSiteRequests
    <3>1. contested = FALSE /\ siteRequests = 0
      BY DEF WebsiteInit
    <3>2. contested \in BOOLEAN
      BY <3>1
    <3>3. siteRequests \in 0..MaxSiteRequests
      BY <2>4, <3>1
    <3> QED
      BY <3>2, <3>3
  <2>6. /\ project \in [Website -> {"absent", "enabled", "disabled"}]
        /\ siteRequest \in [SiteRequest -> RequestRecord]
        /\ \A r \in SiteRequest : siteRequest[r].at = "idle"
    BY <2>3 DEF WebsiteInit
  <2>7. auditJob = {} /\ keywordJob = {} /\ raced = {}
    BY DEF WebsiteInit
  <2> QED
    BY <2>1, <2>2, <2>5, <2>6, <2>7 DEF SiteTypes
<1> QED
  BY <1>1 DEF WebsiteInit, SiteInv, LastOneEnabled, ListsAreComplete, RetiredIsSilent,
     NoRequest, Retiring

LEMMA SiteStep ==
  ASSUME SiteInv, SiteNext
  PROVE  SiteInv'
<1> USE DEF SiteInv
<1>0. NoRequest \in RequestRecord /\ NoRequest.at = "idle"
  BY DEF NoRequest, RequestRecord, Sites
<1>1. ASSUME NEW r \in SiteRequest, NEW w \in Website, NEW active \in Sites,
             BeginSite(r, w, active)
      PROVE  SiteInv'
  <2> DEFINE x == [at |-> "creating", site |-> w, active |-> active, obsolete |-> {}]
  <2>1. x \in RequestRecord /\ x.at = "creating" /\ x.site = w
    BY DEF RequestRecord, Sites
  <2>2. siteRequest' = [siteRequest EXCEPT ![r] = x]
    BY <1>1 DEF BeginSite
  <2> HIDE DEF x
  <2>3. SiteTypes'
    <3>1. MaxSiteRequests \in Nat
      BY WebsiteAssumption
    <3>2. siteRequests' \in 0..MaxSiteRequests
      BY <1>1, <3>1 DEF BeginSite, SiteTypes
    <3> QED
      BY <1>1, <2>1, <2>2, <3>2 DEF BeginSite, SiteTypes
  <2> QED
    BY <1>1, <2>1, <2>2, <2>3 DEF BeginSite, SiteTypes, LastOneEnabled, ListsAreComplete,
       RetiredIsSilent, Retiring, EnabledSites, Enabled
<1>2. ASSUME NEW r \in SiteRequest, CreateProject(r) PROVE SiteInv'
  <2> DEFINE w == siteRequest[r].site
  <2>1. w \in Website
    BY <1>2 DEF CreateProject, SiteTypes
  <2>2. /\ born' \in Seq(Website) /\ born' # <<>>
        /\ ToSet(born') = ToSet(born) \union {w} /\ IsInjective(born')
    <3>1. CASE project[w] = "absent"
      <4>1. w \notin ToSet(born)
        BY <3>1 DEF SiteTypes
      <4> QED
        BY <1>2, <2>1, <3>1, <4>1, BornGrows DEF CreateProject, SiteTypes
    <3>2. CASE project[w] # "absent"
      <4>1. w \in ToSet(born)
        BY <2>1, <3>2 DEF SiteTypes
      <4>2. born # <<>>
        BY <4>1 DEF ToSet
      <4> QED
        BY <1>2, <3>2, <4>1, <4>2 DEF CreateProject, SiteTypes
    <3> QED
      BY <3>1, <3>2
  <2>3. /\ siteRequest' \in [SiteRequest -> RequestRecord]
        /\ \/ siteRequest'[r] = NoRequest
           \/ siteRequest'[r].at = "listing" /\ siteRequest'[r].site = w
        /\ \A o \in SiteRequest : o # r => siteRequest'[o] = siteRequest[o]
    <3>1. CASE siteRequest' = [siteRequest EXCEPT ![r] = NoRequest]
      BY <1>0, <3>1 DEF SiteTypes
    <3>2. CASE siteRequest' = [siteRequest EXCEPT ![r].at = "listing"]
      BY <3>2, RequestsChange DEF SiteTypes
    <3> QED
      BY <1>2, <3>1, <3>2 DEF CreateProject
  <2>4. /\ project' = [project EXCEPT ![w] = "enabled"]
        /\ auditJob' = auditJob \union {w} /\ keywordJob' = keywordJob \union {w}
        /\ contested' = \E o \in SiteRequest \ {r} : Retiring(o)
        /\ raced' = IF \E o \in SiteRequest \ {r} : siteRequest[o].at = "retiring"
                    THEN raced \union {w} ELSE raced
        /\ siteRequests' = siteRequests /\ siteRequest[r].at = "creating"
    BY <1>2 DEF CreateProject
  <2> HIDE DEF w
  <2>5. SiteTypes'
    BY <1>0, <2>1, <2>2, <2>3, <2>4 DEF SiteTypes
  <2>6. LastOneEnabled'
    BY <1>0, <2>1, <2>3, <2>4 DEF SiteTypes, LastOneEnabled, Retiring, EnabledSites, Enabled
  <2>7. ListsAreComplete'
    BY <1>0, <2>1, <2>3, <2>4 DEF SiteTypes, ListsAreComplete, EnabledSites, Enabled
  <2>8. RetiredIsSilent'
    BY <2>1, <2>4 DEF SiteTypes, RetiredIsSilent
  <2> QED
    BY <2>5, <2>6, <2>7, <2>8
<1>3. ASSUME NEW r \in SiteRequest, ListObsolete(r) PROVE SiteInv'
  <2>1. /\ siteRequest' \in [SiteRequest -> RequestRecord]
        /\ siteRequest'[r].at = "retiring" /\ siteRequest'[r].site = siteRequest[r].site
        /\ \A o \in SiteRequest : o # r => siteRequest'[o] = siteRequest[o]
    <3>1. EnabledSites \ {siteRequest[r].site} \in SUBSET Website
      BY DEF EnabledSites
    <3> QED
      BY <1>3, <3>1, RequestsChange DEF ListObsolete, SiteTypes
  <2>2. siteRequest'[r].obsolete = EnabledSites \ {siteRequest[r].site}
    BY <1>3 DEF ListObsolete, SiteTypes, RequestRecord
  <2>3. /\ siteRequest[r].at = "listing"
        /\ UNCHANGED <<project, born, auditJob, keywordJob, siteRequests, contested, raced>>
    BY <1>3 DEF ListObsolete
  <2>4. SiteTypes'
    BY <2>1, <2>3 DEF SiteTypes
  <2>5. LastOneEnabled'
    BY <2>1, <2>3 DEF LastOneEnabled, Retiring, EnabledSites, Enabled
  <2>6. ListsAreComplete' /\ RetiredIsSilent'
    BY <2>1, <2>2, <2>3 DEF ListsAreComplete, RetiredIsSilent, EnabledSites, Enabled
  <2> QED
    BY <2>4, <2>5, <2>6
<1>4. ASSUME NEW r \in SiteRequest, RetireOthers(r) PROVE SiteInv'
  <2> DEFINE S == siteRequest[r].obsolete
  <2>1. /\ siteRequest[r].at = "retiring" /\ siteRequest[r].site \in Website
        /\ project' = [w \in Website |->
             IF w # siteRequest[r].site /\ project[w] # "absent" THEN "disabled" ELSE project[w]]
        /\ auditJob' = auditJob \ S /\ keywordJob' = keywordJob \ S /\ raced' = raced \ S
        /\ siteRequest' = [siteRequest EXCEPT ![r] = NoRequest]
        /\ UNCHANGED <<born, siteRequests, contested>>
    BY <1>4 DEF RetireOthers, OthersThan, JobsLeft, SiteTypes
  <2>2. SiteTypes'
    BY <1>0, <2>1 DEF SiteTypes
  <2>3. LastOneEnabled'
    BY <1>0, <2>1 DEF SiteTypes, LastOneEnabled, Retiring, EnabledSites, Enabled
  <2>4. ListsAreComplete'
    BY <1>0, <2>1 DEF SiteTypes, ListsAreComplete, EnabledSites, Enabled
  <2>5. RetiredIsSilent'
    BY <2>1 DEF SiteTypes, RetiredIsSilent, ListsAreComplete, EnabledSites, Enabled
  <2> QED
    BY <2>2, <2>3, <2>4, <2>5
<1>5. ASSUME NEW r \in SiteRequest, SiteRequestLost(r) PROVE SiteInv'
  <2>1. SiteTypes'
    BY <1>0, <1>5 DEF SiteRequestLost, SiteTypes
  <2> QED
    BY <1>0, <1>5, <2>1 DEF SiteRequestLost, SiteTypes, LastOneEnabled, ListsAreComplete,
       RetiredIsSilent, Retiring, EnabledSites, Enabled
<1>6. ASSUME NEW r \in SiteRequest, NEW w \in Website,
             \/ \E confirmed \in BOOLEAN : SetWebsite(r, w, confirmed)
             \/ ProvisionWebsite(r, w) \/ PostProject(r, w)
      PROVE  SiteInv'
  <2>1. ActiveProject \in Sites
    BY ActiveIsEnabled DEF EnabledSites, Sites
  <2> QED
    BY <1>1, <1>6, <2>1 DEF SetWebsite, ProvisionWebsite, PostProject, Sites
<1> QED
  BY <1>2, <1>3, <1>4, <1>5, <1>6 DEF SiteNext

SubmitRecord == [at : {"idle", "waiting", "buying", "recording"}, site : Sites]
PollRecord == [at : {"idle", "asking", "storing"}, site : Sites]

(* Who is past idle has a website, who polls has a task to poll, and the   *)
(* lock is held exactly while a submission is in its transaction.          *)
SubmitInv(s) ==
  /\ submitter[s].at # "idle" => submitter[s].site \in Website
  /\ \A w \in Website :
       lockedBy[w] = s <=> /\ submitter[s].site = w
                           /\ submitter[s].at \in {"buying", "recording"}

PollInv(p) ==
  poller[p].at # "idle" => poller[p].site \in Website /\ task[poller[p].site] # "none"

AuditTypes ==
  /\ task \in [Website -> {"none", "polling", "succeeded"}]
  /\ pollJob \subseteq Website /\ crawled \subseteq Website /\ completions \subseteq Website
  /\ lockedBy \in [Website -> Submitter \union {NoSubmitter}]
  /\ submitter \in [Submitter -> SubmitRecord]
  /\ poller \in [Poller -> PollRecord]
  /\ bought \in [Website -> Nat] /\ wasted \in [Website -> Nat]
  /\ auditCalls \in 0..MaxAuditCalls /\ auditFaults \in 0..MaxAuditFaults

(* The audit of a website is paid for and not lost: its task is recorded,  *)
(* or a submission is about to record it.                                  *)
Paid(w) ==
  \/ task[w] # "none"
  \/ \E s \in Submitter : submitter[s].site = w /\ submitter[s].at = "recording"

BoughtInv(w) ==
  /\ lockedBy[w] # NoSubmitter => task[w] = "none"
  /\ bought[w] = wasted[w] + (IF Paid(w) THEN 1 ELSE 0)

AuditInv ==
  /\ AuditTypes
  /\ \A s \in Submitter : SubmitInv(s)
  /\ \A p \in Poller : PollInv(p)
  /\ \A w \in Website : BoughtInv(w)

LEMMA AuditBounds ==
  MaxAuditCalls \in Nat /\ MaxAuditFaults \in Nat /\ NoSubmitter \notin Submitter
BY WebsiteAssumption

LEMMA AuditInitInv == WebsiteInit => AuditInv
<1>1. NoSubmission \in SubmitRecord /\ NoSubmission.at = "idle"
  BY DEF NoSubmission, SubmitRecord, Sites
<1>2. NoPoll \in PollRecord /\ NoPoll.at = "idle"
  BY DEF NoPoll, PollRecord, Sites
<1> QED
  BY <1>1, <1>2, AuditBounds DEF WebsiteInit, AuditInv, AuditTypes, SubmitInv, PollInv, BoughtInv, Paid

LEMMA SubmitsChange ==
  ASSUME submitter \in [Submitter -> SubmitRecord], NEW s \in Submitter,
         NEW at \in {"buying", "recording"},
         submitter' = [submitter EXCEPT ![s].at = at]
  PROVE  /\ submitter' \in [Submitter -> SubmitRecord]
         /\ submitter'[s].at = at /\ submitter'[s].site = submitter[s].site
         /\ \A o \in Submitter : o # s => submitter'[o] = submitter[o]
BY DEF SubmitRecord

(* A submission that ends gives its lock back.                             *)
LEMMA SubmissionEnds ==
  ASSUME AuditInv, NEW s \in Submitter, EndsSubmission(s)
  PROVE  /\ submitter' \in [Submitter -> SubmitRecord]
         /\ submitter'[s].at = "idle"
         /\ \A o \in Submitter : o # s => submitter'[o] = submitter[o]
         /\ lockedBy' \in [Website -> Submitter \union {NoSubmitter}]
         /\ \A w \in Website : lockedBy'[w] = IF lockedBy[w] = s THEN NoSubmitter ELSE lockedBy[w]
         /\ \A o \in Submitter : SubmitInv(o)'
<1>1. NoSubmission \in SubmitRecord /\ NoSubmission.at = "idle"
  BY DEF NoSubmission, SubmitRecord, Sites
<1>2. /\ submitter' \in [Submitter -> SubmitRecord]
      /\ submitter'[s].at = "idle"
      /\ \A o \in Submitter : o # s => submitter'[o] = submitter[o]
  BY <1>1 DEF EndsSubmission, AuditInv, AuditTypes
<1>3. /\ lockedBy' \in [Website -> Submitter \union {NoSubmitter}]
      /\ \A w \in Website : lockedBy'[w] = IF lockedBy[w] = s THEN NoSubmitter ELSE lockedBy[w]
  BY DEF EndsSubmission, AuditInv, AuditTypes
<1>4. \A o \in Submitter : SubmitInv(o)'
  BY <1>2, <1>3, AuditBounds DEF AuditInv, SubmitInv
<1> QED
  BY <1>2, <1>3, <1>4

LEMMA SubmitStepInv ==
  ASSUME AuditInv, NEW s \in Submitter,
         (\E w \in Website : SubmitAudit(s, w)) \/ SubmitStep(s)
  PROVE  AuditInv'
<1> USE AuditBounds DEF AuditInv
<1> DEFINE Others == \A o \in Submitter : o # s => submitter'[o] = submitter[o]
<1>1. ASSUME NEW w \in Website, SubmitAudit(s, w) PROVE AuditInv'
  <2>1. /\ submitter' \in [Submitter -> SubmitRecord] /\ Others
        /\ submitter'[s].at = "waiting" /\ submitter'[s].site = w
    BY <1>1 DEF SubmitAudit, AuditTypes, SubmitRecord, Sites
  <2>2. AuditTypes'
    BY <1>1, <2>1 DEF SubmitAudit, AuditTypes
  <2>3. \A o \in Submitter : SubmitInv(o)'
    BY <1>1, <2>1 DEF SubmitAudit, SubmitInv
  <2>4. \A v \in Website : BoughtInv(v)'
    BY <1>1, <2>1 DEF SubmitAudit, BoughtInv, Paid
  <2> QED
    BY <1>1, <2>2, <2>3, <2>4 DEF SubmitAudit, PollInv
<1>2. ASSUME CheckExisting(s) PROVE AuditInv'
  <2> DEFINE w == submitter[s].site
  <2>1. w \in Website /\ submitter[s].at = "waiting" /\ lockedBy[w] = NoSubmitter
    BY <1>2 DEF CheckExisting, LockFree, SubmitInv
  <2>2. CASE task[w] # "none"
    <3>1. /\ submitter' \in [Submitter -> SubmitRecord] /\ Others
          /\ submitter'[s].at = "idle" /\ lockedBy' = lockedBy
      BY <1>2, <2>2 DEF CheckExisting, AuditTypes, NoSubmission, SubmitRecord, Sites
    <3>2. AuditTypes'
      BY <1>2, <3>1 DEF CheckExisting, AuditTypes
    <3>3. \A o \in Submitter : SubmitInv(o)'
      BY <2>1, <3>1 DEF SubmitInv
    <3>4. \A v \in Website : BoughtInv(v)'
      BY <1>2, <2>1, <3>1 DEF CheckExisting, BoughtInv, Paid
    <3> QED
      BY <1>2, <3>2, <3>3, <3>4 DEF CheckExisting, PollInv
  <2>3. CASE task[w] = "none"
    <3>1. submitter' = [submitter EXCEPT ![s].at = "buying"]
      BY <1>2, <2>3 DEF CheckExisting
    <3>2. /\ submitter' \in [Submitter -> SubmitRecord] /\ Others
          /\ submitter'[s].at = "buying" /\ submitter'[s].site = w
      BY <3>1, SubmitsChange DEF AuditTypes
    <3>3. /\ lockedBy' \in [Website -> Submitter \union {NoSubmitter}] /\ lockedBy'[w] = s
          /\ \A v \in Website : v # w => lockedBy'[v] = lockedBy[v]
      BY <1>2, <2>1, <2>3 DEF CheckExisting, AuditTypes
    <3>4. AuditTypes'
      BY <1>2, <3>2, <3>3 DEF CheckExisting, AuditTypes
    <3>5. \A o \in Submitter : SubmitInv(o)'
      BY <2>1, <3>2, <3>3 DEF SubmitInv
    <3>6. \A v \in Website : BoughtInv(v)'
      BY <1>2, <2>1, <2>3, <3>2, <3>3 DEF CheckExisting, BoughtInv, Paid
    <3> QED
      BY <1>2, <3>4, <3>5, <3>6 DEF CheckExisting, PollInv
  <2> QED
    BY <2>2, <2>3
<1>3. ASSUME BuyAudit(s) PROVE AuditInv'
  <2> DEFINE w == submitter[s].site
  <2>1. /\ w \in Website /\ submitter[s].at = "buying" /\ lockedBy[w] = s
        /\ task[w] = "none" /\ ~ Paid(w) /\ bought' = [bought EXCEPT ![w] = @ + 1]
    BY <1>3 DEF BuyAudit, SubmitInv, BoughtInv, Paid
  <2>2. /\ submitter' \in [Submitter -> SubmitRecord] /\ Others
        /\ submitter'[s].at = "recording" /\ submitter'[s].site = w
    BY <1>3, SubmitsChange DEF BuyAudit, AuditTypes
  <2>3. AuditTypes'
    BY <1>3, <2>1, <2>2 DEF BuyAudit, AuditTypes
  <2>4. \A o \in Submitter : SubmitInv(o)'
    BY <1>3, <2>1, <2>2 DEF BuyAudit, SubmitInv
  <2>5. BoughtInv(w)'
    <3>1. Paid(w)'
      BY <2>2 DEF Paid
    <3> QED
      BY <1>3, <2>1, <2>2, <3>1 DEF BuyAudit, BoughtInv, AuditTypes
  <2>6. \A v \in Website : v # w => BoughtInv(v)'
    BY <1>3, <2>1, <2>2 DEF BuyAudit, BoughtInv, Paid, AuditTypes
  <2> QED
    BY <1>3, <2>2, <2>3, <2>4, <2>5, <2>6 DEF BuyAudit, PollInv
<1>4. ASSUME RecordAudit(s) PROVE AuditInv'
  <2>1. PICK w \in Website : w = submitter[s].site
    BY <1>4 DEF RecordAudit, SubmitInv
  <2>2. /\ submitter[s].at = "recording" /\ lockedBy[w] = s /\ task' = [task EXCEPT ![w] = "polling"]
        /\ pollJob' = pollJob \union {w}
        /\ UNCHANGED <<poller, bought, wasted, crawled, completions, auditCalls, auditFaults>>
    BY <1>4, <2>1 DEF RecordAudit, SubmitInv
  <2>3. /\ submitter' \in [Submitter -> SubmitRecord] /\ Others /\ submitter'[s].at = "idle"
        /\ lockedBy' \in [Website -> Submitter \union {NoSubmitter}]
        /\ \A v \in Website : lockedBy'[v] = IF lockedBy[v] = s THEN NoSubmitter ELSE lockedBy[v]
        /\ \A o \in Submitter : SubmitInv(o)'
    BY <1>4, SubmissionEnds DEF RecordAudit
  <2>4. AuditTypes'
    BY <2>2, <2>3 DEF AuditTypes
  <2>5. \A p \in Poller : PollInv(p)'
    BY <2>2 DEF PollInv, AuditTypes
  <2>6. BoughtInv(w)'
    BY <2>1, <2>2, <2>3 DEF BoughtInv, Paid, AuditTypes
  <2>7. \A v \in Website : v # w => BoughtInv(v)'
    BY <2>1, <2>2, <2>3 DEF BoughtInv, Paid, AuditTypes
  <2> QED
    BY <2>3, <2>4, <2>5, <2>6, <2>7
<1>5. ASSUME SubmissionLost(s) PROVE AuditInv'
  <2>1. PICK w \in Website : w = submitter[s].site
    BY <1>5 DEF SubmissionLost, SubmitInv
  <2>2. /\ wasted' = IF submitter[s].at = "recording" THEN [wasted EXCEPT ![w] = @ + 1] ELSE wasted
        /\ auditFaults' \in 0..MaxAuditFaults
        /\ UNCHANGED <<task, pollJob, poller, bought, crawled, completions, auditCalls>>
    BY <1>5, <2>1 DEF SubmissionLost, AuditTypes
  <2>3. /\ submitter' \in [Submitter -> SubmitRecord] /\ Others /\ submitter'[s].at = "idle"
        /\ lockedBy' \in [Website -> Submitter \union {NoSubmitter}]
        /\ \A v \in Website : lockedBy'[v] = IF lockedBy[v] = s THEN NoSubmitter ELSE lockedBy[v]
        /\ \A o \in Submitter : SubmitInv(o)'
    BY <1>5, SubmissionEnds DEF SubmissionLost
  <2>4. AuditTypes'
    BY <2>2, <2>3 DEF AuditTypes
  <2>5. \A p \in Poller : PollInv(p)'
    BY <2>2 DEF PollInv
  <2>6. BoughtInv(w)'
    <3>1. CASE submitter[s].at = "recording"
      <4>1. lockedBy[w] = s /\ task[w] = "none" /\ Paid(w)
        BY <2>1, <3>1 DEF SubmitInv, BoughtInv, Paid
      <4>2. ~ Paid(w)'
        BY <2>2, <2>3, <4>1 DEF Paid, SubmitInv
      <4> QED
        BY <2>2, <2>3, <3>1, <4>1, <4>2 DEF BoughtInv, AuditTypes
    <3>2. CASE submitter[s].at # "recording"
      BY <2>1, <2>2, <2>3, <3>2 DEF BoughtInv, Paid
    <3> QED
      BY <3>1, <3>2
  <2>7. \A v \in Website : v # w => BoughtInv(v)'
    BY <2>1, <2>2, <2>3 DEF BoughtInv, Paid, AuditTypes
  <2> QED
    BY <2>3, <2>4, <2>5, <2>6, <2>7
<1> QED
  BY <1>1, <1>2, <1>3, <1>4, <1>5 DEF SubmitStep

LEMMA PollStepInv ==
  ASSUME AuditInv,
         \/ \E w \in Website : CrawlDone(w) \/ PollJobRuns(w)
         \/ \E p \in Poller : (\E w \in Website : PollByRequest(p, w)) \/ PollStep(p)
  PROVE  AuditInv'
<1> USE AuditBounds DEF AuditInv
<1>0. NoPoll \in PollRecord /\ NoPoll.at = "idle"
  BY DEF NoPoll, PollRecord, Sites
<1>1. ASSUME NEW w \in Website, CrawlDone(w) PROVE AuditInv'
  BY <1>1 DEF CrawlDone, AuditTypes, SubmitInv, PollInv, BoughtInv, Paid
<1>2. ASSUME NEW p \in Poller, NEW w \in Website, PollByJob(p, w) \/ PollByRequest(p, w)
      PROVE  AuditInv'
  <2>1. /\ poller' \in [Poller -> PollRecord] /\ task[w] # "none"
        /\ poller' = [poller EXCEPT ![p] = [at |-> "asking", site |-> w]]
        /\ UNCHANGED <<task, pollJob, lockedBy, submitter, bought, wasted, crawled,
                        completions, auditFaults>>
        /\ auditCalls' \in 0..MaxAuditCalls
    BY <1>2 DEF PollByJob, PollByRequest, BeginPoll, AuditTypes, PollRecord, Sites
  <2>2. \A q \in Poller : PollInv(q)'
    BY <2>1 DEF PollInv, AuditTypes
  <2> QED
    BY <2>1, <2>2 DEF AuditTypes, SubmitInv, BoughtInv, Paid
<1>3. ASSUME NEW p \in Poller, AskSummary(p) PROVE AuditInv'
  <2>1. poller[p].site \in Website /\ task[poller[p].site] # "none"
    BY <1>3 DEF AskSummary, PollInv
  <2>2. \/ poller' = [poller EXCEPT ![p] = [at |-> "storing", site |-> poller[p].site]]
        \/ poller' = [poller EXCEPT ![p] = NoPoll]
    BY <1>3 DEF AskSummary
  <2>3. poller' \in [Poller -> PollRecord] /\ \A q \in Poller : PollInv(q)'
    BY <1>0, <1>3, <2>1, <2>2 DEF AskSummary, AuditTypes, PollInv, PollRecord, Sites
  <2> QED
    BY <1>3, <2>3 DEF AskSummary, PollJobAfter, AuditTypes, SubmitInv, BoughtInv, Paid
<1>4. ASSUME NEW p \in Poller, StoreSummary(p) PROVE AuditInv'
  <2>1. PICK v \in Website : v = poller[p].site /\ task[v] # "none"
    BY <1>4 DEF StoreSummary, PollInv
  <2>2. /\ task' = [task EXCEPT ![v] = "succeeded"]
        /\ poller' = [poller EXCEPT ![p] = NoPoll]
        /\ pollJob' = pollJob \ {v} /\ completions' = completions \union {v}
        /\ UNCHANGED <<lockedBy, submitter, bought, wasted, crawled, auditCalls, auditFaults>>
    BY <1>4, <2>1 DEF StoreSummary
  <2>3. AuditTypes' /\ \A q \in Poller : PollInv(q)'
    BY <1>0, <2>1, <2>2 DEF AuditTypes, PollInv
  <2>4. \A u \in Website : BoughtInv(u)'
    BY <2>1, <2>2 DEF AuditTypes, BoughtInv, Paid
  <2> QED
    BY <2>2, <2>3, <2>4 DEF SubmitInv
<1>5. ASSUME NEW p \in Poller, PollLost(p) PROVE AuditInv'
  BY <1>0, <1>5 DEF PollLost, AuditTypes, SubmitInv, PollInv, BoughtInv, Paid
<1> QED
  BY <1>1, <1>2, <1>3, <1>4, <1>5 DEF PollStep, PollJobRuns

WebsiteInv == SiteInv /\ AuditInv

LEMMA WebsiteInitInv == WebsiteInit => WebsiteInv
BY SiteInitInv, AuditInitInv DEF WebsiteInv

LEMMA SitesLeaveAudits == SiteNext => UNCHANGED auditVars
BY DEF SiteNext, SetWebsite, ProvisionWebsite, PostProject, BeginSite, CreateProject,
   ListObsolete, RetireOthers, SiteRequestLost

LEMMA AuditsLeaveSites == AuditNext => UNCHANGED siteVars
BY DEF AuditNext, SubmitAudit, SubmitStep, CheckExisting, BuyAudit, RecordAudit,
   SubmissionLost, CrawlDone, PollByRequest, PollJobRuns, PollByJob, BeginPoll, PollStep,
   AskSummary, StoreSummary, PollLost

LEMMA SitesUnchanged == SiteInv /\ UNCHANGED siteVars => SiteInv'
BY DEF siteVars, SiteInv, SiteTypes, LastOneEnabled, ListsAreComplete, RetiredIsSilent,
   Retiring, EnabledSites, Enabled

LEMMA AuditsUnchanged == AuditInv /\ UNCHANGED auditVars => AuditInv'
BY DEF auditVars, AuditInv, AuditTypes, SubmitInv, PollInv, BoughtInv, Paid

LEMMA WebsiteStep ==
  ASSUME WebsiteInv, [WebsiteNext]_websiteVars
  PROVE  WebsiteInv'
<1>1. CASE SiteNext
  BY <1>1, SiteStep, SitesLeaveAudits, AuditsUnchanged DEF WebsiteInv
<1>2. CASE AuditNext
  <2>1. AuditInv'
    <3>1. CASE \E s \in Submitter : (\E w \in Website : SubmitAudit(s, w)) \/ SubmitStep(s)
      BY <3>1, SubmitStepInv DEF WebsiteInv
    <3>2. CASE \/ \E w \in Website : CrawlDone(w) \/ PollJobRuns(w)
               \/ \E p \in Poller : (\E w \in Website : PollByRequest(p, w)) \/ PollStep(p)
      BY <3>2, PollStepInv DEF WebsiteInv
    <3> QED
      BY <1>2, <3>1, <3>2 DEF AuditNext
  <2> QED
    BY <1>2, <2>1, AuditsLeaveSites, SitesUnchanged DEF WebsiteInv
<1>3. CASE UNCHANGED websiteVars
  BY <1>3, SitesUnchanged, AuditsUnchanged DEF WebsiteInv, websiteVars
<1> QED
  BY <1>1, <1>2, <1>3 DEF WebsiteNext

LEMMA WebsiteInvImplies ==
  ASSUME WebsiteInv
  PROVE  WebsiteTypeOK /\ SomeWebsiteActive /\ RetiredIsSilent /\ AuditBoughtOnce
<1>1. WebsiteTypeOK
  BY DEF WebsiteInv, SiteInv, AuditInv, SiteTypes, AuditTypes, SubmitInv, WebsiteTypeOK,
     RequestRecord, SubmitRecord, PollRecord
<1>2. SomeWebsiteActive
  <2>1. NoWebsite \notin EnabledSites
    BY WebsiteAssumption DEF EnabledSites
  <2>2. born # <<>> /\ ~ contested => EnabledSites # {}
    BY DEF WebsiteInv, SiteInv, LastOneEnabled
  <2>3. EnabledSites # {} => ActiveProject \in EnabledSites
    BY ActiveIsEnabled DEF WebsiteInv, SiteInv
  <2> QED
    BY <2>1, <2>2, <2>3 DEF SomeWebsiteActive
<1>3. RetiredIsSilent
  BY DEF WebsiteInv, SiteInv
<1>4. AuditBoughtOnce
  BY DEF WebsiteInv, AuditInv, AuditTypes, BoughtInv, AuditBoughtOnce
<1> QED
  BY <1>1, <1>2, <1>3, <1>4

(* A website stays active while others are retired, a retired one is left  *)
(* alone and an audit is paid for once (dataforseo.service.ts), however    *)
(* requests, submissions and polls overlap or are lost.                    *)
THEOREM WebsitesCorrect ==
  WebsiteSpec => [](WebsiteTypeOK /\ SomeWebsiteActive /\ RetiredIsSilent /\ AuditBoughtOnce)
<1>1. WebsiteInv /\ [WebsiteNext]_websiteVars => WebsiteInv'
  BY WebsiteStep
<1>2. WebsiteInv => WebsiteTypeOK /\ SomeWebsiteActive /\ RetiredIsSilent /\ AuditBoughtOnce
  BY WebsiteInvImplies
<1> QED
  BY <1>1, <1>2, WebsiteInitInv, PTL DEF WebsiteSpec

-----------------------------------------------------------------------------
(* All of them together.                                                   *)

BackgroundInv == AdviceInv /\ GoogleInv /\ WebsiteInv

(* A step of the whole is a step of one component, and the others rest.    *)
LEMMA ComponentSteps ==
  [BackgroundNext]_backgroundVars
    => [AdviceNext]_adviceVars /\ [GoogleNext]_googleVars /\ [WebsiteNext]_websiteVars
BY DEF BackgroundNext, Advising, Connecting, Auditing, backgroundVars

LEMMA BackgroundInitInv == BackgroundInit => BackgroundInv
BY AdviceInitInv, GoogleInitInv, WebsiteInitInv DEF BackgroundInit, BackgroundInv

LEMMA BackgroundStep ==
  BackgroundInv /\ [BackgroundNext]_backgroundVars
    => /\ BackgroundInv'
       /\ [Stands]_adviceVars
BY ComponentSteps, AdviceStep, GoogleStep, WebsiteStep DEF BackgroundInv

(* Every variable of the workers keeps its type and shape.                 *)
THEOREM BackgroundTypeCorrect == BackgroundSpec => []BackgroundTypeOK
<1>1. BackgroundInv => BackgroundTypeOK
  BY WebsiteInvImplies DEF BackgroundInv, BackgroundTypeOK, AdviceInv, GoogleInv
<1> QED
  BY <1>1, BackgroundInitInv, BackgroundStep, PTL DEF BackgroundSpec

(* Announcements and history agree with the rows.                          *)
THEOREM BackgroundAdvice == BackgroundSpec => []AdviceIsConsistent
<1>1. BackgroundInv => AdviceIsConsistent
  BY DEF BackgroundInv, AdviceInv
<1> QED
  BY <1>1, BackgroundInitInv, BackgroundStep, PTL DEF BackgroundSpec

(* What is stored is what happened, whatever overlaps.                     *)
THEOREM BackgroundStored == BackgroundSpec => []StoredIsTrue
<1>1. BackgroundInv => StoredIsTrue
  BY WebsiteInvImplies DEF BackgroundInv, StoredIsTrue, GoogleInv
<1> QED
  BY <1>1, BackgroundInitInv, BackgroundStep, PTL DEF BackgroundSpec

(* Decisions stand, whatever else goes on.                                 *)
THEOREM BackgroundDecisionsStand == BackgroundSpec => DecisionsStand
BY BackgroundInitInv, BackgroundStep, PTL DEF BackgroundSpec, DecisionsStand, Stands
=============================================================================
