------------------------------- MODULE Advice -------------------------------
(***************************************************************************)
(* Insights and recommendations of one organization.                       *)
(*                                                                         *)
(* A run of the insights engine (the scheduled sweep, or the relay with an *)
(* event) first lets its generators read and keeps their drafts, then      *)
(* writes: one update that dismisses the warnings no draft renews, and a   *)
(* transaction per draft.  A run of the recommendation job reads the       *)
(* recommendations whose insight is no longer active, dismisses them in a  *)
(* transaction of its own, reads the active insights and proposes one      *)
(* recommendation for each in a transaction.  Runs of both kinds, users    *)
(* and the integrations themselves interleave between those steps.         *)
(*                                                                         *)
(* An insight is named by its dedupe key, which is unique and never        *)
(* deleted; the recommendation made of it is named by the same key.        *)
(* Insights written by the two generators never expire, so expires_at is   *)
(* left out; so are the statuses 'error' and 'disconnected', which no code *)
(* writes.  The clock is the step in which a connection goes silent.       *)
(***************************************************************************)
EXTENDS Integers, FiniteSets

CONSTANTS
  Provider,       \* providers the organization has integrations with
  Weeks,          \* pairs <<this week, the week before>> a sync can bring
  Sweep,          \* runs of the insights engine that may overlap
  Job,            \* runs of the recommendation job that may overlap
  NoKey,          \* no draft or insight in hand
  MaxTransitions, \* bound on the status changes users make
  MaxAdviceFaults \* bound on generators that throw and runs that die

Kind == {"disconnected", "stale", "down", "up"}
Key  == Provider \X Kind
HealthKey == Provider \X {"disconnected", "stale"}

RecStatus == {"none", "proposed", "approved", "in_progress", "completed",
              "dismissed", "expired"}
Open      == {"proposed", "approved"}
Settled   == {"completed", "dismissed", "expired"}

ASSUME AdviceAssumption ==
  /\ Weeks \subseteq Nat \X Nat
  /\ NoKey \notin Key
  /\ MaxTransitions \in Nat /\ MaxAdviceFaults \in Nat

VARIABLES
  health,      \* what the integrations table says of each provider
  insight,     \* insights.status by dedupe key
  emitted,     \* InsightGenerated events published for each key
  sweepPc,     \* where each run of the engine is
  drafts,      \* the drafts it still has to persist
  draft,       \* the draft whose transaction is open
  found,       \* the row that transaction's SELECT found
  rec,         \* recommendations.status by the key of its insight
  history,     \* to_status of the latest recommendation_history row
  proposals,   \* RecommendationGenerated events published for each key
  jobPc,       \* where each run of the recommendation job is
  todo,        \* the keys it has read and not dealt with yet
  subject,     \* the insight whose transaction is open
  transitions, \* status changes users have made
  adviceFaults \* generators that threw and runs that died

sweepVars == <<sweepPc, drafts, draft, found>>
jobVars   == <<jobPc, todo, subject>>
adviceVars ==
  <<health, insight, emitted, sweepVars, rec, history, proposals, jobVars,
    transitions, adviceFaults>>

AdviceTypeOK ==
  /\ health \in [Provider -> {"connected", "stale", "revoked"}]
  /\ insight \in [Key -> {"none", "active", "dismissed"}]
  /\ emitted \in [Key -> Nat]
  /\ sweepPc \in [Sweep -> {"idle", "resolve", "persist", "write"}]
  /\ drafts \in [Sweep -> SUBSET Key]
  /\ draft \in [Sweep -> Key \union {NoKey}]
  /\ found \in [Sweep -> BOOLEAN]
  /\ rec \in [Key -> RecStatus]
  /\ history \in [Key -> RecStatus]
  /\ proposals \in [Key -> Nat]
  /\ jobPc \in [Job -> {"idle", "dismiss", "read", "propose", "insert"}]
  /\ todo \in [Job -> SUBSET Key]
  /\ subject \in [Job -> Key \union {NoKey}]
  /\ transitions \in 0..MaxTransitions
  /\ adviceFaults \in 0..MaxAdviceFaults
  /\ \A s \in Sweep :
       /\ draft[s] # NoKey <=> sweepPc[s] = "write"
       /\ draft[s] # NoKey => draft[s] \in drafts[s]
       /\ found[s] => insight[draft[s]] # "none"
  /\ \A j \in Job :
       /\ subject[j] # NoKey <=> jobPc[j] = "insert"
       /\ subject[j] # NoKey => subject[j] \in todo[j]

AdviceInit ==
  /\ health = [p \in Provider |-> "connected"]
  /\ insight = [k \in Key |-> "none"] /\ emitted = [k \in Key |-> 0]
  /\ sweepPc = [s \in Sweep |-> "idle"] /\ drafts = [s \in Sweep |-> {}]
  /\ draft = [s \in Sweep |-> NoKey] /\ found = [s \in Sweep |-> FALSE]
  /\ rec = [k \in Key |-> "none"] /\ history = [k \in Key |-> "none"]
  /\ proposals = [k \in Key |-> 0]
  /\ jobPc = [j \in Job |-> "idle"] /\ todo = [j \in Job |-> {}]
  /\ subject = [j \in Job |-> NoKey]
  /\ transitions = 0 /\ adviceFaults = 0

-----------------------------------------------------------------------------
(* The integrations, as the generators read them.                          *)

(* A disconnect, a reconnect or a sync, and 48 hours without one.          *)
HealthChanges(p) ==
  /\ \E h \in {"connected", "stale", "revoked"} \ {health[p]} :
       /\ h = "stale" => health[p] = "connected"
       /\ health' = [health EXCEPT ![p] = h]
  /\ UNCHANGED <<insight, emitted, sweepVars, rec, history, proposals, jobVars,
                 transitions, adviceFaults>>

(* IntegrationHealthGenerator.generate: a complete snapshot of the         *)
(* warnings that hold.                                                     *)
HealthDrafts ==
  {<<p, "disconnected">> : p \in {q \in Provider : health[q] = "revoked"}}
    \union {<<p, "stale">> : p \in {q \in Provider : health[q] = "stale"}}

(* GrowthMetricsGenerator.generate: nothing to compare with, a change      *)
(* under a fifth, or one draft that says which way the metric went.        *)
GrowthDrafts(p, current, previous) ==
  IF previous <= 0 \/ 5 * (current - previous) \in (1 - previous)..(previous - 1)
  THEN {}
  ELSE {<<p, IF current < previous THEN "down" ELSE "up">>}

-----------------------------------------------------------------------------
(* InsightsEngine.run.                                                     *)

(* runAll, or runForEvent with an integration event: the health generator  *)
(* has read.                                                               *)
GenerateHealth(s) ==
  /\ sweepPc[s] = "idle"
  /\ drafts' = [drafts EXCEPT ![s] = HealthDrafts]
  /\ sweepPc' = [sweepPc EXCEPT ![s] = "resolve"]
  /\ UNCHANGED <<health, insight, emitted, draft, found, rec, history,
                 proposals, jobVars, transitions, adviceFaults>>

(* run's catch: a generator that throws has no drafts, and for the health  *)
(* generator that reads as "nothing is wrong".                             *)
GenerateThrows(s) ==
  /\ adviceFaults < MaxAdviceFaults /\ sweepPc[s] = "idle"
  /\ sweepPc' = [sweepPc EXCEPT ![s] = "resolve"]
  /\ adviceFaults' = adviceFaults + 1
  /\ UNCHANGED <<health, insight, emitted, drafts, draft, found, rec, history,
                 proposals, jobVars, transitions>>

(* runForEvent with a sync event: only the growth generator is triggered.  *)
GenerateGrowth(s) ==
  /\ sweepPc[s] = "idle"
  /\ \E p \in Provider, w \in Weeks :
       drafts' = [drafts EXCEPT ![s] = GrowthDrafts(p, w[1], w[2])]
  /\ sweepPc' = [sweepPc EXCEPT ![s] = "persist"]
  /\ UNCHANGED <<health, insight, emitted, draft, found, rec, history,
                 proposals, jobVars, transitions, adviceFaults>>

(* The warnings dismissResolvedIntegrationInsights takes back.             *)
ResolvedNone(s) == {}
Resolved(s) == {k \in HealthKey \ drafts[s] : insight[k] = "active"}

DismissResolved(s) ==
  /\ sweepPc[s] = "resolve"
  /\ insight' =
       [k \in Key |-> IF k \in Resolved(s) THEN "dismissed" ELSE insight[k]]
  /\ sweepPc' = [sweepPc EXCEPT ![s] = "persist"]
  /\ UNCHANGED <<health, emitted, drafts, draft, found, rec, history,
                 proposals, jobVars, transitions, adviceFaults>>

(* persist: its SELECT.                                                    *)
PersistSelect(s) ==
  /\ sweepPc[s] = "persist"
  /\ \E k \in drafts[s] :
       /\ draft' = [draft EXCEPT ![s] = k]
       /\ found' = [found EXCEPT ![s] = insight[k] # "none"]
  /\ sweepPc' = [sweepPc EXCEPT ![s] = "write"]
  /\ UNCHANGED <<health, insight, emitted, drafts, rec, history, proposals,
                 jobVars, transitions, adviceFaults>>

SweepEnds(s) ==
  /\ sweepPc' = [sweepPc EXCEPT ![s] = "idle"]
  /\ drafts' = [drafts EXCEPT ![s] = {}]
  /\ draft' = [draft EXCEPT ![s] = NoKey]
  /\ found' = [found EXCEPT ![s] = FALSE]

(* The events the transaction publishes: only a new row is announced.      *)
Announced(s) == IF found[s] THEN 0 ELSE 1

(* persist: the UPDATE of the row, or the INSERT and its event.            *)
PersistWrite(s) ==
  /\ sweepPc[s] = "write"
  /\ found[s] \/ insight[draft[s]] = "none"
  /\ insight' = [insight EXCEPT ![draft[s]] = "active"]
  /\ emitted' = [emitted EXCEPT ![draft[s]] = @ + Announced(s)]
  /\ sweepPc' = [sweepPc EXCEPT ![s] = "persist"]
  /\ drafts' = [drafts EXCEPT ![s] = @ \ {draft[s]}]
  /\ draft' = [draft EXCEPT ![s] = NoKey]
  /\ found' = [found EXCEPT ![s] = FALSE]
  /\ UNCHANGED <<health, rec, history, proposals, jobVars, transitions,
                 adviceFaults>>

(* Another run has inserted the row since: the unique key refuses the      *)
(* INSERT, and the error leaves run() with the other drafts unwritten.     *)
PersistConflict(s) ==
  /\ sweepPc[s] = "write"
  /\ ~ found[s] /\ insight[draft[s]] # "none"
  /\ SweepEnds(s)
  /\ UNCHANGED <<health, insight, emitted, rec, history, proposals, jobVars,
                 transitions, adviceFaults>>

SweepReturns(s) ==
  /\ sweepPc[s] = "persist" /\ drafts[s] = {}
  /\ SweepEnds(s)
  /\ UNCHANGED <<health, insight, emitted, rec, history, proposals, jobVars,
                 transitions, adviceFaults>>

SweepDies(s) ==
  /\ adviceFaults < MaxAdviceFaults /\ sweepPc[s] # "idle"
  /\ SweepEnds(s)
  /\ adviceFaults' = adviceFaults + 1
  /\ UNCHANGED <<health, insight, emitted, rec, history, proposals, jobVars,
                 transitions>>

-----------------------------------------------------------------------------
(* RecommendationService.generateFromInsights.                             *)

(* Mutant: the query asks for no status of the recommendation.             *)
StaleAny == {k \in Key : rec[k] # "none" /\ insight[k] # "active"}

(* The open recommendations whose insight is no longer active.             *)
Stale == {k \in Key : rec[k] \in Open /\ insight[k] # "active"}

ReadStale(j) ==
  /\ jobPc[j] = "idle"
  /\ todo' = [todo EXCEPT ![j] = Stale]
  /\ jobPc' = [jobPc EXCEPT ![j] = IF Stale = {} THEN "read" ELSE "dismiss"]
  /\ UNCHANGED <<health, insight, emitted, sweepVars, rec, history, proposals,
                 subject, transitions, adviceFaults>>

(* One transaction for the rows read before, whatever they have become:    *)
(* the update names the id alone.                                          *)
DismissStale(j) ==
  /\ jobPc[j] = "dismiss"
  /\ rec' = [k \in Key |-> IF k \in todo[j] THEN "dismissed" ELSE rec[k]]
  /\ history' =
       [k \in Key |-> IF k \in todo[j] THEN "dismissed" ELSE history[k]]
  /\ todo' = [todo EXCEPT ![j] = {}]
  /\ jobPc' = [jobPc EXCEPT ![j] = "read"]
  /\ UNCHANGED <<health, insight, emitted, sweepVars, proposals, subject,
                 transitions, adviceFaults>>

ReadActive(j) ==
  /\ jobPc[j] = "read"
  /\ todo' = [todo EXCEPT ![j] = {k \in Key : insight[k] = "active"}]
  /\ jobPc' = [jobPc EXCEPT ![j] = "propose"]
  /\ UNCHANGED <<health, insight, emitted, sweepVars, rec, history, proposals,
                 subject, transitions, adviceFaults>>

(* A recommendation of the insight exists, in whatever status: no other.   *)
ProposableAgain(k) == rec[k] \in {"none"} \union Settled
Proposable(k) == rec[k] = "none"

ProposeSelect(j) ==
  /\ jobPc[j] = "propose"
  /\ \E k \in todo[j] :
       \/ /\ ~ Proposable(k)
          /\ todo' = [todo EXCEPT ![j] = @ \ {k}]
          /\ UNCHANGED <<jobPc, subject>>
       \/ /\ Proposable(k)
          /\ subject' = [subject EXCEPT ![j] = k]
          /\ jobPc' = [jobPc EXCEPT ![j] = "insert"]
          /\ UNCHANGED todo
  /\ UNCHANGED <<health, insight, emitted, sweepVars, rec, history, proposals,
                 transitions, adviceFaults>>

JobEnds(j) ==
  /\ jobPc' = [jobPc EXCEPT ![j] = "idle"]
  /\ todo' = [todo EXCEPT ![j] = {}]
  /\ subject' = [subject EXCEPT ![j] = NoKey]

(* The row, its first history row and its event.                           *)
ProposeInsert(j) ==
  /\ jobPc[j] = "insert"
  /\ Proposable(subject[j])
  /\ rec' = [rec EXCEPT ![subject[j]] = "proposed"]
  /\ history' = [history EXCEPT ![subject[j]] = "proposed"]
  /\ proposals' = [proposals EXCEPT ![subject[j]] = @ + 1]
  /\ todo' = [todo EXCEPT ![j] = @ \ {subject[j]}]
  /\ subject' = [subject EXCEPT ![j] = NoKey]
  /\ jobPc' = [jobPc EXCEPT ![j] = "propose"]
  /\ UNCHANGED <<health, insight, emitted, sweepVars, transitions, adviceFaults>>

(* The unique key refuses the second INSERT of two jobs; the job fails.    *)
ProposeConflict(j) ==
  /\ jobPc[j] = "insert"
  /\ ~ Proposable(subject[j])
  /\ JobEnds(j)
  /\ UNCHANGED <<health, insight, emitted, sweepVars, rec, history, proposals,
                 transitions, adviceFaults>>

JobReturns(j) ==
  /\ jobPc[j] = "propose" /\ todo[j] = {}
  /\ JobEnds(j)
  /\ UNCHANGED <<health, insight, emitted, sweepVars, rec, history, proposals,
                 transitions, adviceFaults>>

JobDies(j) ==
  /\ adviceFaults < MaxAdviceFaults /\ jobPc[j] # "idle"
  /\ JobEnds(j)
  /\ adviceFaults' = adviceFaults + 1
  /\ UNCHANGED <<health, insight, emitted, sweepVars, rec, history, proposals,
                 transitions>>

-----------------------------------------------------------------------------
(* RecommendationService.transition: the row lock makes it one step.       *)

Allowed ==
  [none |-> {},
   proposed |-> {"approved", "dismissed", "expired"},
   approved |-> {"in_progress", "dismissed", "expired"},
   in_progress |-> {"completed", "dismissed"},
   completed |-> {}, dismissed |-> {}, expired |-> {}]

(* The history row every transition writes.                                *)
Recorded(to) == to

Transition(k, to) ==
  /\ transitions < MaxTransitions
  /\ to \in Allowed[rec[k]]
  /\ rec' = [rec EXCEPT ![k] = to]
  /\ history' = [history EXCEPT ![k] = Recorded(to)]
  /\ transitions' = transitions + 1
  /\ UNCHANGED <<health, insight, emitted, sweepVars, proposals, jobVars,
                 adviceFaults>>

-----------------------------------------------------------------------------
SweepStep(s) ==
  \/ GenerateHealth(s)
  \/ DismissResolved(s)
  \/ PersistSelect(s)
  \/ PersistWrite(s)
  \/ PersistConflict(s)
  \/ SweepReturns(s)

JobStep(j) ==
  \/ ReadStale(j)
  \/ DismissStale(j)
  \/ ReadActive(j)
  \/ ProposeSelect(j)
  \/ ProposeInsert(j)
  \/ ProposeConflict(j)
  \/ JobReturns(j)

AdviceNext ==
  \/ \E p \in Provider : HealthChanges(p)
  \/ \E s \in Sweep : 
       SweepStep(s) \/ GenerateGrowth(s) \/ GenerateThrows(s) \/ SweepDies(s)
  \/ \E j \in Job : JobStep(j) \/ JobDies(j)
  \/ \E k \in Key, to \in RecStatus : Transition(k, to)

(* Both kinds of run are scheduled again and again, and a run that has     *)
(* begun goes on; nothing is assumed of users, of syncs and of faults.  A  *)
(* sweep slot may be taken by growth runs at most for a while: the         *)
(* scheduler calls runAll whatever events arrive.                          *)
AdviceFairness ==
  /\ \A s \in Sweep : WF_adviceVars(SweepStep(s)) /\ SF_adviceVars(GenerateHealth(s))
  /\ \A j \in Job : WF_adviceVars(JobStep(j))

AdviceSpec == AdviceInit /\ [][AdviceNext]_adviceVars /\ AdviceFairness

-----------------------------------------------------------------------------
(* Whatever runs overlap, an insight is announced once: when its row is    *)
(* new (the comment of the engine: re-detecting must not re-emit).         *)
AnnouncedOnce ==
  \A k \in Key : emitted[k] = IF insight[k] = "none" THEN 0 ELSE 1

(* The history tells the truth of every recommendation: its latest row     *)
(* names the status, and an insight is proposed once in its life.          *)
HistoryIsCurrent ==
  \A k \in Key :
    /\ history[k] = rec[k]
    /\ proposals[k] = IF rec[k] = "none" THEN 0 ELSE 1

(* Announcements and history agree with the rows, whatever overlaps.       *)
AdviceIsConsistent == AnnouncedOnce /\ HistoryIsCurrent

(* The runs that read k while it was open and have yet to dismiss it.      *)
Dismissing(k) == {j \in Job : jobPc[j] = "dismiss" /\ k \in todo[j]}

(* Work on k has begun, or k is settled, and no run holds an older read.   *)
Decided(k) == rec[k] \notin Open \union {"none"} /\ Dismissing(k) = {}

UserChanges(k) == rec'[k] \in Allowed[rec[k]] /\ transitions' = transitions + 1

(* What was decided about a recommendation stands.  Once it is settled it  *)
(* never comes back as open work, even when its insight does.  Once work   *)
(* has begun or it is settled, only users change it, and only along the    *)
(* transitions: no later run of the job comes to dismiss it.  The one      *)
(* exception is named by Decided: a run that had read it while it was open *)
(* and has not written yet dismisses it whatever the user made of it, even *)
(* completed (recommendation.service.ts:27-34, 126-148).                   *)
DecisionsStand ==
  [][\A k \in Key :
       /\ rec[k] \in Settled => rec'[k] \in Settled
       /\ Decided(k) => Decided(k)' /\ (rec'[k] = rec[k] \/ UserChanges(k))]_adviceVars

(* Sweeps out of order may dismiss a warning that has come back or revive  *)
(* one that is over, but once a connection stays as it is, its warnings    *)
(* come to say so and stay.                                                *)
WarningsSettle ==
  \A p \in Provider :
    /\ <>[](health[p] = "connected") =>
         <>[](insight[<<p, "stale">>] # "active"
              /\ insight[<<p, "disconnected">>] # "active")
    /\ <>[](health[p] = "revoked") =>
         <>[](insight[<<p, "disconnected">>] = "active")

(* Once an insight stays dismissed, nobody is asked to act on it any more; *)
(* and one that stays active has been proposed.                            *)
AdviceFollowsInsight ==
  \A k \in Key :
    /\ <>[](insight[k] = "dismissed") => <>[](rec[k] \notin Open)
    /\ <>[](insight[k] = "active") => <>[](rec[k] # "none")
=============================================================================
