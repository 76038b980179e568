----------------------------- MODULE MCBackground -----------------------------
(* What the workers do on their own: insights and recommendations, Google    *)
(* connections and syncs, websites and audits.  The components share no      *)
(* state the models tell apart, so each behaviour runs one part of one       *)
(* component, named by the variable part, and the others stay as they began. *)
(* A gate bounds a part.                                                     *)
EXTENDS Advice, GoogleConnections, SeoWebsites

CONSTANTS
  Parts,
  s1, s2, j1, j2,  \* runs of the insights engine and of the recommendation job
  ga4, gbp,        \* an analytics property and a business profile
  st2, y1, y2,     \* the second OAuth state, and syncs
  w1, w2, p1, p2   \* websites, and polls of their audits

VARIABLE part

(* A week's visits and those of the week before.                             *)
OneDrop == {<<3, 5>>}
ProviderOfResource == [r \in {ga4, gbp} |-> r]
IdentityOfSite == [w \in {w1, w2} |-> w]

backgroundVars == <<part, adviceVars, googleVars, websiteVars>>

BackgroundInit ==
  /\ part \in Parts
  /\ AdviceInit /\ GoogleInit /\ WebsiteInit

(* The step of part, the other components at rest.                           *)
Advising(p, A) ==
  /\ part = p /\ A
  /\ UNCHANGED <<part, googleVars, websiteVars>>
Connecting(p, A) ==
  /\ part = p /\ A
  /\ UNCHANGED <<part, adviceVars, websiteVars>>
Auditing(p, A) ==
  /\ part = p /\ A
  /\ UNCHANGED <<part, adviceVars, googleVars>>

(* Two sweeps and no job; or two jobs beside one sweep, without connections  *)
(* that go silent and without the growth generator.                          *)
SweepsOnly == \A j \in Job : jobPc'[j] = "idle"
JobsAndASweep ==
  /\ sweepPc'[s2] = "idle"
  /\ \A p \in Provider : health'[p] # "stale"
  /\ drafts' # drafts => \A s \in Sweep : drafts'[s] \subseteq HealthKey

(* Syncs of the business profile under one authorization; or callbacks that  *)
(* meet users, without syncs.                                                *)
SyncsOnly ==
  /\ Len(auths') <= 1 /\ states'[st2] = "none"
  /\ google'[ga4].auth = NoAuth /\ source'[ga4] = 1
  /\ \A f \in Flow : ga4 \notin flow'[f].todo
FlowsOnly ==
  /\ sync' = sync /\ source' = source
  /\ \A a \in DOMAIN auths' : auths'[a].refreshable /\ ~ auths'[a].expired

(* Website requests without audits; or audits of one website.                *)
SitesOnly == UNCHANGED auditVars
AuditsOnly ==
  siteRequests' <= 1 /\ \A r \in SiteRequest : siteRequest'[r].site # w2

BackgroundNext ==
  \/ Advising("sweeps", AdviceNext /\ SweepsOnly)
  \/ Advising("jobs", AdviceNext /\ JobsAndASweep)
  \/ Connecting("sync", GoogleNext /\ SyncsOnly)
  \/ Connecting("flow", GoogleNext /\ FlowsOnly)
  \/ Auditing("sites", WebsiteNext /\ SitesOnly)
  \/ Auditing("audits", WebsiteNext /\ AuditsOnly)

(* The fairness of the components: a behaviour has one part, so the steps    *)
(* of all parts share their conditions.  Of the slots of syncs, one that     *)
(* Google answers is enough.                                                 *)
GoesOn(s, j, y, p) ==
  \/ Advising("sweeps", SweepStep(s))
  \/ Advising("jobs", JobStep(j))
  \/ Connecting("sync", SyncStep(y))
  \/ Auditing("audits", PollStep(p))

BackgroundFairness ==
  /\ WF_backgroundVars(GoesOn(s1, j1, y1, p1))
  /\ WF_backgroundVars(GoesOn(s2, j2, y2, p2))
  /\ WF_backgroundVars(Advising("jobs", SweepStep(s1)))
  /\ SF_backgroundVars(
       \/ Advising("sweeps", GenerateHealth(s1))
       \/ Advising("jobs", GenerateHealth(s1))
       \/ Connecting("sync", \E s \in Sync : jobOn[gbp] /\ SyncBegin(s, gbp))
       \/ Auditing("audits", PollJobRuns(w1)))
  /\ SF_backgroundVars(
       \/ Advising("sweeps", GenerateHealth(s2))
       \/ Connecting("sync", \E s \in Sync : AccessToken(s)))
  /\ SF_backgroundVars(Connecting("sync", \E s \in Sync : Fetch(s)))
  /\ SF_backgroundVars(Connecting("sync", \E s \in Sync : SyncReviews(s)))

BackgroundSpec ==
  BackgroundInit /\ [][BackgroundNext]_backgroundVars /\ BackgroundFairness

-----------------------------------------------------------------------------
(* Every component's variables keep their types and shapes.                  *)
BackgroundTypeOK == AdviceTypeOK /\ GoogleTypeOK /\ WebsiteTypeOK

(* What is stored is what happened, whatever overlaps: a sync's cursor names *)
(* the data its transaction wrote, an authorization notes what was connected *)
(* under it, a website stays active while others are retired, a retired one  *)
(* is left alone, and an audit is paid for once (google-sync.service.ts,     *)
(* google.service.ts, dataforseo.service.ts).                                *)
StoredIsTrue ==
  /\ CursorTellsData /\ NotedWasLinked
  /\ SomeWebsiteActive /\ RetiredIsSilent /\ AuditBoughtOnce

(* Once the world stays as it is, the system comes to say so, whatever stale *)
(* reads were still under way: warnings and recommendations follow the       *)
(* connections and the insights, stored data follows Google's, a finished    *)
(* audit is completed (insights.engine.ts, recommendation.service.ts,        *)
(* google-sync.service.ts, dataforseo.service.ts).                           *)
BackgroundSettles ==
  /\ part = "sweeps" => WarningsSettle
  /\ part = "jobs" => AdviceFollowsInsight
  /\ part = "sync" => DataCatchesUp
  /\ part = "audits" => AuditCompletes
=============================================================================
