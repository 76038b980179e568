---------------------------- MODULE SeoWebsites -----------------------------
(***************************************************************************)
(* The websites of one organization and their technical audits.            *)
(*                                                                         *)
(* A website is one row of seo_projects, unique in the organization.  A    *)
(* request that sets the website creates its project and then, when        *)
(* another was active, retires every other: it lists the enabled ones,     *)
(* and in a transaction of its own disables all and the jobs of those it   *)
(* listed.  Other requests create projects meanwhile.                      *)
(*                                                                         *)
(* An audit is bought from DataForSEO inside the transaction that records  *)
(* it, under an advisory lock of its fingerprint, which the project        *)
(* determines as long as all ask for the same number of pages.  A poll     *)
(* job, the provider's pingback and users then ask for the result, each on *)
(* its own.                                                                *)
(***************************************************************************)
EXTENDS Integers, Sequences, SequencesExt

CONSTANTS
  Website, NoWebsite,
  IdentityOf,      \* host of a website, without www
  SiteRequest,     \* overlapping requests that create or set a website
  Submitter,       \* overlapping requests and jobs that submit an audit
  Poller,          \* overlapping polls
  NoSubmitter,
  MaxSiteRequests, \* bound on website requests
  MaxAuditCalls,   \* bound on submissions and on polls by users
  MaxAuditFaults   \* bound on lost transactions and polls

ASSUME WebsiteAssumption ==
  /\ NoWebsite \notin Website /\ NoSubmitter \notin Submitter
  /\ {MaxSiteRequests, MaxAuditCalls, MaxAuditFaults} \subseteq Nat

VARIABLES
  project,      \* seo_projects: absent, enabled or disabled
  born,         \* websites by created_at
  auditJob,     \* websites whose weekly audit job is enabled
  keywordJob,   \* websites whose weekly keyword job is enabled
  siteRequest,  \* where each website request is
  siteRequests, \* website requests so far
  contested,    \* the last project came while another request was retiring
  raced,        \* websites created after a list that retires them was taken
  task,         \* provider_tasks of the audit of each website
  pollJob,      \* websites whose poll job is enabled
  lockedBy,     \* holder of the advisory lock of each fingerprint
  submitter,    \* where each submission is
  poller,       \* where each poll is
  bought,       \* audits the provider sold, per website
  wasted,       \* of those, the ones whose transaction was lost
  crawled,      \* websites whose audit the provider has finished
  completions,  \* websites with a SeoAuditCompleted event
  auditCalls, auditFaults

siteVars == <<project, born, auditJob, keywordJob, siteRequest, siteRequests,
              contested, raced>>
auditVars == <<task, pollJob, lockedBy, submitter, poller, bought, wasted,
               crawled, completions, auditCalls, auditFaults>>
websiteVars == <<siteVars, auditVars>>

NoRequest == [at |-> "idle", site |-> NoWebsite, active |-> NoWebsite,
              obsolete |-> {}]
NoSubmission == [at |-> "idle", site |-> NoWebsite]
NoPoll == [at |-> "idle", site |-> NoWebsite]
Sites == Website \union {NoWebsite}

WebsiteTypeOK ==
  /\ project \in [Website -> {"absent", "enabled", "disabled"}]
  /\ ToSet(born) = {w \in Website : project[w] # "absent"} /\ IsInjective(born)
  /\ {auditJob, keywordJob, raced, pollJob, crawled, completions}
       \subseteq SUBSET Website
  /\ siteRequest \in [SiteRequest ->
       [at : {"idle", "creating", "listing", "retiring"}, site : Sites,
        active : Sites, obsolete : SUBSET Website]]
  /\ siteRequests \in 0..MaxSiteRequests /\ contested \in BOOLEAN
  /\ task \in [Website -> {"none", "polling", "succeeded"}]
  /\ lockedBy \in [Website -> Submitter \union {NoSubmitter}]
  /\ submitter \in [Submitter ->
       [at : {"idle", "waiting", "buying", "recording"}, site : Sites]]
  /\ poller \in [Poller -> [at : {"idle", "asking", "storing"}, site : Sites]]
  /\ bought \in [Website -> Nat] /\ wasted \in [Website -> Nat]
  /\ auditCalls \in 0..MaxAuditCalls /\ auditFaults \in 0..MaxAuditFaults
  \* the lock is held exactly while a submission is in its transaction
  /\ \A s \in Submitter, w \in Website :
       lockedBy[w] = s <=> /\ submitter[s].site = w
                           /\ submitter[s].at \in {"buying", "recording"}

WebsiteInit ==
  /\ project = [w \in Website |-> "absent"] /\ born = <<>>
  /\ auditJob = {} /\ keywordJob = {} /\ raced = {} /\ contested = FALSE
  /\ siteRequest = [r \in SiteRequest |-> NoRequest] /\ siteRequests = 0
  /\ task = [w \in Website |-> "none"] /\ pollJob = {}
  /\ lockedBy = [w \in Website |-> NoSubmitter]
  /\ submitter = [s \in Submitter |-> NoSubmission]
  /\ poller = [p \in Poller |-> NoPoll]
  /\ bought = [w \in Website |-> 0] /\ wasted = [w \in Website |-> 0]
  /\ crawled = {} /\ completions = {} /\ auditCalls = 0 /\ auditFaults = 0

-----------------------------------------------------------------------------
(* Websites.                                                               *)

Enabled(w) == project[w] = "enabled"
EnabledSites == {w \in Website : Enabled(w)}

(* activeProject: the youngest enabled one.                                *)
ActiveProject ==
  IF EnabledSites = {} THEN NoWebsite
  ELSE born[CHOOSE i \in DOMAIN born :
              /\ Enabled(born[i])
              /\ \A k \in DOMAIN born : k > i => ~ Enabled(born[k])]

BeginSite(r, w, active) ==
  /\ siteRequest[r].at = "idle" /\ siteRequests < MaxSiteRequests
  /\ siteRequest' = [siteRequest EXCEPT ![r] =
       [at |-> "creating", site |-> w, active |-> active, obsolete |-> {}]]
  /\ siteRequests' = siteRequests + 1
  /\ UNCHANGED <<project, born, auditJob, keywordJob, contested, raced, auditVars>>

(* setWebsite: nothing to do when the active website has the same          *)
(* identity; without the user's confirmation an active one is kept.        *)
SetWebsite(r, w, confirmed) ==
  LET active == ActiveProject IN
  /\ active # NoWebsite => IdentityOf[active] # IdentityOf[w] /\ confirmed
  /\ BeginSite(r, w, active)

(* provisionWebsite, on connect, on sign-in and when the status is read.   *)
ProvisionWebsite(r, w) ==
  /\ ActiveProject = NoWebsite
  /\ BeginSite(r, w, NoWebsite)

(* The endpoint that creates a project beside the others.                  *)
PostProject(r, w) == BeginSite(r, w, NoWebsite)

Retiring(r) == siteRequest[r].at \in {"listing", "retiring"}

(* createProject: the row and its two jobs, in one transaction.            *)
CreateProject(r) ==
  LET q == siteRequest[r]
      others == SiteRequest \ {r}
  IN
  /\ q.at = "creating"
  /\ project' = [project EXCEPT ![q.site] = "enabled"]
  /\ born' = IF project[q.site] = "absent" THEN Append(born, q.site) ELSE born
  /\ auditJob' = auditJob \union {q.site}
  /\ keywordJob' = keywordJob \union {q.site}
  /\ siteRequest' = IF q.active \in {NoWebsite, q.site}
                    THEN [siteRequest EXCEPT ![r] = NoRequest]
                    ELSE [siteRequest EXCEPT ![r].at = "listing"]
  /\ contested' = \E o \in others : Retiring(o)
  /\ raced' = IF \E o \in others : siteRequest[o].at = "retiring"
              THEN raced \union {q.site} ELSE raced
  /\ UNCHANGED <<siteRequests, auditVars>>

ListObsolete(r) ==
  LET q == siteRequest[r] IN
  /\ q.at = "listing"
  /\ siteRequest' = [siteRequest EXCEPT
       ![r].at = "retiring", ![r].obsolete = EnabledSites \ {q.site}]
  /\ UNCHANGED <<project, born, auditJob, keywordJob, siteRequests, contested,
                 raced, auditVars>>

(* Every project the request did not create, whoever enabled it.           *)
OthersThan(r) == Website \ {siteRequest[r].site}

JobsLeft(jobs, obsolete) == jobs \ obsolete

RetireOthers(r) ==
  LET q == siteRequest[r] IN
  /\ q.at = "retiring"
  /\ project' = [w \in Website |->
       IF w \in OthersThan(r) /\ project[w] # "absent" THEN "disabled"
       ELSE project[w]]
  /\ auditJob' = JobsLeft(auditJob, q.obsolete)
  /\ keywordJob' = JobsLeft(keywordJob, q.obsolete)
  /\ raced' = raced \ q.obsolete
  /\ siteRequest' = [siteRequest EXCEPT ![r] = NoRequest]
  /\ UNCHANGED <<born, siteRequests, contested, auditVars>>

(* The website does not answer, or the request dies between two steps.     *)
SiteRequestLost(r) ==
  /\ siteRequest[r].at # "idle"
  /\ siteRequest' = [siteRequest EXCEPT ![r] = NoRequest]
  /\ UNCHANGED <<project, born, auditJob, keywordJob, siteRequests, contested,
                 raced, auditVars>>

-----------------------------------------------------------------------------
(* Audits.                                                                 *)

(* submitAudit, by a user or the weekly job: any existing project, also a  *)
(* disabled one.                                                           *)
SubmitAudit(s, w) ==
  /\ submitter[s].at = "idle" /\ project[w] # "absent"
  /\ auditCalls < MaxAuditCalls
  /\ submitter' = [submitter EXCEPT ![s] = [at |-> "waiting", site |-> w]]
  /\ auditCalls' = auditCalls + 1
  /\ UNCHANGED <<siteVars, task, pollJob, lockedBy, poller, bought, wasted,
                 crawled, completions, auditFaults>>

LockFreeAlways(w) == TRUE
LockFree(w) == lockedBy[w] = NoSubmitter

(* Under the lock: the task of the fingerprint, however old, is returned;  *)
(* only without one is an audit bought.                                    *)
CheckExisting(s) ==
  LET w == submitter[s].site IN
  /\ submitter[s].at = "waiting" /\ LockFree(w)
  /\ IF task[w] # "none"
     THEN /\ submitter' = [submitter EXCEPT ![s] = NoSubmission]
          /\ UNCHANGED lockedBy
     ELSE /\ submitter' = [submitter EXCEPT ![s].at = "buying"]
          /\ lockedBy' = [lockedBy EXCEPT ![w] = s]
  /\ UNCHANGED <<siteVars, task, pollJob, poller, bought, wasted, crawled,
                 completions, auditCalls, auditFaults>>

BuyAudit(s) ==
  /\ submitter[s].at = "buying"
  /\ bought' = [bought EXCEPT ![submitter[s].site] = @ + 1]
  /\ submitter' = [submitter EXCEPT ![s].at = "recording"]
  /\ UNCHANGED <<siteVars, task, pollJob, lockedBy, poller, wasted, crawled,
                 completions, auditCalls, auditFaults>>

EndsHoldingLock(s) ==
  /\ submitter' = [submitter EXCEPT ![s] = NoSubmission]
  /\ UNCHANGED lockedBy
EndsSubmission(s) ==
  /\ submitter' = [submitter EXCEPT ![s] = NoSubmission]
  /\ lockedBy' = [w \in Website |->
       IF lockedBy[w] = s THEN NoSubmitter ELSE lockedBy[w]]

(* The task, the audit and the poll job are committed.                     *)
RecordAudit(s) ==
  LET w == submitter[s].site IN
  /\ submitter[s].at = "recording"
  /\ task' = [task EXCEPT ![w] = "polling"]
  /\ pollJob' = pollJob \union {w}
  /\ EndsSubmission(s)
  /\ UNCHANGED <<siteVars, poller, bought, wasted, crawled, completions,
                 auditCalls, auditFaults>>

(* The provider refuses, or the transaction is lost - with the audit it    *)
(* bought, when it had.                                                    *)
SubmissionLost(s) ==
  /\ submitter[s].at # "idle" /\ auditFaults < MaxAuditFaults
  /\ wasted' = IF submitter[s].at = "recording"
               THEN [wasted EXCEPT ![submitter[s].site] = @ + 1] ELSE wasted
  /\ auditFaults' = auditFaults + 1
  /\ EndsSubmission(s)
  /\ UNCHANGED <<siteVars, task, pollJob, poller, bought, crawled, completions,
                 auditCalls>>

CrawlDone(w) ==
  /\ task[w] = "polling" /\ w \notin crawled
  /\ crawled' = crawled \union {w}
  /\ UNCHANGED <<siteVars, task, pollJob, lockedBy, submitter, poller, bought,
                 wasted, completions, auditCalls, auditFaults>>

BeginPoll(p, w) ==
  /\ poller[p].at = "idle" /\ task[w] # "none"
  /\ poller' = [poller EXCEPT ![p] = [at |-> "asking", site |-> w]]
  /\ UNCHANGED <<siteVars, task, pollJob, lockedBy, submitter, bought, wasted,
                 crawled, completions, auditFaults>>

(* The hourly job.                                                         *)
PollByJob(p, w) == w \in pollJob /\ BeginPoll(p, w) /\ UNCHANGED auditCalls

(* A user, or the provider's pingback, also of an audit that is complete.  *)
PollByRequest(p, w) ==
  /\ auditCalls < MaxAuditCalls
  /\ BeginPoll(p, w)
  /\ auditCalls' = auditCalls + 1

PollJobAfter(w, ready) == pollJob

(* The provider answers: with the result, or that there is none yet.       *)
AskSummary(p) ==
  LET w == poller[p].site
      ready == w \in crawled
  IN
  /\ poller[p].at = "asking"
  /\ poller' = [poller EXCEPT ![p] =
       IF ready THEN [at |-> "storing", site |-> w] ELSE NoPoll]
  /\ pollJob' = PollJobAfter(w, ready)
  /\ UNCHANGED <<siteVars, task, lockedBy, submitter, bought, wasted, crawled,
                 completions, auditCalls, auditFaults>>

(* Task, audit, integration, poll job and event, in one transaction.       *)
StoreSummary(p) ==
  LET w == poller[p].site IN
  /\ poller[p].at = "storing"
  /\ task' = [task EXCEPT ![w] = "succeeded"]
  /\ pollJob' = pollJob \ {w}
  /\ completions' = completions \union {w}
  /\ poller' = [poller EXCEPT ![p] = NoPoll]
  /\ UNCHANGED <<siteVars, lockedBy, submitter, bought, wasted, crawled,
                 auditCalls, auditFaults>>

PollLost(p) ==
  /\ poller[p].at # "idle" /\ auditFaults < MaxAuditFaults
  /\ poller' = [poller EXCEPT ![p] = NoPoll]
  /\ auditFaults' = auditFaults + 1
  /\ UNCHANGED <<siteVars, task, pollJob, lockedBy, submitter, bought, wasted,
                 crawled, completions, auditCalls>>

-----------------------------------------------------------------------------
SiteNext ==
  \E r \in SiteRequest :
    \/ \E w \in Website :
         \/ \E confirmed \in BOOLEAN : SetWebsite(r, w, confirmed)
         \/ ProvisionWebsite(r, w) \/ PostProject(r, w)
    \/ CreateProject(r) \/ ListObsolete(r) \/ RetireOthers(r)
    \/ SiteRequestLost(r)

SubmitStep(s) ==
  CheckExisting(s) \/ BuyAudit(s) \/ RecordAudit(s) \/ SubmissionLost(s)
PollStep(p) == AskSummary(p) \/ StoreSummary(p) \/ PollLost(p)
PollJobRuns(w) == \E p \in Poller : PollByJob(p, w)

AuditNext ==
  \/ \E s \in Submitter :
       (\E w \in Website : SubmitAudit(s, w)) \/ SubmitStep(s)
  \/ \E p \in Poller :
       (\E w \in Website : PollByRequest(p, w)) \/ PollStep(p)
  \/ \E w \in Website : CrawlDone(w) \/ PollJobRuns(w)

WebsiteNext == SiteNext \/ AuditNext

(* The scheduler runs an enabled job whatever users do; a poll it started  *)
(* ends.                                                                   *)
WebsiteSpec ==
  /\ WebsiteInit /\ [][WebsiteNext]_websiteVars
  /\ \A p \in Poller : WF_websiteVars(PollStep(p))
  /\ \A w \in Website : SF_websiteVars(PollJobRuns(w))

-----------------------------------------------------------------------------
(* An organization with a website has an active one - unless two requests  *)
(* overlapped so that each retired what the other had just created.        *)
SomeWebsiteActive ==
  born # <<>> /\ ~ contested => ActiveProject # NoWebsite

(* A retired website is not audited or measured any more by the scheduler, *)
(* unless it was created again after the list that retired it was taken.   *)
RetiredIsSilent ==
  \A w \in Website \ raced :
    project[w] = "disabled" => w \notin auditJob \union keywordJob

(* "Concurrent HTTP requests cannot purchase two audits": one audit per    *)
(* fingerprint, and one more for each transaction that was lost with it.   *)
AuditBoughtOnce ==
  \A w \in Website : bought[w] <= 1 + wasted[w]

(* A recorded audit that the provider has finished comes to be completed,  *)
(* with its event, whoever else polls it.                                  *)
AuditCompletes ==
  \A w \in Website :
    <>[](w \in crawled) => <>[](w \in completions)
=============================================================================
