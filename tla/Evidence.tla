------------------------------ MODULE Evidence --------------------------------
(***************************************************************************)
(* The evidence the advisor's tools read for an answer: daily analytics    *)
(* of a connected property, compared with the days before; the sales       *)
(* pipeline, page by page; and GoHighLevel's operating data, one request   *)
(* per part.  Syncs, new opportunities, and locations and properties that  *)
(* are connected and disconnected come between the reads.  A stored day    *)
(* counts 1; of a number of the operating data, only whether it is zero is *)
(* told apart.                                                             *)
(***************************************************************************)
EXTENDS Integers, Sequences, FiniteSets, SequencesExt

CONSTANTS
  Property,       \* connected properties of a provider
  MaxDay, MaxDays,   \* days that pass, days a question asks for
  PageSize, MaxRecords, MaxOpportunities,
  MaxSite,        \* GoHighLevel locations of the organization
  MaxStores       \* bound on the days stored

ASSUME EvidenceAssumption ==
  /\ {MaxDay, MaxDays, PageSize, MaxRecords} \subseteq Nat \ {0}
  /\ MaxOpportunities \in Nat /\ MaxSite \in Nat /\ MaxStores \in Nat

Analytics == {"ga4", "gsc", "gbp"}
Part == {"contacts", "conversations", "appointments", "workflows", "team",
         "reputation"}
PartAnswer == {"some", "none", "failed"}
Selector == Property \union {"none", "generic", "other"}

VARIABLES
  linked,       \* the properties of each provider that are connected
  analyticsDaily,       \* analytics_daily: <<provider, property, day>>
  day,          \* today
  ask,          \* the question being answered from analytics
  answers,      \* its last answer
  crm,          \* the opportunities, newest first
  paging,       \* the pipeline being read
  pipelines,    \* its last summary
  sites,        \* the locations that are connected
  taking,       \* the snapshot being taken
  snapshot,     \* the last snapshot, nothing on offer while one is taken
  reputation    \* the reviews get_gbp_summary answered with last

snapshotVars == <<sites, taking, snapshot, reputation>>
evidenceVars ==
  <<linked, analyticsDaily, day, ask, answers, crm, paging, pipelines, sites, taking,
    snapshot, reputation>>
elsewhere == <<crm, paging, pipelines, snapshotVars>>
analyticsVars == <<linked, analyticsDaily, day, ask, answers>>

NoAsk == [at |-> "idle"]
NoAnswer == [connected |-> FALSE, available |-> FALSE]

(* Locations by the created_at of their integrations, 0 for none.  What is *)
(* offered of a part: whether it is available, whether its number is other *)
(* than zero, and, as history, whether it was read, and of which location. *)
Site == 1..MaxSite
Offers == [available : BOOLEAN, number : {0, 1}, read : BOOLEAN, site : {0} \union Site]
NotOffered == [available |-> FALSE, number |-> 0, read |-> FALSE, site |-> 0]

(* A snapshot is of a location; since: those connected since it was begun. *)
NotTaking == [site |-> 0, since |-> {}]
NoSnapshot == [site |-> 0, since |-> {}, part |-> [p \in Part |-> NotOffered]]

EvidenceTypeOK ==
  /\ linked \in [Analytics -> SUBSET Property]
  /\ analyticsDaily \subseteq Analytics \X Property \X (1..MaxDay) /\ day \in 1..MaxDay
  /\ ask.at \in {"idle", "chosen", "looked"} /\ ask.at # "idle" => ask.property \in Property
  /\ answers.available => answers.connected
  /\ crm \in Seq(1..MaxOpportunities)
  /\ paging.at \in {"idle", "reading"}
  /\ paging.at = "reading" => paging.page >= 1 /\ Len(paging.got) < paging.max
  /\ sites \subseteq Site
  /\ taking \in [site : {0} \union Site, since : SUBSET Site]
  /\ snapshot \in [site : {0} \union Site, since : SUBSET Site, part : [Part -> Offers]]
  /\ reputation \in Offers

EvidenceInit ==
  /\ linked \in [Analytics -> {{}, Property}] /\ analyticsDaily = {} /\ day = 1
  /\ ask = NoAsk /\ answers = NoAnswer
  /\ crm = << >> /\ paging = NoAsk /\ pipelines = [complete |-> FALSE]
  /\ sites = {} /\ taking = NotTaking
  /\ snapshot = NoSnapshot
  /\ reputation = NotOffered

-----------------------------------------------------------------------------
(* A sync stores a day that has begun; a property is disconnected.         *)
StoreDay(provider, property, d) ==
  /\ Cardinality(analyticsDaily) < MaxStores /\ property \in linked[provider] /\ d <= day
  /\ <<provider, property, d>> \notin analyticsDaily
  /\ analyticsDaily' = analyticsDaily \union {<<provider, property, d>>}
  /\ UNCHANGED <<linked, day, ask, answers, elsewhere>>

DisconnectProperty(provider, property) ==
  /\ property \in linked[provider]
  /\ linked' = [linked EXCEPT ![provider] = @ \ {property}]
  /\ UNCHANGED <<analyticsDaily, day, ask, answers, elsewhere>>

NextDay ==
  /\ day < MaxDay /\ day' = day + 1
  /\ UNCHANGED <<linked, analyticsDaily, ask, answers, elsewhere>>

-----------------------------------------------------------------------------
(* The property a question is about: the one named; else, for GA4, the     *)
(* only one, and for the others the one synced last.                       *)
AnsweredWith(a) == answers' = a /\ ask' = NoAsk

Chosen(provider, candidates, unnamed, days) ==
  /\ ask.at = "idle"
  /\ IF candidates = {}
     THEN AnsweredWith([connected |-> unnamed, available |-> FALSE])
     ELSE \E p \in candidates :
            /\ ask' = [at |-> "chosen", provider |-> provider, property |-> p, days |-> days]
            /\ UNCHANGED answers
  /\ UNCHANGED <<linked, analyticsDaily, day, elsewhere>>

Ga4Candidates(selector) ==
  CASE selector \in Property -> linked["ga4"] \intersect {selector}
    [] selector \in {"none", "generic"} /\ Cardinality(linked["ga4"]) = 1 -> linked["ga4"]
    [] OTHER -> {}

Candidates(provider, selector) ==
  IF selector \in Property THEN linked[provider] \intersect {selector} ELSE linked[provider]

AskGa4(selector, days) ==
  Chosen("ga4", Ga4Candidates(selector), linked["ga4"] # {}, days)
AskGsc(selector, days) == Chosen("gsc", Candidates("gsc", selector), FALSE, days)

(* Where a GoHighLevel location is connected its reviews answer instead    *)
(* (AskReputation).                                                        *)
AskGbp(selector, days) ==
  sites = {} /\ Chosen("gbp", Candidates("gbp", selector), FALSE, days)

DaysOf(provider, property) ==
  {d \in 1..MaxDay : <<provider, property, d>> \in analyticsDaily}
Latest(days) == CHOOSE d \in days : \A e \in days : e <= d

(* The latest row is looked for.  GA4 answers for the days that ended      *)
(* yesterday, the others for those up to the latest stored day.            *)
PeriodEnd(provider, latest) == IF provider = "ga4" THEN day - 1 ELSE latest

LookForLatest ==
  LET days == DaysOf(ask.provider, ask.property) IN
  /\ ask.at = "chosen"
  /\ IF days = {}
     THEN AnsweredWith([connected |-> TRUE, available |-> FALSE])
     ELSE /\ ask' = [at |-> "looked", provider |-> ask.provider, property |-> ask.property,
                     days |-> ask.days, end |-> PeriodEnd(ask.provider, Latest(days)),
                     today |-> day]
          /\ UNCHANGED answers
  /\ UNCHANGED <<linked, analyticsDaily, day, elsewhere>>

(* The current window and, as long, the one before it.                     *)
CurrentStart(end, days) == end - (days - 1)
PreviousStart(end, days) == CurrentStart(end, days) - days

(* GA4 refuses to answer without a row of the current window; the business *)
(* profile shows no comparison.                                            *)
Between(provider, property, from, until) ==
  {d \in DaysOf(provider, property) : d \in from..until}
Previous(provider, rows, current) == IF provider = "gbp" THEN {} ELSE rows \ current

MayAnswer(provider, current) == provider = "ga4" => current > 0

ReadRows ==
  LET rows == Between(ask.provider, ask.property, PreviousStart(ask.end, ask.days), ask.end)
      current == {d \in rows : d >= CurrentStart(ask.end, ask.days)} IN
  /\ ask.at = "looked"
  /\ AnsweredWith(
       IF ~MayAnswer(ask.provider, Cardinality(current))
       THEN [connected |-> TRUE, available |-> FALSE]
       ELSE [connected |-> TRUE, available |-> TRUE, provider |-> ask.provider,
             end |-> ask.end, today |-> ask.today, days |-> ask.days,
             property |-> ask.property, current |-> current, previous |-> Previous(ask.provider, rows, current)])
  /\ UNCHANGED <<linked, analyticsDaily, day, elsewhere>>

AnalyticsNext ==
  \/ \E v \in Analytics, p \in Property, d \in 1..MaxDay : StoreDay(v, p, d)
  \/ \E v \in Analytics, p \in Property : DisconnectProperty(v, p)
  \/ NextDay
  \/ \E s \in Selector, n \in 1..MaxDays : AskGa4(s, n) \/ AskGsc(s, n) \/ AskGbp(s, n)
  \/ LookForLatest \/ ReadRows

-----------------------------------------------------------------------------
(* get_ghl_pipeline_summary reads pages until it has enough, has the total *)
(* the provider reports, or gets a last page; the dashboard's own reading  *)
(* pages on until one is empty.  The provider may leave out total or next. *)
NewOpportunity ==
  /\ Len(crm) < MaxOpportunities /\ crm' = <<Len(crm) + 1>> \o crm
  /\ paging' = IF paging.at = "idle" THEN paging ELSE [paging EXCEPT !.still = FALSE]
  /\ UNCHANGED <<analyticsVars, pipelines, snapshotVars>>

OpenPipeline(max, asTool, tells) ==
  /\ paging.at = "idle"
  /\ paging' = [at |-> "reading", max |-> max, asTool |-> asTool, tells |-> tells,
                got |-> << >>, page |-> 1, total |-> -1, still |-> TRUE]
  /\ UNCHANGED <<analyticsVars, crm, pipelines, snapshotVars>>

Lesser(a, b) == IF a < b THEN a ELSE b
PageLimit(g) == Lesser(PageSize, g.max - Len(g.got))
PageOf(page, limit) ==
  SubSeq(crm, (page - 1) * limit + 1, Lesser(page * limit, Len(crm)))

(* The next page the provider names, null past the end, if it names it.    *)
LastPage(g, rows) ==
  LET ended == g.page * PageLimit(g) >= Len(crm) IN
  /\ g.asTool
  /\ IF g.tells THEN ended ELSE Len(rows) < PageSize

Complete(total, got, max) == IF total = -1 THEN Len(got) < max ELSE Len(got) >= total

ReadPage ==
  LET g == paging
      rows == PageOf(g.page, PageLimit(g))
      got == g.got \o rows
      total == IF g.total = -1 /\ g.tells THEN Len(crm) ELSE g.total IN
  /\ g.at = "reading"
  /\ IF \/ rows = << >> \/ Len(got) >= g.max \/ (total # -1 /\ Len(got) >= total)
        \/ LastPage(g, rows)
     THEN /\ paging' = NoAsk
          /\ pipelines' = [complete |-> Complete(total, got, g.max), got |-> got,
                           still |-> g.still, max |-> g.max, all |-> ToSet(crm),
                           counts |-> g.asTool \/ g.tells]
     ELSE /\ paging' = [g EXCEPT !.got = got, !.total = total, !.page = @ + 1]
          /\ UNCHANGED pipelines
  /\ UNCHANGED <<analyticsVars, crm, snapshotVars>>

(* An error of the token or of a page: no summary.                         *)
PipelineFails ==
  /\ paging.at = "reading" /\ paging' = NoAsk /\ pipelines' = [complete |-> FALSE]
  /\ UNCHANGED <<analyticsVars, crm, snapshotVars>>

PipelineNext ==
  \/ NewOpportunity \/ ReadPage \/ PipelineFails
  \/ \E m \in 1..MaxRecords, t, u \in BOOLEAN : OpenPipeline(m, t, u)

-----------------------------------------------------------------------------
(* The organization's locations come and go while its data are read.       *)
ConnectSite(l) ==
  /\ l \notin sites /\ sites' = sites \union {l}
  /\ taking' = IF taking = NotTaking THEN taking ELSE [taking EXCEPT !.since = @ \union {l}]
  /\ UNCHANGED <<analyticsVars, crm, paging, pipelines, snapshot, reputation>>

DisconnectSite(l) ==
  /\ l \in sites /\ sites' = sites \ {l}
  /\ UNCHANGED <<analyticsVars, crm, paging, pipelines, taking, snapshot, reputation>>

(* The connected integration that was created first.                       *)
FirstSite == IF sites = {} THEN 0 ELSE CHOOSE l \in sites : \A k \in sites : l <= k

Read(answer, site) ==
  [available |-> TRUE, number |-> IF answer = "some" THEN 1 ELSE 0,
   read |-> answer # "failed", site |-> site]

(* GhlReputationService.summary looks for the location itself.  When the   *)
(* credentials, the location or the reviews fail it answers with zeros, as *)
(* for a location without reviews; only its dataAvailable tells, which     *)
(* get_gbp_summary passes on.                                              *)
AskReputation(answer) ==
  /\ reputation' = IF sites = {} THEN NotOffered
                   ELSE [Read(answer, FirstSite) EXCEPT !.available = answer = "some"]
  /\ UNCHANGED <<analyticsVars, crm, paging, pipelines, sites, taking, snapshot>>

(* GhlBusinessSnapshotService.summary finds the location and asks for its  *)
(* credentials: without them every part is unavailable.                    *)
OpenSnapshot(credentials) ==
  /\ taking = NotTaking
  /\ taking' = IF sites = {} \/ ~credentials THEN NotTaking
               ELSE [site |-> FirstSite, since |-> sites]
  /\ snapshot' = NoSnapshot
  /\ UNCHANGED <<analyticsVars, crm, paging, pipelines, sites, reputation>>

(* Every part is requested for itself with these credentials, and a part   *)
(* whose request fails keeps its zeros and is unavailable.                 *)
Safe(answer, site) == IF answer = "failed" THEN NotOffered ELSE Read(answer, site)

(* Not so the reputation, for which the other service is asked.  It does   *)
(* not pass its failures on, and its dataAvailable is not looked at: the   *)
(* part is unavailable only if no location is found any more, or the       *)
(* database refuses to look (row).                                         *)
SafeReputation(answer, row) ==
  IF sites = {} \/ ~row THEN NotOffered ELSE Read(answer, FirstSite)

TakeSnapshot(answer, row) ==
  /\ taking # NotTaking /\ taking' = NotTaking
  /\ snapshot' = [site |-> taking.site, since |-> taking.since,
                  part |-> [p \in Part |-> IF p = "reputation" THEN SafeReputation(answer[p], row)
                                           ELSE Safe(answer[p], taking.site)]]
  /\ UNCHANGED <<analyticsVars, crm, paging, pipelines, sites, reputation>>

SnapshotNext ==
  \/ \E l \in Site : ConnectSite(l) \/ DisconnectSite(l)
  \/ \E c \in BOOLEAN : OpenSnapshot(c)
  \/ \E a \in [Part -> PartAnswer], r \in BOOLEAN : TakeSnapshot(a, r)
  \/ \E a \in PartAnswer : AskReputation(a)

EvidenceNext == AnalyticsNext \/ PipelineNext \/ SnapshotNext
EvidenceSpec == EvidenceInit /\ [][EvidenceNext]_evidenceVars

-----------------------------------------------------------------------------
(* An answer compares like with like: the current and the previous days    *)
(* are of two windows of one length that meet, and GA4's are complete days *)
(* with at least one of them current (the tools' execute).                 *)
ComparesLikeWithLike ==
  LET a == answers
      d(n) == a.end - n IN
  a.available =>
    /\ a.current \subseteq {d(n) : n \in 0..(a.days - 1)}
    /\ a.previous \subseteq {d(n) : n \in a.days..(2 * a.days - 1)}
    /\ a.provider = "ga4" => a.end < a.today
    /\ a.current # {}

(* A pipeline called complete was: when nobody added to it meanwhile and   *)
(* whole pages were asked for, each opportunity is counted, and once       *)
(* (get_ghl_pipeline_summary execute, dashboard.service pipelineSummary).  *)
(* The dashboard's own reading needs the provider's total for this: with   *)
(* none it pages on past a partial page with a smaller limit, which takes  *)
(* it back into what it has read (dashboard.service.ts:292).               *)
CompleteIsComplete ==
  LET p == pipelines IN
  p.complete /\ p.still /\ p.counts /\ p.max % PageSize = 0 =>
    ToSet(p.got) = p.all /\ Len(p.got) = Cardinality(p.all)

(* A snapshot is the organization's own and was read: each part on offer   *)
(* is of a location that was connected while the snapshot was taken, also  *)
(* when another took its place meanwhile, and what it shows was read.  The *)
(* reputation alone breaks out of this, and only so far: it may be of a    *)
(* later location than the other parts, and for reviews that could not be  *)
(* read it offers zeros (ghl-reputation.service.ts:125-142, 216-228), but  *)
(* never another number; get_gbp_summary does not call those available     *)
(* (ghl-business-snapshot.service.ts:31-163).                              *)
OffersWereRead ==
  /\ \A p \in Part :
       LET o == snapshot.part[p] IN
       o.available =>
         /\ o.site \in snapshot.since
         /\ o.read \/ (p = "reputation" /\ o.number = 0)
         /\ p # "reputation" => o.site = snapshot.site
  /\ reputation.available => reputation.read
=============================================================================
