----------------------------- MODULE Reporting --------------------------------
(***************************************************************************)
(* The dashboards of one organization: the mart refresh recomputes from    *)
(* the stored analytics and the active insights, the reports and briefs    *)
(* read from it, and the content drafts paid for by the organization.      *)
(*                                                                         *)
(* A refresh reads the analytics, then the insights, then deletes and      *)
(* rewrites its window in one transaction (READ COMMITTED).  The scheduler *)
(* and every dashboard request that finds nothing may refresh at once.     *)
(***************************************************************************)
EXTENDS Integers, FiniteSets, Sequences

CONSTANTS
  Refresher,     \* overlapping refreshes
  Reporter,      \* a report or brief being generated
  Author,        \* overlapping requests for a content draft
  NoAuthor,
  Insight,       \* [id, category, severity]
  Title,         \* titles of drafts
  LastDay, WindowDays,
  MaxMoves       \* bound on syncs, insight changes, midnights, refreshes

ASSUME ReportingAssumption ==
  /\ LastDay \in Nat /\ WindowDays \in 1..LastDay /\ MaxMoves \in Nat
  /\ NoAuthor \notin Author

DailySource == {"google_analytics_4", "google_search_console"}
Day == 1..LastDay

VARIABLES
  daily,        \* analytics_daily: the value of each source and day, 0 if none
  active,       \* the active insights
  today,
  refresher,    \* where each refresh is
  mart,         \* dashboard_metrics
  report,       \* executive_reports, by the period's last day
  reporter,     \* where each report is
  scheduled,    \* the organization's dashboard jobs are enabled
  author,       \* where each draft request is
  draftLock,    \* the author that holds the advisory lock of a day and title
  draft,        \* the drafts stored, <<day, title>>
  wasted,       \* a model call was paid for a draft that existed
  queries,      \* the search query shown last on the SEO page
  moves

martVars == <<daily, active, mart, refresher>>
draftVars == <<author, draftLock, draft, wasted, queries>>
reportingVars ==
  <<daily, active, today, refresher, mart, report, reporter, scheduled, author,
    draftLock, draft, wasted, queries, moves>>

NotRunning == [at |-> "idle"]

ReportingTypeOK ==
  /\ daily \in [DailySource \X Day -> 0..2] /\ active \subseteq Insight
  /\ today \in Day /\ moves \in 0..MaxMoves
  /\ \A r \in Refresher : refresher[r].at \in {"idle", "read", "ready", "deleted"}
  /\ \A p \in Reporter : reporter[p].at \in {"idle", "read"}
  /\ \A a \in Author : author[a].at \in {"idle", "waiting", "drafting"}
  /\ \A m \in mart : m.day \in Day /\ m.reading \in 1..MaxMoves
  /\ scheduled \in BOOLEAN /\ wasted \in BOOLEAN
  /\ queries.impressions \in Nat /\ queries.weighted \in Nat
  /\ draft \subseteq Day \X Title
  /\ draftLock \in [Day \X Title -> Author \union {NoAuthor}]
  /\ \A a \in Author : author[a].at = "drafting" => draftLock[author[a].key] = a

ReportingInit ==
  /\ daily = [k \in DailySource \X Day |-> 0] /\ active = {} /\ today = WindowDays
  /\ refresher = [r \in Refresher |-> NotRunning] /\ mart = {}
  /\ report = [d \in Day |-> {}] /\ reporter = [p \in Reporter |-> NotRunning]
  /\ scheduled \in BOOLEAN /\ moves = 0
  /\ author = [a \in Author |-> NotRunning]
  /\ draftLock = [k \in Day \X Title |-> NoAuthor]
  /\ draft = {} /\ wasted = FALSE
  /\ queries = [of |-> << >>, impressions |-> 0, weighted |-> 0]

Moved == moves < MaxMoves /\ moves' = moves + 1
RefresherGoes(r, to) == refresher' = [refresher EXCEPT ![r] = to]

-----------------------------------------------------------------------------
(* What others do meanwhile: a sync stores a day, the engine opens and     *)
(* resolves insights, the day ends.                                        *)
SyncStores(source, day) ==
  /\ Moved /\ day <= today
  /\ daily' = [daily EXCEPT ![<<source, day>>] = IF @ = 0 THEN 1 ELSE 3 - @]
  /\ UNCHANGED <<active, today, refresher, mart, report, reporter, scheduled, draftVars>>

InsightChanges(i) ==
  /\ Moved
  /\ active' = IF i \in active THEN active \ {i} ELSE active \union {i}
  /\ UNCHANGED <<daily, today, refresher, mart, report, reporter, scheduled, draftVars>>

Midnight ==
  /\ Moved /\ today < LastDay /\ today' = today + 1
  /\ UNCHANGED <<martVars, report, reporter, scheduled, draftVars>>

-----------------------------------------------------------------------------
(* The window of a dashboard, its last day and the days before it.         *)
WindowStart(end) == end - (WindowDays - 1)

(* Search Console feeds the SEO dashboard; sessions, conversions and       *)
(* revenue are shown on the executive and on the revenue dashboard.        *)
DashboardsOf(source) ==
  IF source = "google_search_console" THEN {"seo"} ELSE {"executive", "revenue"}

DailyRows(end, reading) ==
  {[dashboard |-> x[2], day |-> x[1][2], name |-> "sessions", dimension |-> "",
    source |-> x[1][1], value |-> daily[x[1]], from |-> x[1][1], reading |-> reading,
    until |-> end] :
      x \in {y \in (DailySource \X Day) \X {"seo", "executive", "revenue"} :
               /\ daily[y[1]] # 0 /\ y[2] \in DashboardsOf(y[1][1])
               /\ y[1][2] \in WindowStart(end)..end}}

(* The active insights, counted by category and severity, as of today.     *)
InsightDashboard(category) ==
  IF category \in {"seo", "gbp"} THEN category ELSE "executive"

InsightRows(end, reading) ==
  {[dashboard |-> InsightDashboard(i.category), day |-> end,
    name |-> "active_insights", dimension |-> i.severity,
    source |-> "insights_engine", from |-> i.category, reading |-> reading,
    until |-> end, value |-> Cardinality({j \in active : j.category = i.category
                                           /\ j.severity = i.severity})] :
     i \in active}

(* dashboard_metrics_identity_key.                                         *)
Identity(row) == <<row.dashboard, row.day, row.name, row.dimension, row.source>>
Distinct(rows) == \A a, b \in rows : Identity(a) = Identity(b) => a = b
Clashing(rows, others) == \E a \in rows, b \in others : Identity(a) = Identity(b)

-----------------------------------------------------------------------------
Query(dashboard) ==
  {m \in mart : m.dashboard = dashboard /\ m.day >= WindowStart(today)}

ReadDaily(r) ==
  /\ refresher[r].at = "idle" /\ Moved
  /\ RefresherGoes(r, 
       [at |-> "read", end |-> today, reading |-> moves',
        rows |-> DailyRows(today, moves')])

ScheduledRefresh(r) ==
  /\ scheduled /\ ReadDaily(r)
  /\ UNCHANGED <<daily, active, today, mart, report, reporter, scheduled, draftVars>>

(* cmoSummary enables the organization's jobs; both summaries refresh when *)
(* they find no metrics.                                                   *)
OpenExecutive(r) ==
  /\ scheduled' = TRUE
  /\ IF Query("executive") = {} THEN ReadDaily(r)
     ELSE ~scheduled /\ UNCHANGED <<refresher, moves>>
  /\ UNCHANGED <<daily, active, today, mart, report, reporter, draftVars>>

OpenSeo(r) ==
  /\ Query("seo") = {} /\ ReadDaily(r)
  /\ UNCHANGED <<daily, active, today, mart, report, reporter, scheduled, draftVars>>

ReadInsights(r) ==
  LET f == refresher[r] IN
  /\ f.at = "read"
  /\ RefresherGoes(r, [f EXCEPT !.at = "ready",
                                !.rows = @ \union InsightRows(f.end, f.reading)])
  /\ UNCHANGED <<daily, active, today, mart, report, reporter, scheduled, draftVars, moves>>

(* DELETE of the window, from its first day on: it sees what is committed, *)
(* and waits for the refreshes that are deleting the same rows.            *)
Deleted(f) == {m \in mart : m.day >= WindowStart(f.end)}

DeleteWindow(r) ==
  LET f == refresher[r] IN
  /\ f.at = "ready"
  /\ RefresherGoes(r,
       [at |-> "deleted", end |-> f.end, reading |-> f.reading, rows |-> f.rows,
        gone |-> Deleted(f),
        behind |-> {s \in Refresher : /\ refresher[s].at = "deleted"
                                      /\ refresher[s].gone \cap Deleted(f) # {}}])
  /\ UNCHANGED <<daily, active, today, mart, report, reporter, scheduled, draftVars, moves>>

(* The rows are inserted and the transaction commits, unless two of them   *)
(* have one identity, or one has that of a row another refresh wrote.      *)
Accepts(f) == Distinct(f.rows) /\ ~Clashing(f.rows, mart \ f.gone)

InsertRows(r) ==
  LET f == refresher[r] IN
  /\ f.at = "deleted" /\ \A s \in f.behind : refresher[s].at # "deleted"
  /\ mart' = IF Accepts(f) THEN (mart \ f.gone) \union f.rows ELSE mart
  /\ RefresherGoes(r, NotRunning)
  /\ UNCHANGED <<daily, active, today, report, reporter, scheduled, draftVars, moves>>

RefreshDies(r) ==
  /\ refresher[r].at # "idle" /\ RefresherGoes(r, NotRunning)
  /\ UNCHANGED <<daily, active, today, mart, report, reporter, scheduled, draftVars, moves>>

-----------------------------------------------------------------------------
(* generateExecutiveReport and generateDailyBrief: the executive metrics   *)
(* of the period are read, and stored over an earlier report of it.        *)
ReadForReport(p) ==
  /\ reporter[p].at = "idle"
  /\ reporter' = [reporter EXCEPT ![p] =
       [at |-> "read", end |-> today,
        rows |-> {m \in Query("executive") : m.day <= today}]]
  /\ UNCHANGED <<martVars, today, report, scheduled, draftVars, moves>>

WriteReport(p) ==
  /\ reporter[p].at = "read"
  /\ report' = [report EXCEPT ![reporter[p].end] = reporter[p].rows]
  /\ reporter' = [reporter EXCEPT ![p] = NotRunning]
  /\ UNCHANGED <<martVars, today, scheduled, draftVars, moves>>

-----------------------------------------------------------------------------
(* ContentGenerationService.generate: under the advisory lock of the day   *)
(* and title, a stored draft is returned, else the model is called.        *)
AuthorGoes(a, to) == author' = [author EXCEPT ![a] = to]

RequestDraft(a, title) ==
  /\ author[a].at = "idle" /\ Moved
  /\ AuthorGoes(a, [at |-> "waiting", key |-> <<today, title>>])
  /\ UNCHANGED <<martVars, today, report, reporter, scheduled, draftLock, draft, wasted, queries>>

Lockers(a) == {draftLock[author[a].key]} \ {NoAuthor}

LookForDraft(a) ==
  LET key == author[a].key IN
  /\ author[a].at = "waiting" /\ Lockers(a) = {}
  /\ IF key \in draft
     THEN AuthorGoes(a, NotRunning) /\ UNCHANGED draftLock
     ELSE AuthorGoes(a, [author[a] EXCEPT !.at = "drafting"])
          /\ draftLock' = [draftLock EXCEPT ![key] = a]
  /\ UNCHANGED <<martVars, today, report, reporter, scheduled, draft, wasted, queries, moves>>

(* The completion is paid for and stored; a failed one, like a death of    *)
(* the process, rolls back and frees the lock.                             *)
DraftEnds(a, ok) ==
  LET key == author[a].key IN
  /\ author[a].at = "drafting"
  /\ draft' = IF ok THEN draft \union {key} ELSE draft
  /\ wasted' = (wasted \/ (ok /\ key \in draft))
  /\ draftLock' = [draftLock EXCEPT ![key] = IF @ = a THEN NoAuthor ELSE @]
  /\ AuthorGoes(a, NotRunning)
  /\ UNCHANGED <<martVars, today, report, reporter, scheduled, queries, moves>>

-----------------------------------------------------------------------------
(* The SEO page merges the days of a search query: impressions are summed, *)
(* positions are weighted with them, a day without any counting once; what *)
(* is shown is weighted, divided by impressions or by 1.                   *)
AtLeastOne(n) == IF n = 0 THEN 1 ELSE n
Weight(row) == AtLeastOne(row.impressions)

Total(numbers) ==
  LET upTo[i \in 0..Len(numbers)] == IF i = 0 THEN 0 ELSE upTo[i - 1] + numbers[i]
  IN  upTo[Len(numbers)]
Impressions(rows) == Total([i \in DOMAIN rows |-> rows[i].impressions])
Weighted(rows) == Total([i \in DOMAIN rows |-> rows[i].position * Weight(rows[i])])

ShowQueries(rows) ==
  /\ queries' = [of |-> rows, impressions |-> Impressions(rows),
                 weighted |-> Weighted(rows)]
  /\ UNCHANGED <<martVars, today, report, reporter, scheduled, author, draftLock, draft,
                 wasted, moves>>

QueryRow == [impressions : 0..2, position : 1..3]

-----------------------------------------------------------------------------
MartNext ==
  \/ \E s \in DailySource, d \in Day : SyncStores(s, d)
  \/ \E i \in Insight : InsightChanges(i)
  \/ \E r \in Refresher : \/ ScheduledRefresh(r) \/ OpenExecutive(r) \/ OpenSeo(r)
                          \/ ReadInsights(r) \/ DeleteWindow(r) \/ InsertRows(r)
                          \/ RefreshDies(r)
  \/ \E p \in Reporter : ReadForReport(p) \/ WriteReport(p)

DraftNext ==
  \E a \in Author : \/ \E t \in Title : RequestDraft(a, t)
                    \/ LookForDraft(a) \/ \E ok \in BOOLEAN : DraftEnds(a, ok)

QueryNext == \E n \in 1..2 : \E rows \in [1..n -> QueryRow] : ShowQueries(rows)

ReportingNext == Midnight \/ MartNext \/ DraftNext \/ QueryNext
ReportingSpec == ReportingInit /\ [][ReportingNext]_reportingVars

-----------------------------------------------------------------------------
(* The analytics of a dashboard, or of a report, come from one refresh:    *)
(* metrics of two readings are never shown beside each other for days both *)
(* read, however the refreshes overlap (dashboard.service refresh).        *)
Metrics(rows) == {m \in rows : m.name = "sessions"}
ReadOn(day, row) == day \in WindowStart(row.until)..row.until
OneReading(rows) ==
  \A m, n \in Metrics(rows) :
    ReadOn(m.day, n) /\ ReadOn(n.day, m) => m.reading = n.reading
WindowIsOneReading == OneReading(mart) /\ \A d \in Day : OneReading(report[d])

(* No model call is paid for a draft that is stored already, although the  *)
(* requests of a title overlap (content-generation.service generate).      *)
DraftPaidOnce == ~wasted

(* The position shown is between the best and the worst day of the query,  *)
(* if every one of its days has impressions (dashboard.service             *)
(* seoCommandCenter).                                                      *)
PositionIsAverage ==
  LET q == queries
      shown(p) == p * AtLeastOne(q.impressions) IN
  q.of # << >> /\ (\A i \in DOMAIN q.of : q.of[i].impressions > 0) =>
    \E i, j \in DOMAIN q.of :
      shown(q.of[i].position) <= q.weighted /\ q.weighted <= shown(q.of[j].position)
=============================================================================
