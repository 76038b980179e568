---------------------------- MODULE SeoComparison -----------------------------
(***************************************************************************)
(* The competitors a website is compared with, and the keywords that the   *)
(* comparison suggests.                                                    *)
(*                                                                         *)
(* Requests add, rename and remove competitors and the daily job measures  *)
(* them.  Each reads the rows, may wait for the provider and writes by id; *)
(* none holds a lock in between.  A refresh of the keywords retires the    *)
(* suggestions it sees and writes its own, in one transaction that does    *)
(* not see what another has not committed.                                 *)
(***************************************************************************)
EXTENDS Integers, Sequences, FiniteSets, SequencesExt

CONSTANTS
  Domain,            \* domains, normalized
  NoDomain,
  Editor,            \* overlapping requests and job runs
  Limit,             \* 4: rows a website may have, and rows that are listed
  MaxRows,           \* bound on rows ever created
  MaxComparisonCalls \* bound on requests

ASSUME ComparisonAssumption ==
  /\ NoDomain \notin Domain /\ IsFiniteSet(Editor)
  /\ Limit \in Nat \ {0} /\ MaxRows \in Nat /\ MaxComparisonCalls \in Nat

VARIABLES
  rows,       \* competitors by created_at
  created,    \* rows ever created
  fresh,      \* a refresh succeeded in the last 24 hours
  refreshJob, \* the daily job exists
  editor,     \* where each request is
  vacated,    \* a rename freed a domain that an addition under way had found
  tainted,    \* ids written by a request that had read another domain of it
  suggestedBy,\* who wrote the enabled keywords tagged competitor_opportunity
  crossed,    \* two refreshes of the keywords overlapped
  comparisonCalls

comparisonVars == <<rows, created, fresh, refreshJob, editor, vacated,
                    tainted, suggestedBy, crossed, comparisonCalls>>

Row == [id : 1..MaxRows, domain : Domain, measured : Domain \union {NoDomain}]
Idle == [at |-> "idle"]
Phases == {"idle", "adding", "scheduling", "renaming", "rescheduling",
           "measuring", "asking", "disabled"}

ComparisonTypeOK ==
  /\ ToSet(rows) \subseteq Row /\ created \in 0..MaxRows
  /\ fresh \in BOOLEAN /\ refreshJob \in BOOLEAN /\ {vacated, crossed} \subseteq BOOLEAN
  /\ \A e \in Editor : editor[e].at \in Phases
  /\ tainted \subseteq 1..MaxRows
  /\ suggestedBy \subseteq Editor
  /\ comparisonCalls \in 0..MaxComparisonCalls
  \* the unique key of the table
  /\ \A i, j \in DOMAIN rows : i # j => rows[i].domain # rows[j].domain
  /\ \A i, j \in DOMAIN rows : i < j => rows[i].id < rows[j].id

ComparisonInit ==
  /\ rows = <<>> /\ created = 0 /\ fresh = FALSE /\ refreshJob = FALSE
  /\ editor = [e \in Editor |-> Idle] /\ tainted = {} /\ vacated = FALSE
  /\ suggestedBy = {} /\ crossed = FALSE
  /\ comparisonCalls = 0

Domains == {rows[i].domain : i \in DOMAIN rows}
RowOf(id) == {i \in DOMAIN rows : rows[i].id = id}

Begins(e, call) ==
  /\ editor[e].at = "idle" /\ comparisonCalls < MaxComparisonCalls
  /\ editor' = [editor EXCEPT ![e] = call]
  /\ comparisonCalls' = comparisonCalls + 1
MovesTo(e, call) ==
  /\ editor' = [editor EXCEPT ![e] = call] /\ UNCHANGED comparisonCalls
keywordVars == <<suggestedBy, crossed>>

-----------------------------------------------------------------------------
Room(d) == d \in Domains \/ Len(rows) < Limit

(* addCompetitor: the count is read, *)
AddReads(e, d) ==
  /\ Room(d)
  /\ Begins(e, [at |-> "adding", domain |-> d])
  /\ UNCHANGED <<rows, created, fresh, refreshJob, vacated, tainted, keywordVars>>

(* the row is written by its unique key, *)
AddWrites(e) ==
  LET d == editor[e].domain IN
  /\ editor[e].at = "adding"
  /\ IF d \in Domains THEN UNCHANGED <<rows, created>>
     ELSE /\ created < MaxRows
          /\ created' = created + 1
          /\ rows' = Append(rows,
               [id |-> created + 1, domain |-> d, measured |-> NoDomain])
  /\ MovesTo(e, [at |-> "scheduling"])
  /\ UNCHANGED <<fresh, refreshJob, vacated, tainted, keywordVars>>

(* and the job enabled, by an addition as by a change of domain.           *)
Schedules(e) ==
  /\ editor[e].at \in {"scheduling", "rescheduling"}
  /\ refreshJob' = TRUE
  /\ MovesTo(e, Idle)
  /\ UNCHANGED <<rows, created, fresh, vacated, tainted, keywordVars>>

(* updateCompetitor: the row and its duplicates are read.                  *)
RenameReads(e, i, d) ==
  /\ i \in DOMAIN rows
  /\ \A j \in DOMAIN rows \ {i} : rows[j].domain # d
  /\ Begins(e, [at |-> "renaming", id |-> rows[i].id,
                was |-> rows[i].domain, domain |-> d])
  /\ UNCHANGED <<rows, created, fresh, refreshJob, vacated, tainted, keywordVars>>

(* Other domain, other business: what was measured is dropped.             *)
Renamed(row, d, was) ==
  [row EXCEPT !.domain = d, !.measured = IF d = was THEN @ ELSE NoDomain]

(* The write is by id: the row may be gone, renamed by another request, or *)
(* the domain taken meanwhile.                                             *)
RenameWrites(e) ==
  LET q == editor[e]
      gone == RowOf(q.id) = {}
      taken == \E j \in DOMAIN rows : rows[j].domain = q.domain /\ rows[j].id # q.id
  IN
  /\ q.at = "renaming"
  /\ IF gone \/ taken
     THEN /\ MovesTo(e, Idle) /\ UNCHANGED <<rows, vacated, tainted>>
     ELSE LET i == CHOOSE k \in RowOf(q.id) : TRUE IN
          /\ rows' = [rows EXCEPT ![i] = Renamed(@, q.domain, q.was)]
          /\ tainted' = IF q.was # rows[i].domain THEN tainted \union {q.id}
                        ELSE tainted
          /\ vacated' = (vacated \/ \E o \in Editor :
               /\ editor[o].at = "adding" /\ rows[i].domain # q.domain
               /\ editor[o].domain = rows[i].domain)
          /\ MovesTo(e, IF q.domain = q.was THEN Idle
                        ELSE [at |-> "rescheduling"])
  /\ UNCHANGED <<created, fresh, refreshJob, keywordVars>>

RemoveCompetitor(e, i) ==
  /\ i \in DOMAIN rows
  /\ Begins(e, Idle)
  /\ rows' = RemoveAt(rows, i)
  /\ UNCHANGED <<created, fresh, refreshJob, vacated, tainted, keywordVars>>

ListedRows == SubSeq(rows, 1, IF Len(rows) < Limit THEN Len(rows) ELSE Limit)

(* refreshCompetitors, by a user or the job: the oldest rows are measured, *)
(* once in 24 hours.                                                       *)
RefreshReads(e) ==
  /\ rows # <<>> /\ ~ fresh
  /\ Begins(e, [at |-> "measuring", seen |-> ListedRows])
  /\ UNCHANGED <<rows, created, fresh, refreshJob, vacated, tainted, keywordVars>>

MeasuredOf(seen, id) ==
  {seen[k].domain : k \in {k \in DOMAIN seen : seen[k].id = id}}

(* The provider has answered, at the first or the second attempt: the      *)
(* metrics are written to the rows that are still there.                   *)
RefreshWrites(e) ==
  LET seen == editor[e].seen
      of(row) == MeasuredOf(seen, row.id)
  IN
  /\ editor[e].at = "measuring"
  /\ rows' = [i \in DOMAIN rows |->
       IF of(rows[i]) = {} THEN rows[i]
       ELSE [rows[i] EXCEPT !.measured = CHOOSE d \in of(rows[i]) : TRUE]]
  /\ tainted' = tainted \union
       {rows[i].id : i \in {i \in DOMAIN rows : ~ of(rows[i]) \subseteq {rows[i].domain}}}
  /\ fresh' = TRUE
  /\ MovesTo(e, Idle)
  /\ UNCHANGED <<created, refreshJob, vacated, keywordVars>>

DayPasses ==
  /\ fresh /\ fresh' = FALSE
  /\ UNCHANGED <<rows, created, refreshJob, editor, vacated, tainted, keywordVars,
                 comparisonCalls>>

(* The dashboard enables the job of a website that has competitors.        *)
EnsureCompetitorSchedule ==
  /\ rows # <<>> /\ ~ refreshJob /\ refreshJob' = TRUE
  /\ UNCHANGED <<rows, created, fresh, editor, vacated, tainted, keywordVars,
                 comparisonCalls>>

-----------------------------------------------------------------------------
(* refreshKeywords: the provider is asked about the best candidates.       *)
AskKeywords(e) ==
  /\ Begins(e, [at |-> "asking"])
  /\ crossed' = (crossed \/ \E o \in Editor : editor[o].at \in {"asking", "disabled"})
  /\ UNCHANGED <<rows, created, fresh, refreshJob, vacated, tainted, suggestedBy>>

(* The statement that disables sees what was committed before it.          *)
DisableSuggestions(e) ==
  /\ editor[e].at = "asking"
  /\ MovesTo(e, [at |-> "disabled", runs |-> suggestedBy])
  /\ UNCHANGED <<rows, created, fresh, refreshJob, vacated, tainted, keywordVars>>

SuggestionsAfter(old, saw, new) == (old \ saw) \union new

CommitSuggestions(e, some) ==
  LET saw == editor[e] IN
  /\ saw.at = "disabled"
  /\ suggestedBy' = SuggestionsAfter(suggestedBy, saw.runs,
                                     IF some THEN {e} ELSE {})
  /\ MovesTo(e, Idle)
  /\ UNCHANGED <<rows, created, fresh, refreshJob, vacated, tainted, crossed>>

(* The provider fails twice, or the request dies.                          *)
EditorLost(e) ==
  /\ editor[e].at # "idle" /\ MovesTo(e, Idle)
  /\ UNCHANGED <<rows, created, fresh, refreshJob, vacated, tainted, keywordVars>>

-----------------------------------------------------------------------------
ComparisonNext ==
  \/ \E e \in Editor :
       \/ \E d \in Domain :
            AddReads(e, d) \/ \E i \in DOMAIN rows : RenameReads(e, i, d)
       \/ \E i \in DOMAIN rows : RemoveCompetitor(e, i)
       \/ AddWrites(e) \/ Schedules(e) \/ RenameWrites(e)
       \/ RefreshReads(e) \/ RefreshWrites(e)
       \/ AskKeywords(e) \/ DisableSuggestions(e)
       \/ \E some \in BOOLEAN : CommitSuggestions(e, some)
       \/ EditorLost(e)
  \/ DayPasses \/ EnsureCompetitorSchedule

ComparisonSpec == ComparisonInit /\ [][ComparisonNext]_comparisonVars

-----------------------------------------------------------------------------
(* "You can compare up to 4 businesses per website": additions that         *)
(* counted before each other's row exceed it, but never by more than there *)
(* are requests in flight, however long it goes on, with the domains that  *)
(* are still to be added - unless a rename freed a domain that an addition *)
(* had found in the comparison.                                            *)
CompetitorsWithinLimit ==
  LET adding == {e \in Editor : editor[e].at = "adding"}
      pending == {editor[e].domain : e \in adding} \ Domains
  IN  vacated \/ Len(rows) + Cardinality(pending) <= Limit - 1 + Cardinality(Editor)

(* The numbers shown for a competitor were measured of its domain, unless  *)
(* a request that had read another domain wrote the row.                   *)
MetricsOfDomain ==
  \A i \in DOMAIN rows :
    rows[i].id \notin tainted => rows[i].measured \in {NoDomain, rows[i].domain}

(* The suggestions on show are those of the last run, unless two runs      *)
(* overlapped.                                                             *)
OpportunitiesAreLatest == crossed \/ Cardinality(suggestedBy) <= 1
=============================================================================
