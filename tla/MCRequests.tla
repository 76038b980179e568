------------------------------ MODULE MCRequests ------------------------------
(* What requests do to the rest of the system.  The components share no      *)
(* state the models tell apart, so each behaviour runs one part of one       *)
(* component, named by the variable part, and the others stay as they began. *)
(* A gate bounds a part.                                                     *)
EXTENDS MCChunking, GhlConnections, Webhooks, DashboardKeys, SeoComparison,
        ModelBudget, Conversation, Access, Reporting, Evidence, Settings,
        Knowledge, ChatEndpoint, MarketingChat

CONSTANTS
  Parts,
  orgA, orgB,     \* organizations
  l1, l2,         \* GoHighLevel locations
  cb1, cb2,       \* connecting requests
  st,             \* an OAuth state
  n1, n2,         \* notifications of the webhook
  r1,             \* a request of a chat session
  u1              \* a user

VARIABLE part

-----------------------------------------------------------------------------
(* Values of the components' constants.                                      *)
SlugOfLocation == [l \in {l1, l2} |-> orgB]
OrgOfState == [s \in {st} |-> orgA]
KindOfNotification == (n1 :> "contact") @@ (n2 :> "other")

(* Two insights the dashboard shows side by side.                            *)
TwoInsights ==
  {[id |-> 1, category |-> "operations", severity |-> "medium"],
   [id |-> 2, category |-> "analytics", severity |-> "medium"]}

TwoTemplates == {<<"text">>, <<"name", "text", "city">>, <<"city", "day">>}

(* Requests with and without system and assistant messages, that end with    *)
(* one or two messages of the user's.                                        *)
FiveHistories ==
  LET m(r, i) == [role |-> r, id |-> i] IN
  {<<m("system", 0)>>,
   <<m("user", 1)>>,
   <<m("user", 1), m("assistant", 2), m("user", 3)>>,
   <<m("system", 0), m("user", 1), m("assistant", 2), m("user", 3),
     m("assistant", 4)>>,
   <<m("user", 1), m("assistant", 2), m("user", 3), m("user", 4)>>}

-----------------------------------------------------------------------------
requestsVars ==
  <<part, vars, ghlVars, webhookVars, keyVars, comparisonVars, budgetVars,
    conversationVars, accessVars, reportingVars, evidenceVars, settingsVars,
    knowledgeVars, chatVars, marketingVars>>

(* Where a component has several initial states, it has one in the other     *)
(* parts.  At most one provider of analytics is connected.                   *)
RequestsInit ==
  /\ part \in Parts
  /\ GhlInit /\ WebhookInit /\ KeysInit /\ ComparisonInit /\ ConversationInit
  /\ BudgetInit
  /\ part # "budget" => \A b \in Budget : budget[b].limit = 2
  /\ AccessInit
  /\ part # "access" =>
       \A u \in User : member[u] = IF u = u1 THEN "owner" ELSE NotMember
  /\ ReportingInit
  /\ part \notin {"mart", "drafts"} => scheduled
  /\ EvidenceInit
  /\ part # "analytics" => \A v \in Analytics : linked[v] = {}
  /\ Cardinality({v \in Analytics : linked[v] # {}}) <= 1
  /\ SettingsInit
  /\ part # "flags" => ~ flagRow
  /\ part # "prompts" => prompt = <<"text">>
  /\ KnowledgeInit
  /\ part # "knowledge" => configured
  /\ ChatInit
  /\ MarketingInit
  /\ part # "chat" => keys = CHOOSE k \in KeySets : TRUE
  /\ IF part = "chunking" THEN TRUE
     ELSE text = <<>> /\ opts = CHOOSE o \in Options : TRUE
  /\ Init

(* Every component but c is at rest.                                         *)
Only(c) ==
  /\ UNCHANGED part
  /\ IF c = "chunking" THEN TRUE ELSE UNCHANGED vars
  /\ IF c = "ghl" THEN TRUE ELSE UNCHANGED ghlVars
  /\ IF c = "webhooks" THEN TRUE ELSE UNCHANGED webhookVars
  /\ IF c = "keys" THEN TRUE ELSE UNCHANGED keyVars
  /\ IF c = "comparison" THEN TRUE ELSE UNCHANGED comparisonVars
  /\ IF c = "budget" THEN TRUE ELSE UNCHANGED budgetVars
  /\ IF c = "conversation" THEN TRUE ELSE UNCHANGED conversationVars
  /\ IF c = "access" THEN TRUE ELSE UNCHANGED accessVars
  /\ IF c = "reporting" THEN TRUE ELSE UNCHANGED reportingVars
  /\ IF c = "evidence" THEN TRUE ELSE UNCHANGED evidenceVars
  /\ IF c = "settings" THEN TRUE ELSE UNCHANGED settingsVars
  /\ IF c = "knowledge" THEN TRUE ELSE UNCHANGED knowledgeVars
  /\ IF c = "chat" THEN TRUE ELSE UNCHANGED chatVars
  /\ IF c = "marketing" THEN TRUE ELSE UNCHANGED marketingVars

(* One location and the tokens of two callers; or two locations, connected   *)
(* for an agency, without refreshes.                                         *)
OneLocation ==
  owner'[l2] = NoOrg /\ \A f \in Callback : l2 \notin callback'[f].todo
AnAgency ==
  callback'[cb2] = callback[cb2] /\ \A c \in Caller : refresh'[c] = NoRefresh

(* One question with two rounds of both tools; or two requests that overlap, *)
(* with one call each, and without questions about reviews.                  *)
OneRequest ==
  questions' <= 1 /\ \A r \in Request \ {r1} : request'[r] = Quiet
ShortRequests ==
  \A r \in Request :
    LET q == request'[r] IN
    /\ q.at = "storing" => q.grounded # "evidence"
    /\ q.at = "asking" => q.calls <= 1 /\ read' \subseteq Turn \X {LiveCheck}

(* Of a failure, a change of the budget and an end of its period, two.       *)
TwoMishaps == \A b \in Budget : callFaults' + changes' + turn'[b] <= 2

(* Four moves of the clock, of syncs and of refreshes, or three with         *)
(* insights among them.                                                      *)
FewInsights == moves' <= 3 \/ active' = {}

(* Contacts may answer otherwise than the other four of GoHighLevel's parts. *)
FourAlike ==
  \A p \in Part \ {"contacts", "reputation"} : snapshot'.part[p] = snapshot'.part["team"]

RequestsNext ==
  \/ part = "chunking" /\ Next /\ Only("chunking")
  \/ part = "tenancy" /\ GhlNext /\ OneLocation /\ Only("ghl")
  \/ part = "agency" /\ GhlNext /\ AnAgency /\ Only("ghl")
  \/ part = "webhooks" /\ WebhookNext /\ Only("webhooks")
  \/ part = "keys" /\ KeysNext /\ Only("keys")
  \/ part = "comparison" /\ ComparisonNext /\ Only("comparison")
  \/ part = "budget" /\ BudgetNext /\ TwoMishaps /\ Only("budget")
  \/ part = "alone" /\ ConversationNext /\ OneRequest /\ Only("conversation")
  \/ part = "together" /\ ConversationNext /\ ShortRequests
       /\ Only("conversation")
  \/ part = "access" /\ AccessNext /\ Only("access")
  \/ part = "mart" /\ (MartNext \/ Midnight) /\ FewInsights /\ Only("reporting")
  \/ part = "drafts" /\ (DraftNext \/ Midnight) /\ Only("reporting")
  \/ part = "queries" /\ QueryNext /\ Only("reporting")
  \/ part = "analytics" /\ AnalyticsNext /\ Only("evidence")
  \/ part = "pipeline" /\ PipelineNext /\ Only("evidence")
  \/ part = "snapshot" /\ SnapshotNext /\ FourAlike /\ Only("evidence")
  \/ part = "flags" /\ FlagNext /\ Only("settings")
  \/ part = "prompts" /\ PromptNext /\ Only("settings")
  \/ part = "knowledge" /\ KnowledgeNext /\ Only("knowledge")
  \/ part = "chat" /\ ChatNext /\ Only("chat")
  \/ part = "website" /\ MarketingNext /\ Only("marketing")

RequestsSpec == RequestsInit /\ [][RequestsNext]_requestsVars

-----------------------------------------------------------------------------
(* Every component's variables keep their types and shapes.                  *)
RequestsTypeOK ==
  /\ GhlTypeOK /\ WebhookTypeOK /\ KeysTypeOK /\ ComparisonTypeOK
  /\ BudgetTypeOK /\ ConversationTypeOK /\ AccessTypeOK /\ ReportingTypeOK
  /\ EvidenceTypeOK /\ SettingsTypeOK /\ KnowledgeTypeOK /\ ChatTypeOK
  /\ MarketingTypeOK

(* What belongs to one organization stays with it, and what lets one in is   *)
(* used as it was issued: an OAuth state and a refresh token once, the       *)
(* credentials of an integration by the organization they were granted to, a *)
(* webhook's event once and by the tenant it reached, a dashboard's key      *)
(* while it is live, a website visitor's token; and every organization keeps *)
(* an owner                                                                  *)
(* (integration.service.ts, ghl-token.service.ts, ghl-webhook.service.ts,    *)
(* ghl-seo-dashboard-provisioning.service.ts, organization.service.ts).      *)
TenantsKeptApart ==
  /\ StateUsedOnce /\ ConnectedHasCredentials /\ CredentialsFit /\ PresentedOnce
  /\ PublishedOnce /\ AcceptedIsPublished
  /\ PublishedIsLive /\ KeysAccounted
  /\ OwnerRemains /\ VisitKeepsToken

(* What costs money or has a limit stays within it, up to what the overlap   *)
(* of requests allows: spend, alerts, competitors and their refreshes, and   *)
(* drafts (budget.service.ts, dataforseo.service.ts,                         *)
(* content-generation.service.ts).                                           *)
LimitsHold ==
  /\ OvershootBounded /\ AlertedWhenCrossed /\ NotifiedOnce
  /\ CompetitorsWithinLimit /\ MetricsOfDomain /\ OpportunitiesAreLatest
  /\ DraftPaidOnce

(* What a user or the model is told is what the system knows: rounds and     *)
(* transcripts are well formed, sources were read, periods of equal length   *)
(* are compared, what is called complete is, nothing unread is told but that *)
(* there are no reviews, a caller's credential is judged as it is, the       *)
(* dashboard shows one reading, flags and prompts are current, and a website *)
(* visitor's details are kept.                                               *)
AnswersAreHonest ==
  /\ RoundsAreValid /\ TranscriptWellFormed /\ SourcesWereRead
  /\ GroundedIsFormatted
  /\ StreamEndsWell /\ DialogueIsClients /\ VerdictIsRight
  /\ ComparesLikeWithLike /\ CompleteIsComplete /\ OffersWereRead
  /\ SilenceMeansSearched /\ ToldWhatItMayKnow
  /\ FlagIsRecent /\ PromptIsComplete
  /\ WindowIsOneReading /\ PositionIsAverage
  /\ DetailsAreKept /\ ReplyFollowsQuestion

(* No step of one actor does what it may never do to another's: a live       *)
(* mapping of a location is not taken over, every location of an agency is   *)
(* tried, an event goes to the tenant its reader saw, and only a manager of  *)
(* sufficient role changes one.                                              *)
StepsKeepTheirBounds ==
  /\ LiveMappingKept /\ EveryLocationTried
  /\ PublishedForReader /\ RolesAreManaged
=============================================================================
