------------------------------ MODULE Knowledge -------------------------------
(***************************************************************************)
(* What a model is told before it answers: the facts the organization has  *)
(* taught it, and the passages found in the vector store - or that the     *)
(* store was not consulted.  The store may be down, its collection may not *)
(* exist yet, and every process remembers for a while whether it answered. *)
(***************************************************************************)
EXTENDS Integers, FiniteSets

CONSTANTS
  Organization,
  Shared,         \* the owner of points every organization may find
  Fact,           \* keys of business_memory
  ReachTtl,       \* REACHABILITY_TTL_MS
  LastTick, MaxKnowledgeChanges   \* bounds on the clock and on what changes meanwhile

ASSUME KnowledgeAssumption ==
  /\ Shared \notin Organization /\ {ReachTtl, LastTick, MaxKnowledgeChanges} \subseteq Nat

Never == 99

VARIABLES
  configured,   \* a vector store is bound
  storeUp, collection,   \* it answers; its collection exists
  points,       \* the organizations (or Shared) with a point in it
  reach,        \* the verdict this process remembers
  tick, knowledgeChanges,
  facts,        \* business_memory: when each key expires, 0 if it is not set
  run,          \* the question being prepared
  context       \* the context rendered last

storeVars == <<storeUp, collection, points>>
knowledgeVars ==
  <<configured, storeVars, reach, tick, knowledgeChanges, facts, run, context>>

NoRun == [at |-> "idle"]
NoContext == [hits |-> {}, disclaimed |-> TRUE, searched |-> FALSE, known |-> {},
              asOf |-> 0, owner |-> Shared]
NoVerdict == [known |-> FALSE]

KnowledgeTypeOK ==
  /\ points \subseteq Organization \union {Shared}
  /\ points # {} => collection
  /\ reach.known => reach.value \in BOOLEAN /\ reach.until \in Nat
  /\ tick \in 0..LastTick /\ knowledgeChanges \in 0..MaxKnowledgeChanges
  /\ facts \in [Fact -> 0..LastTick \union {Never}]
  /\ run.at \in {"idle", "probing", "embedding", "searching"}
  /\ run.at # "idle" => run.organization \in Organization /\ configured
  /\ context.hits \subseteq Organization \union {Shared}

KnowledgeInit ==
  /\ configured \in BOOLEAN /\ storeUp = TRUE /\ collection = FALSE /\ points = {}
  /\ reach = NoVerdict /\ tick = 0 /\ knowledgeChanges = 0
  /\ facts = [f \in Fact |-> 0] /\ run = NoRun /\ context = NoContext

Changed == knowledgeChanges < MaxKnowledgeChanges /\ knowledgeChanges' = knowledgeChanges + 1

-----------------------------------------------------------------------------
(* The store and the ingestion beside the question.                        *)
StoreChanges ==
  /\ Changed /\ storeUp' = ~storeUp
  /\ UNCHANGED <<configured, collection, points, reach, tick, facts, run, context>>

(* ensureCollection and upsert: a collection this process creates makes it *)
(* forget that the store was not reachable.                                *)
Ingest(owner) ==
  /\ configured /\ storeUp /\ Changed /\ collection' = TRUE
  /\ points' = points \union {owner}
  /\ reach' = IF collection THEN reach ELSE NoVerdict
  /\ UNCHANGED <<configured, storeUp, tick, facts, run, context>>

(* deleteDocument, deleteVersion: a missing collection has nothing to lose. *)
DeletePoints(owner) ==
  /\ storeUp /\ collection /\ owner \in points /\ Changed
  /\ points' = points \ {owner}
  /\ UNCHANGED <<configured, storeUp, collection, reach, tick, facts, run, context>>

DropCollection ==
  /\ Changed /\ collection /\ collection' = FALSE /\ points' = {}
  /\ UNCHANGED <<configured, storeUp, reach, tick, facts, run, context>>

ClockTicks ==
  /\ tick < LastTick /\ tick' = tick + 1
  /\ UNCHANGED <<configured, storeVars, reach, knowledgeChanges, facts, run, context>>

-----------------------------------------------------------------------------
(* Business memory: set replaces, forget deletes, an expired fact is not   *)
(* read.                                                                   *)
SetFact(f, until) ==
  /\ Changed /\ facts' = [facts EXCEPT ![f] = until]
  /\ UNCHANGED <<configured, storeVars, reach, tick, run, context>>

Forget(f) ==
  /\ Changed /\ facts' = [facts EXCEPT ![f] = 0]
  /\ UNCHANGED <<configured, storeVars, reach, tick, run, context>>

Known == {<<f, facts[f]>> : f \in {g \in Fact : facts[g] > tick}}

-----------------------------------------------------------------------------
(* snapshot: facts and passages are read at once; the context is rendered  *)
(* when both are there.  A search that fails is not the request's failure. *)
Rendered(hits, available, told) ==
  context' = [hits |-> hits, disclaimed |-> hits = {} /\ ~available,
              searched |-> run.at = "searching" /\ storeUp /\ collection,
              known |-> told.known, asOf |-> told.asOf, owner |-> told.organization]

Caught == FALSE

SearchFails ==
  Rendered({}, Caught, run) /\ run' = NoRun

StartRun(o) ==
  /\ run.at = "idle" /\ Changed
  /\ LET told == [at |-> "probing", organization |-> o, known |-> Known, asOf |-> tick] IN
     IF configured THEN run' = told /\ UNCHANGED context
                   ELSE Rendered({}, FALSE, told) /\ UNCHANGED run
  /\ UNCHANGED <<configured, storeVars, reach, tick, facts>>

(* isReachable: asks for the collection, not just the server.              *)
Believed == reach.known /\ reach.until > tick

Probe ==
  LET value == IF Believed THEN reach.value ELSE storeUp /\ collection IN
  /\ run.at = "probing"
  /\ reach' = IF Believed THEN reach
              ELSE [known |-> TRUE, value |-> value, until |-> tick + ReachTtl]
  /\ IF value THEN run' = [run EXCEPT !.at = "embedding"] /\ UNCHANGED context
              ELSE SearchFails
  /\ UNCHANGED <<configured, storeVars, tick, knowledgeChanges, facts>>

(* The provider embeds the question, or fails or gives a wrong shape.      *)
Embed(ok) ==
  /\ run.at = "embedding"
  /\ IF ok THEN run' = [run EXCEPT !.at = "searching"] /\ UNCHANGED context
           ELSE SearchFails
  /\ UNCHANGED <<configured, storeVars, reach, tick, knowledgeChanges, facts>>

(* The points the filter lets through; those close enough are hits.        *)
Visible(o) == points \intersect {o, Shared}

Search(hits) ==
  /\ run.at = "searching"
  /\ IF storeUp /\ collection
     THEN /\ hits \subseteq Visible(run.organization)
          /\ Rendered(hits, TRUE, run) /\ run' = NoRun
     ELSE hits = {} /\ SearchFails
  /\ UNCHANGED <<configured, storeVars, reach, tick, knowledgeChanges, facts>>

-----------------------------------------------------------------------------
KnowledgeNext ==
  \/ StoreChanges \/ DropCollection \/ ClockTicks
  \/ \E o \in Organization \union {Shared} : Ingest(o) \/ DeletePoints(o)
  \/ \E f \in Fact : Forget(f) \/ \E until \in tick..LastTick \union {Never} : SetFact(f, until)
  \/ \E o \in Organization : StartRun(o)
  \/ Probe \/ \E ok \in BOOLEAN : Embed(ok)
  \/ \E hits \in SUBSET (Organization \union {Shared}) : Search(hits)

KnowledgeSpec == KnowledgeInit /\ [][KnowledgeNext]_knowledgeVars

-----------------------------------------------------------------------------
(* A model that is not told the knowledge base was unavailable had it      *)
(* searched: at the moment of the answer the collection was there          *)
(* (memory.service snapshot, context-builder render).                      *)
SilenceMeansSearched == ~context.disclaimed => context.searched

(* The passages are the organization's own or shared, and the facts were   *)
(* in force when they were read (vector stores' search, memory all).       *)
ToldWhatItMayKnow ==
  /\ context.hits \subseteq {context.owner, Shared}
  /\ \A k \in context.known : k[2] > context.asOf
=============================================================================
