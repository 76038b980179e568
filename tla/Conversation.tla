---------------------------- MODULE Conversation ------------------------------
(***************************************************************************)
(* One chat session with the assistant, and the requests that continue it. *)
(*                                                                         *)
(* A request reads the last messages of the session, appends the question, *)
(* may check a live source first, and then alternates calls of the model   *)
(* and of the tools the model names until the model answers in text.  The  *)
(* draft is reviewed by another model call, some answers are replaced by a *)
(* formatted one, and the transcript and the answer are appended, message  *)
(* by message.  Requests of one session overlap.                           *)
(***************************************************************************)
EXTENDS Integers, Sequences, SequencesExt, FiniteSets

CONSTANTS
  Request,       \* overlapping requests of the session
  Tool,          \* tools the model may name
  LiveCheck,     \* the tool that grounds some questions
  Window,        \* 40: messages that are read back
  UserWindow,    \* 6: questions kept beside a live check
  MaxIterations, \* model calls that may ask for tools
  MaxQuestions   \* bound on questions asked

ASSUME ConversationAssumption ==
  /\ IsFiniteSet(Tool) /\ LiveCheck \in Tool /\ MaxQuestions \in Nat
  /\ {Window, UserWindow, MaxIterations} \subseteq Nat \ {0}

VARIABLES
  stored,    \* conversation_messages by sequence
  request,   \* where each request is
  questions, \* questions so far
  read,      \* what each question's tools returned: pairs of turn and tool
  checked    \* questions that a successful live check answers

conversationVars == <<stored, request, questions, read, checked>>

Turn == 1..MaxQuestions
CallId == Turn \X Nat
NoToolCall == <<0, 0>>
Quiet == [at |-> "idle"]
Source == {"draft", "revised", "safe", "formatted"}

(* A stored message, and one that is sent to the provider.                 *)
Question(t) == [role |-> "user", turn |-> t]
CallOf(t, n) == [role |-> "call", turn |-> t, call |-> <<t, n>>]
ResultOf(t, n) == [role |-> "tool", turn |-> t, call |-> <<t, n>>]
Answer(t, by, sources) ==
  [role |-> "answer", turn |-> t, by |-> by, sources |-> sources]
Sent(role, calls, call) == [role |-> role, calls |-> calls, call |-> call]

ConversationTypeOK ==
  /\ \A i \in DOMAIN stored :
       LET m == stored[i] IN
       /\ m.role \in {"user", "call", "tool", "answer"} /\ m.turn \in Turn
       /\ m.role \in {"call", "tool"} => m.call \in CallId /\ m.call[1] = m.turn
       /\ m.role = "answer" => m.by \in Source /\ m.sources \subseteq Tool
  /\ \A r \in Request : request[r].at \in
       {"idle", "storing", "checking", "asking", "reviewing", "writing"}
  /\ questions \in 0..MaxQuestions
  /\ read \subseteq Turn \X Tool /\ checked \subseteq Turn

ConversationInit ==
  /\ stored = <<>> /\ request = [r \in Request |-> Quiet]
  /\ questions = 0 /\ read = {} /\ checked = {}

RequestGoes(r, to) == request' = [request EXCEPT ![r] = to]
LastOf(s, n) == SubSeq(s, (IF Len(s) > n THEN Len(s) - n + 1 ELSE 1), Len(s))

-----------------------------------------------------------------------------
(* A stored message as history: its calls are not among the fields kept.   *)
AsHistory(m) ==
  CASE m.role = "user" -> Sent("user", {}, NoToolCall)
    [] m.role = "tool" -> Sent("tool", {}, m.call)
    [] OTHER           -> Sent("assistant", {}, NoToolCall)

Recent == LastOf(stored, Window)
History == [i \in DOMAIN Recent |-> AsHistory(Recent[i])]

(* Live data answers a question about the business profile, or about the   *)
(* business as a whole, and is evidence for one about reviews.             *)
Grounding == {"none", "evidence", "answer"}

(* The session is read.  An ephemeral question is not stored.              *)
Begin(r, grounded, ephemeral) ==
  /\ request[r].at = "idle" /\ questions < MaxQuestions
  /\ questions' = questions + 1
  /\ RequestGoes(r, [at |-> "storing", turn |-> questions + 1, grounded |-> grounded,
              ephemeral |-> ephemeral, history |-> History])
  /\ UNCHANGED <<stored, read, checked>>

StoreQuestion(r) ==
  LET q == request[r] IN
  /\ q.at = "storing"
  /\ stored' = IF q.ephemeral THEN stored ELSE Append(stored, Question(q.turn))
  /\ RequestGoes(r, [q EXCEPT !.at = "checking"])
  /\ UNCHANGED <<questions, read, checked>>

(* The last questions of a history, which are all sent alike.              *)
LastQuestions(history) ==
  LET asked == Cardinality({i \in DOMAIN history : history[i].role = "user"})
  IN  [i \in 1..(IF asked > UserWindow THEN UserWindow ELSE asked)
         |-> Sent("user", {}, NoToolCall)]

Asks(q, history, live) ==
  [at |-> "asking", turn |-> q.turn, ephemeral |-> q.ephemeral, live |-> live,
   messages |-> Append(history, Sent("user", {}, NoToolCall)),
   iterations |-> 0, calls |-> 0, transcript |-> <<>>]

(* The live check, when the tools are enabled: only the user's questions   *)
(* are then kept beside its result, which may be the answer itself.        *)
CheckLive(r, toolsEnabled, ok) ==
  LET q == request[r]
      checks == q.grounded # "none" /\ toolsEnabled
      answers == ok /\ q.grounded = "answer"
  IN
  /\ q.at = "checking" /\ (ok => checks)
  /\ read' = IF ok THEN read \union {<<q.turn, LiveCheck>>} ELSE read
  /\ checked' = IF answers THEN checked \union {q.turn} ELSE checked
  /\ RequestGoes(r, Asks(q, IF checks THEN LastQuestions(q.history) ELSE q.history, answers))
  /\ UNCHANGED <<stored, questions>>

-----------------------------------------------------------------------------
RoundOf(t, n, k) ==
  <<Sent("assistant", {<<t, n + i>> : i \in 1..k}, NoToolCall)>>
    \o [i \in 1..k |-> Sent("tool", {}, <<t, n + i>>)]

(* The model names tools; they run at once, each may fail, and the round   *)
(* is appended to the messages.                                            *)
UseTools(r, used, ok) ==
  LET q == request[r]
      k == Cardinality(used)
  IN
  /\ q.at = "asking" /\ q.iterations < MaxIterations
  /\ used # {} /\ ok \subseteq used
  /\ read' = read \union {<<q.turn, t>> : t \in ok}
  /\ RequestGoes(r, [q EXCEPT !.iterations = @ + 1, !.calls = @ + k,
       !.messages = @ \o RoundOf(q.turn, q.calls, k),
       !.transcript = @ \o [i \in 1..k |-> CallOf(q.turn, q.calls + i)]
                        \o [i \in 1..k |-> ResultOf(q.turn, q.calls + i)]])
  /\ UNCHANGED <<stored, questions, checked>>

(* The model answers in text: of itself, or because the last call offers   *)
(* it no tools.                                                            *)
Drafts(r) ==
  /\ request[r].at = "asking"
  /\ RequestGoes(r, [request[r] EXCEPT !.at = "reviewing"])
  /\ UNCHANGED <<stored, questions, read, checked>>

(* What the turn's tools returned, the live check among them.              *)
SourcesOf(t) == {s \in Tool : <<t, s>> \in read}

(* persistTranscript: the messages that follow the ones it was called with.*)
Following(q) == q.transcript

DeliveredAs(q, by) == IF q.live THEN "formatted" ELSE by

(* The reviewer approves (or disapproves without a better text), revises,  *)
(* or fails, which withholds the draft; or no review is enabled.  An answer*)
(* that is a live check's result is formatted whatever it says.            *)
Review(r, by) ==
  LET q == request[r] IN
  /\ q.at = "reviewing" /\ by \in {"draft", "revised", "safe"}
  /\ RequestGoes(r, IF q.ephemeral THEN Quiet ELSE
       [at |-> "writing", left |-> Append(Following(q),
          Answer(q.turn, DeliveredAs(q, by), SourcesOf(q.turn)))])
  /\ UNCHANGED <<stored, questions, read, checked>>

(* append: the next message of the transcript, then the answer.            *)
Write(r) ==
  LET left == request[r].left IN
  /\ request[r].at = "writing"
  /\ stored' = Append(stored, Head(left))
  /\ RequestGoes(r, IF Len(left) = 1 THEN Quiet
             ELSE [at |-> "writing", left |-> Tail(left)])
  /\ UNCHANGED <<questions, read, checked>>

(* The model fails, the client disconnects, or the process dies.           *)
RequestLost(r) ==
  /\ request[r].at # "idle" /\ RequestGoes(r, Quiet)
  /\ UNCHANGED <<stored, questions, read, checked>>

-----------------------------------------------------------------------------
ConversationNext ==
  \E r \in Request :
    \/ \E grounded \in Grounding, ephemeral \in BOOLEAN :
         Begin(r, grounded, ephemeral)
    \/ StoreQuestion(r)
    \/ \E toolsEnabled, ok \in BOOLEAN : CheckLive(r, toolsEnabled, ok)
    \/ \E used \in SUBSET Tool : \E ok \in SUBSET used : UseTools(r, used, ok)
    \/ Drafts(r) \/ (\E by \in Source : Review(r, by))
    \/ Write(r) \/ RequestLost(r)

ConversationSpec == ConversationInit /\ [][ConversationNext]_conversationVars

-----------------------------------------------------------------------------
(* "A tool result with no preceding call is a protocol violation": in the  *)
(* rounds a request adds itself, whatever the session holds, each result   *)
(* that is sent to the provider follows the call it is of.                 *)
FollowsCall(messages, turn) ==
  \A i \in DOMAIN messages : messages[i].role = "tool" /\ messages[i].call[1] = turn =>
    \E j \in 1..(i - 1) : messages[i].call \in messages[j].calls

RoundsAreValid ==
  \A r \in Request : request[r].at = "asking" =>
    FollowsCall(request[r].messages, request[r].turn)

(* However requests overlap and wherever they end, a turn is stored in its *)
(* order: the question, the calls each before its result, the answer last. *)
TranscriptWellFormed ==
  \A i \in DOMAIN stored :
    LET before(role) == {j \in 1..(i - 1) :
          stored[j].turn = stored[i].turn /\ stored[j].role = role}
    IN  /\ stored[i].role # "user" => before("user") # {}
        /\ before("answer") = {}
        /\ stored[i].role = "tool" =>
             \E j \in before("call") : stored[j].call = stored[i].call
        /\ stored[i].role = "answer" => Cardinality(before("call"))
                                          = Cardinality(before("tool"))

(* The sources shown under an answer are tools that returned data for it.  *)
SourcesWereRead ==
  \A i \in DOMAIN stored : stored[i].role = "answer" =>
    \A s \in stored[i].sources : <<stored[i].turn, s>> \in read

(* "Keep profile answers deterministic even if the reviewer tries to       *)
(* rewrite the model draft": a question that a live check answers gets the *)
(* formatted answer.                                                       *)
GroundedIsFormatted ==
  \A r \in Request : request[r].at = "writing" =>
    LET answer == Last(request[r].left)
    IN  answer.turn \in checked => answer.by = "formatted"
=============================================================================
