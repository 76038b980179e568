----------------------------- MODULE ChatEndpoint -----------------------------
(***************************************************************************)
(* One request to the chat endpoint: who calls, what is asked, and the     *)
(* response, written whole or as a stream of events while the caller may   *)
(* leave at any moment.                                                    *)
(***************************************************************************)
EXTENDS Integers, Sequences, FiniteSets, SequencesExt

CONSTANTS
  Histories,     \* the messages a client may send: sequences of [role, id]
  MaxPrior,      \* prior messages kept without a session
  MaxWords       \* bound on the words of an answer

ChatMessage == [role : {"system", "user", "assistant", "tool"}, id : Nat]

ASSUME ChatEndpointAssumption ==
  {MaxPrior, MaxWords} \subseteq Nat /\ Histories \subseteq Seq(ChatMessage)

(* The keys the server verifies tokens with, and what a caller presents:   *)
(* an API key; a token of the shared secret, of the rotating keys, or of   *)
(* Firebase as a session cookie or an ID token; one of another issuer.     *)
KeySets == (SUBSET {"secret", "rotating"}) \union {{"firebase"}}
Credential ==
  {c \in [form : {"none", "foreign", "api_key", "secret", "rotating", "session", "id"},
          state : {"good", "expired", "revoked"}] :
     /\ c.state = "revoked" => c.form \in {"api_key", "session", "id"}
     /\ c.form \in {"none", "foreign"} => c.state = "good"}
NotPresented == [form |-> "none", state |-> "good"]

VARIABLES
  keys,         \* the verification keys configured
  caller,       \* what was presented, whether all could be asked, and the verdict
  http,         \* where the request is
  gone,         \* the client has closed the connection
  frames,       \* what was written to the response
  spoken        \* the answer the model gave, as a number of words

chatVars == <<keys, caller, http, gone, frames, spoken>>

Verdicts == {"none", "missing", "machine", "user", "expired", "invalid", "error"}

ChatTypeOK ==
  /\ keys \in KeySets /\ caller \in [by : Credential, online : BOOLEAN, verdict : Verdicts]
  /\ gone \in BOOLEAN
  /\ http.at \in {"idle", "admitted", "thinking", "streaming", "closed"}
  /\ http.at \in {"thinking", "streaming"} =>
       /\ http.ask.role = "user"
       /\ \A i \in 1..Len(http.prior) : http.prior[i].role \in {"user", "assistant"}
       /\ Len(http.prior) <= MaxPrior
  /\ spoken \in -1..MaxWords

ChatInit ==
  /\ keys \in KeySets /\ http = [at |-> "idle"]
  /\ caller = [by |-> NotPresented, online |-> TRUE, verdict |-> "none"]
  /\ gone = FALSE /\ frames = << >> /\ spoken = -1

-----------------------------------------------------------------------------
(* AuthGuard and JwtVerifierService: an API key decides alone.  The shared *)
(* secret verifies a token by itself; the rotating keys have to be         *)
(* fetched, and Firebase to be asked whether it revoked the token.         *)
VerdictBy(k, c, online) ==
  IF c.form # k \/ c.state = "revoked" \/ (k # "secret" /\ ~online) THEN "invalid"
  ELSE IF c.state = "expired" THEN "expired" ELSE "user"

(* What is wrong for the first is lost: the second is asked, and its error *)
(* is the one reported.                                                    *)
Retried(first, second, c, online) ==
  IF VerdictBy(first, c, online) = "user" THEN "user" ELSE VerdictBy(second, c, online)

VerifyKey(c, online) ==
  IF ~online THEN "error" ELSE IF c.state = "good" THEN "machine" ELSE "invalid"

Verify(c, online) ==
  CASE keys = {"firebase"} -> Retried("session", "id", c, online)
    [] keys = {"secret", "rotating"} -> Retried("secret", "rotating", c, online)
    [] keys = {"secret"} -> VerdictBy("secret", c, online)
    [] keys = {"rotating"} -> VerdictBy("rotating", c, online)
    [] OTHER -> "invalid"

Verdict(c, online) ==
  CASE c.form = "none" -> "missing"
    [] c.form = "api_key" -> VerifyKey(c, online)
    [] OTHER -> Verify(c, online)

Closes(written) == frames' = frames \o written \o <<"end">>

(* A refused request is answered by the exception filter.                  *)
Authenticate(c, online) ==
  /\ http.at = "idle"
  /\ caller' = [by |-> c, online |-> online, verdict |-> Verdict(c, online)]
  /\ IF Verdict(c, online) \in {"machine", "user"}
     THEN http' = [at |-> "admitted"] /\ UNCHANGED frames
     ELSE http' = [at |-> "closed"] /\ Closes(<<"error">>)
  /\ UNCHANGED <<keys, gone, spoken>>

-----------------------------------------------------------------------------
(* The question is the last user message; without a session the messages   *)
(* before it go along, the latest MaxPrior of the dialogue.                *)
IsDialogue(m) == m.role \in {"user", "assistant"}
LastUser(messages) == SelectLastInSeq(messages, LAMBDA m : m.role = "user")

(* The dialogue of the first n messages.                                   *)
Dialogue(messages, n) ==
  LET upTo[i \in 0..n] ==
        IF i = 0 THEN << >>
        ELSE IF IsDialogue(messages[i]) THEN Append(upTo[i - 1], messages[i]) ELSE upTo[i - 1]
  IN  upTo[n]

Prior(messages) ==
  LET dialogue == Dialogue(messages, LastUser(messages) - 1) IN
  IF Len(dialogue) <= MaxPrior THEN dialogue
  ELSE SubSeq(dialogue, Len(dialogue) - MaxPrior + 1, Len(dialogue))

OpensStream(streams) == IF streams THEN frames' = <<"role">> ELSE UNCHANGED frames

(* No organization (it or the model is not known) or no user message is    *)
(* refused; a stream is opened when it is asked for and the flag allows    *)
(* it.                                                                     *)
Accept(messages, known, inSession, streams) ==
  /\ http.at = "admitted"
  /\ IF LastUser(messages) = 0 \/ ~known
     THEN http' = [at |-> "closed"] /\ Closes(<<"error">>)
     ELSE /\ http' = [at |-> "thinking", sent |-> messages,
                      ask |-> messages[LastUser(messages)], streams |-> streams,
                      inSession |-> inSession,
                      prior |-> IF inSession THEN << >> ELSE Prior(messages)]
          /\ OpensStream(streams)
  /\ UNCHANGED <<keys, caller, gone, spoken>>

(* The client leaves: the model call is aborted, unless it has answered.   *)
ClientLeaves ==
  /\ http.at \notin {"idle", "closed"} /\ ~gone /\ gone' = TRUE
  /\ UNCHANGED <<keys, caller, http, frames, spoken>>

ModelAnswers(words) ==
  /\ http.at = "thinking" /\ spoken' = words
  /\ IF http.streams
     THEN http' = [http EXCEPT !.at = "streaming"] /\ UNCHANGED frames
     ELSE http' = [http EXCEPT !.at = "closed"] /\ Closes(<<"whole">>)
  /\ UNCHANGED <<keys, caller, gone>>

(* An error, or the abort: told inside a stream that is already open.      *)
Told == <<"error_stop", "done">>

ModelFails ==
  /\ http.at = "thinking" /\ http' = [http EXCEPT !.at = "closed"]
  /\ Closes(IF http.streams THEN Told ELSE <<"error">>)
  /\ UNCHANGED <<keys, caller, gone, spoken>>

(* The words of the answer, until all are written or the client has left.  *)
WordsWritten == Cardinality({i \in DOMAIN frames : frames[i] = "word"})

WriteWord ==
  /\ http.at = "streaming" /\ WordsWritten < spoken /\ ~gone
  /\ frames' = Append(frames, "word")
  /\ UNCHANGED <<keys, caller, http, gone, spoken>>

MayEnd == WordsWritten = spoken \/ gone

EndStream ==
  /\ http.at = "streaming" /\ MayEnd
  /\ http' = [http EXCEPT !.at = "closed"] /\ Closes(<<"stop", "done">>)
  /\ UNCHANGED <<keys, caller, gone, spoken>>

ChatNext ==
  \/ \E c \in Credential, o \in BOOLEAN : Authenticate(c, o)
  \/ \E m \in Histories, k, s, t \in BOOLEAN : Accept(m, k, s, t)
  \/ ClientLeaves \/ ModelFails \/ WriteWord \/ EndStream
  \/ \E n \in 0..MaxWords : ModelAnswers(n)

ChatSpec == ChatInit /\ [][ChatNext]_chatVars

-----------------------------------------------------------------------------
(* Every stream that was opened ends once: a single frame says it has      *)
(* finished, [DONE] follows, and a caller who stayed has the whole answer  *)
(* (chat.controller streamCompletion).                                     *)
StreamEndsWell ==
  http.at = "closed" /\ frames[1] = "role" =>
    LET n == Len(frames)
        finish == {i \in DOMAIN frames : frames[i] \in {"stop", "error_stop"}} IN
    /\ finish = {n - 2} /\ frames[n - 1] = "done" /\ frames[n] = "end"
    /\ frames[n - 2] = "stop" /\ ~gone => WordsWritten = spoken

(* What the model is given is the dialogue as the client has it, without a *)
(* message twice and without one that follows the question (chat.mapper    *)
(* latestUserMessage, priorMessages).                                      *)
DialogueIsClients ==
  http.at \in {"thinking", "streaming"} /\ ~http.inSession =>
    LET given == Append(http.prior, http.ask)
        upTo(i) == Dialogue(http.sent, i) IN
    /\ \E i \in 1..Len(http.sent) :
         /\ IsSuffix(given, upTo(i)) /\ (Len(http.prior) = MaxPrior \/ given = upTo(i))
         /\ \A j \in (i + 1)..Len(http.sent) : http.sent[j].role # "user"

(* Nothing is done for a caller before and unless its credential is found  *)
(* good: an API key, or a token of a key that is configured, and of no     *)
(* other key.  Conversely a good one is let in, and one that ran out is    *)
(* told so, when whom it takes can be asked.  Where the code tries two     *)
(* keys one after the other this fails for the first: a session cookie,    *)
(* and a token of the shared secret beside rotating keys, are called       *)
(* invalid when they have expired (jwt-verifier.service.ts:95-135, where   *)
(* the comment above verify promises the difference).                      *)
Verifiable ==
  (keys \intersect {"secret", "rotating"})
    \union (IF "firebase" \in keys THEN {"session", "id"} ELSE {})
ErrorIsLost(form) == form = "session" \/ (form = "secret" /\ "rotating" \in keys)

VerdictIsRight ==
  LET c == caller.by
      admitted == caller.verdict \in {"machine", "user"} IN
  /\ http.at \in {"admitted", "thinking", "streaming"} \/ spoken # -1 => admitted
  /\ admitted => c.state = "good" /\ c.form \in {"api_key"} \union Verifiable
  /\ caller.verdict = "expired" => c.form \in Verifiable /\ c.state = "expired"
  /\ caller.verdict # "none" /\ caller.online /\ c.form \in Verifiable =>
       /\ c.state = "good" => admitted
       /\ c.state = "expired" /\ ~ErrorIsLost(c.form) => caller.verdict = "expired"
=============================================================================
