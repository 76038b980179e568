---------------------------- MODULE MarketingChat -----------------------------
(***************************************************************************)
(* The assistant of the public website.  A visitor has no account: a       *)
(* session is opened with a random token, whose hash is kept in the        *)
(* session's metadata, and every later request must present it.  A request *)
(* either asks the assistant or leaves the visitor's details, which are    *)
(* merged into the same metadata - read in one statement, written in       *)
(* another - and then sent on to GoHighLevel.  Requests overlap.           *)
(***************************************************************************)
EXTENDS Integers, Sequences, SequencesExt

CONSTANTS
  Visit,           \* sessions of visitors
  Inquiry,         \* overlapping requests
  Form, NoForm,    \* the details a visitor may leave
  VisitWindow,     \* 10: messages that are read back
  MaxInquiries,    \* bound on requests
  MaxInquiryFaults \* bound on requests that fail

ASSUME MarketingAssumption ==
  NoForm \notin Form /\ VisitWindow \in Nat \ {0}
    /\ {MaxInquiries, MaxInquiryFaults} \subseteq Nat

VARIABLES
  visit,        \* ai_sessions: opened, whether the metadata has the hash, lead
  said,         \* conversation_messages of each session
  inquiry,      \* where each request is
  contacts,     \* details that reached GoHighLevel, with their session
  told,         \* details a visitor was told are saved
  inquiries, inquiryFaults

marketingVars ==
  <<visit, said, inquiry, contacts, told, inquiries, inquiryFaults>>

AtHome == [at |-> "idle"]
Message(role, n) == [role |-> role, turn |-> n]

MarketingTypeOK ==
  /\ \A v \in Visit : /\ {visit[v].opened, visit[v].hash} \subseteq BOOLEAN
                      /\ visit[v].lead \in Form \union {NoForm}
                      /\ \A m \in ToSet(said[v]) : m.turn \in 1..inquiries
  /\ \A i \in Inquiry : inquiry[i].at \in
       {"idle", "reading", "storing", "asking", "merging", "saving", "sending"}
  /\ contacts \union told \subseteq Visit \X Form
  /\ inquiries \in 0..MaxInquiries /\ inquiryFaults \in 0..MaxInquiryFaults

MarketingInit ==
  /\ visit = [v \in Visit |-> [opened |-> FALSE, hash |-> FALSE, lead |-> NoForm]]
  /\ said = [v \in Visit |-> <<>>]
  /\ inquiry = [i \in Inquiry |-> AtHome]
  /\ contacts = {} /\ told = {}
  /\ inquiries = 0 /\ inquiryFaults = 0

InquiryGoes(i, to) == inquiry' = [inquiry EXCEPT ![i] = to]

-----------------------------------------------------------------------------
(* createSession: a row whose metadata holds the hash of the token that is *)
(* handed out; verifySession: the row and the hash of the token presented. *)
OpensVisit(v) ==
  /\ ~visit[v].opened
  /\ visit' = [visit EXCEPT ![v] = [@ EXCEPT !.opened = TRUE, !.hash = TRUE]]
VisitVerified(v) == visit[v].opened /\ visit[v].hash

(* A request begins; one whose session and token do not fit ends at once.  *)
InquiryBegins(i, to) ==
  /\ inquiry[i].at = "idle" /\ inquiries < MaxInquiries
  /\ inquiries' = inquiries + 1 /\ InquiryGoes(i, to)
  /\ UNCHANGED <<said, contacts, told, inquiryFaults>>

StartSession(v) ==
  /\ OpensVisit(v)
  /\ UNCHANGED <<said, inquiry, contacts, told, inquiries, inquiryFaults>>

AskAssistant(i, v) ==
  /\ InquiryBegins(i, [at |-> "reading", visit |-> v, turn |-> inquiries + 1])
  /\ OpensVisit(v) \/ (VisitVerified(v) /\ UNCHANGED visit)

ReadConversation(i) ==
  LET q == inquiry[i]
      s == said[q.visit]
      from == IF Len(s) > VisitWindow THEN Len(s) - VisitWindow + 1 ELSE 1
  IN
  /\ q.at = "reading"
  /\ InquiryGoes(i, [at |-> "storing", visit |-> q.visit, turn |-> q.turn,
                     history |-> SubSeq(s, from, Len(s))])
  /\ UNCHANGED <<visit, said, contacts, told, inquiries, inquiryFaults>>

Says(i, role) ==
  said' = [said EXCEPT ![inquiry[i].visit] = Append(@, Message(role, inquiry[i].turn))]

StoreVisitorQuestion(i) ==
  /\ inquiry[i].at = "storing" /\ Says(i, "user")
  /\ InquiryGoes(i, [inquiry[i] EXCEPT !.at = "asking"])
  /\ UNCHANGED <<visit, contacts, told, inquiries, inquiryFaults>>

(* The model's reply, or a fixed one when it is empty, is stored and shown.*)
StoreReply(i) ==
  /\ inquiry[i].at = "asking" /\ Says(i, "assistant") /\ InquiryGoes(i, AtHome)
  /\ UNCHANGED <<visit, contacts, told, inquiries, inquiryFaults>>

-----------------------------------------------------------------------------
LeaveDetails(i, v, form) ==
  /\ VisitVerified(v) /\ InquiryBegins(i, [at |-> "merging", visit |-> v, form |-> form])
  /\ UNCHANGED visit

ReadMetadata(i) ==
  LET q == inquiry[i] IN
  /\ q.at = "merging"
  /\ InquiryGoes(i, [at |-> "saving", visit |-> q.visit, form |-> q.form,
                     metadata |-> visit[q.visit]])
  /\ UNCHANGED <<visit, said, contacts, told, inquiries, inquiryFaults>>

(* The metadata as it was read, with the details.                          *)
Merged(metadata, form) == [metadata EXCEPT !.lead = form]

SaveDetails(i) ==
  LET q == inquiry[i] IN
  /\ q.at = "saving"
  /\ visit' = [visit EXCEPT ![q.visit] = Merged(q.metadata, q.form)]
  /\ InquiryGoes(i, [at |-> "sending", visit |-> q.visit, form |-> q.form])
  /\ UNCHANGED <<said, contacts, told, inquiries, inquiryFaults>>

(* Sent on when GoHighLevel is connected; every error is swallowed, and    *)
(* may hide that the contact was made.                                     *)
SendDetails(i, arrives) ==
  LET q == inquiry[i] IN
  /\ q.at = "sending" /\ InquiryGoes(i, AtHome)
  /\ contacts' = contacts \union (IF arrives THEN {<<q.visit, q.form>>} ELSE {})
  /\ told' = told \union {<<q.visit, q.form>>}
  /\ UNCHANGED <<visit, said, inquiries, inquiryFaults>>

(* An error or a crash ends a request where it is.                         *)
InquiryFails(i) ==
  /\ inquiry[i].at # "idle" /\ inquiryFaults < MaxInquiryFaults
  /\ inquiryFaults' = inquiryFaults + 1 /\ InquiryGoes(i, AtHome)
  /\ UNCHANGED <<visit, said, contacts, told, inquiries>>

MarketingNext ==
  \/ \E v \in Visit : StartSession(v)
  \/ \E i \in Inquiry :
       \/ \E v \in Visit : AskAssistant(i, v)
       \/ \E v \in Visit, f \in Form : LeaveDetails(i, v, f)
       \/ \E arrives \in BOOLEAN : SendDetails(i, arrives)
       \/ ReadConversation(i) \/ StoreVisitorQuestion(i) \/ StoreReply(i)
       \/ ReadMetadata(i) \/ SaveDetails(i) \/ InquiryFails(i)

MarketingSpec == MarketingInit /\ [][MarketingNext]_marketingVars

-----------------------------------------------------------------------------
(* The token a visitor was given opens the session for good: no merge of   *)
(* details drops its hash, however many overlap (captureLead).             *)
VisitKeepsToken == \A v \in Visit : visit[v].opened => visit[v].hash

(* Details that reached GoHighLevel, or of which a visitor was told that   *)
(* they are saved, are in the session - or later ones are, but never none: *)
(* no request that read the session before them takes them back.           *)
DetailsAreKept ==
  \A c \in contacts \union told : visit[c[1]].lead # NoForm

(* An answer stands in the session of its question, behind it, and alone;  *)
(* and the model is not given a question among what was said before it.    *)
ReplyFollowsQuestion ==
  /\ \A i \in Inquiry : inquiry[i].at = "asking" =>
       \A m \in ToSet(inquiry[i].history) : m.turn # inquiry[i].turn
  /\ \A v \in Visit : \A n \in DOMAIN said[v] : said[v][n].role = "assistant" =>
       LET t == said[v][n].turn
           of(role) == {m \in DOMAIN said[v] : said[v][m] = Message(role, t)}
       IN  of("assistant") = {n} /\ \E m \in of("user") : m < n
=============================================================================
