---------------------------- MODULE CommandsProofs ----------------------------
(***************************************************************************)
(* Proofs about Commands for any number of actions, requests, deliveries,  *)
(* file changes, attempts, faults, crashes and closed pull requests.       *)
(*                                                                         *)
(* The invariant has a part for each delivery and a part for each command. *)
(* A step of one delivery touches its own part and that of its command,    *)
(* and no other delivery is executing that command (StepKeepsInv).  That   *)
(* the commands implement CommandExecution takes a second invariant,       *)
(* PromiseInv, proved relative to the first.                               *)
(***************************************************************************)
EXTENDS Commands, TLAPS

NoneLate(c) == \A e \in late : e.of # c

ForAction  == {"write", "invalid"}
ForRequest == {"branch", "put", "lookup", "pull", "disable"}
Whole      == {"lookup", "pull", "record", "disable"}

CallInv(d) ==
  /\ pc[d] \in ForAction => cmd[d] \in Action
  /\ pc[d] \in ForRequest => cmd[d] \in Request
  /\ pc[d] \in Executing => status[cmd[d]] \notin {"none", "draft", "approved", "failed"}
  /\ pc[d] \in Executing \ {"catch"} /\ cmd[d] \in Action => status[cmd[d]] = "executing"
  /\ pc[d] \in {"prepare", "write", "invalid"} /\ cmd[d] \in Action
       => applied[cmd[d]] = 0 /\ NoneLate(cmd[d])
  /\ pc[d] = "record" /\ cmd[d] \in Action => applied[cmd[d]] = 1
  /\ pc[d] # "put" => at[d] = 0
  /\ pc[d] = "put" => at[d] \in 1..NChanges /\ 1..(at[d] - 1) \subseteq written[cmd[d]]
  /\ pc[d] \in Whole /\ cmd[d] \in Request => written[cmd[d]] = 1..NChanges

ActionInv(a) ==
  /\ applied[a] <= 1
  /\ status[a] \in {"none", "draft", "approved", "failed"} => applied[a] = 0 /\ NoneLate(a)
  /\ status[a] = "succeeded" => applied[a] = 1
  /\ \A e \in late : e.of = a =>
       e = [of |-> a, op |-> "write", change |-> 0] /\ applied[a] = 0

RequestInv(r) ==
  /\ pulls[r] > 0 => written[r] = 1..NChanges
  /\ \A e \in late : e.of = r =>
       /\ e.op # "write"
       /\ e.op = "put" => e.change \in 1..NChanges
       /\ e.op = "pull" => written[r] = 1..NChanges

CommandInv(c) ==
  /\ c \in Action => ActionInv(c)
  /\ c \in Request => RequestInv(c)

Inv ==
  /\ TypeOK
  /\ OneExecutor
  /\ \A d \in Call : CallInv(d)
  /\ \A c \in Command : CommandInv(c)
-------------------------------------------------------------------------------
LEMMA InitInv == Init => Inv
<1> SUFFICES ASSUME Init PROVE Inv
  OBVIOUS
<1> USE CommandsAssumption
<1>1. TypeOK
  <2>1. /\ status \in [Command -> Status]
        /\ \A a \in Action : status[a] # "pull_request_opened"
        /\ \A r \in Request : status[r] \notin {"succeeded", "failed"}
    BY DEF Init, Status, Command
  <2>2. /\ pc \in [Call -> {"free", "queued"} \cup Executing]
        /\ cmd \in [Call -> Command \cup {NoCommand}]
        /\ left \in [Call -> 0..MaxAttempts]
        /\ at \in [Call -> 0..NChanges]
        /\ pr \in [Call -> Nat]
        /\ \A d \in Call : (pc[d] = "free") = (cmd[d] = NoCommand)
    BY DEF Init
  <2>3. /\ recorded \in [Request -> Nat]
        /\ applied \in [Action -> Nat]
        /\ written \in [Request -> SUBSET (1..NChanges)]
        /\ pulls \in [Request -> Nat]
        /\ open \in [Request -> SUBSET Nat]
    BY DEF Init
  <2> QED
    BY <2>1, <2>2, <2>3 DEF Init, TypeOK
<1>2. OneExecutor
  BY DEF Init, OneExecutor, Executing, Writing
<1>3. \A d \in Call : CallInv(d)
  BY DEF Init, CallInv, ForAction, ForRequest, Executing, Writing, Whole
<1>4. \A c \in Command : CommandInv(c)
  BY DEF Init, Command, CommandInv, ActionInv, RequestInv, NoneLate
<1> QED
  BY <1>1, <1>2, <1>3, <1>4 DEF Inv

(* What the step of a delivery may change: its own place, the row of its   *)
(* command and what the provider holds of it; files only come to a branch. *)
Local(d) ==
  /\ \A d2 \in Call \ {d} : /\ pc'[d2] = pc[d2]
                            /\ cmd'[d2] = cmd[d2]
                            /\ at'[d2] = at[d2]
  /\ cmd'[d] \in {cmd[d], NoCommand}
  /\ \A c \in Command \ {cmd[d]} : status'[c] = status[c]
  /\ \A a \in Action \ {cmd[d]} : applied'[a] = applied[a]
  /\ \A r \in Request : written[r] \subseteq written'[r]
  /\ \A r \in Request \ {cmd[d]} : pulls'[r] = pulls[r]
  /\ \A e \in late' : e \in late \/ e.of = cmd[d]

(* No other delivery is executing the command of d.                        *)
Alone(d) == \A d2 \in Call \ {d} : pc[d2] \in Executing => cmd[d2] # cmd[d]

LEMMA StepKeepsInv ==
  ASSUME Inv, TypeOK', NEW d \in Call, Local(d), Alone(d),
         CallInv(d)', NEW c0 \in Command, c0 = cmd[d], CommandInv(c0)'
  PROVE  Inv'
<1> USE CommandsAssumption
<1>1. OneExecutor'
  <2> SUFFICES ASSUME NEW d1 \in Call, NEW d2 \in Call, d1 # d2,
                      pc'[d1] \in Executing, pc'[d2] \in Executing, cmd'[d1] = cmd'[d2]
               PROVE  FALSE
    BY DEF OneExecutor
  <2>0. \A x \in Call : pc'[x] \in Executing => cmd'[x] # NoCommand
    BY DEF TypeOK, Executing, Writing
  <2>1. CASE d1 # d /\ d2 # d
    BY <2>1 DEF Local, Inv, OneExecutor
  <2>2. CASE d1 = d
    BY <2>0, <2>2 DEF Local, Alone
  <2>3. CASE d2 = d
    BY <2>0, <2>3 DEF Local, Alone
  <2> QED
    BY <2>1, <2>2, <2>3
<1>2. ASSUME NEW c \in Command, c # cmd[d]
      PROVE  CommandInv(c)'
  <2>1. CommandInv(c) /\ status'[c] = status[c]
    BY <1>2 DEF Inv, Local
  <2>2. \A e \in late' : e.of = c => e \in late
    BY <1>2 DEF Local
  <2>3. ASSUME c \in Action PROVE ActionInv(c)'
    BY <1>2, <2>1, <2>2, <2>3 DEF CommandInv, ActionInv, Local, NoneLate
  <2>4. ASSUME c \in Request PROVE RequestInv(c)'
    <3>1. pulls'[c] = pulls[c] /\ written[c] \subseteq written'[c]
      BY <1>2, <2>4 DEF Local
    <3>2. written'[c] \subseteq 1..NChanges
      BY <2>4 DEF TypeOK
    <3>3. RequestInv(c)
      BY <2>1, <2>4 DEF CommandInv
    <3> QED
      BY <2>2, <3>1, <3>2, <3>3 DEF RequestInv
  <2> QED
    BY <2>3, <2>4 DEF CommandInv
<1>3. ASSUME NEW x \in Call, x # d
      PROVE  CallInv(x)'
  <2>1. pc'[x] = pc[x] /\ cmd'[x] = cmd[x] /\ at'[x] = at[x]
    BY <1>3 DEF Local
  <2>2. CallInv(x)
    BY DEF Inv
  <2>3. CASE pc[x] \notin Executing
    BY <2>1, <2>2, <2>3 DEF CallInv, Executing, Writing, ForAction, ForRequest, Whole
  <2>4. CASE pc[x] \in Executing
    <3>1. cmd[x] # cmd[d] /\ cmd[x] \in Command
      BY <1>3, <2>4 DEF Alone, Inv, TypeOK, Executing, Writing
    <3>2. status'[cmd[x]] = status[cmd[x]]
      BY <3>1 DEF Local
    <3>3. cmd[x] \in Action => applied'[cmd[x]] = applied[cmd[x]]
      BY <3>1 DEF Local
    <3>4. NoneLate(cmd[x]) => NoneLate(cmd[x])'
      BY <2>1, <3>1 DEF NoneLate, Local
    <3>5. cmd[x] \in Request =>
            /\ written[cmd[x]] \subseteq written'[cmd[x]]
            /\ written'[cmd[x]] \subseteq 1..NChanges
      BY DEF Local, TypeOK
    <3>6. pc[x] = "put" => cmd[x] \in Request
      BY <2>2 DEF CallInv, ForRequest
    <3> QED
      BY <2>1, <2>2, <3>2, <3>3, <3>4, <3>5, <3>6 DEF CallInv, NoneLate
  <2> QED
    BY <2>3, <2>4
<1>4. \A c \in Command : CommandInv(c)'
  BY <1>2
<1>5. \A x \in Call : CallInv(x)'
  BY <1>3
<1> QED
  BY <1>1, <1>4, <1>5 DEF Inv
-------------------------------------------------------------------------------
(* The parts of TypeOK.                                                    *)
RowTypes ==
  /\ status \in [Command -> Status]
  /\ \A a \in Action : status[a] # "pull_request_opened"
  /\ \A r \in Request : status[r] \notin {"succeeded", "failed"}
  /\ recorded \in [Request -> Nat]
  /\ job \subseteq Command

CallTypes ==
  /\ pc \in [Call -> {"free", "queued"} \cup Executing]
  /\ cmd \in [Call -> Command \cup {NoCommand}]
  /\ \A d \in Call : (pc[d] = "free") = (cmd[d] = NoCommand)
  /\ left \in [Call -> 0..MaxAttempts]
  /\ at \in [Call -> 0..NChanges]
  /\ pr \in [Call -> Nat]

ProviderTypes ==
  /\ applied \in [Action -> Nat]
  /\ branch \subseteq Request
  /\ written \in [Request -> SUBSET (1..NChanges)]
  /\ pulls \in [Request -> Nat]
  /\ open \in [Request -> SUBSET Nat]
  /\ moved \subseteq Request

BoundTypes ==
  /\ faults \in 0..MaxFaults
  /\ crashes \in 0..MaxCrashes
  /\ closes \in 0..MaxCloses

LEMMA TypeParts ==
  TypeOK = (RowTypes /\ CallTypes /\ ProviderTypes /\ late \subseteq Effect /\ BoundTypes)
BY DEF TypeOK, RowTypes, CallTypes, ProviderTypes, BoundTypes

(* The part of Local that is about the deliveries.                         *)
Moves(d) ==
  /\ \A d2 \in Call \ {d} : /\ pc'[d2] = pc[d2]
                            /\ cmd'[d2] = cmd[d2]
                            /\ at'[d2] = at[d2]
  /\ cmd'[d] \in {cmd[d], NoCommand}

(* A fault stays within its bound.                                         *)
LEMMA FaultTypes ==
  ASSUME BoundTypes, Fault, UNCHANGED <<crashes, closes>>
  PROVE  BoundTypes'
BY CommandsAssumption DEF BoundTypes, Fault

(* A delivery that ends, or goes back to its queue.                        *)
LEMMA Ended ==
  ASSUME CallTypes, NEW d \in Call, pc[d] # "free", Throw(d) \/ Return(d)
  PROVE  CallTypes' /\ Moves(d) /\ pc'[d] \in {"free", "queued"} /\ at'[d] = 0
<1> USE CommandsAssumption
<1>1. CASE Return(d)
  <2>1. Moves(d) /\ pc'[d] = "free" /\ at'[d] = 0 /\ cmd'[d] = NoCommand
    BY <1>1 DEF Return, CallTypes, Moves
  <2>2. \A x \in Call : (pc'[x] = "free") = (cmd'[x] = NoCommand)
    BY <2>1 DEF Moves, CallTypes
  <2> QED
    BY <1>1, <2>1, <2>2 DEF Return, CallTypes
<1>2. CASE left[d] > 1 /\ Throw(d)
  <2>1. /\ pc'   = [pc EXCEPT ![d] = "queued"]
        /\ left' = [left EXCEPT ![d] = left[d] - 1]
        /\ at'   = [at EXCEPT ![d] = 0]
        /\ pr'   = [pr EXCEPT ![d] = 0]
        /\ cmd' = cmd
    BY <1>2 DEF Throw
  <2>2. Moves(d) /\ pc'[d] = "queued" /\ at'[d] = 0
    BY <2>1 DEF CallTypes, Moves
  <2>3. \A x \in Call : (pc'[x] = "free") = (cmd'[x] = NoCommand)
    BY <2>1, <2>2 DEF Moves, CallTypes
  <2>4. left[d] - 1 \in 0..MaxAttempts
    BY <1>2 DEF CallTypes
  <2> QED
    BY <2>1, <2>2, <2>3, <2>4 DEF CallTypes
<1> QED
  BY <1>1, <1>2 DEF Throw

(* A delivery that goes on to another step.                                *)
LEMMA Stepped ==
  ASSUME CallTypes, NEW d \in Call, pc[d] # "free",
         NEW label \in Executing, NEW n \in 0..NChanges, Step(d, label, n)
  PROVE  CallTypes' /\ Moves(d) /\ pc'[d] = label /\ at'[d] = n /\ cmd' = cmd
<1>1. pc' = [pc EXCEPT ![d] = label] /\ at' = [at EXCEPT ![d] = n]
  BY DEF Step
<1>2. cmd' = cmd /\ left' = left /\ pr' = pr
  BY DEF Step
<1>3. Moves(d) /\ pc'[d] = label /\ at'[d] = n
  BY <1>1, <1>2 DEF CallTypes, Moves
<1>4. label # "free"
  BY DEF Executing, Writing
<1>5. \A x \in Call : (pc'[x] = "free") = (cmd'[x] = NoCommand)
  BY <1>2, <1>3, <1>4 DEF Moves, CallTypes
<1> QED
  BY <1>1, <1>2, <1>3, <1>5 DEF CallTypes

LEMMA CatchIsStep ==
  ASSUME NEW d, NEW label PROVE Catch(d, label) = Step(d, label, 0)
BY DEF Catch, Step

(* What carrying out one write changes at the provider.                    *)
Sound(e) ==
  /\ e \in Effect
  /\ e.op = "write" <=> e.of \in Action
  /\ e.op = "put" => e.change \in 1..NChanges

LEMMA CarriedOut ==
  ASSUME ProviderTypes, NEW e, Sound(e), CarryOut(e)
  PROVE  /\ ProviderTypes'
         /\ \A a \in Action \ {e.of} : applied'[a] = applied[a]
         /\ e.op = "write" => applied'[e.of] = applied[e.of] + 1
         /\ \A r \in Request : written[r] \subseteq written'[r]
         /\ e.op = "put" => written'[e.of] = written[e.of] \cup {e.change}
         /\ e.op # "put" => written' = written
         /\ \A r \in Request \ {e.of} : pulls'[r] = pulls[r]
         /\ e.op # "pull" => pulls' = pulls
<1> USE CommandsAssumption
<1>1. e.of \in Action \cup Request /\ e.op \in Writing /\ e.change \in 0..NChanges
  BY DEF Sound, Effect, Command
<1>2. CASE e.op = "write"
  <2>1. e.of \in Action /\ applied' = [applied EXCEPT ![e.of] = @ + 1]
    BY <1>2 DEF Sound, CarryOut
  <2>2. UNCHANGED <<branch, written, pulls, open, moved>>
    BY <1>2 DEF CarryOut
  <2> QED
    BY <1>2, <2>1, <2>2 DEF ProviderTypes
<1>3. CASE e.op = "branch"
  <2>1. e.of \in Request /\ branch' = branch \cup {e.of}
    BY <1>1, <1>3 DEF Sound, CarryOut
  <2>2. UNCHANGED <<applied, written, pulls, open, moved>>
    BY <1>3 DEF CarryOut
  <2> QED
    BY <1>3, <2>1, <2>2 DEF ProviderTypes
<1>4. CASE e.op = "put"
  <2>1. e.of \in Request /\ written' = [written EXCEPT ![e.of] = @ \cup {e.change}]
    BY <1>1, <1>4 DEF Sound, CarryOut
  <2>2. UNCHANGED <<applied, branch, pulls, open, moved>>
    BY <1>4 DEF CarryOut
  <2>3. e.change \in 1..NChanges
    BY <1>4 DEF Sound
  <2>4. written'[e.of] = written[e.of] \cup {e.change}
    BY <2>1 DEF ProviderTypes
  <2>5. \A r \in Request \ {e.of} : written'[r] = written[r]
    BY <2>1 DEF ProviderTypes
  <2>6. written' \in [Request -> SUBSET (1..NChanges)]
    BY <2>1, <2>3 DEF ProviderTypes
  <2> QED
    BY <1>4, <2>1, <2>2, <2>4, <2>5, <2>6 DEF ProviderTypes
<1>5. CASE e.op = "pull"
  <2>1. /\ e.of \in Request
        /\ pulls' = [pulls EXCEPT ![e.of] = @ + 1]
        /\ open' = [open EXCEPT ![e.of] = {pulls[e.of] + 1}]
    BY <1>1, <1>5 DEF Sound, CarryOut
  <2>2. UNCHANGED <<applied, branch, written, moved>>
    BY <1>5 DEF CarryOut
  <2>3. pulls[e.of] + 1 \in Nat
    BY <2>1 DEF ProviderTypes
  <2>4. open' \in [Request -> SUBSET Nat]
    BY <2>1, <2>3 DEF ProviderTypes
  <2> QED
    BY <1>5, <2>1, <2>2, <2>3, <2>4 DEF ProviderTypes
<1> QED
  BY <1>1, <1>2, <1>3, <1>4, <1>5 DEF Writing
-------------------------------------------------------------------------------
LEMMA ExecutesAlone ==
  ASSUME Inv, NEW d \in Call, pc[d] \in Executing
  PROVE  Alone(d) /\ cmd[d] \in Command /\ pc[d] # "free"
BY DEF Inv, OneExecutor, Alone, TypeOK, Executing, Writing

(* A delivery that is not executing has nothing to answer for.             *)
LEMMA IdleCall ==
  ASSUME NEW d \in Call, pc'[d] \in {"free", "queued"}, at'[d] = 0
  PROVE  CallInv(d)'
BY DEF CallInv, Executing, Writing, ForAction, ForRequest, Whole

(* Nothing but the delivery, and what the properties do not look at, moves. *)
LEMMA QuietKeepsInv ==
  ASSUME Inv, NEW d \in Call, RowTypes', CallTypes', ProviderTypes', BoundTypes', Moves(d),
         UNCHANGED <<status, applied, written, pulls, late>>,
         CallInv(d)', pc'[d] \in Executing => pc[d] \in Executing
  PROVE  Inv'
<1>1. TypeOK /\ TypeOK'
  BY TypeParts DEF Inv, TypeOK, RowTypes, CallTypes, ProviderTypes, BoundTypes
<1>2. ASSUME NEW x \in Call
      PROVE  CallInv(x)'
  <2>1. CASE x = d
    BY <2>1
  <2>2. CASE x # d
    <3>1. pc'[x] = pc[x] /\ cmd'[x] = cmd[x] /\ at'[x] = at[x]
      BY <2>2 DEF Moves
    <3>2. CallInv(x)
      BY DEF Inv
    <3> QED
      BY <3>1, <3>2 DEF CallInv, NoneLate
  <2> QED
    BY <2>1, <2>2
<1>3. \A c \in Command : CommandInv(c)'
  BY DEF Inv, CommandInv, ActionInv, RequestInv, NoneLate
<1>4. OneExecutor'
  <2>1. \A x \in Call : pc'[x] \in Executing => pc[x] \in Executing /\ cmd'[x] = cmd[x]
    <3>1. \A x \in Call : pc'[x] \in Executing => cmd'[x] # NoCommand
      BY <1>1 DEF TypeOK, Executing, Writing
    <3> QED
      BY <3>1 DEF Moves
  <2> QED
    BY <2>1 DEF Inv, OneExecutor
<1> QED
  BY <1>1, <1>2, <1>3, <1>4 DEF Inv

LEMMA SentIsSound ==
  ASSUME Inv, NEW d \in Call, pc[d] \in Writing
  PROVE  Sound(Sent(d))
<1>1. cmd[d] \in Command /\ at[d] \in 0..NChanges /\ CallInv(d)
  BY DEF Inv, TypeOK, Writing
<1>2. Sent(d) \in Effect
  BY <1>1 DEF Sent, Effect
<1>3. Sent(d).of = cmd[d] /\ Sent(d).op = pc[d] /\ Sent(d).change = at[d]
  BY DEF Sent
<1>4. pc[d] = "write" <=> cmd[d] \in Action
  BY <1>1, CommandsAssumption DEF CallInv, ForAction, ForRequest, Writing
<1>5. pc[d] = "put" => at[d] \in 1..NChanges
  BY <1>1 DEF CallInv
<1> QED
  BY <1>2, <1>3, <1>4, <1>5 DEF Sound

(* A request that is given up on but may still arrive.                     *)
LEMMA LostKeepsCommand ==
  ASSUME Inv, NEW d \in Call, pc[d] \in Writing,
         UNCHANGED <<status, applied, written, pulls>>,
         late' = late \/ late' = late \cup {Sent(d)},
         NEW c \in Command, c = cmd[d]
  PROVE  CommandInv(c)' /\ late' \subseteq Effect
<1>1. Sound(Sent(d)) /\ late \subseteq Effect
  BY SentIsSound DEF Inv, TypeOK
<1>2. CallInv(d) /\ CommandInv(c) /\ pc[d] \in Executing
  BY DEF Inv, Executing
<1>3. Sent(d).of = c /\ Sent(d).op = pc[d] /\ Sent(d).change = at[d]
  BY DEF Sent
<1>4. ASSUME c \in Action
      PROVE  ActionInv(c)'
  <2>1. pc[d] = "write" /\ at[d] = 0
    BY <1>1, <1>2, <1>3, <1>4 DEF Sound, CallInv
  <2>2. Sent(d) = [of |-> c, op |-> "write", change |-> 0]
    BY <2>1 DEF Sent
  <2>3. applied[c] = 0 /\ status[c] = "executing"
    BY <1>2, <1>4, <2>1 DEF CallInv, Executing, Writing
  <2> QED
    BY <1>2, <1>4, <2>2, <2>3 DEF CommandInv, ActionInv, NoneLate
<1>5. ASSUME c \in Request
      PROVE  RequestInv(c)'
  <2>1. /\ pc[d] # "write"
        /\ pc[d] = "put" => at[d] \in 1..NChanges
        /\ pc[d] = "pull" => written[c] = 1..NChanges
    BY <1>1, <1>2, <1>3, <1>5, CommandsAssumption DEF Sound, CallInv, Whole
  <2>2. RequestInv(c)
    BY <1>2, <1>5 DEF CommandInv
  <2> QED
    BY <1>3, <2>1, <2>2 DEF RequestInv
<1>6. CommandInv(c)'
  BY <1>4, <1>5 DEF CommandInv
<1> QED
  BY <1>1, <1>6 DEF Sound

LEMMA UnansweredKeepsInv ==
  ASSUME Inv, NEW d \in Call, pc[d] \in Writing, Unanswered(d), Catch(d, "catch"),
         UNCHANGED <<rows, applied, branch, written, pulls, open, moved>>
  PROVE  Inv'
<1>1. pc[d] \in Executing /\ RowTypes /\ CallTypes /\ ProviderTypes /\ BoundTypes /\ TypeOK
  BY TypeParts DEF Inv, Executing
<1>2. Alone(d) /\ cmd[d] \in Command /\ pc[d] # "free"
  BY <1>1, ExecutesAlone
<1>3. "catch" \in Executing /\ 0 \in 0..NChanges
  BY CommandsAssumption DEF Executing
<1>4. CallTypes' /\ Moves(d) /\ pc'[d] = "catch" /\ at'[d] = 0 /\ cmd' = cmd
  BY <1>1, <1>2, <1>3, Stepped, CatchIsStep
<1>5. late' = late \/ late' = late \cup {Sent(d)}
  BY DEF Unanswered
<1>6. BoundTypes'
  BY <1>1, FaultTypes DEF Unanswered, BoundTypes, bounds
<1>7. UNCHANGED <<status, recorded, job, applied, written, pulls>>
  BY DEF rows
<1>8. PICK c \in Command : c = cmd[d]
  BY <1>2
<1>9. CommandInv(c)' /\ late' \subseteq Effect
  BY <1>5, <1>7, <1>8, LostKeepsCommand
<1>10. TypeOK'
  <2>1. RowTypes'
    BY <1>1, <1>7 DEF RowTypes
  <2>2. ProviderTypes'
    BY <1>1 DEF ProviderTypes
  <2> QED
    BY <1>4, <1>6, <1>9, <2>1, <2>2 DEF TypeOK, RowTypes, CallTypes, ProviderTypes, BoundTypes
<1>11. Local(d)
  BY <1>4, <1>5, <1>7 DEF Local, Moves, Sent
<1>12. CallInv(d)'
  <2>1. status[cmd[d]] \notin {"none", "draft", "approved", "failed"}
    BY <1>1 DEF Inv, CallInv
  <2> QED
    BY <1>4, <1>7, <2>1 DEF CallInv, ForAction, ForRequest, Whole
<1> QED
  BY <1>2, <1>8, <1>9, <1>10, <1>11, <1>12, StepKeepsInv
-------------------------------------------------------------------------------
(* The users' steps: only a row that nobody executes changes.              *)
LEMMA UserKeepsInv ==
  ASSUME Inv, NEW c \in Command, Create(c) \/ Approve(c)
  PROVE  Inv'
<1>1. /\ status[c] \in {"none", "draft"}
      /\ \E v \in {"draft", "approved"} : status' = [status EXCEPT ![c] = v]
      /\ job' \in {job, job \cup {c}}
      /\ UNCHANGED <<recorded, pc, cmd, left, at, pr, applied, branch, written, pulls,
                     open, moved, late, faults, crashes, closes>>
  BY DEF Create, Approve, calls, provider, bounds
<1>2. status'[c] \in {"draft", "approved"} /\ \A x \in Command \ {c} : status'[x] = status[x]
  BY <1>1 DEF Inv, TypeOK
<1>3. TypeOK'
  <2>1. status' \in [Command -> Status]
    BY <1>1 DEF Inv, TypeOK, Status
  <2>2. /\ \A a \in Action : status'[a] # "pull_request_opened"
        /\ \A r \in Request : status'[r] \notin {"succeeded", "failed"}
    BY <1>2 DEF Inv, TypeOK, Command
  <2> QED
    BY <1>1, <2>1, <2>2 DEF Inv, TypeOK, Effect
<1>4. OneExecutor'
  BY <1>1 DEF Inv, OneExecutor
<1>5. ASSUME NEW d \in Call
      PROVE  CallInv(d)'
  <2>1. CallInv(d) /\ (pc[d] \in Executing => cmd[d] \in Command)
    BY DEF Inv, TypeOK, Executing, Writing
  <2>2. pc[d] \in Executing => cmd[d] # c
    BY <1>1, <2>1 DEF CallInv
  <2>3. pc[d] \in Executing => status'[cmd[d]] = status[cmd[d]]
    BY <1>2, <2>1, <2>2
  <2> QED
    BY <1>1, <2>1, <2>3 DEF CallInv, NoneLate, Executing, Writing
<1>6. ASSUME NEW x \in Command
      PROVE  CommandInv(x)'
  <2>1. CommandInv(x)
    BY DEF Inv
  <2> QED
    BY <1>1, <1>2, <2>1 DEF CommandInv, ActionInv, RequestInv, NoneLate
<1> QED
  BY <1>3, <1>4, <1>5, <1>6 DEF Inv

(* Deliveries come, are turned away, fail before the try.                  *)
LEMMA DispatchKeepsInv ==
  ASSUME Inv, NEW d \in Call, NEW c \in Command, Dispatch(d, c)
  PROVE  Inv'
<1> USE CommandsAssumption
<1>1. RowTypes /\ CallTypes /\ ProviderTypes /\ BoundTypes
  BY TypeParts DEF Inv
<1>2. /\ pc[d] = "free"
      /\ pc' = [pc EXCEPT ![d] = "queued"]
      /\ cmd' = [cmd EXCEPT ![d] = c]
      /\ left' = [left EXCEPT ![d] = MaxAttempts]
      /\ UNCHANGED <<at, pr, status, recorded, job, applied, branch, written, pulls,
                     open, moved, late, faults, crashes, closes>>
  BY DEF Dispatch, rows, provider, bounds
<1>3. pc'[d] = "queued" /\ cmd'[d] = c /\ at'[d] = 0
  BY <1>1, <1>2 DEF CallTypes, Inv, CallInv
<1>4. \A x \in Call \ {d} : pc'[x] = pc[x] /\ cmd'[x] = cmd[x] /\ at'[x] = at[x]
  BY <1>1, <1>2 DEF CallTypes
<1>5. \A x \in Call : (pc'[x] = "free") = (cmd'[x] = NoCommand)
  BY <1>1, <1>3, <1>4 DEF CallTypes
<1>6. CallTypes'
  BY <1>1, <1>2, <1>5 DEF CallTypes
<1>7. TypeOK'
  BY <1>1, <1>2, <1>6 DEF Inv, TypeOK, CallTypes, Effect
<1>8. OneExecutor'
  BY <1>3, <1>4 DEF Inv, OneExecutor, Executing, Writing
<1>9. ASSUME NEW x \in Call
      PROVE  CallInv(x)'
  <2>1. CASE x = d
    BY <1>3, <2>1, IdleCall
  <2>2. CASE x # d
    BY <1>2, <1>4, <2>2 DEF Inv, CallInv, NoneLate
  <2> QED
    BY <2>1, <2>2
<1>10. \A x \in Command : CommandInv(x)'
  BY <1>2 DEF Inv, CommandInv, ActionInv, RequestInv, NoneLate
<1> QED
  BY <1>7, <1>8, <1>9, <1>10 DEF Inv

LEMMA RejectKeepsInv ==
  ASSUME Inv, NEW d \in Call, Reject(d)
  PROVE  Inv'
<1>1. RowTypes /\ CallTypes /\ ProviderTypes /\ BoundTypes
  BY TypeParts DEF Inv
<1>2. pc[d] = "queued" /\ Throw(d) /\ UNCHANGED <<rows, provider>>
  BY DEF Reject
<1>3. BoundTypes'
  BY <1>1, FaultTypes DEF Reject, BoundTypes, bounds
<1>4. CallTypes' /\ Moves(d) /\ pc'[d] \in {"free", "queued"} /\ at'[d] = 0
  BY <1>1, <1>2, Ended
<1>5. CallInv(d)' /\ pc'[d] \notin Executing
  BY <1>4, IdleCall DEF Executing, Writing
<1>6. UNCHANGED <<status, applied, written, pulls, late>>
  BY <1>2 DEF rows, provider
<1>7. RowTypes' /\ ProviderTypes'
  BY <1>1, <1>2 DEF rows, provider, RowTypes, ProviderTypes
<1> QED
  BY <1>3, <1>4, <1>5, <1>6, <1>7, QuietKeepsInv

LEMMA PrepareKeepsInv ==
  ASSUME Inv, NEW d \in Call, Prepare(d)
  PROVE  Inv'
<1> USE CommandsAssumption
<1>1. RowTypes /\ CallTypes /\ ProviderTypes /\ BoundTypes
  BY TypeParts DEF Inv
<1>2. pc[d] = "prepare" /\ UNCHANGED <<rows, provider>>
  BY DEF Prepare
<1>3. UNCHANGED <<status, applied, written, pulls, late>>
  BY <1>2 DEF rows, provider
<1>4. RowTypes' /\ ProviderTypes'
  BY <1>1, <1>2 DEF rows, provider, RowTypes, ProviderTypes
<1>5. pc[d] \in Executing /\ cmd[d] \in Command
  BY <1>1, <1>2 DEF CallTypes, Executing
<1>6. CASE pc' = [pc EXCEPT ![d] = Prepared(d)] /\ UNCHANGED <<cmd, left, at, pr, bounds>>
  <2>1. Prepared(d) \in Executing
    BY DEF Prepared, Executing, Writing
  <2>2. at[d] = 0
    BY <1>2 DEF Inv, CallInv
  <2>3. at' = [at EXCEPT ![d] = 0]
    BY <1>1, <1>6, <2>2 DEF CallTypes
  <2>4. Step(d, Prepared(d), 0)
    BY <1>6, <2>3 DEF Step
  <2>5. CallTypes' /\ Moves(d) /\ pc'[d] = Prepared(d) /\ at'[d] = 0 /\ cmd' = cmd
    BY <1>1, <1>2, <2>1, <2>4, Stepped
  <2>6. BoundTypes'
    BY <1>1, <1>6 DEF bounds, BoundTypes
  <2>7. CallInv(d)'
    <3>1. CallInv(d)
      BY DEF Inv
    <3>2. CASE cmd[d] \in Action
      <4>1. pc'[d] = "write"
        BY <2>5, <3>2 DEF Prepared
      <4> QED
        BY <1>2, <1>3, <1>5, <2>5, <3>1, <3>2, <4>1
           DEF CallInv, NoneLate, ForAction, ForRequest, Whole
    <3>3. CASE cmd[d] \in Request
      <4>1. pc'[d] = "branch" /\ cmd[d] \notin Action
        BY <2>5, <3>3 DEF Prepared
      <4> QED
        BY <1>2, <1>3, <1>5, <2>5, <3>1, <3>3, <4>1
           DEF CallInv, NoneLate, ForAction, ForRequest, Whole
    <3> QED
      BY <1>5, <3>2, <3>3 DEF Command
  <2> QED
    BY <1>3, <1>4, <1>5, <2>5, <2>6, <2>7, QuietKeepsInv
<1>7. CASE Fault /\ Throw(d) /\ UNCHANGED <<crashes, closes>>
  <2>1. CallTypes' /\ Moves(d) /\ pc'[d] \in {"free", "queued"} /\ at'[d] = 0
    BY <1>1, <1>2, <1>7, Ended
  <2>2. BoundTypes'
    BY <1>1, <1>7, FaultTypes
  <2>3. CallInv(d)'
    BY <2>1, IdleCall
  <2> QED
    BY <1>3, <1>4, <1>5, <2>1, <2>2, <2>3, QuietKeepsInv
<1> QED
  BY <1>6, <1>7 DEF Prepare

(* A step that leaves the row alone or changes it, and nothing at the      *)
(* provider.                                                               *)
LEMMA RowStepKeepsInv ==
  ASSUME Inv, NEW d \in Call, Alone(d), cmd[d] \in Command,
         RowTypes', CallTypes', BoundTypes', Moves(d), UNCHANGED provider,
         \A c \in Command \ {cmd[d]} : status'[c] = status[c],
         CallInv(d)',
         cmd[d] \in Action =>
           /\ status'[cmd[d]] \in {"none", "draft", "approved", "failed"}
                => applied[cmd[d]] = 0 /\ NoneLate(cmd[d])
           /\ status'[cmd[d]] = "succeeded" => applied[cmd[d]] = 1
  PROVE  Inv'
<1>1. UNCHANGED <<applied, branch, written, pulls, open, moved, late>>
  BY DEF provider
<1>2. TypeOK'
  BY <1>1 DEF Inv, TypeOK, RowTypes, CallTypes, BoundTypes, Effect
<1>3. Local(d)
  BY <1>1 DEF Local, Moves
<1>4. PICK c \in Command : c = cmd[d]
  OBVIOUS
<1>5. CommandInv(c)'
  <2>1. CommandInv(c)
    BY DEF Inv
  <2> QED
    BY <1>1, <1>4, <2>1 DEF CommandInv, ActionInv, RequestInv, NoneLate
<1> QED
  BY <1>2, <1>3, <1>4, <1>5, StepKeepsInv

LEMMA ClaimKeepsInv ==
  ASSUME Inv, NEW d \in Call, Claim(d)
  PROVE  Inv'
<1> USE CommandsAssumption
<1>1. RowTypes /\ CallTypes /\ ProviderTypes /\ BoundTypes
  BY TypeParts DEF Inv
<1>2. /\ pc[d] = "queued" /\ status[cmd[d]] = "approved"
      /\ status' = [status EXCEPT ![cmd[d]] = "executing"]
      /\ UNCHANGED <<recorded, job, provider>>
  BY DEF Claim, Claimable
<1>3. cmd[d] \in Command
  BY <1>1, <1>2 DEF CallTypes
<1>4. Alone(d)
  BY <1>2 DEF Inv, CallInv, Alone
<1>5. status'[cmd[d]] = "executing" /\ \A c \in Command \ {cmd[d]} : status'[c] = status[c]
  BY <1>1, <1>2, <1>3 DEF RowTypes
<1>6. RowTypes'
  <2>1. status' \in [Command -> Status]
    BY <1>1, <1>2 DEF RowTypes, Status
  <2>2. /\ \A a \in Action : status'[a] # "pull_request_opened"
        /\ \A r \in Request : status'[r] \notin {"succeeded", "failed"}
    BY <1>1, <1>5 DEF RowTypes, Command
  <2> QED
    BY <1>1, <1>2, <2>1, <2>2 DEF RowTypes
<1>7. cmd[d] \in Action => applied[cmd[d]] = 0 /\ NoneLate(cmd[d])
  BY <1>2, <1>3 DEF Inv, CommandInv, ActionInv
<1>8. UNCHANGED <<applied, written, late>>
  BY <1>2 DEF provider
<1>9. CASE pc' = [pc EXCEPT ![d] = "prepare"] /\ UNCHANGED <<cmd, left, at, pr, bounds>>
  <2>1. at[d] = 0
    BY <1>2 DEF Inv, CallInv
  <2>2. Step(d, "prepare", 0)
    BY <1>1, <1>9, <2>1 DEF Step, CallTypes
  <2>3. CallTypes' /\ Moves(d) /\ pc'[d] = "prepare" /\ at'[d] = 0 /\ cmd' = cmd
    BY <1>1, <1>2, <2>2, Stepped DEF Executing
  <2>4. BoundTypes'
    BY <1>1, <1>9 DEF bounds, BoundTypes
  <2>5. CallInv(d)'
    BY <1>5, <1>7, <1>8, <2>3 DEF CallInv, NoneLate, ForAction, ForRequest, Whole
  <2> QED
    BY <1>2, <1>3, <1>4, <1>5, <1>6, <2>3, <2>4, <2>5, RowStepKeepsInv
<1>10. CASE Fault /\ Throw(d) /\ UNCHANGED <<crashes, closes>>
  <2>1. CallTypes' /\ Moves(d) /\ pc'[d] \in {"free", "queued"} /\ at'[d] = 0
    BY <1>1, <1>2, <1>10, Ended
  <2>2. BoundTypes' /\ CallInv(d)'
    BY <1>1, <1>10, <2>1, FaultTypes, IdleCall
  <2> QED
    BY <1>2, <1>3, <1>4, <1>5, <1>6, <2>1, <2>2, RowStepKeepsInv
<1> QED
  BY <1>9, <1>10 DEF Claim
-------------------------------------------------------------------------------
(* A write the provider carries out and answers.                           *)
LEMMA CarriedKeepsInv ==
  ASSUME Inv, NEW d \in Call, pc[d] \in Writing, CarryOut(Sent(d)), UNCHANGED <<rows, late>>,
         CallTypes', BoundTypes', Moves(d), CallInv(d)'
  PROVE  Inv'
<1>1. /\ pc[d] \in Executing /\ ProviderTypes /\ RowTypes /\ Sound(Sent(d)) /\ CallInv(d)
      /\ late \subseteq Effect
  BY TypeParts, SentIsSound DEF Inv, Executing
<1>2. Alone(d) /\ cmd[d] \in Command
  BY <1>1, ExecutesAlone
<1>3. Sent(d).of = cmd[d] /\ Sent(d).op = pc[d] /\ Sent(d).change = at[d]
  BY DEF Sent
<1>4. /\ ProviderTypes'
      /\ \A a \in Action \ {cmd[d]} : applied'[a] = applied[a]
      /\ pc[d] = "write" => applied'[cmd[d]] = applied[cmd[d]] + 1
      /\ \A r \in Request : written[r] \subseteq written'[r]
      /\ \A r \in Request \ {cmd[d]} : pulls'[r] = pulls[r]
      /\ pc[d] # "pull" => pulls' = pulls
  BY <1>1, <1>3, CarriedOut
<1>5. UNCHANGED <<status, recorded, job, late>>
  BY DEF rows
<1>6. TypeOK'
  BY <1>1, <1>4, <1>5 DEF TypeOK, RowTypes, CallTypes, ProviderTypes, BoundTypes, Effect
<1>7. Local(d)
  BY <1>4, <1>5 DEF Local, Moves
<1>8. PICK c \in Command : c = cmd[d]
  BY <1>2
<1>9. ASSUME c \in Action
      PROVE  ActionInv(c)'
  <2>1. pc[d] = "write"
    BY <1>1, <1>3, <1>8, <1>9 DEF Sound
  <2>2. applied[c] = 0 /\ NoneLate(c) /\ status[c] = "executing"
    BY <1>1, <1>8, <1>9, <2>1 DEF CallInv, Executing, Writing
  <2>3. applied'[c] = 1 /\ status'[c] = "executing"
    BY <1>4, <1>5, <1>8, <2>1, <2>2
  <2> QED
    BY <1>5, <2>2, <2>3 DEF ActionInv, NoneLate
<1>10. ASSUME c \in Request
       PROVE  RequestInv(c)'
  <2>1. RequestInv(c) /\ written'[c] \subseteq 1..NChanges /\ written[c] \subseteq written'[c]
    BY <1>4, <1>10 DEF Inv, CommandInv, ProviderTypes
  <2>2. pc[d] = "pull" => written[c] = 1..NChanges
    BY <1>1, <1>8, <1>10 DEF CallInv, Whole
  <2>3. pulls'[c] > 0 => written[c] = 1..NChanges
    BY <1>4, <2>1, <2>2 DEF RequestInv
  <2> QED
    BY <1>5, <2>1, <2>3 DEF RequestInv
<1>11. CommandInv(c)'
  BY <1>9, <1>10 DEF CommandInv
<1> QED
  BY <1>2, <1>6, <1>7, <1>8, <1>11, StepKeepsInv

(* AutomationService.executeApproved.                                      *)
LEMMA WriteKeepsInv ==
  ASSUME Inv, NEW d \in Call, Write(d)
  PROVE  Inv'
<1> USE CommandsAssumption
<1>1. RowTypes /\ CallTypes /\ ProviderTypes /\ BoundTypes /\ CallInv(d)
  BY TypeParts DEF Inv
<1>2. pc[d] = "write" /\ UNCHANGED rows
  BY DEF Write
<1>3. /\ pc[d] \in Writing /\ pc[d] \in Executing /\ cmd[d] \in Action /\ at[d] = 0
      /\ applied[cmd[d]] = 0 /\ NoneLate(cmd[d]) /\ status[cmd[d]] = "executing"
  BY <1>1, <1>2 DEF CallInv, ForAction, Executing, Writing
<1>4. CASE CarryOut(Sent(d)) /\ pc' = [pc EXCEPT ![d] = "record"]
             /\ UNCHANGED <<late, cmd, left, at, pr, bounds>>
  <2>1. at' = [at EXCEPT ![d] = 0]
    BY <1>1, <1>3, <1>4 DEF CallTypes
  <2>2. Step(d, "record", 0)
    BY <1>4, <2>1 DEF Step
  <2>3. CallTypes' /\ Moves(d) /\ pc'[d] = "record" /\ at'[d] = 0 /\ cmd' = cmd
    BY <1>1, <1>2, <2>2, Stepped DEF Executing
  <2>4. BoundTypes'
    BY <1>1, <1>4 DEF bounds, BoundTypes
  <2>5. Sound(Sent(d)) /\ Sent(d).of = cmd[d] /\ Sent(d).op = "write"
    BY <1>2, <1>3, SentIsSound DEF Sent
  <2>6. applied'[cmd[d]] = applied[cmd[d]] + 1
    BY <1>1, <1>4, <2>5, CarriedOut
  <2>7. CallInv(d)'
    <3>1. status'[cmd'[d]] = "executing" /\ applied'[cmd'[d]] = 1 /\ cmd'[d] \in Action
      BY <1>2, <1>3, <2>3, <2>6 DEF rows
    <3> QED
      BY <2>3, <3>1 DEF CallInv, ForAction, ForRequest, Whole
  <2> QED
    BY <1>2, <1>3, <1>4, <2>3, <2>4, <2>7, CarriedKeepsInv
<1>5. CASE Fault /\ Catch(d, "invalid")
             /\ UNCHANGED <<applied, branch, written, pulls, open, moved, late, crashes, closes>>
  <2>1. CallTypes' /\ Moves(d) /\ pc'[d] = "invalid" /\ at'[d] = 0 /\ cmd' = cmd
    BY <1>1, <1>2, <1>5, Stepped, CatchIsStep DEF Executing
  <2>2. BoundTypes'
    BY <1>1, <1>5, FaultTypes
  <2>3. UNCHANGED <<status, applied, written, pulls, late>> /\ RowTypes' /\ ProviderTypes'
    BY <1>1, <1>2, <1>5 DEF rows, RowTypes, ProviderTypes
  <2>4. CallInv(d)'
    BY <1>3, <2>1, <2>3 DEF CallInv, NoneLate, ForAction, ForRequest, Whole
  <2> QED
    BY <1>3, <2>1, <2>2, <2>3, <2>4, QuietKeepsInv
<1>6. CASE Unanswered(d) /\ Catch(d, "catch")
             /\ UNCHANGED <<applied, branch, written, pulls, open, moved>>
  BY <1>2, <1>3, <1>6, UnansweredKeepsInv
<1> QED
  BY <1>4, <1>5, <1>6 DEF Write

(* The new status of one row.                                              *)
LEMMA RowWritten ==
  ASSUME RowTypes, NEW c \in Command, NEW v \in Status, UNCHANGED <<recorded, job>>,
         status' = [status EXCEPT ![c] = v],
         c \in Action => v # "pull_request_opened",
         c \in Request => v \notin {"succeeded", "failed"}
  PROVE  /\ RowTypes'
         /\ status'[c] = v
         /\ \A x \in Command \ {c} : status'[x] = status[x]
<1>1. status'[c] = v /\ \A x \in Command \ {c} : status'[x] = status[x]
  BY DEF RowTypes
<1>2. status' \in [Command -> Status]
  BY DEF RowTypes
<1>3. \A a \in Action : status'[a] # "pull_request_opened"
  BY <1>1 DEF RowTypes, Command
<1>4. \A r \in Request : status'[r] \notin {"succeeded", "failed"}
  BY <1>1 DEF RowTypes, Command
<1> QED
  BY <1>1, <1>2, <1>3, <1>4 DEF RowTypes

LEMMA RecordActionKeepsInv ==
  ASSUME Inv, NEW d \in Call, RecordAction(d)
  PROVE  Inv'
<1> USE CommandsAssumption
<1>1. RowTypes /\ CallTypes /\ ProviderTypes /\ BoundTypes /\ CallInv(d)
  BY TypeParts DEF Inv
<1>2. /\ pc[d] = "record" /\ cmd[d] \in Action
      /\ status' = [status EXCEPT ![cmd[d]] = "succeeded"] \/ status' = status
      /\ UNCHANGED <<recorded, job, provider>>
  BY DEF RecordAction
<1>3. /\ pc[d] \in Executing /\ cmd[d] \in Command
      /\ applied[cmd[d]] = 1 /\ status[cmd[d]] = "executing"
  BY <1>1, <1>2 DEF CallInv, Executing, Command
<1>4. Alone(d)
  BY <1>3, ExecutesAlone
<1>5. /\ RowTypes'
      /\ status'[cmd[d]] \in {"succeeded", "executing"}
      /\ \A c \in Command \ {cmd[d]} : status'[c] = status[c]
  <2>1. CASE status' = status
    BY <1>1, <1>2, <1>3, <2>1 DEF RowTypes
  <2>2. CASE status' = [status EXCEPT ![cmd[d]] = "succeeded"]
    BY <1>1, <1>2, <1>3, <2>2, RowWritten DEF Status
  <2> QED
    BY <1>2, <2>1, <2>2
<1>6. CASE Return(d) /\ UNCHANGED bounds
  <2>1. CallTypes' /\ Moves(d) /\ pc'[d] \in {"free", "queued"} /\ at'[d] = 0
    BY <1>1, <1>2, <1>6, Ended
  <2>2. CallInv(d)' /\ BoundTypes'
    BY <1>1, <1>6, <2>1, IdleCall DEF bounds, BoundTypes
  <2> QED
    BY <1>2, <1>3, <1>4, <1>5, <2>1, <2>2, RowStepKeepsInv
<1>7. CASE Fault /\ Catch(d, "catch") /\ UNCHANGED <<crashes, closes>>
  <2>1. CallTypes' /\ Moves(d) /\ pc'[d] = "catch" /\ at'[d] = 0 /\ cmd' = cmd
    BY <1>1, <1>2, <1>7, Stepped, CatchIsStep DEF Executing
  <2>2. CallInv(d)'
    BY <1>2, <1>5, <2>1 DEF CallInv, ForAction, ForRequest, Whole
  <2>3. BoundTypes'
    BY <1>1, <1>7, FaultTypes
  <2> QED
    BY <1>2, <1>3, <1>4, <1>5, <2>1, <2>2, <2>3, RowStepKeepsInv
<1> QED
  BY <1>6, <1>7 DEF RecordAction

LEMMA CatchActionKeepsInv ==
  ASSUME Inv, NEW d \in Call, CatchAction(d)
  PROVE  Inv'
<1> USE CommandsAssumption
<1>1. RowTypes /\ CallTypes /\ ProviderTypes /\ BoundTypes /\ CallInv(d)
  BY TypeParts DEF Inv
<1>2. /\ pc[d] \in {"catch", "invalid"} /\ cmd[d] \in Action /\ Throw(d)
      /\ UNCHANGED <<recorded, job, provider>>
      /\ \/ status' = status
         \/ /\ status[cmd[d]] = "executing"
            /\ status' = [status EXCEPT ![cmd[d]] = FailedStatus(d)]
  BY DEF CatchAction, Unsettled
<1>3. pc[d] \in Executing /\ pc[d] # "free" /\ cmd[d] \in Command
  BY <1>2 DEF Executing, Command
<1>4. Alone(d) /\ CommandInv(cmd[d])
  BY <1>3, ExecutesAlone DEF Inv
<1>5. BoundTypes'
  BY <1>1, FaultTypes DEF CatchAction, BoundTypes, bounds
<1>6. CallTypes' /\ Moves(d) /\ pc'[d] \in {"free", "queued"} /\ at'[d] = 0
  BY <1>1, <1>2, <1>3, Ended
<1>7. CallInv(d)'
  BY <1>6, IdleCall
<1>8. CASE status' = status
  <2>1. RowTypes'
    BY <1>1, <1>2, <1>8 DEF RowTypes
  <2> QED
    BY <1>2, <1>3, <1>4, <1>5, <1>6, <1>7, <1>8, <2>1, RowStepKeepsInv
       DEF CommandInv, ActionInv
<1>9. CASE status[cmd[d]] = "executing" /\ status' = [status EXCEPT ![cmd[d]] = FailedStatus(d)]
  <2>1. FailedStatus(d) \in {"failed", "executing"}
    BY DEF FailedStatus
  <2>2. FailedStatus(d) = "failed" => applied[cmd[d]] = 0 /\ NoneLate(cmd[d])
    BY <1>1, <1>2 DEF FailedStatus, CallInv
  <2>3. /\ RowTypes' /\ status'[cmd[d]] = FailedStatus(d)
        /\ \A c \in Command \ {cmd[d]} : status'[c] = status[c]
    BY <1>1, <1>2, <1>3, <1>9, <2>1, RowWritten DEF Status
  <2> QED
    BY <1>2, <1>3, <1>4, <1>5, <1>6, <1>7, <2>1, <2>2, <2>3, RowStepKeepsInv
<1> QED
  BY <1>2, <1>8, <1>9
-------------------------------------------------------------------------------
(* GithubService.executeApproved.                                          *)
LEMMA SendKeepsInv ==
  ASSUME Inv, NEW d \in Call, pc[d] \in {"branch", "put"}, UNCHANGED rows,
         NEW label \in {"put", "lookup"}, NEW n \in 0..NChanges, Send(d, label, n),
         label = "put" => n \in 1..NChanges,
         label = "lookup" => n = 0,
         label = "put" /\ pc[d] = "put" => n = at[d] + 1,
         label = "put" /\ pc[d] = "branch" => n = 1,
         label = "lookup" => pc[d] = "put" /\ at[d] = NChanges
  PROVE  Inv'
<1> USE CommandsAssumption
<1>1. RowTypes /\ CallTypes /\ ProviderTypes /\ BoundTypes /\ CallInv(d)
  BY TypeParts DEF Inv
<1>2. pc[d] \in Writing /\ pc[d] \in Executing /\ cmd[d] \in Request /\ pc[d] # "free"
  BY <1>1 DEF CallInv, ForRequest, Executing, Writing
<1>3. CASE CarryOut(Sent(d)) /\ Step(d, label, n) /\ UNCHANGED <<late, bounds>>
  <2>1. CallTypes' /\ Moves(d) /\ pc'[d] = label /\ at'[d] = n /\ cmd' = cmd
    BY <1>1, <1>2, <1>3, Stepped DEF Executing, Writing
  <2>2. BoundTypes'
    BY <1>1, <1>3 DEF bounds, BoundTypes
  <2>3. /\ Sound(Sent(d)) /\ Sent(d).of = cmd[d] /\ Sent(d).op = pc[d]
        /\ Sent(d).change = at[d]
    BY <1>2, SentIsSound DEF Sent
  <2>4. /\ ProviderTypes'
        /\ written[cmd[d]] \subseteq written'[cmd[d]]
        /\ pc[d] = "put" => written'[cmd[d]] = written[cmd[d]] \cup {at[d]}
    BY <1>1, <1>2, <1>3, <2>3, CarriedOut
  <2>5. pc[d] = "put" => at[d] \in 1..NChanges /\ 1..(at[d] - 1) \subseteq written[cmd[d]]
    BY <1>1 DEF CallInv
  <2>6. pc[d] = "put" => 1..at[d] \subseteq written'[cmd[d]]
    <3> SUFFICES ASSUME pc[d] = "put", NEW k \in 1..at[d] PROVE k \in written'[cmd[d]]
      OBVIOUS
    <3>1. k = at[d] \/ k \in 1..(at[d] - 1)
      BY <2>5
    <3> QED
      BY <2>4, <2>5, <3>1
  <2>7. label = "put" => 1..(n - 1) \subseteq written'[cmd[d]]
    <3> SUFFICES ASSUME label = "put", NEW k \in 1..(n - 1) PROVE k \in written'[cmd[d]]
      OBVIOUS
    <3>1. CASE pc[d] = "branch"
      BY <3>1
    <3>2. CASE pc[d] = "put"
      BY <2>5, <2>6, <3>2
    <3> QED
      BY <3>1, <3>2
  <2>8. label = "lookup" => written'[cmd[d]] = 1..NChanges
    BY <1>2, <2>4, <2>6 DEF ProviderTypes
  <2>9. status'[cmd[d]] \notin {"none", "draft", "approved", "failed"} /\ cmd[d] \notin Action
    BY <1>1, <1>2 DEF CallInv, rows
  <2>10. CallInv(d)'
    BY <1>2, <2>1, <2>7, <2>8, <2>9 DEF CallInv, ForAction, ForRequest, Whole
  <2> QED
    BY <1>2, <1>3, <2>1, <2>2, <2>10, CarriedKeepsInv
<1>4. CASE Unanswered(d) /\ Catch(d, "catch")
             /\ UNCHANGED <<applied, branch, written, pulls, open, moved>>
  BY <1>2, <1>4, UnansweredKeepsInv
<1> QED
  BY <1>3, <1>4 DEF Send

LEMMA MakeBranchKeepsInv ==
  ASSUME Inv, NEW d \in Call, MakeBranch(d)
  PROVE  Inv'
<1> USE CommandsAssumption
<1>1. RowTypes /\ CallTypes /\ ProviderTypes /\ BoundTypes /\ CallInv(d)
  BY TypeParts DEF Inv
<1>2. pc[d] = "branch" /\ UNCHANGED rows
  BY DEF MakeBranch
<1>3. pc[d] \in Executing /\ cmd[d] \in Request /\ cmd[d] \notin Action
  BY <1>1, <1>2 DEF CallInv, ForRequest, Executing, Writing
<1>4. RowTypes' /\ UNCHANGED status
  BY <1>1, <1>2 DEF rows, RowTypes
<1>5. CASE Send(d, "put", 1)
  BY <1>2, <1>5, SendKeepsInv
<1>6. CASE Step(d, "put", 1) /\ UNCHANGED <<provider, bounds>>
  <2>1. CallTypes' /\ Moves(d) /\ pc'[d] = "put" /\ at'[d] = 1 /\ cmd' = cmd
    BY <1>1, <1>2, <1>6, Stepped DEF Executing, Writing
  <2>2. UNCHANGED <<applied, written, pulls, late>> /\ ProviderTypes' /\ BoundTypes'
    BY <1>1, <1>6 DEF provider, bounds, ProviderTypes, BoundTypes
  <2>3. 1..(1 - 1) = {}
    OBVIOUS
  <2>4. CallInv(d)'
    BY <1>1, <1>3, <1>4, <2>1, <2>3 DEF CallInv, ForAction, ForRequest, Whole
  <2> QED
    BY <1>3, <1>4, <2>1, <2>2, <2>4, QuietKeepsInv
<1>7. CASE /\ UNCHANGED bounds \/ (Fault /\ UNCHANGED <<crashes, closes>>)
           /\ Catch(d, "catch") /\ UNCHANGED provider
  <2>1. CallTypes' /\ Moves(d) /\ pc'[d] = "catch" /\ at'[d] = 0 /\ cmd' = cmd
    BY <1>1, <1>2, <1>7, Stepped, CatchIsStep DEF Executing
  <2>2. BoundTypes'
    BY <1>1, <1>7, FaultTypes DEF bounds, BoundTypes
  <2>3. UNCHANGED <<applied, written, pulls, late>> /\ ProviderTypes'
    BY <1>1, <1>7 DEF provider, ProviderTypes
  <2>4. CallInv(d)'
    BY <1>1, <1>3, <1>4, <2>1 DEF CallInv, ForAction, ForRequest, Whole
  <2> QED
    BY <1>3, <1>4, <2>1, <2>2, <2>3, <2>4, QuietKeepsInv
<1> QED
  BY <1>5, <1>6, <1>7 DEF MakeBranch

LEMMA PutChangeKeepsInv ==
  ASSUME Inv, NEW d \in Call, PutChange(d)
  PROVE  Inv'
<1> USE CommandsAssumption
<1>1. pc[d] = "put" /\ UNCHANGED rows
  BY DEF PutChange
<1>2. at[d] \in 1..NChanges
  BY <1>1 DEF Inv, CallInv
<1>3. CASE at[d] = NChanges
  <2>1. Send(d, "lookup", 0)
    BY <1>3 DEF PutChange, LastChange
  <2> QED
    BY <1>1, <1>3, <2>1, SendKeepsInv
<1>4. CASE at[d] # NChanges
  <2>1. Send(d, "put", at[d] + 1) /\ at[d] + 1 \in 1..NChanges
    BY <1>2, <1>4 DEF PutChange, LastChange
  <2> QED
    BY <1>1, <2>1, SendKeepsInv
<1> QED
  BY <1>3, <1>4

LEMMA LookupPullKeepsInv ==
  ASSUME Inv, NEW d \in Call, LookupPull(d)
  PROVE  Inv'
<1> USE CommandsAssumption
<1>1. RowTypes /\ CallTypes /\ ProviderTypes /\ BoundTypes /\ CallInv(d)
  BY TypeParts DEF Inv
<1>2. pc[d] = "lookup" /\ UNCHANGED <<rows, provider>>
  BY DEF LookupPull
<1>3. /\ pc[d] \in Executing /\ cmd[d] \in Request /\ cmd[d] \notin Action /\ at[d] = 0
      /\ written[cmd[d]] = 1..NChanges
  BY <1>1, <1>2 DEF CallInv, ForRequest, Executing, Whole
<1>4. /\ RowTypes' /\ ProviderTypes'
      /\ UNCHANGED <<status, applied, written, pulls, late>>
  BY <1>1, <1>2 DEF rows, provider, RowTypes, ProviderTypes
<1>5. BoundTypes'
  BY <1>1, FaultTypes DEF LookupPull, bounds, BoundTypes
<1>6. CASE /\ Existing(cmd[d]) # {}
           /\ pr' = [pr EXCEPT ![d] = CHOOSE n \in Existing(cmd[d]) : TRUE]
           /\ pc' = [pc EXCEPT ![d] = "record"]
           /\ UNCHANGED <<cmd, left, at, bounds>>
  <2>1. (CHOOSE n \in Existing(cmd[d]) : TRUE) \in Nat
    BY <1>1, <1>3, <1>6 DEF Existing, ProviderTypes
  <2>2. Moves(d) /\ pc'[d] = "record" /\ at'[d] = 0 /\ cmd' = cmd
    BY <1>1, <1>3, <1>6 DEF Moves, CallTypes
  <2>3. \A x \in Call : (pc'[x] = "free") = (cmd'[x] = NoCommand)
    BY <1>1, <1>2, <2>2 DEF Moves, CallTypes
  <2>4. CallTypes'
    BY <1>1, <1>6, <2>1, <2>3 DEF CallTypes, Executing
  <2>5. CallInv(d)'
    BY <1>1, <1>3, <1>4, <2>2 DEF CallInv, ForAction, ForRequest, Whole
  <2> QED
    BY <1>3, <1>4, <1>5, <2>2, <2>4, <2>5, QuietKeepsInv
<1>7. ASSUME NEW label \in {"pull", "catch"}, Step(d, label, 0)
      PROVE  Inv'
  <2>1. CallTypes' /\ Moves(d) /\ pc'[d] = label /\ at'[d] = 0 /\ cmd' = cmd
    BY <1>1, <1>2, <1>7, Stepped DEF Executing, Writing
  <2>2. CallInv(d)'
    BY <1>1, <1>3, <1>4, <2>1 DEF CallInv, ForAction, ForRequest, Whole
  <2> QED
    BY <1>3, <1>4, <1>5, <2>1, <2>2, QuietKeepsInv
<1> QED
  BY <1>6, <1>7, CatchIsStep DEF LookupPull

LEMMA OpenPullKeepsInv ==
  ASSUME Inv, NEW d \in Call, OpenPull(d)
  PROVE  Inv'
<1> USE CommandsAssumption
<1>1. RowTypes /\ CallTypes /\ ProviderTypes /\ BoundTypes /\ CallInv(d)
  BY TypeParts DEF Inv
<1>2. pc[d] = "pull" /\ UNCHANGED rows
  BY DEF OpenPull
<1>3. /\ pc[d] \in Executing /\ pc[d] \in Writing
      /\ cmd[d] \in Request /\ cmd[d] \notin Action /\ at[d] = 0
      /\ written[cmd[d]] = 1..NChanges
  BY <1>1, <1>2 DEF CallInv, ForRequest, Executing, Writing, Whole
<1>4. CASE /\ CarryOut(Sent(d))
           /\ pr' = [pr EXCEPT ![d] = pulls'[cmd[d]]]
           /\ pc' = [pc EXCEPT ![d] = "record"]
           /\ UNCHANGED <<cmd, left, at, late, bounds>>
  <2>1. Sound(Sent(d)) /\ Sent(d).of = cmd[d] /\ Sent(d).op = "pull"
    BY <1>2, <1>3, SentIsSound DEF Sent
  <2>2. ProviderTypes' /\ written' = written
    BY <1>1, <1>4, <2>1, CarriedOut
  <2>3. pulls'[cmd[d]] \in Nat
    BY <1>3, <2>2 DEF ProviderTypes
  <2>4. Moves(d) /\ pc'[d] = "record" /\ at'[d] = 0 /\ cmd' = cmd
    BY <1>1, <1>3, <1>4 DEF Moves, CallTypes
  <2>5. \A x \in Call : (pc'[x] = "free") = (cmd'[x] = NoCommand)
    BY <1>1, <1>2, <2>4 DEF Moves, CallTypes
  <2>6. CallTypes'
    BY <1>1, <1>4, <2>3, <2>5 DEF CallTypes, Executing
  <2>7. BoundTypes' /\ UNCHANGED status
    BY <1>1, <1>2, <1>4 DEF rows, bounds, BoundTypes
  <2>8. CallInv(d)'
    BY <1>1, <1>3, <2>2, <2>4, <2>7 DEF CallInv, ForAction, ForRequest, Whole
  <2> QED
    BY <1>2, <1>3, <1>4, <2>4, <2>6, <2>7, <2>8, CarriedKeepsInv
<1>5. CASE Unanswered(d) /\ Catch(d, "catch")
             /\ UNCHANGED <<applied, branch, written, pulls, open, moved>>
  BY <1>2, <1>3, <1>5, UnansweredKeepsInv
<1> QED
  BY <1>4, <1>5 DEF OpenPull

LEMMA RecordPullKeepsInv ==
  ASSUME Inv, NEW d \in Call, RecordPull(d)
  PROVE  Inv'
<1> USE CommandsAssumption
<1>1. RowTypes /\ CallTypes /\ ProviderTypes /\ BoundTypes /\ CallInv(d)
  BY TypeParts DEF Inv
<1>2. /\ pc[d] = "record" /\ cmd[d] \in Request
      /\ OpenedRow(d) \/ UNCHANGED <<status, recorded>>
      /\ UNCHANGED <<job, provider>>
  BY DEF RecordPull
<1>3. /\ pc[d] \in Executing /\ cmd[d] \in Command /\ cmd[d] \notin Action
      /\ written[cmd[d]] = 1..NChanges
      /\ status[cmd[d]] \notin {"none", "draft", "approved", "failed"}
  BY <1>1, <1>2 DEF CallInv, Executing, Whole, Command
<1>4. Alone(d)
  BY <1>3, ExecutesAlone
<1>5. /\ RowTypes'
      /\ status'[cmd[d]] \notin {"none", "draft", "approved", "failed"}
      /\ \A c \in Command \ {cmd[d]} : status'[c] = status[c]
  <2>1. CASE UNCHANGED <<status, recorded>>
    BY <1>1, <1>2, <1>3, <2>1 DEF RowTypes
  <2>2. CASE OpenedRow(d)
    <3>1. /\ status' = [status EXCEPT ![cmd[d]] = "pull_request_opened"]
          /\ recorded' = [recorded EXCEPT ![cmd[d]] = pr[d]]
      BY <2>2 DEF OpenedRow
    <3>2. /\ status'[cmd[d]] = "pull_request_opened"
          /\ \A c \in Command \ {cmd[d]} : status'[c] = status[c]
      BY <1>1, <1>3, <3>1 DEF RowTypes
    <3>3. status' \in [Command -> Status]
      BY <1>1, <3>1 DEF RowTypes, Status
    <3>4. recorded' \in [Request -> Nat]
      BY <1>1, <3>1 DEF RowTypes, CallTypes
    <3>5. /\ \A a \in Action : status'[a] # "pull_request_opened"
          /\ \A r \in Request : status'[r] \notin {"succeeded", "failed"}
      BY <1>1, <1>3, <3>2 DEF RowTypes, Command
    <3>6. RowTypes'
      BY <1>1, <1>2, <3>3, <3>4, <3>5 DEF RowTypes
    <3> QED
      BY <3>2, <3>6
  <2> QED
    BY <1>2, <2>1, <2>2
<1>6. ASSUME NEW label \in {"disable", "catch"}, Step(d, label, 0), BoundTypes'
      PROVE  Inv'
  <2>1. CallTypes' /\ Moves(d) /\ pc'[d] = label /\ at'[d] = 0 /\ cmd' = cmd
    BY <1>1, <1>2, <1>6, Stepped DEF Executing
  <2>2. CallInv(d)'
    BY <1>2, <1>3, <1>5, <2>1 DEF CallInv, ForAction, ForRequest, Whole, provider
  <2> QED
    BY <1>2, <1>3, <1>4, <1>5, <1>6, <2>1, <2>2, RowStepKeepsInv
<1>7. BoundTypes'
  BY <1>1, FaultTypes DEF RecordPull, bounds, BoundTypes
<1> QED
  BY <1>6, <1>7, CatchIsStep DEF RecordPull

LEMMA DisableJobKeepsInv ==
  ASSUME Inv, NEW d \in Call, DisableJob(d)
  PROVE  Inv'
<1> USE CommandsAssumption
<1>1. RowTypes /\ CallTypes /\ ProviderTypes /\ BoundTypes /\ CallInv(d)
  BY TypeParts DEF Inv
<1>2. /\ pc[d] = "disable" /\ job' \in {job, job \ {cmd[d]}}
      /\ UNCHANGED <<status, recorded, provider>>
  BY DEF DisableJob
<1>3. pc[d] \in Executing /\ cmd[d] \in Request /\ cmd[d] \notin Action
  BY <1>1, <1>2 DEF CallInv, ForRequest, Executing
<1>4. /\ RowTypes' /\ ProviderTypes' /\ UNCHANGED <<status, applied, written, pulls, late>>
  BY <1>1, <1>2 DEF provider, RowTypes, ProviderTypes
<1>5. BoundTypes'
  BY <1>1, FaultTypes DEF DisableJob, bounds, BoundTypes
<1>6. CASE Return(d)
  <2>1. CallTypes' /\ Moves(d) /\ pc'[d] \in {"free", "queued"} /\ at'[d] = 0
    BY <1>1, <1>2, <1>6, Ended
  <2> QED
    BY <1>3, <1>4, <1>5, <2>1, IdleCall, QuietKeepsInv
<1>7. CASE Catch(d, "catch")
  <2>1. CallTypes' /\ Moves(d) /\ pc'[d] = "catch" /\ at'[d] = 0 /\ cmd' = cmd
    BY <1>1, <1>2, <1>7, Stepped, CatchIsStep DEF Executing
  <2>2. CallInv(d)'
    BY <1>1, <1>3, <1>4, <2>1 DEF CallInv, ForAction, ForRequest, Whole
  <2> QED
    BY <1>3, <1>4, <1>5, <2>1, <2>2, QuietKeepsInv
<1> QED
  BY <1>6, <1>7 DEF DisableJob

LEMMA CatchRequestKeepsInv ==
  ASSUME Inv, NEW d \in Call, CatchRequest(d)
  PROVE  Inv'
<1> USE CommandsAssumption
<1>1. RowTypes /\ CallTypes /\ ProviderTypes /\ BoundTypes /\ CallInv(d)
  BY TypeParts DEF Inv
<1>2. /\ pc[d] = "catch" /\ cmd[d] \in Request /\ Throw(d)
      /\ status' = status \/ status' = [status EXCEPT ![cmd[d]] = "approved"]
      /\ UNCHANGED <<recorded, job, provider>>
  BY DEF CatchRequest
<1>3. pc[d] \in Executing /\ pc[d] # "free" /\ cmd[d] \in Command /\ cmd[d] \notin Action
  BY <1>2 DEF Executing, Command
<1>4. Alone(d)
  BY <1>3, ExecutesAlone
<1>5. BoundTypes'
  BY <1>1, FaultTypes DEF CatchRequest, BoundTypes, bounds
<1>6. CallTypes' /\ Moves(d) /\ pc'[d] \in {"free", "queued"} /\ at'[d] = 0
  BY <1>1, <1>2, <1>3, Ended
<1>7. RowTypes' /\ \A c \in Command \ {cmd[d]} : status'[c] = status[c]
  <2>1. CASE status' = status
    BY <1>1, <1>2, <2>1 DEF RowTypes
  <2>2. CASE status' = [status EXCEPT ![cmd[d]] = "approved"]
    BY <1>1, <1>2, <1>3, <2>2, RowWritten DEF Status
  <2> QED
    BY <1>2, <2>1, <2>2
<1> QED
  BY <1>2, <1>3, <1>4, <1>5, <1>6, <1>7, IdleCall, RowStepKeepsInv
-------------------------------------------------------------------------------
(* The environment: crashes, late arrivals, people at GitHub.              *)
LEMMA CrashKeepsInv ==
  ASSUME Inv, NEW d \in Call, Crash(d)
  PROVE  Inv'
<1> USE CommandsAssumption
<1>1. RowTypes /\ CallTypes /\ ProviderTypes /\ BoundTypes
  BY TypeParts DEF Inv
<1>2. /\ pc[d] \in Executing /\ Throw(d)
      /\ UNCHANGED <<rows, applied, branch, written, pulls, open, moved>>
  BY DEF Crash
<1>3. Alone(d) /\ cmd[d] \in Command /\ pc[d] # "free"
  BY <1>2, ExecutesAlone
<1>4. CallTypes' /\ Moves(d) /\ pc'[d] \in {"free", "queued"} /\ at'[d] = 0
  BY <1>1, <1>2, <1>3, Ended
<1>5. BoundTypes'
  BY <1>1 DEF Crash, BoundTypes
<1>6. RowTypes' /\ ProviderTypes' /\ UNCHANGED <<status, applied, written, pulls>>
  BY <1>1, <1>2 DEF rows, RowTypes, ProviderTypes
<1>7. CallInv(d)'
  BY <1>4, IdleCall
<1>8. CASE late' = late
  BY <1>2, <1>4, <1>5, <1>6, <1>7, <1>8, QuietKeepsInv
<1>9. CASE pc[d] \in Writing /\ late' = late \cup {Sent(d)}
  <2>1. PICK c \in Command : c = cmd[d]
    BY <1>3
  <2>2. CommandInv(c)' /\ late' \subseteq Effect
    BY <1>6, <1>9, <2>1, LostKeepsCommand
  <2>3. TypeOK'
    BY <1>4, <1>5, <1>6, <2>2 DEF TypeOK, RowTypes, CallTypes, ProviderTypes, BoundTypes
  <2>4. Local(d)
    BY <1>4, <1>6, <1>9 DEF Local, Moves, Sent
  <2> QED
    BY <1>3, <1>7, <2>1, <2>2, <2>3, <2>4, StepKeepsInv
<1> QED
  BY <1>8, <1>9 DEF Crash

LEMMA ArriveLateKeepsInv ==
  ASSUME Inv, NEW e \in late, ArriveLate(e)
  PROVE  Inv'
<1> USE CommandsAssumption
<1>1. RowTypes /\ CallTypes /\ ProviderTypes /\ BoundTypes /\ late \subseteq Effect
  BY TypeParts DEF Inv
<1>2. CarryOut(e) /\ late' = late \ {e} /\ UNCHANGED <<rows, calls, bounds>>
  BY DEF ArriveLate
<1>3. UNCHANGED <<status, recorded, job, pc, cmd, left, at, pr, faults, crashes, closes>>
  BY <1>2 DEF rows, calls, bounds
<1>4. e.of \in Command /\ CommandInv(e.of)
  BY <1>1 DEF Effect, Inv
<1>5. e.of \in Action =>
        /\ e = [of |-> e.of, op |-> "write", change |-> 0]
        /\ applied[e.of] = 0
        /\ status[e.of] \notin {"none", "draft", "approved", "failed", "succeeded"}
  BY <1>4 DEF CommandInv, ActionInv, NoneLate
<1>6. e.of \in Request =>
        /\ e.op # "write"
        /\ e.op = "put" => e.change \in 1..NChanges
        /\ e.op = "pull" => written[e.of] = 1..NChanges
  BY <1>4 DEF CommandInv, RequestInv
<1>7. e.of \in Action => e.op = "write"
  BY <1>5
<1>8. Sound(e)
  BY <1>1, <1>4, <1>6, <1>7 DEF Sound, Command, Writing
<1>9. /\ ProviderTypes'
      /\ \A a \in Action \ {e.of} : applied'[a] = applied[a]
      /\ e.op = "write" => applied'[e.of] = applied[e.of] + 1
      /\ \A r \in Request : written[r] \subseteq written'[r]
      /\ \A r \in Request \ {e.of} : pulls'[r] = pulls[r]
      /\ e.op # "pull" => pulls' = pulls
  BY <1>1, <1>2, <1>8, CarriedOut
<1>10. TypeOK'
  BY <1>1, <1>2, <1>3, <1>9
     DEF TypeOK, RowTypes, CallTypes, ProviderTypes, BoundTypes, Effect
<1>11. OneExecutor'
  BY <1>3 DEF Inv, OneExecutor
<1>12. \A r \in Request : written'[r] \subseteq 1..NChanges
  BY <1>9 DEF ProviderTypes
<1>13. ASSUME NEW d \in Call
       PROVE  CallInv(d)'
  <2>1. CallInv(d)
    BY DEF Inv
  <2>2. NoneLate(cmd[d]) => NoneLate(cmd[d])' /\ cmd[d] # e.of
    BY <1>2, <1>3 DEF NoneLate
  <2>3. cmd[d] = e.of /\ e.of \in Action => pc[d] \notin {"prepare", "write", "invalid", "record"}
    BY <1>5, <2>1, <2>2 DEF CallInv
  <2>4. cmd[d] \in Action /\ pc[d] \in {"prepare", "write", "invalid", "record"}
          => applied'[cmd[d]] = applied[cmd[d]]
    BY <1>9, <2>3
  <2>5. pc[d] = "put" => cmd[d] \in Request
    BY <2>1 DEF CallInv, ForRequest
  <2>6. cmd[d] \in Request => /\ written[cmd[d]] \subseteq written'[cmd[d]]
                              /\ written'[cmd[d]] \subseteq 1..NChanges
    BY <1>9, <1>12
  <2> QED
    BY <1>3, <2>1, <2>2, <2>4, <2>5, <2>6 DEF CallInv, NoneLate
<1>14. ASSUME NEW c \in Command
       PROVE  CommandInv(c)'
  <2>1. CommandInv(c)
    BY DEF Inv
  <2>2. ASSUME c \in Action
        PROVE  ActionInv(c)'
    <3>1. CASE c # e.of
      BY <1>2, <1>3, <1>9, <2>1, <2>2, <3>1 DEF CommandInv, ActionInv, NoneLate
    <3>2. CASE c = e.of
      <4>1. applied'[c] = 1 /\ status'[c] = status[c]
        BY <1>3, <1>5, <1>7, <1>9, <2>2, <3>2
      <4>2. \A x \in late : x.of = c => x = [of |-> c, op |-> "write", change |-> 0]
        BY <2>1, <2>2 DEF CommandInv, ActionInv
      <4>3. \A x \in late' : x.of # c
        BY <1>2, <1>5, <2>2, <3>2, <4>2
      <4> QED
        BY <1>5, <2>2, <3>2, <4>1, <4>3 DEF ActionInv, NoneLate
    <3> QED
      BY <3>1, <3>2
  <2>3. ASSUME c \in Request
        PROVE  RequestInv(c)'
    <3>1. RequestInv(c) /\ written[c] \subseteq written'[c] /\ written'[c] \subseteq 1..NChanges
      BY <1>9, <1>12, <2>1, <2>3 DEF CommandInv
    <3>2. pulls'[c] > 0 => written[c] = 1..NChanges
      BY <1>6, <1>9, <2>3, <3>1 DEF RequestInv
    <3> QED
      BY <1>2, <3>1, <3>2 DEF RequestInv
  <2> QED
    BY <2>2, <2>3 DEF CommandInv
<1> QED
  BY <1>10, <1>11, <1>13, <1>14 DEF Inv

LEMMA PeopleKeepInv ==
  ASSUME Inv, NEW r \in Request, ClosePull(r) \/ MoveBase(r)
  PROVE  Inv'
<1>1. /\ UNCHANGED <<rows, calls, applied, branch, written, pulls, late, faults, crashes>>
      /\ \/ open' = [open EXCEPT ![r] = {}] /\ moved' = moved /\ closes < MaxCloses
            /\ closes' = closes + 1
         \/ moved' = moved \cup {r} /\ open' = open /\ closes' = closes
  BY DEF ClosePull, MoveBase, bounds
<1>2. UNCHANGED <<status, recorded, job, pc, cmd, left, at, pr>>
  BY <1>1 DEF rows, calls
<1>3. open' \in [Request -> SUBSET Nat] /\ moved' \subseteq Request
  BY <1>1 DEF Inv, TypeOK
<1>4. closes' \in 0..MaxCloses
  BY <1>1, CommandsAssumption DEF Inv, TypeOK
<1>5. TypeOK'
  BY <1>1, <1>2, <1>3, <1>4 DEF Inv, TypeOK, Effect
<1>6. OneExecutor'
  BY <1>2 DEF Inv, OneExecutor
<1>7. \A d \in Call : CallInv(d)'
  BY <1>1, <1>2 DEF Inv, CallInv, NoneLate
<1>8. \A c \in Command : CommandInv(c)'
  BY <1>1, <1>2 DEF Inv, CommandInv, ActionInv, RequestInv, NoneLate
<1> QED
  BY <1>5, <1>6, <1>7, <1>8 DEF Inv

LEMMA StutterKeepsInv == Inv /\ UNCHANGED vars => Inv'
<1> SUFFICES ASSUME Inv, UNCHANGED vars PROVE Inv'
  OBVIOUS
<1>1. UNCHANGED <<status, recorded, job, pc, cmd, left, at, pr, applied, branch, written,
                  pulls, open, moved, late, faults, crashes, closes>>
  BY DEF vars, rows, calls, provider, bounds
<1>2. TypeOK'
  BY <1>1 DEF Inv, TypeOK, Effect
<1>3. OneExecutor'
  BY <1>1 DEF Inv, OneExecutor
<1>4. \A d \in Call : CallInv(d)'
  BY <1>1 DEF Inv, CallInv, NoneLate
<1>5. \A c \in Command : CommandInv(c)'
  BY <1>1 DEF Inv, CommandInv, ActionInv, RequestInv, NoneLate
<1> QED
  BY <1>2, <1>3, <1>4, <1>5 DEF Inv

LEMMA NextKeepsInv == Inv /\ [Next]_vars => Inv'
<1> SUFFICES ASSUME Inv, [Next]_vars PROVE Inv'
  OBVIOUS
<1>1. CASE \E c \in Command : Create(c) \/ Approve(c)
  BY <1>1, UserKeepsInv
<1>2. CASE \E d \in Call, c \in Command : Dispatch(d, c)
  BY <1>2, DispatchKeepsInv
<1>3. ASSUME NEW d \in Call, Execute(d) \/ Crash(d)
      PROVE  Inv'
  <2>1. CASE Claim(d) \/ Reject(d) \/ Prepare(d)
    BY <2>1, ClaimKeepsInv, RejectKeepsInv, PrepareKeepsInv
  <2>2. CASE Write(d) \/ RecordAction(d) \/ CatchAction(d)
    BY <2>2, WriteKeepsInv, RecordActionKeepsInv, CatchActionKeepsInv
  <2>3. CASE MakeBranch(d) \/ PutChange(d) \/ LookupPull(d) \/ OpenPull(d)
    BY <2>3, MakeBranchKeepsInv, PutChangeKeepsInv, LookupPullKeepsInv, OpenPullKeepsInv
  <2>4. CASE RecordPull(d) \/ DisableJob(d) \/ CatchRequest(d)
    BY <2>4, RecordPullKeepsInv, DisableJobKeepsInv, CatchRequestKeepsInv
  <2> QED
    BY <1>3, <2>1, <2>2, <2>3, <2>4, CrashKeepsInv DEF Execute
<1>4. CASE \E e \in late : ArriveLate(e)
  BY <1>4, ArriveLateKeepsInv
<1>5. CASE \E r \in Request : ClosePull(r) \/ MoveBase(r)
  BY <1>5, PeopleKeepInv
<1>6. CASE UNCHANGED vars
  BY <1>6, StutterKeepsInv
<1> QED
  BY <1>1, <1>2, <1>3, <1>4, <1>5, <1>6 DEF Next
-------------------------------------------------------------------------------
LEMMA Invariant == Spec => []Inv
BY InitInv, NextKeepsInv, PTL DEF Spec

(* The variables of Commands keep their types.                             *)
THEOREM TypeCorrect == Spec => []TypeOK
<1>1. Inv => TypeOK
  BY DEF Inv
<1> QED
  BY <1>1, Invariant, PTL

(* No two calls carry out the same command at the same time.               *)
THEOREM ExecutorUnique == Spec => []OneExecutor
<1>1. Inv => OneExecutor
  BY DEF Inv
<1> QED
  BY <1>1, Invariant, PTL

(* GoHighLevel carries out an action at most once.                         *)
THEOREM AppliedOnce == Spec => []AppliedAtMostOnce
<1>1. Inv => AppliedAtMostOnce
  BY DEF Inv, CommandInv, ActionInv, AppliedAtMostOnce, Command
<1> QED
  BY <1>1, Invariant, PTL

(* The recorded outcome of an action is what happened at the provider.     *)
THEOREM OutcomeTrue == Spec => []OutcomeIsTrue
<1>1. Inv => OutcomeIsTrue
  BY DEF Inv, CommandInv, ActionInv, OutcomeIsTrue, NoneLate, Command
<1> QED
  BY <1>1, Invariant, PTL

(* A pull request has every file of its request.                           *)
THEOREM WholePull == Spec => []PullIsWhole
<1>1. Inv => PullIsWhole
  BY DEF Inv, CommandInv, RequestInv, PullIsWhole, Command
<1> QED
  BY <1>1, Invariant, PTL
-------------------------------------------------------------------------------
(* The refinement.  It needs more than the properties do: the row of a     *)
(* call that is still at work is executing, so that its outcome is told    *)
(* once; nothing of a command nobody approved is on its way; an open pull  *)
(* request, and one a call is about to record, was made.                   *)
PromiseCall(d) ==
  /\ pc[d] \in Executing \ {"catch", "disable"} => status[cmd[d]] = "executing"
  /\ pc[d] = "record" /\ cmd[d] \in Request => pr[d] \in 1..pulls[cmd[d]]

PromiseInv ==
  /\ \A d \in Call : PromiseCall(d)
  /\ \A e \in late : status[e.of] \notin {"none", "draft"}
  /\ \A r \in Request : open[r] \subseteq 1..pulls[r]

LEMMA InitPromise == Init => PromiseInv
BY DEF Init, PromiseInv, PromiseCall, Executing, Writing

(* The calls other than d stay where they are.                             *)
Stays(d) ==
  \A x \in Call \ {d} : pc'[x] = pc[x] /\ cmd'[x] = cmd[x] /\ pr'[x] = pr[x]

(* The rows other than that of d stay as they are.                         *)
RowsStay(d) == \A c \in Command \ {cmd[d]} : status'[c] = status[c]

(* Pull requests are made, and those that are open were.                   *)
PullsGrow ==
  /\ \A r \in Request : pulls'[r] \in Nat /\ pulls[r] <= pulls'[r]
  /\ \A r \in Request : open'[r] \subseteq 1..pulls'[r]

LEMMA StepKeepsPromise ==
  ASSUME Inv, PromiseInv, NEW d \in Call, Alone(d), cmd[d] \in Command,
         Stays(d), RowsStay(d), PullsGrow, PromiseCall(d)',
         status'[cmd[d]] \notin {"none", "draft"},
         \A e \in late' : e \in late \/ e.of = cmd[d]
  PROVE  PromiseInv'
<1>1. ASSUME NEW x \in Call, x # d
      PROVE  PromiseCall(x)'
  <2>1. pc'[x] = pc[x] /\ cmd'[x] = cmd[x] /\ pr'[x] = pr[x] /\ PromiseCall(x)
    BY <1>1 DEF Stays, PromiseInv
  <2>2. pc[x] \in Executing => cmd[x] \in Command /\ cmd[x] # cmd[d]
    BY <1>1 DEF Alone, Inv, TypeOK, Executing, Writing
  <2>3. pc[x] \in Executing => status'[cmd[x]] = status[cmd[x]]
    BY <2>2 DEF RowsStay
  <2>4. \A r \in Request : pulls[r] \in Nat /\ pulls'[r] \in Nat /\ pulls[r] <= pulls'[r]
    BY DEF Inv, TypeOK, PullsGrow
  <2>5. pc[x] \in Executing \ {"catch", "disable"} => status'[cmd[x]] = "executing"
    BY <2>1, <2>3 DEF PromiseCall
  <2>6. pc[x] = "record" /\ cmd[x] \in Request => pr[x] \in 1..pulls'[cmd[x]]
    BY <2>1, <2>4 DEF PromiseCall
  <2> QED
    BY <2>1, <2>5, <2>6 DEF PromiseCall
<1>2. ASSUME NEW e \in late'
      PROVE  status'[e.of] \notin {"none", "draft"}
  <2>1. CASE e.of = cmd[d]
    BY <2>1
  <2>2. CASE e.of # cmd[d]
    <3>1. e \in late /\ e.of \in Command
      BY <2>2 DEF Inv, TypeOK, Effect
    <3> QED
      BY <2>2, <3>1 DEF RowsStay, PromiseInv
  <2> QED
    BY <2>1, <2>2
<1>3. \A x \in Call : PromiseCall(x)'
  BY <1>1
<1> QED
  BY <1>2, <1>3 DEF PromiseInv, PullsGrow

(* Where a call that ends, is tried again or goes on is next.              *)
LEMMA CallGoesOn ==
  ASSUME Inv, NEW d \in Call, NEW label, NEW n,
         Throw(d) \/ Return(d) \/ Step(d, label, n)
  PROVE  Stays(d) /\ pc'[d] \in {"free", "queued", label}
<1>1. pc \in [Call -> {"free", "queued"} \cup Executing]
      /\ cmd \in [Call -> Command \cup {NoCommand}] /\ pr \in [Call -> Nat]
  BY DEF Inv, TypeOK
<1>2. CASE Return(d)
  BY <1>1, <1>2 DEF Return, Stays
<1>3. CASE left[d] > 1 /\ Throw(d)
  BY <1>1, <1>3 DEF Throw, Return, Stays
<1>4. CASE Step(d, label, n)
  BY <1>1, <1>4 DEF Step, Stays
<1> QED
  BY <1>2, <1>3, <1>4 DEF Throw

LEMMA ProviderRests ==
  ASSUME Inv, PromiseInv, UNCHANGED <<pulls, open>>
  PROVE  PullsGrow
BY DEF Inv, TypeOK, PromiseInv, PullsGrow

LEMMA ProviderActs ==
  ASSUME Inv, PromiseInv, NEW e, Sound(e), CarryOut(e)
  PROVE  PullsGrow
<1>1. pulls \in [Request -> Nat] /\ open \in [Request -> SUBSET Nat]
  BY DEF Inv, TypeOK
<1>2. \A r \in Request : open[r] \subseteq 1..pulls[r]
  BY DEF PromiseInv
<1>3. CASE e.op # "pull"
  BY <1>3, ProviderRests DEF CarryOut
<1>4. CASE e.op = "pull"
  <2>1. /\ pulls' = [pulls EXCEPT ![e.of] = @ + 1]
        /\ open' = [open EXCEPT ![e.of] = {pulls[e.of] + 1}]
    BY <1>4 DEF CarryOut
  <2>2. ASSUME NEW r \in Request
        PROVE  pulls'[r] \in Nat /\ pulls[r] <= pulls'[r] /\ open'[r] \subseteq 1..pulls'[r]
    <3>1. CASE r = e.of
      <4>1. pulls'[r] = pulls[r] + 1 /\ open'[r] = {pulls[r] + 1} /\ pulls[r] \in Nat
        BY <1>1, <2>1, <3>1
      <4> QED
        BY <4>1
    <3>2. CASE r # e.of
      <4>1. pulls'[r] = pulls[r] /\ open'[r] = open[r] /\ pulls[r] \in Nat
        BY <1>1, <2>1, <3>2
      <4> QED
        BY <1>2, <4>1
    <3> QED
      BY <3>1, <3>2
  <2> QED
    BY <2>2 DEF PullsGrow
<1> QED
  BY <1>3, <1>4


(* Rows and providers rest: a call begins, is turned away or ends.         *)
LEMMA RestKeepsPromise ==
  ASSUME Inv, PromiseInv, NEW d \in Call, Stays(d), UNCHANGED <<status, pulls, open, late>>,
         pc'[d] \in {"free", "queued"}
  PROVE  PromiseInv'
<1>1. \A x \in Call \ {d} : PromiseCall(x)'
  BY DEF PromiseInv, PromiseCall, Stays
<1>2. PromiseCall(d)'
  BY DEF PromiseCall, Executing, Writing
<1>3. \A x \in Call : PromiseCall(x)'
  BY <1>1, <1>2
<1> QED
  BY <1>3 DEF PromiseInv

LEMMA UserKeepsPromise ==
  ASSUME Inv, PromiseInv, NEW c \in Command, Create(c) \/ Approve(c)
  PROVE  PromiseInv'
<1>1. /\ status[c] \in {"none", "draft"}
      /\ status' = [status EXCEPT ![c] = "draft"] \/ status' = [status EXCEPT ![c] = "approved"]
      /\ UNCHANGED <<calls, provider>>
  BY DEF Create, Approve
<1>2. UNCHANGED <<pc, cmd, pr, pulls, open, late>>
  BY <1>1 DEF calls, provider
<1>3. \A x \in Command \ {c} : status'[x] = status[x]
  BY <1>1 DEF Inv, TypeOK
<1>4. ASSUME NEW x \in Call
      PROVE  PromiseCall(x)'
  <2>1. PromiseCall(x) /\ (pc[x] \in Executing => cmd[x] \in Command)
    BY DEF PromiseInv, Inv, TypeOK, Executing, Writing
  <2>2. pc[x] \in Executing \ {"catch", "disable"} => cmd[x] # c
    BY <1>1, <2>1 DEF PromiseCall
  <2> QED
    BY <1>2, <1>3, <2>1, <2>2 DEF PromiseCall
<1>5. ASSUME NEW e \in late
      PROVE  e.of \in Command \ {c}
  BY <1>1 DEF PromiseInv, Inv, TypeOK, Effect
<1> QED
  BY <1>2, <1>3, <1>4, <1>5 DEF PromiseInv

LEMMA DispatchKeepsPromise ==
  ASSUME Inv, PromiseInv, NEW d \in Call, NEW c \in Command, Dispatch(d, c)
  PROVE  PromiseInv'
<1>1. Stays(d) /\ pc'[d] = "queued"
  BY DEF Dispatch, Stays, Inv, TypeOK
<1> QED
  BY <1>1, RestKeepsPromise DEF Dispatch, rows, provider

LEMMA RejectKeepsPromise ==
  ASSUME Inv, PromiseInv, NEW d \in Call, Reject(d)
  PROVE  PromiseInv'
<1>1. Stays(d) /\ pc'[d] \in {"free", "queued"}
  BY CallGoesOn DEF Reject
<1> QED
  BY <1>1, RestKeepsPromise DEF Reject, rows, provider

LEMMA PeopleKeepPromise ==
  ASSUME Inv, PromiseInv, NEW r \in Request, ClosePull(r) \/ MoveBase(r)
  PROVE  PromiseInv'
<1>1. /\ UNCHANGED <<status, pc, cmd, pr, pulls, late>>
      /\ open' = [open EXCEPT ![r] = {}] \/ open' = open
  BY DEF ClosePull, MoveBase, rows, calls
<1>2. \A q \in Request : open'[q] \subseteq open[q]
  BY <1>1 DEF Inv, TypeOK
<1>3. \A x \in Call : PromiseCall(x)'
  BY <1>1 DEF PromiseInv, PromiseCall
<1> QED
  BY <1>1, <1>2, <1>3 DEF PromiseInv

LEMMA ArriveLateKeepsPromise ==
  ASSUME Inv, PromiseInv, NEW e \in late, ArriveLate(e), Sound(e)
  PROVE  PromiseInv'
<1>1. CarryOut(e) /\ late' \subseteq late /\ UNCHANGED <<status, pc, cmd, pr>>
  BY DEF ArriveLate, rows, calls
<1>2. PullsGrow
  BY <1>1, ProviderActs
<1>3. \A r \in Request : pulls[r] \in Nat
  BY DEF Inv, TypeOK
<1>4. ASSUME NEW x \in Call
      PROVE  PromiseCall(x)'
  BY <1>1, <1>2, <1>3 DEF PromiseInv, PromiseCall, PullsGrow
<1> QED
  BY <1>1, <1>2, <1>4 DEF PromiseInv, PullsGrow

(* An executing call whose row stays as it is.                             *)
LEMMA ExecutorKeepsPromise ==
  ASSUME Inv, PromiseInv, NEW d \in Call, pc[d] \in Executing, UNCHANGED status, Stays(d),
         PullsGrow, PromiseCall(d)', \A e \in late' : e \in late \/ e.of = cmd[d]
  PROVE  PromiseInv'
<1>1. Alone(d) /\ cmd[d] \in Command /\ CallInv(d)
  BY ExecutesAlone DEF Inv
<1>2. status'[cmd[d]] \notin {"none", "draft"}
  BY <1>1 DEF CallInv
<1>3. RowsStay(d)
  BY DEF RowsStay
<1> QED
  BY <1>1, <1>2, <1>3, StepKeepsPromise

LEMMA CrashKeepsPromise ==
  ASSUME Inv, PromiseInv, NEW d \in Call, Crash(d)
  PROVE  PromiseInv'
<1>1. /\ pc[d] \in Executing /\ Throw(d) /\ UNCHANGED <<status, pulls, open>>
      /\ late' = late \/ late' = late \cup {Sent(d)}
  BY DEF Crash, rows
<1>2. Stays(d) /\ pc'[d] \in {"free", "queued"}
  BY <1>1, CallGoesOn
<1>3. PromiseCall(d)'
  BY <1>2 DEF PromiseCall, Executing, Writing
<1>4. \A e \in late' : e \in late \/ e.of = cmd[d]
  BY <1>1 DEF Sent
<1> QED
  BY <1>1, <1>2, <1>3, <1>4, ProviderRests, ExecutorKeepsPromise

LEMMA ClaimKeepsPromise ==
  ASSUME Inv, PromiseInv, NEW d \in Call, Claim(d)
  PROVE  PromiseInv'
<1>1. /\ pc[d] = "queued" /\ status[cmd[d]] = "approved"
      /\ status' = [status EXCEPT ![cmd[d]] = "executing"]
      /\ UNCHANGED <<pulls, open, late>>
  BY DEF Claim, Claimable, provider
<1>2. cmd[d] \in Command /\ status \in [Command -> Status]
  BY <1>1 DEF Inv, TypeOK
<1>3. status'[cmd[d]] = "executing" /\ RowsStay(d)
  BY <1>1, <1>2 DEF RowsStay
<1>4. Alone(d)
  BY <1>1 DEF Inv, CallInv, Alone
<1>5. Stays(d) /\ pc'[d] \in {"free", "queued", "prepare"} /\ cmd'[d] \in {cmd[d], NoCommand}
  <2>1. CASE Throw(d)
    <3>1. Stays(d) /\ pc'[d] \in {"free", "queued"}
      BY <2>1, CallGoesOn
    <3> QED
      BY <2>1, <3>1 DEF Throw, Return, Inv, TypeOK
  <2>2. CASE pc' = [pc EXCEPT ![d] = "prepare"] /\ UNCHANGED <<cmd, pr>>
    BY <2>2 DEF Stays, Inv, TypeOK
  <2> QED
    BY <2>1, <2>2 DEF Claim
<1>6. pc'[d] = "prepare" => cmd'[d] = cmd[d]
  BY <1>1, <1>5, ClaimKeepsInv, CommandsAssumption DEF Inv, TypeOK
<1>7. PromiseCall(d)'
  BY <1>3, <1>5, <1>6 DEF PromiseCall, Executing, Writing
<1> QED
  BY <1>1, <1>2, <1>3, <1>4, <1>5, <1>7, ProviderRests, StepKeepsPromise

LEMMA PrepareKeepsPromise ==
  ASSUME Inv, PromiseInv, NEW d \in Call, Prepare(d)
  PROVE  PromiseInv'
<1>1. pc[d] = "prepare" /\ pc[d] \in Executing /\ UNCHANGED <<status, pulls, open, late>>
  BY DEF Prepare, rows, provider, Executing
<1>2. status[cmd[d]] = "executing"
  BY <1>1 DEF PromiseInv, PromiseCall
<1>3. CASE Throw(d)
  <2>1. Stays(d) /\ pc'[d] \in {"free", "queued"}
    BY <1>3, CallGoesOn
  <2> QED
    BY <1>1, <2>1, RestKeepsPromise
<1>4. CASE pc' = [pc EXCEPT ![d] = Prepared(d)] /\ UNCHANGED <<cmd, pr>>
  <2>1. Stays(d) /\ pc'[d] \in {"write", "branch"} /\ cmd'[d] = cmd[d]
    BY <1>4 DEF Stays, Prepared, Inv, TypeOK
  <2>2. PromiseCall(d)'
    BY <1>1, <1>2, <2>1 DEF PromiseCall
  <2> QED
    BY <1>1, <2>1, <2>2, ProviderRests, ExecutorKeepsPromise
<1> QED
  BY <1>3, <1>4 DEF Prepare


(* A call whose step throws inside the try goes to the catch.              *)
LEMMA ToCatchKeepsPromise ==
  ASSUME Inv, PromiseInv, NEW d \in Call, pc[d] \in Executing,
         UNCHANGED <<status, pulls, open>>, Catch(d, "catch"),
         \A e \in late' : e \in late \/ e.of = cmd[d]
  PROVE  PromiseInv'
<1>1. Stays(d) /\ pc'[d] \in {"free", "queued", "catch"}
  BY CallGoesOn, CatchIsStep
<1>2. PromiseCall(d)'
  BY <1>1 DEF PromiseCall, Executing, Writing
<1> QED
  BY <1>1, <1>2, ProviderRests, ExecutorKeepsPromise

(* A call whose write is not answered.                                     *)
LEMMA UnansweredKeepsPromise ==
  ASSUME Inv, PromiseInv, NEW d \in Call, pc[d] \in Executing,
         UNCHANGED <<rows, pulls, open>>, Unanswered(d), Catch(d, "catch")
  PROVE  PromiseInv'
<1>1. \A e \in late' : e \in late \/ e.of = cmd[d]
  BY DEF Unanswered, Sent
<1> QED
  BY <1>1, ToCatchKeepsPromise DEF rows

(* A call whose write is carried out and that has more to do.              *)
LEMMA CarriedKeepsPromise ==
  ASSUME Inv, PromiseInv, NEW d \in Call, pc[d] \in Writing, CarryOut(Sent(d)),
         UNCHANGED <<status, cmd, pr, late>>, NEW label, pc' = [pc EXCEPT ![d] = label],
         label # "record" \/ cmd[d] \in Action
  PROVE  PromiseInv'
<1>1. pc[d] \in Executing \ {"catch", "disable"}
  BY DEF Executing, Writing
<1>2. PullsGrow
  BY SentIsSound, ProviderActs
<1>3. Stays(d) /\ pc'[d] = label /\ status[cmd[d]] = "executing"
  BY <1>1 DEF Stays, Inv, TypeOK, PromiseInv, PromiseCall
<1>4. PromiseCall(d)'
  BY <1>3, CommandsAssumption DEF PromiseCall
<1> QED
  BY <1>1, <1>2, <1>3, <1>4, ExecutorKeepsPromise

LEMMA WriteKeepsPromise ==
  ASSUME Inv, PromiseInv, NEW d \in Call, Write(d)
  PROVE  PromiseInv'
<1>1. /\ pc[d] = "write" /\ pc[d] \in Writing /\ pc[d] \in Executing /\ UNCHANGED status
      /\ cmd[d] \in Action
  BY DEF Write, rows, Writing, Executing, Inv, CallInv, ForAction
<1>2. CASE CarryOut(Sent(d)) /\ pc' = [pc EXCEPT ![d] = "record"] /\ UNCHANGED <<late, cmd, pr>>
  BY <1>1, <1>2, CarriedKeepsPromise
<1>3. CASE Catch(d, "invalid") /\ UNCHANGED <<pulls, open, late>>
  <2>1. pc' = [pc EXCEPT ![d] = "invalid"] /\ UNCHANGED <<cmd, pr>>
    BY <1>3 DEF Catch
  <2>2. Stays(d) /\ pc'[d] = "invalid" /\ status[cmd[d]] = "executing"
    BY <1>1, <2>1 DEF Stays, Inv, TypeOK, PromiseInv, PromiseCall
  <2>3. PromiseCall(d)'
    BY <1>1, <2>1, <2>2 DEF PromiseCall
  <2> QED
    BY <1>1, <1>3, <2>2, <2>3, ProviderRests, ExecutorKeepsPromise
<1>4. CASE Unanswered(d) /\ Catch(d, "catch") /\ UNCHANGED <<rows, pulls, open>>
  BY <1>1, <1>4, UnansweredKeepsPromise
<1> QED
  BY <1>2, <1>3, <1>4 DEF Write

LEMMA RecordActionKeepsPromise ==
  ASSUME Inv, PromiseInv, NEW d \in Call, RecordAction(d)
  PROVE  PromiseInv'
<1>1. /\ pc[d] = "record" /\ pc[d] \in Executing /\ cmd[d] \in Command
      /\ status' = [status EXCEPT ![cmd[d]] = "succeeded"] \/ status' = status
      /\ UNCHANGED <<pulls, open, late>>
  BY DEF RecordAction, provider, Executing, Command
<1>2. RowsStay(d) /\ status'[cmd[d]] \in {"succeeded", "executing"} /\ Alone(d)
  BY <1>1, ExecutesAlone DEF RowsStay, Inv, TypeOK, PromiseInv, PromiseCall
<1>3. Stays(d) /\ pc'[d] \in {"free", "queued", "catch"}
  BY CallGoesOn, CatchIsStep DEF RecordAction
<1>4. PromiseCall(d)'
  BY <1>3 DEF PromiseCall, Executing, Writing
<1> QED
  BY <1>1, <1>2, <1>3, <1>4, ProviderRests, StepKeepsPromise

LEMMA CatchActionKeepsPromise ==
  ASSUME Inv, PromiseInv, NEW d \in Call, CatchAction(d)
  PROVE  PromiseInv'
<1>1. /\ pc[d] \in {"catch", "invalid"} /\ pc[d] \in Executing /\ cmd[d] \in Command
      /\ status' = [status EXCEPT ![cmd[d]] = FailedStatus(d)] \/ status' = status
      /\ Throw(d) /\ UNCHANGED <<pulls, open, late>>
  BY DEF CatchAction, provider, Executing, Command
<1>2. RowsStay(d) /\ status'[cmd[d]] \notin {"none", "draft"} /\ Alone(d)
  BY <1>1, ExecutesAlone DEF RowsStay, Inv, CallInv, TypeOK, FailedStatus
<1>3. Stays(d) /\ pc'[d] \in {"free", "queued"}
  BY <1>1, CallGoesOn
<1>4. PromiseCall(d)'
  BY <1>3 DEF PromiseCall, Executing, Writing
<1> QED
  BY <1>1, <1>2, <1>3, <1>4, ProviderRests, StepKeepsPromise

LEMMA SendKeepsPromise ==
  ASSUME Inv, PromiseInv, NEW d \in Call, pc[d] \in Writing, UNCHANGED rows,
         NEW label, label # "record", NEW n, Send(d, label, n)
  PROVE  PromiseInv'
<1>1. CASE CarryOut(Sent(d)) /\ Step(d, label, n) /\ UNCHANGED late
  BY <1>1, CarriedKeepsPromise DEF Step, rows
<1>2. CASE Unanswered(d) /\ Catch(d, "catch") /\ UNCHANGED <<pulls, open>>
  BY <1>2, UnansweredKeepsPromise DEF Executing
<1> QED
  BY <1>1, <1>2 DEF Send

LEMMA MakeBranchKeepsPromise ==
  ASSUME Inv, PromiseInv, NEW d \in Call, MakeBranch(d)
  PROVE  PromiseInv'
<1>1. pc[d] = "branch" /\ pc[d] \in Writing /\ pc[d] \in Executing /\ UNCHANGED rows
  BY DEF MakeBranch, Executing, Writing
<1>2. CASE Send(d, "put", 1)
  BY <1>1, <1>2, SendKeepsPromise
<1>3. CASE Step(d, "put", 1) /\ UNCHANGED provider
  <2>1. pc' = [pc EXCEPT ![d] = "put"] /\ UNCHANGED <<status, cmd, pr, pulls, open, late>>
    BY <1>1, <1>3 DEF Step, provider, rows
  <2>2. Stays(d) /\ pc'[d] = "put" /\ status[cmd[d]] = "executing"
    BY <1>1, <2>1 DEF Stays, Inv, TypeOK, PromiseInv, PromiseCall
  <2>3. PromiseCall(d)'
    BY <2>1, <2>2 DEF PromiseCall
  <2> QED
    BY <1>1, <2>1, <2>2, <2>3, ProviderRests, ExecutorKeepsPromise
<1>4. CASE Catch(d, "catch") /\ UNCHANGED provider
  BY <1>1, <1>4, ToCatchKeepsPromise DEF provider, rows
<1> QED
  BY <1>2, <1>3, <1>4 DEF MakeBranch

LEMMA PutChangeKeepsPromise ==
  ASSUME Inv, PromiseInv, NEW d \in Call, PutChange(d)
  PROVE  PromiseInv'
<1>1. pc[d] = "put" /\ pc[d] \in Writing /\ UNCHANGED rows
  BY DEF PutChange, Writing
<1>2. Send(d, "lookup", 0) \/ Send(d, "put", at[d] + 1)
  BY DEF PutChange
<1> QED
  BY <1>1, <1>2, SendKeepsPromise

LEMMA LookupPullKeepsPromise ==
  ASSUME Inv, PromiseInv, NEW d \in Call, LookupPull(d)
  PROVE  PromiseInv'
<1>1. /\ pc[d] = "lookup" /\ pc[d] \in Executing /\ cmd[d] \in Request
      /\ UNCHANGED <<status, pulls, open, late>>
  BY DEF LookupPull, Executing, rows, provider, Inv, CallInv, ForRequest
<1>2. status[cmd[d]] = "executing"
  BY <1>1 DEF PromiseInv, PromiseCall
<1>3. CASE /\ open[cmd[d]] # {}
           /\ pr' = [pr EXCEPT ![d] = CHOOSE n \in open[cmd[d]] : TRUE]
           /\ pc' = [pc EXCEPT ![d] = "record"]
           /\ UNCHANGED cmd
  <2>1. PICK n \in open[cmd[d]] : n = CHOOSE m \in open[cmd[d]] : TRUE
    BY <1>3
  <2>2. Stays(d) /\ pc'[d] = "record" /\ pr'[d] = n
    BY <1>3, <2>1 DEF Stays, Inv, TypeOK
  <2>3. n \in 1..pulls[cmd[d]]
    BY <1>1 DEF PromiseInv
  <2>4. PromiseCall(d)'
    BY <1>1, <1>2, <1>3, <2>2, <2>3 DEF PromiseCall
  <2> QED
    BY <1>1, <2>2, <2>4, ProviderRests, ExecutorKeepsPromise
<1>4. CASE Step(d, "pull", 0)
  <2>1. pc' = [pc EXCEPT ![d] = "pull"] /\ UNCHANGED <<cmd, pr>>
    BY <1>4 DEF Step
  <2>2. Stays(d) /\ pc'[d] = "pull"
    BY <2>1 DEF Stays, Inv, TypeOK
  <2>3. PromiseCall(d)'
    BY <1>1, <1>2, <2>1, <2>2 DEF PromiseCall
  <2> QED
    BY <1>1, <2>2, <2>3, ProviderRests, ExecutorKeepsPromise
<1>5. CASE Catch(d, "catch")
  BY <1>1, <1>5, ToCatchKeepsPromise
<1> QED
  BY <1>3, <1>4, <1>5 DEF LookupPull, Existing

LEMMA OpenPullKeepsPromise ==
  ASSUME Inv, PromiseInv, NEW d \in Call, OpenPull(d)
  PROVE  PromiseInv'
<1>1. /\ pc[d] = "pull" /\ pc[d] \in Writing /\ pc[d] \in Executing /\ cmd[d] \in Request
      /\ UNCHANGED rows /\ UNCHANGED status
  BY DEF OpenPull, Executing, Writing, rows, Inv, CallInv, ForRequest
<1>2. CASE /\ CarryOut(Sent(d)) /\ pr' = [pr EXCEPT ![d] = pulls'[cmd[d]]]
           /\ pc' = [pc EXCEPT ![d] = "record"] /\ UNCHANGED <<cmd, late>>
  <2>1. PullsGrow
    BY <1>1, <1>2, SentIsSound, ProviderActs
  <2>2. pulls' = [pulls EXCEPT ![cmd[d]] = @ + 1]
    BY <1>1, <1>2 DEF CarryOut, Sent
  <2>3. pulls'[cmd[d]] = pulls[cmd[d]] + 1 /\ pulls[cmd[d]] \in Nat
    BY <1>1, <2>2 DEF Inv, TypeOK
  <2>4. /\ Stays(d) /\ pc'[d] = "record" /\ pr'[d] = pulls'[cmd[d]]
        /\ status[cmd[d]] = "executing"
    BY <1>1, <1>2 DEF Stays, Inv, TypeOK, PromiseInv, PromiseCall
  <2>5. PromiseCall(d)'
    BY <1>1, <1>2, <2>3, <2>4 DEF PromiseCall
  <2> QED
    BY <1>1, <1>2, <2>1, <2>4, <2>5, ExecutorKeepsPromise
<1>3. CASE Unanswered(d) /\ Catch(d, "catch") /\ UNCHANGED <<pulls, open>>
  BY <1>1, <1>3, UnansweredKeepsPromise
<1> QED
  BY <1>2, <1>3 DEF OpenPull

LEMMA RecordPullKeepsPromise ==
  ASSUME Inv, PromiseInv, NEW d \in Call, RecordPull(d)
  PROVE  PromiseInv'
<1>1. /\ pc[d] = "record" /\ pc[d] \in Executing /\ cmd[d] \in Command
      /\ status' = [status EXCEPT ![cmd[d]] = "pull_request_opened"] \/ status' = status
      /\ UNCHANGED <<pulls, open, late>>
  BY DEF RecordPull, OpenedRow, provider, Executing, Command
<1>2. RowsStay(d) /\ status'[cmd[d]] \notin {"none", "draft"} /\ Alone(d)
  BY <1>1, ExecutesAlone DEF RowsStay, Inv, TypeOK, PromiseInv, PromiseCall
<1>3. Stays(d) /\ pc'[d] \in {"free", "queued", "disable", "catch"}
  BY CallGoesOn, CatchIsStep DEF RecordPull
<1>4. PromiseCall(d)'
  BY <1>3 DEF PromiseCall, Executing, Writing
<1> QED
  BY <1>1, <1>2, <1>3, <1>4, ProviderRests, StepKeepsPromise

LEMMA DisableJobKeepsPromise ==
  ASSUME Inv, PromiseInv, NEW d \in Call, DisableJob(d)
  PROVE  PromiseInv'
<1>1. pc[d] \in Executing /\ UNCHANGED <<status, pulls, open, late>>
  BY DEF DisableJob, Executing, provider
<1>2. CASE Return(d)
  <2>1. Stays(d) /\ pc'[d] \in {"free", "queued"}
    BY <1>2, CallGoesOn DEF Return, Inv, TypeOK
  <2> QED
    BY <1>1, <2>1, RestKeepsPromise
<1>3. CASE Catch(d, "catch")
  BY <1>1, <1>3, ToCatchKeepsPromise
<1> QED
  BY <1>2, <1>3 DEF DisableJob

LEMMA CatchRequestKeepsPromise ==
  ASSUME Inv, PromiseInv, NEW d \in Call, CatchRequest(d)
  PROVE  PromiseInv'
<1>1. /\ pc[d] = "catch" /\ pc[d] \in Executing /\ cmd[d] \in Command
      /\ status' = [status EXCEPT ![cmd[d]] = "approved"] \/ status' = status
      /\ Throw(d) /\ UNCHANGED <<pulls, open, late>>
  BY DEF CatchRequest, provider, Executing, Command
<1>2. RowsStay(d) /\ status'[cmd[d]] \notin {"none", "draft"} /\ Alone(d)
  BY <1>1, ExecutesAlone DEF RowsStay, Inv, CallInv, TypeOK
<1>3. Stays(d) /\ pc'[d] \in {"free", "queued"}
  BY <1>1, CallGoesOn
<1>4. PromiseCall(d)'
  BY <1>3 DEF PromiseCall, Executing, Writing
<1> QED
  BY <1>1, <1>2, <1>3, <1>4, ProviderRests, StepKeepsPromise


LEMMA LateIsSound ==
  ASSUME Inv, NEW e \in late
  PROVE  Sound(e)
<1>1. e \in Effect /\ e.of \in Command /\ CommandInv(e.of)
  BY DEF Inv, TypeOK, Effect
<1>2. e.of \in Action => e.op = "write"
  BY <1>1 DEF CommandInv, ActionInv
<1>3. e.of \in Request => e.op # "write" /\ (e.op = "put" => e.change \in 1..NChanges)
  BY <1>1 DEF CommandInv, RequestInv
<1> QED
  BY <1>1, <1>2, <1>3 DEF Sound, Command, Effect, Writing

LEMMA NextKeepsPromise ==
  ASSUME Inv, PromiseInv, [Next]_vars
  PROVE  PromiseInv'
<1>1. CASE \E c \in Command : Create(c) \/ Approve(c)
  BY <1>1, UserKeepsPromise
<1>2. CASE \E d \in Call, c \in Command : Dispatch(d, c)
  BY <1>2, DispatchKeepsPromise
<1>3. ASSUME NEW d \in Call, Execute(d) \/ Crash(d)
      PROVE  PromiseInv'
  <2>1. CASE Claim(d) \/ Reject(d) \/ Prepare(d)
    BY <2>1, ClaimKeepsPromise, RejectKeepsPromise, PrepareKeepsPromise
  <2>2. CASE Write(d) \/ RecordAction(d) \/ CatchAction(d)
    BY <2>2, WriteKeepsPromise, RecordActionKeepsPromise, CatchActionKeepsPromise
  <2>3. CASE MakeBranch(d) \/ PutChange(d) \/ LookupPull(d) \/ OpenPull(d)
    BY <2>3, MakeBranchKeepsPromise, PutChangeKeepsPromise, LookupPullKeepsPromise,
       OpenPullKeepsPromise
  <2>4. CASE RecordPull(d) \/ DisableJob(d) \/ CatchRequest(d)
    BY <2>4, RecordPullKeepsPromise, DisableJobKeepsPromise, CatchRequestKeepsPromise
  <2> QED
    BY <1>3, <2>1, <2>2, <2>3, <2>4, CrashKeepsPromise DEF Execute
<1>4. CASE \E e \in late : ArriveLate(e)
  BY <1>4, LateIsSound, ArriveLateKeepsPromise
<1>5. CASE \E r \in Request : ClosePull(r) \/ MoveBase(r)
  BY <1>5, PeopleKeepPromise
<1>6. CASE UNCHANGED vars
  BY <1>6 DEF vars, rows, calls, provider, PromiseInv, PromiseCall
<1> QED
  BY <1>1, <1>2, <1>3, <1>4, <1>5, <1>6 DEF Next

LEMMA PromiseInvariant == Spec => [](Inv /\ PromiseInv)
<1>1. Init => Inv /\ PromiseInv
  BY InitInv, InitPromise
<1>2. Inv /\ PromiseInv /\ [Next]_vars => (Inv /\ PromiseInv)'
  BY NextKeepsInv, NextKeepsPromise
<1> QED
  BY <1>1, <1>2, PTL DEF Spec
-------------------------------------------------------------------------------
(* What a step does to the stage of a command.                             *)
LEMMA StageGoes ==
  ASSUME Inv, NEW c \in Command, NEW v \in Status \ {"none", "draft"},
         status' = [status EXCEPT ![c] = v]
  PROVE  Stage' = [Stage EXCEPT ![c] = v]
BY DEF Stage, Inv, TypeOK

LEMMA StageRests ==
  ASSUME UNCHANGED status
  PROVE  Stage' = Stage
BY DEF Stage

LEMMA StageOf ==
  ASSUME NEW c \in Command, status[c] \notin {"none", "draft"}
  PROVE  Stage[c] = status[c]
BY DEF Stage

LEMMA InitRefines == Init => Promise!Init
BY DEF Init, Promise!Init, Stage, Command

(* A step after which the promise looks as before.                         *)
LEMMA Stutters ==
  ASSUME UNCHANGED <<status, recorded, applied, written, pulls>>
  PROVE  UNCHANGED Promise!vars
BY StageRests DEF Promise!vars

(* A write that is carried out, at once or late.                           *)
LEMMA CarriedRefines ==
  ASSUME Inv, NEW e, Sound(e), CarryOut(e), UNCHANGED <<status, recorded>>,
         e.op = "write" => status[e.of] = "executing" /\ applied[e.of] = 0,
         status[e.of] \notin {"none", "draft"},
         e.op = "pull" => written[e.of] = 1..NChanges
  PROVE  [Promise!Next]_(Promise!vars)
<1>1. /\ e.of \in Command /\ e.op \in Writing /\ Stage' = Stage
      /\ Stage[e.of] = status[e.of]
  BY StageRests, StageOf DEF Sound, Effect
<1>2. CASE e.op = "write"
  <2>1. e.of \in Action /\ applied[e.of] = 0
    BY <1>2 DEF Sound
  <2>2. applied' = [applied EXCEPT ![e.of] = @ + 1] /\ UNCHANGED <<written, pulls>>
    BY <1>2 DEF CarryOut
  <2>3. applied' = [applied EXCEPT ![e.of] = 1]
    BY <2>1, <2>2
  <2>4. Promise!CarryOut(e.of)
    BY <1>1, <1>2, <2>1, <2>2, <2>3 DEF Promise!CarryOut
  <2> QED
    BY <2>1, <2>4 DEF Promise!Next
<1>3. CASE e.op = "put"
  <2>1. e.of \in Request /\ e.change \in 1..NChanges
    BY <1>1, <1>3 DEF Sound, Command
  <2>2. written' = [written EXCEPT ![e.of] = @ \cup {e.change}] /\ UNCHANGED <<applied, pulls>>
    BY <1>3 DEF CarryOut
  <2>3. status[e.of] # "unapproved"
    BY <1>1 DEF Inv, TypeOK, Status
  <2>4. Promise!WriteFile(e.of)
    BY <1>1, <2>1, <2>2, <2>3 DEF Promise!WriteFile
  <2> QED
    BY <2>1, <2>4 DEF Promise!Next
<1>4. CASE e.op = "pull"
  <2>1. e.of \in Request
    BY <1>1, <1>4 DEF Sound, Command
  <2>2. pulls' = [pulls EXCEPT ![e.of] = @ + 1] /\ UNCHANGED <<applied, written>>
    BY <1>4 DEF CarryOut
  <2>3. Promise!MakePull(e.of)
    BY <1>1, <1>4, <2>2 DEF Promise!MakePull
  <2> QED
    BY <2>1, <2>3 DEF Promise!Next
<1>5. CASE e.op = "branch"
  BY <1>5, Stutters DEF CarryOut
<1> QED
  BY <1>1, <1>2, <1>3, <1>4, <1>5 DEF Writing

LEMMA SentRefines ==
  ASSUME Inv, PromiseInv, NEW d \in Call, pc[d] \in Writing, CarryOut(Sent(d)),
         UNCHANGED <<status, recorded>>
  PROVE  [Promise!Next]_(Promise!vars)
<1>1. Sound(Sent(d)) /\ CallInv(d) /\ PromiseCall(d)
  BY SentIsSound DEF Inv, PromiseInv
<1>2. Sent(d).of = cmd[d] /\ Sent(d).op = pc[d]
  BY DEF Sent
<1>3. status[cmd[d]] = "executing"
  BY <1>1 DEF PromiseCall, Executing, Writing
<1>4. pc[d] = "write" => applied[cmd[d]] = 0
  BY <1>1 DEF CallInv, ForAction
<1>5. pc[d] = "pull" => written[cmd[d]] = 1..NChanges
  BY <1>1 DEF CallInv, ForRequest, Whole
<1> QED
  BY <1>1, <1>2, <1>3, <1>4, <1>5, CarriedRefines

LEMMA LateRefines ==
  ASSUME Inv, PromiseInv, NEW e \in late, ArriveLate(e)
  PROVE  [Promise!Next]_(Promise!vars)
<1>1. Sound(e) /\ e.of \in Command /\ CommandInv(e.of)
  BY LateIsSound DEF Inv, TypeOK, Effect
<1>2. CarryOut(e) /\ UNCHANGED <<status, recorded>>
  BY DEF ArriveLate, rows
<1>3. status[e.of] \notin {"none", "draft"}
  BY DEF PromiseInv
<1>4. e.op = "write" => status[e.of] = "executing" /\ applied[e.of] = 0
  <2> SUFFICES ASSUME e.op = "write" PROVE status[e.of] = "executing" /\ applied[e.of] = 0
    OBVIOUS
  <2>1. e.of \in Action /\ applied[e.of] = 0
    BY <1>1 DEF Sound, CommandInv, ActionInv
  <2>2. status[e.of] \in Status \ {"none", "draft", "approved", "failed", "succeeded",
                                   "pull_request_opened"}
    BY <1>1, <1>3, <2>1 DEF CommandInv, ActionInv, NoneLate, Inv, TypeOK
  <2> QED
    BY <2>1, <2>2 DEF Status
<1>5. e.op = "pull" => written[e.of] = 1..NChanges
  BY <1>1, CommandsAssumption DEF Sound, CommandInv, RequestInv, Command
<1> QED
  BY <1>1, <1>2, <1>3, <1>4, <1>5, CarriedRefines


(* The steps that write the row of their command.                          *)
LEMMA UserRefines ==
  ASSUME Inv, NEW c \in Command, Create(c) \/ Approve(c)
  PROVE  [Promise!Next]_(Promise!vars)
<1>1. UNCHANGED <<recorded, applied, written, pulls>>
  BY DEF Create, Approve, provider
<1>2. CASE Create(c)
  <2>1. Stage' = Stage
    BY <1>2 DEF Create, Stage, Inv, TypeOK
  <2> QED
    BY <1>1, <2>1 DEF Promise!vars
<1>3. CASE Approve(c)
  <2>1. Stage' = [Stage EXCEPT ![c] = "approved"]
    BY <1>3, StageGoes DEF Approve, Status
  <2>2. Stage[c] = "unapproved"
    BY <1>3 DEF Approve, Stage
  <2>3. Promise!Approve(c)
    BY <1>1, <2>1, <2>2 DEF Promise!Approve, Promise!Goes
  <2> QED
    BY <2>3 DEF Promise!Next, Command
<1> QED
  BY <1>2, <1>3

LEMMA ClaimRefines ==
  ASSUME Inv, NEW d \in Call, Claim(d)
  PROVE  [Promise!Next]_(Promise!vars)
<1>1. /\ status[cmd[d]] = "approved" /\ cmd[d] \in Command
      /\ status' = [status EXCEPT ![cmd[d]] = "executing"]
      /\ UNCHANGED <<recorded, applied, written, pulls>>
  BY DEF Claim, Claimable, provider, Inv, TypeOK
<1>2. Stage' = [Stage EXCEPT ![cmd[d]] = "executing"] /\ Stage[cmd[d]] = "approved"
  BY <1>1, StageGoes, StageOf DEF Status
<1>3. Promise!Begin(cmd[d])
  BY <1>1, <1>2 DEF Promise!Begin, Promise!Goes
<1> QED
  BY <1>1, <1>3 DEF Promise!Next, Command

LEMMA RecordActionRefines ==
  ASSUME Inv, PromiseInv, NEW d \in Call, RecordAction(d)
  PROVE  [Promise!Next]_(Promise!vars)
<1>1. /\ pc[d] = "record" /\ cmd[d] \in Action /\ cmd[d] \in Command
      /\ status' = [status EXCEPT ![cmd[d]] = "succeeded"] \/ status' = status
      /\ UNCHANGED <<recorded, applied, written, pulls>>
  BY DEF RecordAction, provider, Command
<1>2. status[cmd[d]] = "executing" /\ applied[cmd[d]] = 1
  BY <1>1 DEF PromiseInv, PromiseCall, Executing, Inv, CallInv
<1>3. CASE status' = status
  BY <1>1, <1>3, Stutters
<1>4. CASE status' = [status EXCEPT ![cmd[d]] = "succeeded"]
  <2>1. Stage' = [Stage EXCEPT ![cmd[d]] = "succeeded"] /\ Stage[cmd[d]] = "executing"
    BY <1>1, <1>2, <1>4, StageGoes, StageOf DEF Status
  <2>2. Promise!Succeed(cmd[d])
    BY <1>1, <1>2, <2>1 DEF Promise!Succeed, Promise!Goes
  <2> QED
    BY <1>1, <2>2 DEF Promise!Next
<1> QED
  BY <1>1, <1>3, <1>4

LEMMA CatchActionRefines ==
  ASSUME Inv, NEW d \in Call, CatchAction(d)
  PROVE  [Promise!Next]_(Promise!vars)
<1>1. /\ pc[d] \in {"catch", "invalid"} /\ cmd[d] \in Action /\ cmd[d] \in Command
      /\ UNCHANGED <<recorded, applied, written, pulls>>
      /\ \/ status' = status
         \/ /\ status[cmd[d]] = "executing"
            /\ status' = [status EXCEPT ![cmd[d]] = FailedStatus(d)]
  BY DEF CatchAction, Unsettled, provider, Command
<1>2. CASE status' = status
  BY <1>1, <1>2, Stutters
<1>3. CASE status[cmd[d]] = "executing" /\ status' = [status EXCEPT ![cmd[d]] = FailedStatus(d)]
  <2>1. CASE pc[d] = "catch"
    <3>1. status' = status
      BY <1>1, <1>3, <2>1 DEF FailedStatus, Inv, TypeOK
    <3> QED
      BY <1>1, <3>1, Stutters
  <2>2. CASE pc[d] = "invalid"
    <3>1. FailedStatus(d) = "failed" /\ applied[cmd[d]] = 0
      BY <1>1, <2>2 DEF FailedStatus, Inv, CallInv
    <3>2. Stage' = [Stage EXCEPT ![cmd[d]] = "failed"] /\ Stage[cmd[d]] = "executing"
      BY <1>1, <1>3, <3>1, StageGoes, StageOf DEF Status
    <3>3. Promise!Fail(cmd[d])
      BY <1>1, <3>1, <3>2 DEF Promise!Fail, Promise!Goes
    <3> QED
      BY <1>1, <3>3 DEF Promise!Next
  <2> QED
    BY <1>1, <2>1, <2>2
<1> QED
  BY <1>1, <1>2, <1>3

LEMMA RecordPullRefines ==
  ASSUME Inv, PromiseInv, NEW d \in Call, RecordPull(d)
  PROVE  [Promise!Next]_(Promise!vars)
<1>1. /\ pc[d] = "record" /\ cmd[d] \in Request /\ cmd[d] \in Command
      /\ UNCHANGED <<applied, written, pulls>>
      /\ OpenedRow(d) \/ UNCHANGED <<status, recorded>>
  BY DEF RecordPull, provider, Command
<1>2. status[cmd[d]] = "executing" /\ pr[d] \in 1..pulls[cmd[d]]
  BY <1>1 DEF PromiseInv, PromiseCall, Executing
<1>3. CASE UNCHANGED <<status, recorded>>
  BY <1>1, <1>3, Stutters
<1>4. CASE OpenedRow(d)
  <2>1. /\ status' = [status EXCEPT ![cmd[d]] = "pull_request_opened"]
        /\ recorded' = [recorded EXCEPT ![cmd[d]] = pr[d]]
    BY <1>4 DEF OpenedRow
  <2>2. /\ Stage' = [Stage EXCEPT ![cmd[d]] = "pull_request_opened"]
        /\ Stage[cmd[d]] = "executing"
    BY <1>1, <1>2, <2>1, StageGoes, StageOf DEF Status
  <2>3. Promise!RecordPull(cmd[d])
    BY <1>1, <1>2, <2>1, <2>2 DEF Promise!RecordPull, Promise!Goes
  <2> QED
    BY <1>1, <2>3 DEF Promise!Next
<1> QED
  BY <1>1, <1>3, <1>4

LEMMA CatchRequestRefines ==
  ASSUME Inv, NEW d \in Call, CatchRequest(d)
  PROVE  [Promise!Next]_(Promise!vars)
<1>1. /\ pc[d] = "catch" /\ cmd[d] \in Request /\ cmd[d] \in Command
      /\ UNCHANGED <<recorded, applied, written, pulls>>
      /\ status' = [status EXCEPT ![cmd[d]] = "approved"] \/ status' = status
  BY DEF CatchRequest, provider, Command
<1>2. CASE status' = status
  BY <1>1, <1>2, Stutters
<1>3. CASE status' = [status EXCEPT ![cmd[d]] = "approved"]
  <2>1. status[cmd[d]] \in {"executing", "pull_request_opened"}
    <3>1. status[cmd[d]] \in Status \ {"none", "draft", "approved", "failed", "succeeded"}
      BY <1>1 DEF Inv, TypeOK, CallInv, Executing
    <3> QED
      BY <3>1 DEF Status
  <2>2. /\ Stage' = [Stage EXCEPT ![cmd[d]] = "approved"]
        /\ Stage[cmd[d]] \in {"executing", "pull_request_opened"}
    BY <1>1, <1>3, <2>1, StageGoes, StageOf DEF Status
  <2>3. Promise!TakeUpAgain(cmd[d])
    BY <1>1, <2>2 DEF Promise!TakeUpAgain, Promise!Goes
  <2> QED
    BY <1>1, <2>3 DEF Promise!Next
<1> QED
  BY <1>1, <1>2, <1>3

(* A step that the promise does not see.                                   *)
LEMMA QuietRefines ==
  ASSUME UNCHANGED <<rows, applied, written, pulls>>
  PROVE  [Promise!Next]_(Promise!vars)
BY Stutters DEF rows

LEMMA SendRefines ==
  ASSUME Inv, PromiseInv, NEW d \in Call, pc[d] \in Writing, UNCHANGED rows,
         NEW label, NEW n, Send(d, label, n)
  PROVE  [Promise!Next]_(Promise!vars)
<1>1. CASE CarryOut(Sent(d))
  BY <1>1, SentRefines DEF rows
<1>2. CASE UNCHANGED <<applied, written, pulls>>
  BY <1>2, QuietRefines
<1> QED
  BY <1>1, <1>2 DEF Send

LEMMA StepRefines ==
  ASSUME Inv, PromiseInv, [Next]_vars
  PROVE  [Promise!Next]_(Promise!vars)
<1>1. CASE \E c \in Command : Create(c) \/ Approve(c)
  BY <1>1, UserRefines
<1>2. ASSUME NEW d \in Call, Execute(d)
      PROVE  [Promise!Next]_(Promise!vars)
  <2>1. CASE Claim(d) \/ RecordAction(d) \/ CatchAction(d) \/ RecordPull(d) \/ CatchRequest(d)
    BY <2>1, ClaimRefines, RecordActionRefines, CatchActionRefines, RecordPullRefines,
       CatchRequestRefines
  <2>2. CASE Reject(d) \/ Prepare(d) \/ LookupPull(d)
    BY <2>2, QuietRefines DEF Reject, Prepare, LookupPull, provider
  <2>3. CASE DisableJob(d)
    BY <2>3, Stutters DEF DisableJob, provider
  <2>4. CASE Write(d)
    <3>1. pc[d] \in Writing /\ UNCHANGED rows
      BY <2>4 DEF Write, Writing
    <3>2. CarryOut(Sent(d)) \/ UNCHANGED <<applied, written, pulls>>
      BY <2>4 DEF Write
    <3> QED
      BY <3>1, <3>2, SentRefines, QuietRefines DEF rows
  <2>5. CASE MakeBranch(d)
    <3>1. pc[d] \in Writing /\ UNCHANGED rows
      BY <2>5 DEF MakeBranch, Writing
    <3>2. Send(d, "put", 1) \/ UNCHANGED <<applied, written, pulls>>
      BY <2>5 DEF MakeBranch, provider
    <3> QED
      BY <3>1, <3>2, SendRefines, QuietRefines
  <2>6. CASE PutChange(d)
    <3>1. pc[d] \in Writing /\ UNCHANGED rows
      BY <2>6 DEF PutChange, Writing
    <3>2. Send(d, "lookup", 0) \/ Send(d, "put", at[d] + 1)
      BY <2>6 DEF PutChange
    <3> QED
      BY <3>1, <3>2, SendRefines
  <2>7. CASE OpenPull(d)
    <3>1. pc[d] \in Writing /\ UNCHANGED rows
      BY <2>7 DEF OpenPull, Writing
    <3>2. CarryOut(Sent(d)) \/ UNCHANGED <<applied, written, pulls>>
      BY <2>7 DEF OpenPull
    <3> QED
      BY <3>1, <3>2, SentRefines, QuietRefines DEF rows
  <2> QED
    BY <1>2, <2>1, <2>2, <2>3, <2>4, <2>5, <2>6, <2>7 DEF Execute
<1>3. CASE \E e \in late : ArriveLate(e)
  BY <1>3, LateRefines
<1>4. CASE \/ \E d \in Call, c \in Command : Dispatch(d, c)
           \/ \E d \in Call : Crash(d)
           \/ \E r \in Request : ClosePull(r) \/ MoveBase(r)
           \/ UNCHANGED vars
  BY <1>4, QuietRefines DEF Dispatch, Crash, ClosePull, MoveBase, vars, provider
<1> QED
  BY <1>1, <1>2, <1>3, <1>4 DEF Next

(* The commands keep the promise of CommandExecution: nothing is written   *)
(* before the approval, an action is carried out once and its outcome is   *)
(* true and final, a pull request has every file and one that is recorded  *)
(* was made.                                                               *)
THEOREM Refinement == Spec => ImplementsExecution
<1>1. Init => Promise!Init
  BY InitRefines
<1>2. Inv /\ PromiseInv /\ [Next]_vars => [Promise!Next]_(Promise!vars)
  BY StepRefines
<1> QED
  BY <1>1, <1>2, PromiseInvariant, PTL DEF Spec, ImplementsExecution, Promise!Spec
===============================================================================
