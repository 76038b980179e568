------------------------------- MODULE Commands -------------------------------
(***************************************************************************)
(* The commands a user approves and the system then carries out at a       *)
(* provider: automation actions (AutomationService), one write to          *)
(* GoHighLevel, and change requests (GithubService), a branch, its files   *)
(* and a pull request.  Approval enables an hourly scheduled job; every    *)
(* run of it, and every retry of such a run, is a call of executeApproved. *)
(* Calls are made by the scheduler, by BullMQ or Cloud Tasks and may       *)
(* overlap.                                                                *)
(*                                                                         *)
(* The provider is the environment.  A request to it is carried out and    *)
(* answered, refused, or lost: a lost request throws in the caller and may *)
(* still be carried out later.  People close pull requests and push to the *)
(* default branch.                                                         *)
(***************************************************************************)
EXTENDS Integers, FiniteSets

CONSTANTS
  Action,       \* rows of automation_actions
  Request,      \* rows of github_change_requests
  Call,         \* deliveries of executeApproved that may exist at one time
  NoCommand,    \* the command of an unused delivery
  NChanges,     \* the file changes of a request (without any, GitHub makes no pull request)
  MaxAttempts,  \* attempts of a delivery (job_runs.max_attempts, BullMQ's)
  MaxFaults,    \* bound on failed and lost requests and database errors
  MaxCrashes,   \* bound on workers that die
  MaxCloses     \* bound on the pull requests people close

Command == Action \cup Request

ASSUME CommandsAssumption ==
  /\ Action \cap Request = {}
  /\ NoCommand \notin Command
  /\ {NChanges, MaxAttempts} \subseteq Nat \ {0}
  /\ {MaxFaults, MaxCrashes, MaxCloses} \subseteq Nat

VARIABLES
  status,    \* the status column of each command; "none" before it is created
  recorded,  \* pull_request_number of each request, 0 for NULL
  job,       \* the commands whose scheduled job is enabled
  pc,        \* where each delivery is
  cmd,       \* the command it carries
  left,      \* the attempts it has left
  at,        \* the change it is about to write
  pr,        \* the number of the pull request it found or made
  applied,   \* GoHighLevel: how often each action was carried out
  branch,    \* GitHub: the requests whose branch exists
  written,   \* GitHub: the changes on the branch of each request
  pulls,     \* GitHub: the numbers of the pull requests ever made of a request
  open,      \* GitHub: those of them that are open
  moved,     \* the requests whose base is no longer the head of the default branch
  late,      \* requests the caller gave up on that may still be carried out
  faults, crashes, closes   \* counted against their bounds

rows     == <<status, recorded, job>>
calls    == <<pc, cmd, left, at, pr>>
provider == <<applied, branch, written, pulls, open, moved, late>>
bounds   == <<faults, crashes, closes>>
vars     == <<rows, calls, provider, bounds>>

Status  == {"none", "draft", "approved", "executing",
            "succeeded", "failed", "pull_request_opened"}

(* Between the claim and the end of executeApproved. *)
Writing   == {"write", "branch", "put", "pull"}
Executing == Writing \cup {"prepare", "lookup", "record", "disable", "catch", "invalid"}

(* A request to a provider: the command it is for, the write, and the      *)
(* number of the file change or 0.                                         *)
Effect    == [of : Command, op : Writing, change : 0..NChanges]
Sent(d)   == [of |-> cmd[d], op |-> pc[d], change |-> at[d]]

Init ==
  /\ status   = [c \in Command |-> "none"]
  /\ recorded = [r \in Request |-> 0]
  /\ job      = {}
  /\ pc       = [d \in Call |-> "free"]
  /\ cmd      = [d \in Call |-> NoCommand]
  /\ left     = [d \in Call |-> 0]
  /\ at       = [d \in Call |-> 0]
  /\ pr       = [d \in Call |-> 0]
  /\ applied  = [a \in Action |-> 0]
  /\ branch   = {}
  /\ written  = [r \in Request |-> {}]
  /\ pulls    = [r \in Request |-> 0]
  /\ open     = [r \in Request |-> {}]
  /\ moved    = {}
  /\ late     = {}
  /\ faults   = 0
  /\ crashes  = 0
  /\ closes   = 0

(***************************************************************************)
(* Faults.                                                                 *)
(***************************************************************************)
Fault == faults < MaxFaults /\ faults' = faults + 1

(***************************************************************************)
(* The users: create, approve.                                             *)
(***************************************************************************)
Create(c) ==
  /\ status[c] = "none"
  /\ status' = [status EXCEPT ![c] = "draft"]
  /\ UNCHANGED <<recorded, job, calls, provider, bounds>>

(* One transaction: the row and its scheduled job. *)
Approve(c) ==
  /\ status[c] = "draft"
  /\ status' = [status EXCEPT ![c] = "approved"]
  /\ job' = job \cup {c}
  /\ UNCHANGED <<recorded, calls, provider, bounds>>

(***************************************************************************)
(* Deliveries.                                                             *)
(***************************************************************************)
(* Every due run of an enabled job is a delivery of its own: the run       *)
(* itself, or a message under a fresh id.                                  *)
Dispatch(d, c) ==
  /\ pc[d] = "free"
  /\ c \in job
  /\ pc'   = [pc EXCEPT ![d] = "queued"]
  /\ cmd'  = [cmd EXCEPT ![d] = c]
  /\ left' = [left EXCEPT ![d] = MaxAttempts]
  /\ UNCHANGED <<at, pr, rows, provider, bounds>>

(* The delivery ends without an error. *)
Return(d) ==
  /\ pc'   = [pc EXCEPT ![d] = "free"]
  /\ cmd'  = [cmd EXCEPT ![d] = NoCommand]
  /\ left' = [left EXCEPT ![d] = 0]
  /\ at'   = [at EXCEPT ![d] = 0]
  /\ pr'   = [pr EXCEPT ![d] = 0]

(* It throws: the queue tries it again while it has attempts. *)
Throw(d) ==
  \/ /\ left[d] = 1
     /\ Return(d)
  \/ /\ left[d] > 1
     /\ pc'   = [pc EXCEPT ![d] = "queued"]
     /\ left' = [left EXCEPT ![d] = left[d] - 1]
     /\ at'   = [at EXCEPT ![d] = 0]
     /\ pr'   = [pr EXCEPT ![d] = 0]
     /\ UNCHANGED cmd

(* The worker dies.  The row stays as it is, a request on its way may      *)
(* still arrive, and the delivery is made again.                           *)
Crash(d) ==
  /\ pc[d] \in Executing
  /\ crashes < MaxCrashes
  /\ crashes' = crashes + 1
  /\ \/ UNCHANGED late
     \/ pc[d] \in Writing /\ late' = late \cup {Sent(d)}
  /\ Throw(d)
  /\ UNCHANGED <<rows, applied, branch, written, pulls, open, moved, faults, closes>>

(* Mutant: a retry takes an executing command up again.                    *)
ClaimableExecuting(c) == status[c] \in {"approved", "executing"}

(* The row is claimed by a conditional update (for a request, under an     *)
(* advisory lock); a command that is not approved is not executable.       *)
Claimable(c) == status[c] = "approved"

(* A database error may come before or after the commit.                   *)
Claim(d) ==
  /\ pc[d] = "queued"
  /\ Claimable(cmd[d])
  /\ status' = [status EXCEPT ![cmd[d]] = "executing"]
  /\ \/ /\ pc' = [pc EXCEPT ![d] = "prepare"]
        /\ UNCHANGED <<cmd, left, at, pr, bounds>>
     \/ Fault /\ Throw(d) /\ UNCHANGED <<crashes, closes>>
  /\ UNCHANGED <<recorded, job, provider>>

Reject(d) ==
  /\ pc[d] = "queued"
  /\ \/ ~Claimable(cmd[d]) /\ UNCHANGED bounds
     \/ Fault /\ UNCHANGED <<crashes, closes>>
  /\ Throw(d)
  /\ UNCHANGED <<rows, provider>>

(* Reading the integration or repository, fetching the credentials or the  *)
(* token, validating the payload: an error here is outside the try.        *)
Prepared(d) == IF cmd[d] \in Action THEN "write" ELSE "branch"

Prepare(d) ==
  /\ pc[d] = "prepare"
  /\ \/ pc' = [pc EXCEPT ![d] = Prepared(d)] /\ UNCHANGED <<cmd, left, at, pr, bounds>>
     \/ Fault /\ Throw(d) /\ UNCHANGED <<crashes, closes>>
  /\ UNCHANGED <<rows, provider>>

(***************************************************************************)
(* Writes to the provider.                                                 *)
(***************************************************************************)
(* GitHub refuses a branch that exists, a file on one that does not, and a *)
(* second open pull request of one branch.                                 *)
Accepted(e) ==
  CASE e.op = "write"  -> TRUE
    [] e.op = "branch" -> e.of \notin branch
    [] e.op = "put"    -> e.of \in branch
    [] e.op = "pull"   -> e.of \in branch /\ open[e.of] = {}

CarryOut(e) ==
  /\ Accepted(e)
  /\ applied' = IF e.op = "write" THEN [applied EXCEPT ![e.of] = @ + 1] ELSE applied
  /\ branch'  = IF e.op = "branch" THEN branch \cup {e.of} ELSE branch
  /\ written' = IF e.op = "put"
                THEN [written EXCEPT ![e.of] = @ \cup {e.change}] ELSE written
  /\ pulls'   = IF e.op = "pull" THEN [pulls EXCEPT ![e.of] = @ + 1] ELSE pulls
  /\ open'    = IF e.op = "pull" THEN [open EXCEPT ![e.of] = {pulls[e.of] + 1}] ELSE open
  /\ UNCHANGED moved

(* The try block ends in its catch. *)
Catch(d, label) ==
  /\ pc' = [pc EXCEPT ![d] = label]
  /\ at' = [at EXCEPT ![d] = 0]
  /\ UNCHANGED <<cmd, left, pr>>

(* The request was refused; or it failed before the provider did anything; *)
(* or it was lost: no answer, or one that does not say what was done.      *)
Unanswered(d) ==
  \/ ~Accepted(Sent(d)) /\ UNCHANGED <<late, bounds>>
  \/ Fault /\ UNCHANGED <<late, crashes, closes>>
  \/ Fault /\ late' = late \cup {Sent(d)} /\ UNCHANGED <<crashes, closes>>

(* A lost request is carried out after all. *)
ArriveLate(e) ==
  /\ e \in late
  /\ CarryOut(e)
  /\ late' = late \ {e}
  /\ UNCHANGED <<rows, calls, bounds>>

(***************************************************************************)
(* AutomationService.executeApproved: one write.                           *)
(***************************************************************************)
(* Only a 4xx answer that is none of 401, 403, 408 and 429 is "invalid";   *)
(* it proves that nothing was done.                                        *)
Write(d) ==
  /\ pc[d] = "write"
  /\ \/ /\ CarryOut(Sent(d))
        /\ pc' = [pc EXCEPT ![d] = "record"]
        /\ UNCHANGED <<late, cmd, left, at, pr, bounds>>
     \/ /\ Fault
        /\ Catch(d, "invalid")
        /\ UNCHANGED <<applied, branch, written, pulls, open, moved, late, crashes, closes>>
     \/ /\ Unanswered(d)
        /\ Catch(d, "catch")
        /\ UNCHANGED <<applied, branch, written, pulls, open, moved>>
  /\ UNCHANGED rows

(* An update that throws may have been committed. *)
RecordAction(d) ==
  /\ pc[d] = "record"
  /\ cmd[d] \in Action
  /\ \/ /\ status' = [status EXCEPT ![cmd[d]] = "succeeded"]
        /\ Return(d)
        /\ UNCHANGED bounds
     \/ /\ Fault
        /\ \/ status' = [status EXCEPT ![cmd[d]] = "succeeded"]
           \/ UNCHANGED status
        /\ Catch(d, "catch")
        /\ UNCHANGED <<crashes, closes>>
  /\ UNCHANGED <<recorded, job, provider>>

(* Mutants: every failure can be retried, or is definitive; the catch has  *)
(* no condition on the status.                                             *)
FailedStatusRetry(d) == IF pc[d] = "invalid" THEN "failed" ELSE "approved"
FailedStatusAlways(d) == "failed"
UnsettledAny(a) == TRUE

(* What the catch writes over the row, if the row is still executing. *)
FailedStatus(d) == IF pc[d] = "invalid" THEN "failed" ELSE "executing"
Unsettled(a) == status[a] = "executing"

CatchAction(d) ==
  /\ pc[d] \in {"catch", "invalid"}
  /\ cmd[d] \in Action
  /\ \/ /\ status' = IF Unsettled(cmd[d])
                     THEN [status EXCEPT ![cmd[d]] = FailedStatus(d)] ELSE status
        /\ UNCHANGED bounds
     \/ Fault /\ UNCHANGED <<status, crashes, closes>>
  /\ Throw(d)
  /\ UNCHANGED <<recorded, job, provider>>

(***************************************************************************)
(* GithubService.executeApproved: branch, files, pull request.             *)
(***************************************************************************)
Step(d, label, change) ==
  /\ pc' = [pc EXCEPT ![d] = label]
  /\ at' = [at EXCEPT ![d] = change]
  /\ UNCHANGED <<cmd, left, pr>>

(* One write to GitHub, then the next step, or the catch. *)
Send(d, label, change) ==
  \/ /\ CarryOut(Sent(d))
     /\ Step(d, label, change)
     /\ UNCHANGED <<late, bounds>>
  \/ /\ Unanswered(d)
     /\ Catch(d, "catch")
     /\ UNCHANGED <<applied, branch, written, pulls, open, moved>>

(* A branch an earlier attempt made is used as it is. *)
MakeBranch(d) ==
  /\ pc[d] = "branch"
  /\ \/ /\ cmd[d] \in branch
        /\ Step(d, "put", 1)
        /\ UNCHANGED <<provider, bounds>>
     \/ /\ cmd[d] \notin branch \cup moved
        /\ Send(d, "put", 1)
     \/ /\ \/ cmd[d] \in moved \ branch /\ UNCHANGED bounds
           \/ Fault /\ UNCHANGED <<crashes, closes>>
        /\ Catch(d, "catch")
        /\ UNCHANGED provider
  /\ UNCHANGED rows

(* Mutants: the loop over the changes ends one early, or one late.         *)
LastChangeEarly(d) == at[d] >= NChanges - 1
LastChangePast(d) == at[d] > NChanges

LastChange(d) == at[d] = NChanges

PutChange(d) ==
  /\ pc[d] = "put"
  /\ IF LastChange(d) THEN Send(d, "lookup", 0) ELSE Send(d, "put", at[d] + 1)
  /\ UNCHANGED rows

(* Mutant: a retry does not look for the pull request it made.             *)
ExistingNone(r) == {}

(* GET pulls?state=open&head=<branch>. *)
Existing(r) == open[r]

LookupPull(d) ==
  /\ pc[d] = "lookup"
  /\ \/ /\ Existing(cmd[d]) # {}
        /\ pr' = [pr EXCEPT ![d] = CHOOSE n \in Existing(cmd[d]) : TRUE]
        /\ pc' = [pc EXCEPT ![d] = "record"]
        /\ UNCHANGED <<cmd, left, at, bounds>>
     \/ Existing(cmd[d]) = {} /\ Step(d, "pull", 0) /\ UNCHANGED bounds
     \/ Fault /\ Catch(d, "catch") /\ UNCHANGED <<crashes, closes>>
  /\ UNCHANGED <<rows, provider>>

OpenPull(d) ==
  /\ pc[d] = "pull"
  /\ \/ /\ CarryOut(Sent(d))
        /\ pr' = [pr EXCEPT ![d] = pulls'[cmd[d]]]
        /\ pc' = [pc EXCEPT ![d] = "record"]
        /\ UNCHANGED <<cmd, left, at, late, bounds>>
     \/ /\ Unanswered(d)
        /\ Catch(d, "catch")
        /\ UNCHANGED <<applied, branch, written, pulls, open, moved>>
  /\ UNCHANGED rows

OpenedRow(d) ==
  /\ status' = [status EXCEPT ![cmd[d]] = "pull_request_opened"]
  /\ recorded' = [recorded EXCEPT ![cmd[d]] = pr[d]]

RecordPull(d) ==
  /\ pc[d] = "record"
  /\ cmd[d] \in Request
  /\ \/ OpenedRow(d) /\ Step(d, "disable", 0) /\ UNCHANGED bounds
     \/ /\ Fault
        /\ OpenedRow(d) \/ UNCHANGED <<status, recorded>>
        /\ Catch(d, "catch")
        /\ UNCHANGED <<crashes, closes>>
  /\ UNCHANGED <<job, provider>>

DisableJob(d) ==
  /\ pc[d] = "disable"
  /\ \/ job' = job \ {cmd[d]} /\ Return(d) /\ UNCHANGED bounds
     \/ /\ Fault
        /\ job' = job \ {cmd[d]} \/ UNCHANGED job
        /\ Catch(d, "catch")
        /\ UNCHANGED <<crashes, closes>>
  /\ UNCHANGED <<status, recorded, provider>>

(* Approved again, whatever the row has become. *)
CatchRequest(d) ==
  /\ pc[d] = "catch"
  /\ cmd[d] \in Request
  /\ \/ status' = [status EXCEPT ![cmd[d]] = "approved"] /\ UNCHANGED bounds
     \/ Fault /\ UNCHANGED <<status, crashes, closes>>
  /\ Throw(d)
  /\ UNCHANGED <<recorded, job, provider>>

(***************************************************************************)
(* People at GitHub: they merge or close a pull request and push to the    *)
(* default branch.  Nobody else writes to the branches made here.          *)
(***************************************************************************)
ClosePull(r) ==
  /\ open[r] # {}
  /\ closes < MaxCloses
  /\ closes' = closes + 1
  /\ open' = [open EXCEPT ![r] = {}]
  /\ UNCHANGED <<rows, calls, applied, branch, written, pulls, moved, late, faults, crashes>>

MoveBase(r) ==
  /\ r \notin moved
  /\ moved' = moved \cup {r}
  /\ UNCHANGED <<rows, calls, applied, branch, written, pulls, open, late, bounds>>

(***************************************************************************)
(* The next-state relation.                                                *)
(***************************************************************************)
Execute(d) ==
  \/ Claim(d) \/ Reject(d) \/ Prepare(d)
  \/ Write(d) \/ RecordAction(d) \/ CatchAction(d)
  \/ MakeBranch(d) \/ PutChange(d) \/ LookupPull(d) \/ OpenPull(d)
  \/ RecordPull(d) \/ DisableJob(d) \/ CatchRequest(d)

Next ==
  \/ \E c \in Command : Create(c) \/ Approve(c)
  \/ \E d \in Call, c \in Command : Dispatch(d, c)
  \/ \E d \in Call : Execute(d) \/ Crash(d)
  \/ \E e \in late : ArriveLate(e)
  \/ \E r \in Request : ClosePull(r) \/ MoveBase(r)

(* The scheduler takes due jobs in the order of next_run_at and the queues *)
(* are served in order, so no job waits for ever behind the others; every  *)
(* delivery goes on until it ends or its worker dies.                      *)
Fairness ==
  /\ \A d \in Call : WF_vars(Execute(d))
  /\ \A c \in Command : SF_vars(\E d \in Call : Dispatch(d, c))

Spec == Init /\ [][Next]_vars /\ Fairness

(***************************************************************************)
(* Properties.                                                             *)
(***************************************************************************)
(* The variables keep their types: executeApproved and its handlers leave  *)
(* every row in a status of its own kind, a delivery in a known place.     *)
TypeOK ==
  /\ status \in [Command -> Status]
  /\ \A a \in Action : status[a] # "pull_request_opened"
  /\ \A r \in Request : status[r] \notin {"succeeded", "failed"}
  /\ recorded \in [Request -> Nat]
  /\ job \subseteq Command
  /\ pc \in [Call -> {"free", "queued"} \cup Executing]
  /\ cmd \in [Call -> Command \cup {NoCommand}]
  /\ \A d \in Call : (pc[d] = "free") = (cmd[d] = NoCommand)
  /\ left \in [Call -> 0..MaxAttempts]
  /\ at \in [Call -> 0..NChanges]
  /\ pr \in [Call -> Nat]
  /\ applied \in [Action -> Nat]
  /\ branch \subseteq Request
  /\ written \in [Request -> SUBSET (1..NChanges)]
  /\ pulls \in [Request -> Nat]
  /\ open \in [Request -> SUBSET Nat]
  /\ moved \subseteq Request
  /\ late \subseteq Effect
  /\ faults \in 0..MaxFaults
  /\ crashes \in 0..MaxCrashes
  /\ closes \in 0..MaxCloses

(* One call at most is carrying out a command: the claim turns every other *)
(* delivery away until the row is approved again, which only the end of    *)
(* the executing call does (github.service.ts:201-223, 311-323;            *)
(* automation.service.ts:97-105).                                          *)
OneExecutor ==
  \A d1, d2 \in Call :
    pc[d1] \in Executing /\ pc[d2] \in Executing /\ cmd[d1] = cmd[d2] => d1 = d2

(* GoHighLevel carries out an approved action at most once, over all       *)
(* deliveries, retries, crashes and late arrivals: "automatically          *)
(* replaying it could duplicate a task or workflow enrollment"             *)
(* (automation.service.ts:93-96).                                          *)
AppliedAtMostOnce == \A a \in Action : applied[a] <= 1

(* The outcome an action records is what happened at the provider:         *)
(* "succeeded" was carried out, "failed" was not and never will be         *)
(* (automation.service.ts:135-156).                                        *)
OutcomeIsTrue ==
  \A a \in Action :
    /\ status[a] = "succeeded" => applied[a] = 1
    /\ status[a] = "failed" => applied[a] = 0 /\ \A e \in late : e.of # a

(* The mapping of the commands to what their users are promised: a draft   *)
(* is not approved, and of a row nobody holds the outcome is not told.     *)
Stage == [c \in Command |-> IF status[c] \in {"none", "draft"} THEN "unapproved" ELSE status[c]]

Promise == INSTANCE CommandExecution WITH stage <- Stage

(* The execution keeps its promise: no delivery, retry, crash or late      *)
(* arrival writes before the approval, carries an action out again,        *)
(* changes its outcome or tells a wrong one (automation.service.ts:93-156),*)
(* opens a pull request without all files, or records one that was never   *)
(* made (github.service.ts:251-323).                                       *)
ImplementsExecution == Promise!Spec

(* A pull request shows the whole change: when there is one, every file of *)
(* the request is on its branch, however often the execution was broken    *)
(* off and taken up again (github.service.ts:251-292).                     *)
PullIsWhole == \A r \in Request : pulls[r] > 0 => written[r] = 1..NChanges

(* A call gave the row up without an outcome: the worker died, the error   *)
(* was outside the try, the catch itself failed, or the answer of the      *)
(* provider left the outcome unknown.                                      *)
Held(c) == status[c] = "executing" /\ \A d \in Call : pc[d] \in Executing => cmd[d] # c

(* The base has moved before the branch was made: never executable again.  *)
Outdated(c) == c \in moved \ branch

(* Every approved command whose job is enabled comes to an end: an outcome *)
(* or a pull request, or held for inspection, or, as its base has moved,   *)
(* refused at every attempt (automation.service.ts:71-87,                  *)
(* github.service.ts:180-196).                                             *)
ApprovedSettles ==
  \A c \in Command :
    status[c] = "approved" /\ c \in job
      ~> \/ status[c] \in {"succeeded", "failed", "pull_request_opened"}
         \/ Held(c)
         \/ Outdated(c)
===============================================================================
