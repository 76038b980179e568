--------------------------- MODULE CommandExecution ---------------------------
(***************************************************************************)
(* What a user who approves a command is promised: nothing is written at a *)
(* provider before the approval; an action is carried out once at most and *)
(* its outcome, once told, is true and final; the pull requests of a       *)
(* change request show every file, and the one its row names was made.     *)
(***************************************************************************)
EXTENDS Integers

CONSTANTS Action, Request, NChanges

VARIABLES
  stage,     \* "unapproved", "approved", "executing", or how a command ended
  recorded,  \* the pull request the row of each request names, 0 for none
  applied,   \* how often each action was carried out
  written,   \* the file changes of each request that were written
  pulls      \* how many pull requests were made of it, which numbers them

vars == <<stage, recorded, applied, written, pulls>>

Init ==
  /\ stage = [c \in Action \union Request |-> "unapproved"]
  /\ recorded = [r \in Request |-> 0]
  /\ applied = [a \in Action |-> 0]
  /\ written = [r \in Request |-> {}]
  /\ pulls = [r \in Request |-> 0]

Goes(c, from, to) ==
  /\ stage[c] \in from
  /\ stage' = [stage EXCEPT ![c] = to]

Approve(c) ==
  /\ Goes(c, {"unapproved"}, "approved")
  /\ UNCHANGED <<recorded, applied, written, pulls>>

Begin(c) ==
  /\ Goes(c, {"approved"}, "executing")
  /\ UNCHANGED <<recorded, applied, written, pulls>>

(* An action is carried out while nobody has been told how it ended.       *)
CarryOut(a) ==
  /\ stage[a] = "executing" /\ applied[a] = 0
  /\ applied' = [applied EXCEPT ![a] = 1]
  /\ UNCHANGED <<stage, recorded, written, pulls>>

Succeed(a) ==
  /\ applied[a] = 1
  /\ Goes(a, {"executing"}, "succeeded")
  /\ UNCHANGED <<recorded, applied, written, pulls>>

Fail(a) ==
  /\ applied[a] = 0
  /\ Goes(a, {"executing"}, "failed")
  /\ UNCHANGED <<recorded, applied, written, pulls>>

(* A change request is written as often as it takes, also by attempts that *)
(* were given up.                                                          *)
WriteFile(r) ==
  /\ stage[r] # "unapproved"
  /\ \E n \in 1..NChanges : written' = [written EXCEPT ![r] = @ \union {n}]
  /\ UNCHANGED <<stage, recorded, applied, pulls>>

MakePull(r) ==
  /\ written[r] = 1..NChanges
  /\ pulls' = [pulls EXCEPT ![r] = @ + 1]
  /\ UNCHANGED <<stage, recorded, applied, written>>

RecordPull(r) ==
  /\ Goes(r, {"executing"}, "pull_request_opened")
  /\ \E n \in 1..pulls[r] : recorded' = [recorded EXCEPT ![r] = n]
  /\ UNCHANGED <<applied, written, pulls>>

(* A request that was not brought to its end, or whose end was not         *)
(* acknowledged, is taken up again.                                        *)
TakeUpAgain(r) ==
  /\ Goes(r, {"executing", "pull_request_opened"}, "approved")
  /\ UNCHANGED <<recorded, applied, written, pulls>>

Next ==
  \/ \E c \in Action \union Request : Approve(c) \/ Begin(c)
  \/ \E a \in Action : CarryOut(a) \/ Succeed(a) \/ Fail(a)
  \/ \E r \in Request : WriteFile(r) \/ MakePull(r) \/ RecordPull(r) \/ TakeUpAgain(r)

Spec == Init /\ [][Next]_vars
===============================================================================
