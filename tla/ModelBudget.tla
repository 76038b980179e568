----------------------------- MODULE ModelBudget ------------------------------
(***************************************************************************)
(* Calls of language models by one organization, its usage ledger and the  *)
(* budgets on it.                                                          *)
(*                                                                         *)
(* A call is admitted when no enforced budget is used up, goes down a      *)
(* chain of models until one answers, is recorded in the ledger, and then  *)
(* evaluates the budgets: an alert is written once per budget, kind and    *)
(* period, with its event.  Nothing is reserved, and no two of these steps *)
(* share a transaction, so calls overlap everywhere.                       *)
(***************************************************************************)
EXTENDS Integers, FiniteSets

CONSTANTS
  Call,        \* overlapping calls
  Budget,      \* budgets of the organization, one per kind of period
  BudgetLimits, \* the limits a budget may be given
  ChainLength, \* models a call may try
  MaxCost,     \* the most one call costs
  SoftNum, SoftDen, \* the soft threshold, a fraction of the limit
  MaxSpend,    \* bound on the spend at which calls are still made
  MaxTurns,    \* bound on the ends of a period
  MaxCallFaults, \* bound on failures
  MaxChanges   \* bound on changes of a budget

ASSUME BudgetAssumption ==
  /\ IsFiniteSet(Call) /\ ChainLength \in Nat \ {0} /\ MaxCost \in Nat
  \* the checks of the table ai_budgets
  /\ BudgetLimits \subseteq Nat \ {0}
  /\ SoftNum \in Nat \ {0} /\ SoftDen \in Nat /\ SoftNum <= SoftDen
  /\ MaxSpend \in Nat /\ MaxTurns \in Nat /\ MaxCallFaults \in Nat /\ MaxChanges \in Nat

VARIABLES
  budget,      \* ai_budgets: limit and whether it is enforced
  turn,        \* the current period of each budget
  spend,       \* the ledger's sum since that period began
  call,        \* where each call is
  alerts,      \* ai_budget_alerts
  alertEvents, \* AiBudgetThresholdReached events
  unbilled,    \* answers the provider sold that the ledger misses
  changed,     \* budgets that were set in their current period
  missed,      \* budgets an evaluation of this period did not get to
  callFaults, changes

budgetVars == <<budget, turn, spend, call, alerts, alertEvents, unbilled,
                changed, missed, callFaults, changes>>

Kind == {"soft_threshold", "hard_limit"}
Alert == [budget : Budget, kind : Kind, turn : 0..MaxTurns]
NoModelCall == [at |-> "idle"]

BudgetTypeOK ==
  /\ budget \in [Budget -> [limit : BudgetLimits, enforced : BOOLEAN]]
  /\ turn \in [Budget -> 0..MaxTurns] /\ spend \in [Budget -> Nat]
  /\ \A c \in Call : call[c] \in
       {NoModelCall} \union [at : {"asking"}, model : 1..ChainLength]
       \union [at : {"recording"}, cost : 0..MaxCost]
       \union {[at |-> "evaluating"]}
       \union [at : {"alerting"}, found : SUBSET Alert]
  /\ alerts \subseteq Alert /\ alertEvents \in Nat /\ unbilled \in Nat
  /\ changed \subseteq Budget /\ missed \subseteq Budget
  /\ callFaults \in 0..MaxCallFaults /\ changes \in 0..MaxChanges

BudgetInit ==
  /\ budget \in [Budget -> [limit : BudgetLimits, enforced : {TRUE}]]
  /\ turn = [b \in Budget |-> 0] /\ spend = [b \in Budget |-> 0]
  /\ call = [c \in Call |-> NoModelCall]
  /\ alerts = {} /\ alertEvents = 0 /\ unbilled = 0
  /\ changed = {} /\ missed = {} /\ callFaults = 0 /\ changes = 0

Fault == callFaults < MaxCallFaults /\ callFaults' = callFaults + 1
CallGoes(c, to) == call' = [call EXCEPT ![c] = to]
configVars == <<budget, turn, changed, changes>>

-----------------------------------------------------------------------------
UsedUp(b) == spend[b] >= budget[b].limit
SoftCrossed(b) ==
  budget[b].limit > 0 /\ SoftDen * spend[b] >= SoftNum * budget[b].limit

(* assertWithinBudget                                                      *)
Admit(c) ==
  /\ call[c].at = "idle" /\ \A b \in Budget : spend[b] <= MaxSpend
  /\ \A b \in Budget : ~ (UsedUp(b) /\ budget[b].enforced)
  /\ CallGoes(c, [at |-> "asking", model |-> 1])
  /\ UNCHANGED <<configVars, spend, alerts, alertEvents, unbilled, missed,
                 callFaults>>

(* A model answers; a stream that failed upstream after its first bytes is *)
(* an answer that cost nothing.                                            *)
CallAnswered(c, cost) ==
  /\ call[c].at = "asking"
  /\ CallGoes(c, [at |-> "recording", cost |-> cost])
  /\ UNCHANGED <<configVars, spend, alerts, alertEvents, unbilled, missed,
                 callFaults>>

(* The model fails.  A retryable error before the first chunk moves to the *)
(* next; the provider may have served, and sold, what timed out here or    *)
(* what the client abandoned.                                              *)
AskFails(c, retryable, sold) ==
  LET m == call[c].model IN
  /\ call[c].at = "asking" /\ Fault
  /\ unbilled' = unbilled + (IF sold THEN 1 ELSE 0)
  /\ CallGoes(c, IF retryable /\ m < ChainLength
             THEN [at |-> "asking", model |-> m + 1] ELSE NoModelCall)
  /\ UNCHANGED <<configVars, spend, alerts, alertEvents, missed>>

RecordUsage(c) ==
  /\ call[c].at = "recording"
  /\ spend' = [b \in Budget |-> spend[b] + call[c].cost]
  /\ CallGoes(c, [at |-> "evaluating"])
  /\ UNCHANGED <<configVars, alerts, alertEvents, unbilled, missed, callFaults>>

(* The ledger refuses the row: the call fails, and no other model is tried.*)
RecordFails(c) ==
  /\ call[c].at = "recording" /\ Fault
  /\ unbilled' = unbilled + 1
  /\ CallGoes(c, NoModelCall)
  /\ UNCHANGED <<configVars, spend, alerts, alertEvents, missed>>

(* One alert for each budget: hard, or else soft.                          *)
AlertKinds(b) ==
  IF UsedUp(b) THEN {"hard_limit"}
  ELSE IF SoftCrossed(b) THEN {"soft_threshold"} ELSE {}

Found == {a \in Alert : a.kind \in AlertKinds(a.budget) /\ a.turn = turn[a.budget]}

Evaluate(c) ==
  /\ call[c].at = "evaluating"
  /\ CallGoes(c, IF Found = {} THEN NoModelCall ELSE [at |-> "alerting", found |-> Found])
  /\ UNCHANGED <<configVars, spend, alerts, alertEvents, unbilled, missed,
                 callFaults>>

NewAlways(a) == TRUE
New(a) == a \notin alerts

(* One budget after the other: row and event in one transaction.           *)
RecordAlert(c, a) ==
  LET left == call[c].found \ {a} IN
  /\ call[c].at = "alerting" /\ a \in call[c].found
  /\ alerts' = alerts \union {a}
  /\ alertEvents' = IF New(a) THEN alertEvents + 1 ELSE alertEvents
  /\ CallGoes(c, IF left = {} THEN NoModelCall ELSE [call[c] EXCEPT !.found = left])
  /\ UNCHANGED <<configVars, spend, unbilled, missed, callFaults>>

(* The database fails, or the process dies: the budgets stay unevaluated   *)
(* until another call.                                                     *)
EvaluationLost(c) ==
  /\ call[c].at \in {"evaluating", "alerting"} /\ Fault
  /\ missed' = Budget
  /\ CallGoes(c, NoModelCall)
  /\ UNCHANGED <<configVars, spend, alerts, alertEvents, unbilled>>

SetBudget(b, limit, enforced) ==
  /\ changes < MaxChanges /\ changes' = changes + 1
  /\ budget' = [budget EXCEPT ![b] = [limit |-> limit, enforced |-> enforced]]
  /\ changed' = changed \union {b}
  /\ UNCHANGED <<turn, spend, call, alerts, alertEvents, unbilled, missed,
                 callFaults>>

PeriodEnds(b) ==
  /\ turn[b] < MaxTurns
  /\ turn' = [turn EXCEPT ![b] = @ + 1]
  /\ spend' = [spend EXCEPT ![b] = 0]
  /\ changed' = changed \ {b} /\ missed' = missed \ {b}
  /\ UNCHANGED <<budget, call, alerts, alertEvents, unbilled, callFaults, changes>>

-----------------------------------------------------------------------------
BudgetNext ==
  \/ \E c \in Call :
       \/ Admit(c) \/ (\E cost \in 0..MaxCost : CallAnswered(c, cost))
       \/ \E retryable, sold \in BOOLEAN : AskFails(c, retryable, sold)
       \/ RecordUsage(c) \/ RecordFails(c)
       \/ Evaluate(c) \/ (\E a \in Alert : RecordAlert(c, a))
       \/ EvaluationLost(c)
  \/ \E b \in Budget :
       \/ PeriodEnds(b)
       \/ \E limit \in BudgetLimits, enforced \in BOOLEAN : SetBudget(b, limit, enforced)

BudgetSpec == BudgetInit /\ [][BudgetNext]_budgetVars

-----------------------------------------------------------------------------
(* "Refuses the call if the organization is over its enforced hard limit": *)
(* spend passes the limit by no more than the calls that can be in flight. *)
OvershootBounded ==
  \A b \in Budget \ changed :
    LET inFlight == {c \in Call : call[c].at \in {"asking", "recording"}}
    IN  budget[b].enforced =>
          spend[b] + MaxCost * Cardinality(inFlight)
            <= budget[b].limit + MaxCost * Cardinality(Call)
               - (IF spend[b] = 0 THEN 0 ELSE 1)

(* When no evaluation is under way, a budget whose threshold was crossed   *)
(* in this period has its alert, unless every evaluation since was lost.   *)
AlertedWhenCrossed ==
  (\A c \in Call : call[c].at \notin {"evaluating", "alerting"}) =>
    \A b \in Budget \ (changed \union missed) :
      LET alerted(kind) == [budget |-> b, kind |-> kind, turn |-> turn[b]] \in alerts
      IN  /\ spend[b] >= budget[b].limit /\ spend[b] > 0 => alerted("hard_limit")
          /\ SoftCrossed(b) => \E kind \in Kind : alerted(kind)

(* "Either double-notify or never notify": one event for each alert.       *)
NotifiedOnce == alertEvents = Cardinality(alerts)
=============================================================================
