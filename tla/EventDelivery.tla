---------------------------- MODULE EventDelivery ----------------------------
(***************************************************************************)
(* What the outbox promises the rest of the program about each event:      *)
(* at-least-once delivery, settled once and for all, dead-lettered after   *)
(* exactly MaxAttempts recorded failures.                                  *)
(***************************************************************************)
EXTENDS Integers

CONSTANTS Event, MaxAttempts

VARIABLES
  status,     \* "unpublished", "pending", "consumed" or "dead"
  failures,   \* the failures recorded against the event
  delivered   \* the events delivered at least once

vars == <<status, failures, delivered>>

Init ==
  /\ status = [e \in Event |-> "unpublished"]
  /\ failures = [e \in Event |-> 0]
  /\ delivered = {}

Publish(e) ==
  /\ status[e] = "unpublished"
  /\ status' = [status EXCEPT ![e] = "pending"]
  /\ UNCHANGED <<failures, delivered>>

(* Delivery is at least once: it may come again, even after the end.       *)
Deliver(e) ==
  /\ status[e] # "unpublished"
  /\ delivered' = delivered \union {e}
  /\ UNCHANGED <<status, failures>>

Consume(e) ==
  /\ status[e] = "pending"
  /\ e \in delivered
  /\ status' = [status EXCEPT ![e] = "consumed"]
  /\ UNCHANGED <<failures, delivered>>

RecordFailure(e) ==
  /\ status[e] = "pending"
  /\ failures' = [failures EXCEPT ![e] = @ + 1]
  /\ status' = [status EXCEPT
       ![e] = IF failures[e] + 1 = MaxAttempts THEN "dead" ELSE "pending"]
  /\ UNCHANGED delivered

Next == \E e \in Event : Publish(e) \/ Deliver(e) \/ Consume(e) \/ RecordFailure(e)

Spec == Init /\ [][Next]_vars
=============================================================================
