------------------------------ MODULE Webhooks ------------------------------
(***************************************************************************)
(* GoHighLevel webhooks: signed notifications, delivered at least once,    *)
(* become domain events at most once.                                      *)
(*                                                                         *)
(* A notification is one thing that happened at GoHighLevel.  Its          *)
(* deliveries share the body, hence the event id and the payload hash: its *)
(* dedupe key is the notification itself.  A delivery verifies the         *)
(* signature, looks the connected integration of the location up, and then *)
(* writes: one log row under the unique dedupe key - together with the     *)
(* events when the delivery is genuine and the location known, alone when  *)
(* it is not.  The location may change hands between the two.              *)
(***************************************************************************)
EXTENDS Integers, FiniteSets

CONSTANTS
  Notification, KindOf, \* notifications, and what each is about
  Tenant, NoTenant,     \* organizations that connect the location
  Delivery,             \* overlapping requests
  Unsent,               \* no notification in hand
  SecretConfigured,     \* whether a legacy HMAC secret is configured
  MaxDeliveries,        \* bound on requests
  MaxHandovers          \* bound on connects and disconnects

ASSUME WebhookAssumption ==
  /\ MaxDeliveries \in Nat /\ MaxHandovers \in Nat
  /\ SecretConfigured \in BOOLEAN
  /\ NoTenant \notin Tenant /\ Unsent \notin Notification

VARIABLES
  tenant,     \* the organization the location is connected to
  handovers,  \* connects and disconnects so far
  everTenant, \* organizations it was connected to so far
  log,        \* processing_status of the row under each dedupe key
  published,  \* events published of each notification, for whom
  answered,   \* answers given to genuine deliveries: processed, duplicate
  delivery,   \* where each request is
  deliveries  \* requests so far

webhookVars == <<tenant, handovers, everTenant, log, published, answered,
                 delivery, deliveries>>

Signature == {"absent", "valid", "invalid"}
NoDelivery == [note |-> Unsent, genuine |-> FALSE, tenant |-> NoTenant]

WebhookTypeOK ==
  /\ tenant \in Tenant \union {NoTenant}
  /\ handovers \in 0..MaxHandovers
  /\ everTenant \subseteq Tenant
  /\ log \in [Notification -> {"none", "processed", "rejected", "ignored"}]
  /\ published \in [Notification -> [Tenant -> Nat]]
  /\ answered \in [Notification -> SUBSET {"processed", "duplicate", "unknown"}]
  /\ delivery \in [Delivery ->
       [note : Notification \union {Unsent}, genuine : BOOLEAN,
        tenant : Tenant \union {NoTenant}]]
  /\ deliveries \in 0..MaxDeliveries
  /\ \A d \in Delivery :
       /\ delivery[d].note = Unsent => delivery[d] = NoDelivery
       /\ delivery[d].tenant \in everTenant \union {NoTenant}

WebhookInit ==
  /\ tenant = NoTenant /\ handovers = 0 /\ everTenant = {}
  /\ log = [n \in Notification |-> "none"]
  /\ published = [n \in Notification |-> [o \in Tenant |-> 0]]
  /\ answered = [n \in Notification |-> {}]
  /\ delivery = [d \in Delivery |-> NoDelivery]
  /\ deliveries = 0

(* A user connects the location or disconnects it.                         *)
Handover(o) ==
  /\ handovers < MaxHandovers /\ o # tenant
  /\ tenant = NoTenant \/ o = NoTenant
  /\ tenant' = o
  /\ everTenant' = everTenant \union ({o} \ {NoTenant})
  /\ handovers' = handovers + 1
  /\ UNCHANGED <<log, published, answered, delivery, deliveries>>

(* verify: the modern signature counts when it is there; only without it   *)
(* the RSA signature, and only without both the legacy HMAC.               *)
Verified(ed25519, rsa, hmac) ==
  IF ed25519 # "absent" THEN ed25519 = "valid"
  ELSE IF rsa # "absent" THEN rsa = "valid"
  ELSE SecretConfigured /\ hmac = "valid"

(* receive, up to its first write.  A body that is not JSON is refused     *)
(* before and leaves no trace.                                             *)
Receive(d, n) ==
  /\ delivery[d] = NoDelivery /\ deliveries < MaxDeliveries
  /\ \E ed25519, rsa, hmac \in Signature :
       delivery' = [delivery EXCEPT ![d] =
         [note |-> n, genuine |-> Verified(ed25519, rsa, hmac),
          tenant |-> tenant]]
  /\ deliveries' = deliveries + 1
  /\ UNCHANGED <<tenant, handovers, everTenant, log, published, answered>>

(* Nothing of a request outlives it.                                       *)
Answered(d) == [delivery EXCEPT ![d] = NoDelivery]

(* log: a row of its own, unless the key is taken.                         *)
Logged(n, status) ==
  IF log[n] = "none" THEN [log EXCEPT ![n] = status] ELSE log

Reject(d) ==
  /\ delivery[d].note # Unsent /\ ~ delivery[d].genuine
  /\ log' = Logged(delivery[d].note, "rejected")
  /\ delivery' = Answered(d)
  /\ UNCHANGED <<tenant, handovers, everTenant, published, answered, deliveries>>

IgnoreUnknown(d) ==
  LET n == delivery[d].note IN
  /\ n # Unsent /\ delivery[d].genuine /\ delivery[d].tenant = NoTenant
  /\ log' = Logged(n, "ignored")
  /\ answered' = [answered EXCEPT ![n] = @ \union {"unknown"}]
  /\ delivery' = Answered(d)
  /\ UNCHANGED <<tenant, handovers, everTenant, published, deliveries>>

(* Notifications that become an event: a contact created, an opportunity   *)
(* or an appointment created or changed; others are only logged.           *)
Eventful(n) == KindOf[n] \in {"contact", "opportunity", "appointment"}

Duplicate(n) == log[n] # "none"

(* The INSERT ... ON CONFLICT DO NOTHING of the dedupe key finds a row.    *)
DropDuplicate(d) ==
  LET n == delivery[d].note IN
  /\ n # Unsent /\ delivery[d].genuine /\ delivery[d].tenant # NoTenant
  /\ Duplicate(n)
  /\ answered' = [answered EXCEPT ![n] = @ \union {"duplicate"}]
  /\ delivery' = Answered(d)
  /\ UNCHANGED <<tenant, handovers, everTenant, log, published, deliveries>>

(* The organization the events are published for.                          *)
PublishedForNow(d) == IF tenant = NoTenant THEN delivery[d].tenant ELSE tenant
PublishedFor(d) == delivery[d].tenant

Publishes(d) == Eventful(delivery[d].note)

(* The log row and the events of the notification, in one transaction.     *)
Process(d) ==
  LET n == delivery[d].note IN
  /\ n # Unsent /\ delivery[d].genuine /\ delivery[d].tenant # NoTenant
  /\ ~ Duplicate(n)
  /\ log' = [log EXCEPT ![n] = "processed"]
  /\ published' = IF Publishes(d)
                  THEN [published EXCEPT ![n][PublishedFor(d)] = @ + 1]
                  ELSE published
  /\ answered' = [answered EXCEPT ![n] = @ \union {"processed"}]
  /\ delivery' = Answered(d)
  /\ UNCHANGED <<tenant, handovers, everTenant, deliveries>>

(* The process dies or the transaction fails; GoHighLevel gets no answer.  *)
DeliveryLost(d) ==
  /\ delivery[d] # NoDelivery
  /\ delivery' = Answered(d)
  /\ UNCHANGED <<tenant, handovers, everTenant, log, published, answered,
                 deliveries>>

WebhookNext ==
  \/ \E o \in Tenant \union {NoTenant} : Handover(o)
  \/ \E d \in Delivery :
       \/ \E n \in Notification : Receive(d, n)
       \/ Reject(d) \/ IgnoreUnknown(d)
       \/ DropDuplicate(d) \/ Process(d)
       \/ DeliveryLost(d)

WebhookSpec == WebhookInit /\ [][WebhookNext]_webhookVars

-----------------------------------------------------------------------------
(* A notification becomes an event at most once and for one organization,  *)
(* however often it is delivered and whoever the location belongs to then. *)
PublishedOnce ==
  \A n \in Notification :
    LET times == [o \in Tenant |-> published[n][o]]
    IN  /\ \A o \in Tenant : times[o] <= 1
        /\ \A o, q \in Tenant : times[o] = 1 /\ times[q] = 1 => o = q

(* A genuine delivery to a known location that is answered as accepted has *)
(* its event - or its key had been taken by a delivery that was rejected   *)
(* or came before the location was connected: those are lost.  The log     *)
(* says processed of no other.                                             *)
AcceptedIsPublished ==
  \A n \in Notification :
    /\ {"processed", "duplicate"} \intersect answered[n] # {} /\ Eventful(n) =>
         \/ \E o \in Tenant : published[n][o] = 1
         \/ log[n] \in {"rejected", "ignored"} /\ "processed" \notin answered[n]
    /\ log[n] = "processed" /\ Eventful(n)
         => \E o \in Tenant : published[n][o] = 1

(* An event is published for the organization the location belonged to     *)
(* when the delivery looked it up: never for one that connects it later,   *)
(* while every delivery of the notification was under way.                 *)
PublishedForReader ==
  [][\A n \in Notification, o \in Tenant :
       published'[n][o] > published[n][o] =>
         \E d \in Delivery : /\ delivery[d].note = n
                             /\ delivery[d].tenant = o
                             /\ delivery[d].genuine]_webhookVars
=============================================================================
