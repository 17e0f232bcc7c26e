------------------------------- MODULE Billing -------------------------------
(***************************************************************************)
(* stripe_webhook of backend/app/auth/billing.py: the events that Stripe   *)
(* sends about the subscriptions of one customer, who may have bought them *)
(* for an organization, and the plan they set.                             *)
(*                                                                         *)
(* Stripe (external) delivers an event at least once, in any order, and    *)
(* again as long as no answer was a 2xx; deliveries of one event may       *)
(* overlap.  The handler first records the event, in a transaction of its  *)
(* own; every command after that is another one.  Any of them may fail, or *)
(* the process die, which Stripe sees as an error.                         *)
(*                                                                         *)
(* The handler's last statement for an organization, the UPDATE of its     *)
(* plan, is never reached (CheckMember) and is left out.                   *)
(* Signatures, missing ids and a missing configuration change no state.    *)
(***************************************************************************)
EXTENDS Naturals, FiniteSets

CONSTANTS
  Workers,      \* the requests of the webhook
  Events,       \* the events of the customer
  Kind,         \* "completed" (checkout.session.) or "deleted" (customer.subscription.)
  BoughtPlan,   \* the plan in a completed session's metadata
  ForOrg        \* the completed events whose metadata names an organization

ASSUME BillingAssumption ==
  /\ Events # {}
  /\ Kind \in [Events -> {"completed", "deleted"}]
  /\ ForOrg \subseteq Events

VARIABLES
  happened,   \* the events that have happened at Stripe
  acked,      \* those it got a 2xx for
  recorded,   \* processed_stripe_events
  userPlan,   \* nf_users.plan
  workPc,     \* where each request is
  event,      \* its event
  applied     \* history: how often each event has set the user's plan

accountVars == <<recorded, userPlan>>
workVars == <<workPc, event>>
billingVars == <<happened, acked, accountVars, workVars, applied>>

SoldPlans == {BoughtPlan[e] : e \in Events} \cup {"free"}
WorkPc == {"idle", "insert", "retrieve", "user", "member", "org"}

BillingTypeOK ==
  /\ happened \subseteq Events
  /\ acked \subseteq happened
  /\ recorded \subseteq happened
  /\ userPlan \in SoldPlans
  /\ workPc \in [Workers -> WorkPc]
  /\ event \in [Workers -> Events]
  /\ applied \in [Events -> Nat]

BillingInit ==
  /\ happened = {}
  /\ acked = {}
  /\ recorded = {}
  /\ userPlan = "free"
  /\ workPc = [w \in Workers |-> "idle"]
  /\ event = [w \in Workers |-> CHOOSE e \in Events : TRUE]
  /\ applied = [e \in Events |-> 0]

-----------------------------------------------------------------------------

Happen(e) ==
  /\ e \in Events \ happened
  /\ happened' = happened \cup {e}
  /\ UNCHANGED <<acked, accountVars, workVars, applied>>

(* Stripe delivers an event, for the first time or again.                    *)
Deliver(w, e) ==
  /\ workPc[w] = "idle"
  /\ e \in happened \ acked
  /\ workPc' = [workPc EXCEPT ![w] = "insert"]
  /\ event' = [event EXCEPT ![w] = e]
  /\ UNCHANGED <<happened, acked, accountVars, applied>>

(* The request ends with a 200.                                              *)
Answer(w) ==
  /\ workPc' = [workPc EXCEPT ![w] = "idle"]
  /\ acked' = acked \cup {event[w]}

(* Mutant: what the INSERT returns is not looked at.                         *)
RecordUnchecked(w) ==
  /\ workPc[w] = "insert"
  /\ recorded' = recorded \cup {event[w]}
  /\ workPc' = [workPc EXCEPT ![w] = IF Kind[event[w]] = "completed" THEN "retrieve" ELSE "user"]
  /\ UNCHANGED <<happened, acked, userPlan, event, applied>>

(* INSERT ... ON CONFLICT DO NOTHING: an event that is recorded already is
   answered "replay-ignored".                                                *)
Record(w) ==
  /\ workPc[w] = "insert"
  /\ IF event[w] \in recorded
       THEN Answer(w) /\ UNCHANGED recorded
       ELSE /\ recorded' = recorded \cup {event[w]}
            /\ workPc' = [workPc EXCEPT ![w] =
                            IF Kind[event[w]] = "completed" THEN "retrieve" ELSE "user"]
            /\ UNCHANGED acked
  /\ UNCHANGED <<happened, userPlan, event, applied>>

(* The session is fetched from Stripe; create_checkout has put the user and the
   plan in its metadata.                                                     *)
Retrieve(w) ==
  /\ workPc[w] = "retrieve"
  /\ workPc' = [workPc EXCEPT ![w] = "user"]
  /\ UNCHANGED <<happened, acked, accountVars, event, applied>>

(* The user's row gets the plan, or "free" when the subscription has ended,
   whichever subscription the row is about.                                  *)
UpdateUser(w) ==
  /\ workPc[w] = "user"
  /\ applied' = [applied EXCEPT ![event[w]] = @ + 1]
  /\ IF Kind[event[w]] = "deleted"
       THEN /\ userPlan' = "free"
            /\ workPc' = [workPc EXCEPT ![w] = "org"]
            /\ UNCHANGED acked
       ELSE /\ userPlan' = BoughtPlan[event[w]]
            /\ IF event[w] \in ForOrg
                 THEN workPc' = [workPc EXCEPT ![w] = "member"] /\ UNCHANGED acked
                 ELSE Answer(w)
  /\ UNCHANGED <<happened, recorded, event>>

(* Does the user belong to the organization?  The SELECT names a column that
   organization_members does not have (organization_id, for org_id) and raises:
   no 2xx.                                                                   *)
CheckMember(w) ==
  /\ workPc[w] = "member"
  /\ workPc' = [workPc EXCEPT ![w] = "idle"]
  /\ UNCHANGED <<happened, acked, accountVars, event, applied>>

(* The end of a subscription is looked up by the stripe_customer_id of the
   organizations, which nothing ever writes, and changes no row.             *)
UpdateOrg(w) ==
  /\ workPc[w] = "org"
  /\ Answer(w)
  /\ UNCHANGED <<happened, accountVars, event, applied>>

(* A command fails, or the process dies: no 2xx.                             *)
Fail(w) ==
  /\ workPc[w] # "idle"
  /\ workPc' = [workPc EXCEPT ![w] = "idle"]
  /\ UNCHANGED <<happened, acked, accountVars, event, applied>>

Proceed(w) == Record(w) \/ Retrieve(w) \/ UpdateUser(w) \/ CheckMember(w) \/ UpdateOrg(w)

BillingNext ==
  \/ \E e \in Events : Happen(e)
  \/ \E w \in Workers : Proceed(w) \/ Fail(w) \/ \E e \in Events : Deliver(w, e)

BillingSpec == BillingInit /\ [][BillingNext]_billingVars

-----------------------------------------------------------------------------

(* An event sets the user's plan at most once, however often it is delivered and
   however its deliveries overlap: a late duplicate undoes no later event.   *)
AppliedAtMostOnce == \A e \in Events : applied[e] <= 1

-----------------------------------------------------------------------------
(* What the table of events promises and the handler does not keep.          *)

(* 035_stripe_event_idempotency.sql:9-13, "records every event["id"] we have
   already processed" and "the event has been handled before": an event that
   Stripe got a 2xx for, and will not send again, has set the user's plan, or
   a request is about to do it.                                              *)
AcknowledgedEventsTakeEffect ==
  \A e \in acked :
    \/ applied[e] > 0
    \/ \E w \in Workers : event[w] = e /\ workPc[w] \in {"retrieve", "user"}
=============================================================================
