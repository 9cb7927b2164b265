---------------------------- MODULE WebhookQueue ----------------------------
(***************************************************************************)
(* The dispatch queue of outbound webhooks (src/src/webhook.rs): fire puts *)
(* an event at the end of a bounded queue, or drops it with an audit row   *)
(* when the queue is full; dispatcher_loop takes the events out one by     *)
(* one, waits for a permit and starts a task for each; the task sends the  *)
(* event to every configured sink at once and gives its permit back.       *)
(*                                                                         *)
(* Events are numbered in the order they are fired.  What they say, and    *)
(* how each sink wants it said, is left out.                               *)
(***************************************************************************)
EXTENDS Integers, Sequences

CONSTANTS
  Sinks,            \* the sinks configured for the event's prefix
  MaxEvents,        \* bound: events fired
  QueueCap,         \* QUEUE_CAP (1000 in the code)
  MaxDeliveries     \* MAX_CONCURRENT_DELIVERIES (20 in the code)

ASSUME WebhookAssumption ==
  /\ Sinks # {} /\ {"dropped", "client"} \cap Sinks = {}
  /\ MaxEvents \in Nat /\ QueueCap \in Nat \ {0} /\ MaxDeliveries \in Nat \ {0}

VARIABLES
  fired,       \* events fired so far
  dispatch,    \* the channel behind DISPATCH_TX
  pulled,      \* the event dispatcher_loop waits with for a permit, or 0
  permits,     \* permits left
  delivery,    \* how far each event has got
  untold,      \* sinks an event's tasks have not finished with
  audits       \* the audit rows of each event, by sink or reason

webhookVars ==
  <<fired, dispatch, pulled, permits, delivery, untold, audits>>

Events == 1..MaxEvents

WebhooksInit ==
  /\ fired = 0 /\ dispatch = <<>> /\ pulled = 0
  /\ permits = MaxDeliveries
  /\ delivery = [n \in Events |-> "none"]
  /\ untold = [n \in Events |-> {}]
  /\ audits = [n \in Events |-> {}]

Reaches(n, from, to) ==
  delivery[n] = from /\ delivery' = [delivery EXCEPT ![n] = to]

Audit(n, row) == audits' = [audits EXCEPT ![n] = @ \cup {row}]

-----------------------------------------------------------------------------
(* fire never waits: a full queue drops the event, and a task of its own   *)
(* records that.                                                           *)
FireEvent ==
  /\ fired < MaxEvents
  /\ fired' = fired + 1
  /\ \/ /\ Len(dispatch) < QueueCap
        /\ dispatch' = Append(dispatch, fired + 1)
        /\ Reaches(fired + 1, "none", "queued")
     \/ /\ Len(dispatch) >= QueueCap
        /\ Reaches(fired + 1, "none", "dropped")
        /\ UNCHANGED dispatch
  /\ UNCHANGED <<pulled, permits, untold, audits>>

RecordDrop(n) ==
  /\ Reaches(n, "dropped", "over")
  /\ Audit(n, "dropped")
  /\ UNCHANGED <<fired, dispatch, pulled, permits, untold>>

(* dispatcher_loop: the event has left the queue before there is a permit. *)
PullEvent ==
  /\ pulled = 0 /\ dispatch # <<>>
  /\ pulled' = Head(dispatch)
  /\ dispatch' = Tail(dispatch)
  /\ Reaches(Head(dispatch), "queued", "pulled")
  /\ UNCHANGED <<fired, permits, untold, audits>>

(* Mutant: the task does not wait for a permit.                            *)
SpawnAtOnce ==
  /\ pulled # 0
  /\ permits' = permits - 1
  /\ Reaches(pulled, "pulled", "started")
  /\ pulled' = 0
  /\ UNCHANGED <<fired, dispatch, untold, audits>>

SpawnDelivery ==
  /\ pulled # 0 /\ permits > 0
  /\ permits' = permits - 1
  /\ Reaches(pulled, "pulled", "started")
  /\ pulled' = 0
  /\ UNCHANGED <<fired, dispatch, untold, audits>>

(* fire_inner: no HTTP client, no delivery.                                *)
FailClient(n) ==
  /\ Reaches(n, "started", "over")
  /\ Audit(n, "client")
  /\ permits' = permits + 1
  /\ UNCHANGED <<fired, dispatch, pulled, untold>>

SpawnSinks(n) ==
  /\ Reaches(n, "started", "sending")
  /\ untold' = [untold EXCEPT ![n] = Sinks]
  /\ UNCHANGED <<fired, dispatch, pulled, permits, audits>>

(* deliver: an answer, an error or ten seconds; a row in each case.        *)
DeliverTo(n, s) ==
  /\ delivery[n] = "sending" /\ s \in untold[n]
  /\ untold' = [untold EXCEPT ![n] = @ \ {s}]
  /\ Audit(n, s)
  /\ UNCHANGED <<fired, dispatch, pulled, permits, delivery>>

(* Mutant: the permit is forgotten and not dropped with the task.          *)
KeepPermit(n) ==
  /\ untold[n] = {}
  /\ Reaches(n, "sending", "over")
  /\ UNCHANGED <<fired, dispatch, pulled, permits, untold, audits>>

EndDelivery(n) ==
  /\ untold[n] = {}
  /\ Reaches(n, "sending", "over")
  /\ permits' = permits + 1
  /\ UNCHANGED <<fired, dispatch, pulled, untold, audits>>

DeliveryStep(n) ==
  \/ RecordDrop(n) \/ FailClient(n) \/ SpawnSinks(n) \/ EndDelivery(n)
  \/ \E s \in Sinks : DeliverTo(n, s)

WebhooksNext ==
  \/ FireEvent \/ PullEvent \/ SpawnDelivery
  \/ \E n \in Events : DeliveryStep(n)

(* tokio polls the dispatcher and the tasks; requests have a timeout.      *)
WebhooksFairness ==
  /\ WF_webhookVars(PullEvent)
  /\ WF_webhookVars(SpawnDelivery)
  /\ \A n \in Events : WF_webhookVars(DeliveryStep(n))

WebhooksSpec ==
  WebhooksInit /\ [][WebhooksNext]_webhookVars /\ WebhooksFairness

-----------------------------------------------------------------------------
(* Properties.                                                             *)

(* Every variable has its type.                                            *)
WebhooksTypeOK ==
  /\ fired \in 0..MaxEvents
  /\ dispatch \in Seq(Events) /\ Len(dispatch) =< QueueCap
  /\ pulled \in 0..MaxEvents
  /\ permits \in 0..MaxDeliveries
  /\ delivery \in [Events -> {"none", "queued", "dropped", "pulled", "started",
                              "sending", "over"}]
  /\ untold \in [Events -> SUBSET Sinks]
  /\ audits \in [Events -> SUBSET (Sinks \cup {"dropped", "client"})]

(* Every event that was fired comes to be on record, once for each sink or *)
(* once for the event, however slow the sinks and however full the queue   *)
(* (dispatcher_loop, fire_inner): no event goes without a trace, and no    *)
(* burst keeps a later event from being sent.                              *)
EventsAreRecorded ==
  \A n \in Events :
    fired >= n ~> audits[n] \in {Sinks, {"dropped"}, {"client"}}
=============================================================================
