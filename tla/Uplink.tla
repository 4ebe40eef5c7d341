------------------------------- MODULE Uplink -------------------------------
(***************************************************************************)
(* The way of an event from an edge site into Kafka: the outbox of the     *)
(* site (edge/outbox.py, acceptance/edge_site.py), the MQTT broker, and    *)
(* the gateway with its own outbox (backend/gateway/gateway.py).  Every    *)
(* process may stop between any two of its steps and lose its memory; the  *)
(* files, the broker's session and Kafka remain.                           *)
(*                                                                         *)
(* An event is a pair of its device and a number that grows by one with    *)
(* each event of the device.  Bytes are counted as events: a quota is a    *)
(* number of events.  A site that sends an event again sends a message of  *)
(* its own, so the broker and the gateway's intake hold a number of copies *)
(* of each event; in Kafka and behind the gateway's file copies count as   *)
(* one.                                                                    *)
(***************************************************************************)
EXTENDS Naturals, FiniteSets

CONSTANTS Devices,
          Events,             \* a subset of Devices \X Nat
          Id,                 \* event_id of each; two devices may share one
          Malformed,          \* events the envelope schema refuses
          WINDOW,             \* events a site sends before it waits
          EdgeQuota,          \* hard limit of a site's outbox
          INFLIGHT,           \* max_inflight_messages of the broker
          MaxCopies,          \* bound: copies of one event at the broker
          GatewayQuota        \* hard limit of the gateway's outbox

ASSUME UplinkAssumption ==
    /\ IsFiniteSet(Events) /\ Events \subseteq Devices \X Nat
    /\ DOMAIN Id = Events
    /\ \A e, f \in Events : e[1] = f[1] /\ Id[e] = Id[f] => e = f
    /\ Malformed \subseteq Events
    /\ WINDOW \in Nat /\ EdgeQuota \in Nat
    /\ INFLIGHT \in Nat /\ MaxCopies \in Nat /\ GatewayQuota \in Nat

VARIABLES
    outbox,             \* the site's outbox: state of each event's row
    heard,              \* acked_by_platform: answers a site has heard
    queued, unacked,    \* broker session: copies to deliver; without ack
    step,               \* what the gateway's worker does next
    intake, acking,     \* copies received; stored, to be acknowledged
    backlog,            \* the gateway's outbox: state of each event's row
    producing,          \* the producer's own queue
    reports,            \* confirmed by Kafka, callback not yet run
    delivered,          \* _delivered: whose devices are still to be told
    log                 \* Kafka: what it has

site == <<outbox, heard>>
broker == <<queued, unacked>>
worker == <<step, intake, acking, backlog, delivered>>
kafka == <<producing, reports, log>>
vars == <<site, broker, worker, kafka>>

\* Numbers of copies of each event.
NoCopies == [e \in Events |-> 0]
Held(b) == {e \in Events : b[e] > 0}
Plus(b, c) == [e \in Events |-> b[e] + c[e]]
Minus(b, c) == [e \in Events |-> b[e] - c[e]]
Total(b) == Cardinality(UNION {{e} \X (1..b[e]) : e \in Events})
Part(b) == {c \in [Events -> 0..MaxCopies] : \A e \in Events : c[e] <= b[e]}

Init ==
    /\ outbox = [e \in Events |-> "new"] /\ heard = {}
    /\ queued = NoCopies /\ unacked = NoCopies
    /\ step = "intake" /\ intake = NoCopies /\ acking = NoCopies
    /\ backlog = [e \in Events |-> "absent"] /\ delivered = {}
    /\ producing = {} /\ reports = {} /\ log = {}

IdsOf(S) == {Id[e] : e \in S}
Older(S, e) == {f \in S : f[1] = e[1] /\ f[2] < e[2]}
-----------------------------------------------------------------------------
(* The edge site.                                                          *)

Unsent == {e \in Events : outbox[e] = "new"}
Pending == {e \in Events : outbox[e] = "pending"}

At(d, S) == {e \in S : e[1] = d}

\* append.  At the hard quota it raises OutboxFull, stores nothing, and the
\* site ends with it.
Buffer(e) ==
    /\ e \in Unsent /\ Older(Unsent, e) = {}
    /\ IF Cardinality(At(e[1], Pending)) >= EdgeQuota
       THEN /\ outbox' = [outbox EXCEPT ![e] = "refused"]
            /\ heard' = heard \ At(e[1], heard)
       ELSE /\ outbox' = [outbox EXCEPT ![e] = "pending"]
            /\ UNCHANGED heard
    /\ UNCHANGED <<broker, worker, kafka>>

\* pending(WINDOW): the first rows in order.  A pass sends them again until
\* the answer is heard, in this pass or a later one, each time as a message
\* of its own.
Publish(e) ==
    /\ e \in Pending /\ Cardinality(Older(Pending, e)) < WINDOW
    /\ queued[e] + unacked[e] < MaxCopies
    /\ queued' = [queued EXCEPT ![e] = @ + 1]
    /\ UNCHANGED <<site, unacked, worker, kafka>>

\* Mutant: whatever is answered is marked, in any order.
AckAnyRow(e) ==
    /\ e \in Pending /\ e \in heard
    /\ outbox' = [outbox EXCEPT ![e] = "acked"]
    /\ heard' = heard \ {e}
    /\ UNCHANGED <<broker, worker, kafka>>

\* A pass waits for the answers in order and ends at the first that is
\* missing, so the row it marks is always the oldest.
AckRow(e) ==
    /\ e \in Pending /\ Older(Pending, e) = {}
    /\ e \in heard
    /\ outbox' = [outbox EXCEPT ![e] = "acked"]
    /\ heard' = heard \ {e}
    /\ UNCHANGED <<broker, worker, kafka>>

SiteStops(d) ==
    /\ heard' = heard \ At(d, heard)
    /\ UNCHANGED <<outbox, broker, worker, kafka>>
-----------------------------------------------------------------------------
(* The broker and the gateway.                                             *)

\* The broker delivers while fewer than INFLIGHT messages wait for their
\* acknowledgement.  _on_message: refused and acknowledged at once, or put on
\* the intake queue.
OnMessage(e) ==
    /\ queued[e] > 0 /\ Total(unacked) < INFLIGHT
    /\ queued' = [queued EXCEPT ![e] = @ - 1]
    /\ IF e \in Malformed
       THEN UNCHANGED <<unacked, intake>>
       ELSE /\ unacked' = [unacked EXCEPT ![e] = @ + 1]
            /\ intake' = [intake EXCEPT ![e] = @ + 1]
    /\ UNCHANGED <<site, step, acking, backlog, delivered, kafka>>

Stored(box) == {e \in Events : box[e] # "absent"}
Backlog == {e \in Events : backlog[e] = "pending"}

\* append_many of a set of events, in some order: what it adds, given that
\* one row per event_id is kept and the quota is respected.
Added(S) ==
    LET fresh == {e \in S : Id[e] \notin IdsOf(Stored(backlog))}
    IN  {new \in SUBSET fresh :
            /\ \A e, f \in new : Id[e] = Id[f] => e = f
            /\ new # {} => Cardinality(new \cup Backlog) <= GatewayQuota
            /\ \/ Cardinality(new \cup Backlog) >= GatewayQuota
               \/ IdsOf(new) = IdsOf(fresh)}

\* Mutant: every message of the batch is acknowledged, the refused ones too.
IntakeAcksAll ==
    /\ step = "intake"
    /\ \E new \in Added(Held(intake)) :
          backlog' = [e \in Events |-> IF e \in new THEN "pending" ELSE backlog[e]]
    /\ acking' = intake /\ intake' = NoCopies /\ step' = "ack"
    /\ UNCHANGED <<site, broker, delivered, kafka>>

\* Mutant: the device is told as soon as its event is stored.
IntakeTells ==
    /\ step = "intake"
    /\ \E new \in Added(Held(intake)) :
          /\ backlog' = [e \in Events |-> IF e \in new THEN "pending" ELSE backlog[e]]
          /\ heard' = heard \cup (new \cap Pending)
    /\ acking' = NoCopies /\ intake' = NoCopies /\ step' = "ack"
    /\ UNCHANGED <<outbox, broker, delivered, kafka>>

\* _intake_once, up to the commit: the copies of what is stored will be
\* acknowledged, and those of what is refused never.
IntakeOnce ==
    /\ step = "intake"
    /\ \E new \in Added(Held(intake)) :
          LET box == [e \in Events |-> IF e \in new THEN "pending" ELSE backlog[e]]
          IN  /\ backlog' = box
              /\ acking' = [e \in Events |-> IF Id[e] \in IdsOf(Stored(box))
                                             THEN intake[e] ELSE 0]
    /\ intake' = NoCopies /\ step' = "ack"
    /\ UNCHANGED <<site, broker, delivered, kafka>>

\* ... and the acknowledgements to the broker, each for its own copy.
AckBroker ==
    /\ step = "ack"
    /\ unacked' = Minus(unacked, acking) /\ acking' = NoCopies
    /\ step' = "drain"
    /\ UNCHANGED <<site, queued, intake, backlog, delivered, kafka>>

\* drain_once: produce() may fail at any row and leave the rest for later.
Produce(S) ==
    /\ step = "drain" /\ S \subseteq Backlog
    /\ producing' = producing \cup S
    /\ step' = "flush"
    /\ UNCHANGED <<site, broker, intake, acking, backlog, delivered, reports, log>>

\* Mutant: when flush() is over, the whole batch counts as delivered.
ConfirmAll ==
    /\ step = "flush"
    /\ delivered' = reports /\ reports' = {}
    /\ backlog' = [e \in Events |-> IF e \in Backlog THEN "acked" ELSE backlog[e]]
    /\ step' = "tell"
    /\ UNCHANGED <<site, broker, intake, acking, producing, log>>

\* flush() ends, with or without all reports, and runs the callbacks that
\* have come; _confirm_delivered marks those rows in one transaction.
Confirm ==
    /\ step = "flush"
    /\ delivered' = IF Backlog = {} THEN {} ELSE reports
    /\ reports' = reports \ delivered'
    /\ backlog' = [e \in Events |-> IF e \in Backlog /\ Id[e] \in IdsOf(delivered')
                                    THEN "acked" ELSE backlog[e]]
    /\ step' = "tell"
    /\ UNCHANGED <<site, broker, intake, acking, producing, log>>

\* Mutant: acknowledged rows are never pruned.
TellKeeps(reached, prune) ==
    /\ step = "tell" /\ reached \subseteq delivered
    /\ heard' = heard \cup (reached \cap Pending)
    /\ delivered' = {} /\ step' = "intake"
    /\ UNCHANGED <<outbox, broker, intake, acking, backlog, kafka>>

\* ... and tells the devices, of which some are away; acknowledged rows are
\* pruned when it is time, and a turn of the loop is over.
Tell(reached, prune) ==
    /\ step = "tell" /\ reached \subseteq delivered
    /\ heard' = heard \cup (reached \cap Pending)
    /\ delivered' = {}
    /\ backlog' = [e \in Events |-> IF prune /\ backlog[e] = "acked"
                                    THEN "absent" ELSE backlog[e]]
    /\ step' = "intake"
    /\ UNCHANGED <<outbox, broker, intake, acking, kafka>>

\* The gateway dies, some acknowledgements sent, and is started again: the
\* broker delivers again what it has no acknowledgement for.
GatewayStops(sent) ==
    /\ sent \in Part(acking)
    /\ queued' = Plus(queued, Minus(unacked, sent)) /\ unacked' = NoCopies
    /\ intake' = NoCopies /\ acking' = NoCopies /\ delivered' = {}
    /\ producing' = {} /\ reports' = {}
    /\ step' = "intake"
    /\ UNCHANGED <<site, backlog, log>>

\* Its connection breaks, some acknowledgements sent, and is made again: the
\* broker delivers again what it has no acknowledgement for, under the message
\* ids those copies had.
GatewayReconnects(sent) ==
    /\ sent \in Part(acking)
    /\ unacked' = Minus(unacked, sent)
    /\ intake' = unacked' /\ acking' = NoCopies
    /\ UNCHANGED <<site, queued, step, backlog, delivered, kafka>>
-----------------------------------------------------------------------------
(* Kafka.                                                                  *)

\* It appends the event, and the report comes back or is lost: then the
\* producer sends the event again.
KafkaAppends(e, reported) ==
    /\ e \in producing
    /\ log' = log \cup {e}
    /\ producing' = IF reported THEN producing \ {e} ELSE producing
    /\ reports' = IF reported THEN reports \cup {e} ELSE reports
    /\ UNCHANGED <<site, broker, worker>>

\* The producer gives the event up: the callback only counts it.
KafkaFails(e) ==
    /\ e \in producing
    /\ producing' = producing \ {e}
    /\ UNCHANGED <<site, broker, worker, reports, log>>
-----------------------------------------------------------------------------
SiteStep == \/ \E e \in Events : Buffer(e) \/ Publish(e) \/ AckRow(e)
            \/ \E d \in Devices : SiteStops(d)

\* The worker thread of the gateway, one turn of _worker_loop after another.
Worker == \/ IntakeOnce \/ AckBroker \/ Confirm
          \/ \E S \in SUBSET Backlog : Produce(S)
          \/ \E reached \in SUBSET delivered, prune \in BOOLEAN : Tell(reached, prune)

GatewayStep == \/ \E e \in Events : OnMessage(e)
               \/ Worker
               \/ \E sent \in Part(acking) :
                     GatewayStops(sent) \/ GatewayReconnects(sent)

KafkaStep == \E e \in Events : \/ \E reported \in BOOLEAN : KafkaAppends(e, reported)
                               \/ KafkaFails(e)

Next == SiteStep \/ GatewayStep \/ KafkaStep

Spec == Init /\ [][Next]_vars

\* One day nothing fails any more: no process stops and no connection
\* breaks, Kafka appends and reports what it is sent, and every device is
\* there to be told.
Trouble ==
    \/ \E d \in Devices : SiteStops(d)
    \/ \E sent \in Part(acking) : GatewayStops(sent) \/ GatewayReconnects(sent)
    \/ \E S \in SUBSET Backlog : Produce(S) /\ S # Backlog
    \/ Confirm /\ producing # {}
    \/ \E reached \in SUBSET delivered, prune \in BOOLEAN :
          Tell(reached, prune) /\ reached # delivered
    \/ \E e \in Events : KafkaAppends(e, FALSE) \/ KafkaFails(e)

FairSpec ==
    /\ Spec /\ <>[][~Trouble]_vars
    /\ WF_vars(Worker)
    /\ SF_vars(Tell(delivered, TRUE))
    /\ \A e \in Events : WF_vars(Publish(e)) /\ SF_vars(OnMessage(e))
    /\ WF_vars(\E e \in Events : AckRow(e))
    /\ WF_vars(\E e \in Events : KafkaAppends(e, TRUE))
-----------------------------------------------------------------------------
\* A site deletes an event only if Kafka has it: the answer is sent "only
\* once Kafka has durably confirmed the write - never speculatively"
\* (gateway.py:12), through restarts of all three and lost answers.
AckedIsInKafka == \A e \in Events : outbox[e] = "acked" => e \in log

\* Nothing is deleted ahead of an earlier event that is still pending, over
\* any number of passes and restarts of the site (edge_site.py:143).
AckedInOrder ==
    \A e \in Events : outbox[e] = "acked" => Older(Pending, e) = {}

\* What Kafka has not yet of the events before e at its site, those apart
\* that the site's own quota refused.
Missing(e) == {f \in Older(Events, e) : outbox[f] # "refused" /\ f \notin log}

\* Retries, restarts, the gateway's quota and the producer may bring a site's
\* events into Kafka in another order, but one that arrives overtakes fewer
\* than WINDOW others (edge_site.py, pending(WINDOW)).
OvertakesWithinWindow == \A e \in log : Cardinality(Missing(e)) < WINDOW

\* What the envelope schema refuses never gets past the gateway: not into its
\* file, so not into Kafka (gateway.py, _on_message).
RefusedStaysOut == log \cap Malformed = {}

\* The gateway's row of an event stays pending until Kafka has an event of
\* that id, whatever flush() and the callbacks report (gateway.py:229).
StoredUntilConfirmed ==
    [][\A e \in Backlog : Id[e] \in IdsOf(Backlog' \cup log)]_vars

\* What the broker is told to forget a copy of in a step.
Forgotten ==
    {e \in Events : /\ unacked'[e] < unacked[e]
                    /\ queued'[e] + unacked'[e] < queued[e] + unacked[e]}

\* What the broker is told to forget is in the gateway's file at that
\* moment: "never a silent drop" (gateway.py:207-209).
AcknowledgedIsStored ==
    [][\A e \in Forgotten : Id[e] \in IdsOf(Stored(backlog)')]_vars

\* The copies that hold a slot at the broker although the gateway is done
\* with them: those it refused (gateway.py:220-222).
Leaked == Minus(unacked, Plus(intake, acking))
Stalled == Total(Leaked) >= INFLIGHT

\* Pending, well-formed, and with no malformed event before it at its site;
\* such an event is so until it is marked.
Waiting == {e \in Pending \ Malformed : Older(Pending, e) \cap Malformed = {}}

\* No such event waits for ever.  Not so in this code: see GatewayStall.cfg.
SiteIsTold == \A e \in Events : []<>(e \notin Waiting)

\* ... unless in the end refused copies hold all slots at the broker.  Lost
\* and late answers, refusals that leave a slot free and duplicates, whose
\* answer waits for the pruning, all resolve.
ToldOrStalled == <>[]Stalled \/ SiteIsTold
=============================================================================
