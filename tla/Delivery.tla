------------------------------ MODULE Delivery ------------------------------
(***************************************************************************)
(* The whole way of an event: from a device over the site, the broker and  *)
(* the gateway into Kafka (Uplink.tla), and from Kafka into the database   *)
(* (Ingestion.tla).  The two share the topic telemetry.events, to which    *)
(* only the gateway writes.  Uplink asks only what the topic holds;        *)
(* Ingestion reads it in order, copies and all.                            *)
(***************************************************************************)
EXTENDS Ingestion

CONSTANTS Devices, WINDOW, EdgeQuota, INFLIGHT, MaxCopies, GatewayQuota

VARIABLES outbox, heard, queued, unacked, step, intake, acking, backlog,
          producing, reports, delivered

U == INSTANCE Uplink WITH log <- {log[i] : i \in 1..Len(log)}

upstream == <<outbox, heard, queued, unacked, step, intake, acking, backlog,
              producing, reports, delivered>>

DeliveryInit == Init /\ U!Init

\* The topic is left alone: the sites and the gateway, an event given up by
\* the producer, the consumer and the loader.
Upstream ==
    /\ UNCHANGED vars
    /\ U!SiteStep \/ U!GatewayStep \/ \E e \in Events : U!KafkaFails(e)

Downstream ==
    /\ Loop \/ IngestionStops \/ Register
    /\ UNCHANGED upstream

\* Kafka appends what the gateway sent, each time it is sent.
Appends(e, reported) == Arrive(e) /\ U!KafkaAppends(e, reported)

DeliveryNext ==
    \/ Upstream
    \/ Downstream
    \/ \E e \in Events, reported \in BOOLEAN : Appends(e, reported)

DeliverySpec == DeliveryInit /\ [][DeliveryNext]_<<vars, upstream>>
-----------------------------------------------------------------------------
\* From end to end: an event its site has deleted is still to be read, or
\* recorded, or on the record as refused for a reason that holds, or given up
\* with a line in the log of the consumer.
NothingVanishes ==
    \A e \in Events : outbox[e] = "acked" =>
        \/ \E i \in (offset + 1)..Len(log) : log[i] = e
        \/ table[Id[e]] = e
        \/ <<e, "content_conflict">> \in rejections /\ table[Id[e]] \notin {None, e}
        \/ <<e, "unknown_device">> \in rejections /\ e \in Late
        \/ e \in skipped

\* The events of its site that message j came before although they are older.
Overtaken(j) == {e \in U!Older(Events, log[j]) :
                    outbox[e] # "refused" /\ \A i \in 1..j : log[i] # e}

\* What becomes of the order of a device (gateway.py:24) in the topic its
\* events are read from: a message overtakes fewer than WINDOW of them, and
\* with a window of one none.
TopicOrder == \A j \in 1..Len(log) : Cardinality(Overtaken(j)) < WINDOW
=============================================================================
