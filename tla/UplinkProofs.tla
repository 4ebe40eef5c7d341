---------------------------- MODULE UplinkProofs ----------------------------
(***************************************************************************)
(* Proofs about Uplink for any sites, events, quotas and windows.          *)
(***************************************************************************)
EXTENDS Uplink, FiniteSetTheorems, TLAPS

USE UplinkAssumption

TypeOK ==
    /\ outbox \in [Events -> {"new", "pending", "acked", "refused"}]
    /\ backlog \in [Events -> {"absent", "pending", "acked"}]
    /\ step \in {"intake", "ack", "drain", "flush", "tell"}
    /\ queued \in [Events -> Nat] /\ unacked \in [Events -> Nat]
    /\ intake \in [Events -> Nat] /\ acking \in [Events -> Nat]
    /\ heard \subseteq Events
    /\ producing \subseteq Events /\ reports \subseteq Events
    /\ delivered \subseteq Events /\ log \subseteq Events

\* An answer, wherever it is on its way to the site, is about what Kafka has.
AnswersTrue == heard \cup delivered \cup reports \subseteq log

\* A site stores its events in their order.
BufferedInOrder == \A e \in Events : outbox[e] # "new" => Older(Unsent, e) = {}

\* What is about to be acknowledged to the broker is in the gateway's file.
AckingStored ==
    \A e \in Held(acking) : step = "ack" /\ Id[e] \in IdsOf(Stored(backlog))

\* Every copy the gateway has still to deal with holds a slot at the broker.
HeldByBroker == \A e \in Events : intake[e] + acking[e] <= unacked[e]

IInv ==
    /\ TypeOK
    /\ AnswersTrue
    /\ AckedIsInKafka
    /\ BufferedInOrder
    /\ AckedInOrder
    /\ AckingStored
    /\ HeldByBroker
-----------------------------------------------------------------------------
\* A step that leaves the outbox of the sites alone keeps their order.
LEMMA SitesKept ==
    ASSUME IInv, outbox' = outbox
    PROVE  BufferedInOrder' /\ AckedInOrder'
BY DEF IInv, BufferedInOrder, AckedInOrder, Unsent, Pending

LEMMA BufferStep ==
    ASSUME IInv, NEW e \in Events, Buffer(e)
    PROVE  IInv'
<1>1. PICK to \in {"pending", "refused"} : outbox' = [outbox EXCEPT ![e] = to]
  BY DEF Buffer
<1>2. heard' \subseteq heard
  BY DEF Buffer
<1>3. UNCHANGED <<queued, unacked, step, intake, acking, backlog, delivered,
                  producing, reports, log>>
  BY DEF Buffer, broker, worker, kafka
<1>4. TypeOK'
  BY <1>1, <1>2, <1>3 DEF IInv, TypeOK
<1>5. AnswersTrue' /\ AckedIsInKafka' /\ AckingStored' /\ HeldByBroker'
  BY <1>1, <1>2, <1>3 DEF IInv, AnswersTrue, AckedIsInKafka, AckingStored, Held,
                          HeldByBroker
<1>6. Older(Unsent, e) = {} /\ outbox[e] = "new"
  BY DEF Buffer, Unsent
<1>7. BufferedInOrder'
  BY <1>1, <1>6 DEF IInv, BufferedInOrder, Older, Unsent
<1>8. AckedInOrder'
  <2> SUFFICES ASSUME NEW f \in Events, outbox'[f] = "acked",
                      NEW g \in Events, outbox'[g] = "pending", g[1] = f[1], g[2] < f[2]
               PROVE  FALSE
    BY DEF AckedInOrder, Older, Pending
  <2>1. outbox[f] = "acked"
    BY <1>1
  <2>2. CASE g = e
    BY <1>6, <2>1, <2>2 DEF IInv, BufferedInOrder, Older, Unsent
  <2>3. CASE g # e
    BY <1>1, <2>1, <2>3 DEF IInv, AckedInOrder, Older, Pending
  <2> QED BY <2>2, <2>3
<1> QED BY <1>4, <1>5, <1>7, <1>8 DEF IInv

LEMMA PublishStep ==
    ASSUME IInv, NEW e \in Events, Publish(e)
    PROVE  IInv'
<1>1. UNCHANGED <<outbox, heard, unacked, step, intake, acking, backlog, delivered,
                  producing, reports, log>>
  BY DEF Publish, site, worker, kafka
<1>2. TypeOK'
  BY <1>1 DEF IInv, TypeOK, Publish
<1>3. AnswersTrue' /\ AckedIsInKafka' /\ AckingStored' /\ HeldByBroker'
  BY <1>1 DEF IInv, AnswersTrue, AckedIsInKafka, AckingStored, Held,
              HeldByBroker
<1> QED BY <1>1, <1>2, <1>3, SitesKept DEF IInv

LEMMA AckRowStep ==
    ASSUME IInv, NEW e \in Events, AckRow(e)
    PROVE  IInv'
<1>1. UNCHANGED <<queued, unacked, step, intake, acking, backlog, delivered,
                  producing, reports, log>>
  BY DEF AckRow, broker, worker, kafka
<1>2. /\ outbox' = [outbox EXCEPT ![e] = "acked"] /\ heard' \subseteq heard
      /\ outbox[e] = "pending" /\ Older(Pending, e) = {} /\ e \in heard
  BY DEF AckRow, Pending
<1>3. TypeOK'
  BY <1>1, <1>2 DEF IInv, TypeOK
<1>4. AnswersTrue' /\ AckedIsInKafka' /\ AckingStored' /\ HeldByBroker'
  BY <1>1, <1>2 DEF IInv, AnswersTrue, AckedIsInKafka, AckingStored, Held,
                    HeldByBroker
<1>5. BufferedInOrder'
  BY <1>2 DEF IInv, BufferedInOrder, Unsent
<1>6. AckedInOrder'
  BY <1>2 DEF IInv, AckedInOrder, Older, Pending
<1> QED BY <1>3, <1>4, <1>5, <1>6 DEF IInv

LEMMA SiteStopsStep ==
    ASSUME IInv, NEW d \in Devices, SiteStops(d)
    PROVE  IInv'
<1>1. UNCHANGED <<outbox, queued, unacked, step, intake, acking, backlog, delivered,
                  producing, reports, log>> /\ heard' \subseteq heard
  BY DEF SiteStops, broker, worker, kafka
<1>2. TypeOK'
  BY <1>1 DEF IInv, TypeOK
<1>3. AnswersTrue' /\ AckedIsInKafka' /\ AckingStored' /\ HeldByBroker'
  BY <1>1 DEF IInv, AnswersTrue, AckedIsInKafka, AckingStored, Held,
              HeldByBroker
<1> QED BY <1>1, <1>2, <1>3, SitesKept DEF IInv

LEMMA OnMessageStep ==
    ASSUME IInv, NEW e \in Events, OnMessage(e)
    PROVE  IInv'
<1>1. UNCHANGED <<outbox, heard, step, acking, backlog, delivered,
                  producing, reports, log>>
  BY DEF OnMessage, site, kafka
<1>2. queued[e] > 0 /\ queued' = [queued EXCEPT ![e] = @ - 1]
  BY DEF OnMessage
<1>3. \/ UNCHANGED <<unacked, intake>>
      \/ /\ unacked' = [unacked EXCEPT ![e] = @ + 1]
         /\ intake' = [intake EXCEPT ![e] = @ + 1]
  BY DEF OnMessage
<1>4. /\ queued \in [Events -> Nat] /\ unacked \in [Events -> Nat]
      /\ intake \in [Events -> Nat] /\ acking \in [Events -> Nat]
  BY DEF IInv, TypeOK
<1>5. queued' \in [Events -> Nat]
  BY <1>2, <1>4
<1>6. unacked' \in [Events -> Nat] /\ intake' \in [Events -> Nat]
  BY <1>3, <1>4
<1>7. TypeOK'
  BY <1>1, <1>5, <1>6 DEF IInv, TypeOK
<1>8. AnswersTrue' /\ AckedIsInKafka' /\ AckingStored'
  BY <1>1 DEF IInv, AnswersTrue, AckedIsInKafka, AckingStored, Held
<1>9. HeldByBroker'
  BY <1>1, <1>3, <1>4 DEF IInv, HeldByBroker
<1> QED BY <1>1, <1>7, <1>8, <1>9, SitesKept DEF IInv

LEMMA IntakeOnceStep ==
    ASSUME IInv, IntakeOnce
    PROVE  IInv'
<1>1. UNCHANGED <<outbox, heard, queued, unacked, delivered, producing, reports, log>>
  BY DEF IntakeOnce, site, broker, kafka
<1>2. PICK new \in Added(Held(intake)) :
        /\ backlog' = [e \in Events |-> IF e \in new THEN "pending" ELSE backlog[e]]
        /\ acking' = [e \in Events |-> IF Id[e] \in IdsOf(Stored(backlog'))
                                       THEN intake[e] ELSE 0]
  BY DEF IntakeOnce
<1>3. intake' = NoCopies /\ step' = "ack"
  BY DEF IntakeOnce
<1>4. TypeOK'
  BY <1>1, <1>2, <1>3 DEF IInv, TypeOK, NoCopies
<1>5. AnswersTrue' /\ AckedIsInKafka' /\ HeldByBroker'
  BY <1>1, <1>2, <1>3 DEF IInv, AnswersTrue, AckedIsInKafka, HeldByBroker, TypeOK,
                          NoCopies, AckingStored, Held
<1>6. AckingStored'
  BY <1>2, <1>3 DEF AckingStored, Held
<1> QED BY <1>1, <1>4, <1>5, <1>6, SitesKept DEF IInv

LEMMA AckBrokerStep ==
    ASSUME IInv, AckBroker
    PROVE  IInv'
<1>1. UNCHANGED <<outbox, heard, queued, intake, backlog, delivered,
                  producing, reports, log>>
  BY DEF AckBroker, site, kafka
<1>2. TypeOK'
  BY <1>1 DEF IInv, TypeOK, HeldByBroker, AckBroker, Minus, NoCopies
<1>3. AnswersTrue' /\ AckedIsInKafka' /\ AckingStored' /\ HeldByBroker'
  BY <1>1 DEF IInv, AnswersTrue, AckedIsInKafka, AckingStored, Held,
              HeldByBroker, AckBroker, TypeOK, Minus, NoCopies
<1> QED BY <1>1, <1>2, <1>3, SitesKept DEF IInv

LEMMA ProduceStep ==
    ASSUME IInv, NEW S \in SUBSET Backlog, Produce(S)
    PROVE  IInv'
<1>1. UNCHANGED <<outbox, heard, queued, unacked, intake, acking, backlog, delivered,
                  reports, log>>
  BY DEF Produce, site, broker
<1>2. TypeOK'
  BY <1>1 DEF IInv, TypeOK, Produce, Backlog
<1>3. AnswersTrue' /\ AckedIsInKafka' /\ AckingStored' /\ HeldByBroker'
  BY <1>1 DEF IInv, AnswersTrue, AckedIsInKafka, AckingStored, Held,
              HeldByBroker, Produce
<1> QED BY <1>1, <1>2, <1>3, SitesKept DEF IInv

LEMMA ConfirmStep ==
    ASSUME IInv, Confirm
    PROVE  IInv'
<1>1. UNCHANGED <<outbox, heard, queued, unacked, intake, acking, producing, log>>
  BY DEF Confirm, site, broker
<1>2. delivered' \subseteq reports /\ reports' \subseteq reports /\ step' = "tell"
  BY DEF Confirm
<1>3. TypeOK'
  BY <1>1, <1>2 DEF IInv, TypeOK, Confirm
<1>4. AnswersTrue' /\ AckedIsInKafka' /\ AckingStored' /\ HeldByBroker'
  BY <1>1, <1>2 DEF IInv, AnswersTrue, AckedIsInKafka, AckingStored, Held,
                    HeldByBroker, Confirm
<1> QED BY <1>1, <1>3, <1>4, SitesKept DEF IInv

LEMMA TellStep ==
    ASSUME IInv, NEW reached \in SUBSET delivered, NEW prune \in BOOLEAN,
           Tell(reached, prune)
    PROVE  IInv'
<1>1. UNCHANGED <<outbox, queued, unacked, intake, acking, producing, reports, log>>
  BY DEF Tell, broker, kafka
<1>2. heard' \subseteq heard \cup delivered /\ delivered' = {} /\ step' = "intake"
  BY DEF Tell
<1>3. TypeOK'
  BY <1>1, <1>2 DEF IInv, TypeOK, Tell
<1>4. AnswersTrue' /\ AckedIsInKafka' /\ AckingStored' /\ HeldByBroker'
  BY <1>1, <1>2 DEF IInv, AnswersTrue, AckedIsInKafka, AckingStored, Held,
                    HeldByBroker, Tell
<1> QED BY <1>1, <1>3, <1>4, SitesKept DEF IInv

\* What it acknowledges is part of what it holds a slot for.
LEMMA SentIsHeld ==
    ASSUME IInv, NEW sent \in Part(acking)
    PROVE  /\ sent \in [Events -> Nat]
           /\ \A e \in Events : sent[e] <= acking[e] /\ sent[e] <= unacked[e]
BY DEF Part, IInv, TypeOK, HeldByBroker

LEMMA GatewayStopsStep ==
    ASSUME IInv, NEW sent \in Part(acking), GatewayStops(sent)
    PROVE  IInv'
<1>1. UNCHANGED <<outbox, heard, backlog, log>>
  BY DEF GatewayStops, site
<1>2. /\ queued' = Plus(queued, Minus(unacked, sent))
      /\ unacked' = NoCopies /\ intake' = NoCopies /\ acking' = NoCopies
      /\ delivered' = {} /\ producing' = {} /\ reports' = {} /\ step' = "intake"
  BY DEF GatewayStops
<1>3. TypeOK'
  BY <1>1, <1>2, SentIsHeld DEF IInv, TypeOK, Plus, Minus, NoCopies
<1>4. AnswersTrue' /\ AckedIsInKafka'
  BY <1>1, <1>2 DEF IInv, AnswersTrue, AckedIsInKafka
<1>5. AckingStored' /\ HeldByBroker'
  BY <1>2 DEF AckingStored, Held, HeldByBroker, NoCopies
<1> QED BY <1>1, <1>3, <1>4, <1>5, SitesKept DEF IInv

LEMMA GatewayReconnectsStep ==
    ASSUME IInv, NEW sent \in Part(acking), GatewayReconnects(sent)
    PROVE  IInv'
<1>1. UNCHANGED <<outbox, heard, queued, step, backlog, delivered, producing,
                  reports, log>>
  BY DEF GatewayReconnects, site, kafka
<1>2. unacked' = Minus(unacked, sent) /\ intake' = unacked' /\ acking' = NoCopies
  BY DEF GatewayReconnects
<1>3. TypeOK'
  BY <1>1, <1>2, SentIsHeld DEF IInv, TypeOK, Minus, NoCopies
<1>4. AnswersTrue' /\ AckedIsInKafka'
  BY <1>1 DEF IInv, AnswersTrue, AckedIsInKafka
<1>5. AckingStored' /\ HeldByBroker'
  BY <1>2, <1>3 DEF TypeOK, AckingStored, Held, HeldByBroker, NoCopies
<1> QED BY <1>1, <1>3, <1>4, <1>5, SitesKept DEF IInv

LEMMA KafkaAppendsStep ==
    ASSUME IInv, NEW e \in Events, NEW reported \in BOOLEAN, KafkaAppends(e, reported)
    PROVE  IInv'
<1>1. UNCHANGED <<outbox, heard, queued, unacked, step, intake, acking,
                  backlog, delivered>>
  BY DEF KafkaAppends, site, broker, worker
<1>2. TypeOK'
  BY <1>1 DEF IInv, TypeOK, KafkaAppends
<1>3. AnswersTrue' /\ AckedIsInKafka' /\ AckingStored' /\ HeldByBroker'
  BY <1>1 DEF IInv, AnswersTrue, AckedIsInKafka, AckingStored, Held,
              HeldByBroker, KafkaAppends
<1> QED BY <1>1, <1>2, <1>3, SitesKept DEF IInv

LEMMA KafkaFailsStep ==
    ASSUME IInv, NEW e \in Events, KafkaFails(e)
    PROVE  IInv'
<1>1. UNCHANGED <<outbox, heard, queued, unacked, step, intake, acking,
                  backlog, delivered, reports, log>>
  BY DEF KafkaFails, site, broker, worker
<1>2. TypeOK'
  BY <1>1 DEF IInv, TypeOK, KafkaFails
<1>3. AnswersTrue' /\ AckedIsInKafka' /\ AckingStored' /\ HeldByBroker'
  BY <1>1 DEF IInv, AnswersTrue, AckedIsInKafka, AckingStored, Held,
              HeldByBroker
<1> QED BY <1>1, <1>2, <1>3, SitesKept DEF IInv

LEMMA InitHolds == ASSUME Init PROVE IInv
BY DEF Init, IInv, TypeOK, AnswersTrue, AckedIsInKafka, BufferedInOrder, AckedInOrder,
       AckingStored, HeldByBroker, NoCopies, Held

LEMMA StutterStep ==
    ASSUME IInv, UNCHANGED vars
    PROVE  IInv'
<1>1. UNCHANGED <<outbox, heard, queued, unacked, step, intake, acking,
                  backlog, delivered, producing, reports, log>>
  BY DEF vars, site, broker, worker, kafka
<1>2. TypeOK'
  BY <1>1 DEF IInv, TypeOK
<1>3. AnswersTrue' /\ AckedIsInKafka' /\ AckingStored' /\ HeldByBroker'
  BY <1>1 DEF IInv, AnswersTrue, AckedIsInKafka, AckingStored, Held,
              HeldByBroker
<1> QED BY <1>1, <1>2, <1>3, SitesKept DEF IInv

LEMMA NextHolds ==
    ASSUME IInv, [Next]_vars
    PROVE  IInv'
<1>1. CASE SiteStep
  BY <1>1, BufferStep, PublishStep, AckRowStep, SiteStopsStep DEF SiteStep
<1>2. CASE GatewayStep
  <2>1. CASE Worker
    BY <2>1, IntakeOnceStep, AckBrokerStep, ConfirmStep, ProduceStep,
       TellStep DEF Worker
  <2> QED
    BY <1>2, <2>1, OnMessageStep, GatewayStopsStep, GatewayReconnectsStep
       DEF GatewayStep
<1>3. CASE KafkaStep
  BY <1>3, KafkaAppendsStep, KafkaFailsStep DEF KafkaStep
<1> QED BY <1>1, <1>2, <1>3, StutterStep DEF Next

\* What the sites, the broker, the gateway and Kafka hold of an event fits
\* together in every reachable state (edge_site.py, gateway.py).
THEOREM UplinkInvariant == Spec => []IInv
<1>1. Init => IInv
  BY InitHolds
<1>2. IInv /\ [Next]_vars => IInv'
  BY NextHolds
<1> QED BY <1>1, <1>2, PTL DEF Spec

\* A site deletes only what Kafka has, for any number of sites and events and
\* through every restart, lost answer and redelivery.
THEOREM AckedInKafka == Spec => []AckedIsInKafka
<1>1. IInv => AckedIsInKafka
  BY DEF IInv
<1> QED BY <1>1, UplinkInvariant, PTL

\* A site marks its rows in their order.
THEOREM MarkedInOrder == Spec => []AckedInOrder
<1>1. IInv => AckedInOrder
  BY DEF IInv
<1> QED BY <1>1, UplinkInvariant, PTL
-----------------------------------------------------------------------------
\* What was refused is nowhere behind the check of the gateway.
OnlyWellFormed ==
    \A e \in Malformed :
        /\ unacked[e] = 0 /\ intake[e] = 0 /\ acking[e] = 0
        /\ backlog[e] = "absent"
        /\ e \notin producing /\ e \notin log

LEMMA AddedAreTakenIn ==
    ASSUME NEW new \in Added(Held(intake))
    PROVE  new \subseteq Held(intake)
BY DEF Added

LEMMA OnlyWellFormedStep ==
    ASSUME IInv, OnlyWellFormed, [Next]_vars
    PROVE  OnlyWellFormed'
<1>1. CASE SiteStep \/ UNCHANGED vars
  <2>1. UNCHANGED <<unacked, intake, acking, backlog, producing, log>>
    BY <1>1 DEF SiteStep, Buffer, Publish, AckRow, SiteStops, vars, broker, worker,
                kafka
  <2> QED BY <2>1 DEF OnlyWellFormed
<1>2. ASSUME NEW e \in Events, OnMessage(e) PROVE OnlyWellFormed'
  BY <1>2 DEF OnMessage, OnlyWellFormed, IInv, TypeOK, kafka
<1>3. CASE IntakeOnce
  <2>1. PICK new \in Added(Held(intake)) :
            backlog' = [e \in Events |-> IF e \in new THEN "pending" ELSE backlog[e]]
    BY <1>3 DEF IntakeOnce
  <2>2. intake' = NoCopies /\ UNCHANGED <<unacked, producing, log>>
    BY <1>3 DEF IntakeOnce, broker, kafka
  <2>3. \A e \in Events : acking'[e] = intake[e] \/ acking'[e] = 0
    BY <1>3 DEF IntakeOnce
  <2> QED BY <2>1, <2>2, <2>3, AddedAreTakenIn DEF OnlyWellFormed, Held, NoCopies
<1>4. CASE AckBroker
  BY <1>4 DEF AckBroker, OnlyWellFormed, Minus, NoCopies, kafka
<1>5. CASE Confirm
  <2>1. UNCHANGED <<unacked, intake, acking, producing, log>>
    BY <1>5 DEF Confirm, broker
  <2>2. \A e \in Malformed : backlog'[e] = backlog[e]
    BY <1>5 DEF Confirm, OnlyWellFormed, Backlog
  <2> QED BY <2>1, <2>2 DEF OnlyWellFormed
<1>6. ASSUME NEW S \in SUBSET Backlog, Produce(S) PROVE OnlyWellFormed'
  BY <1>6 DEF Produce, OnlyWellFormed, Backlog, broker
<1>7. ASSUME NEW reached \in SUBSET delivered, NEW prune \in BOOLEAN,
             Tell(reached, prune)
      PROVE  OnlyWellFormed'
  BY <1>7 DEF Tell, OnlyWellFormed, broker, kafka
<1>8. ASSUME NEW sent \in Part(acking), GatewayStops(sent) PROVE OnlyWellFormed'
  BY <1>8 DEF GatewayStops, OnlyWellFormed, NoCopies
<1>9. ASSUME NEW sent \in Part(acking), GatewayReconnects(sent) PROVE OnlyWellFormed'
  <2>1. \A e \in Malformed : unacked'[e] = 0
    BY <1>9, SentIsHeld DEF GatewayReconnects, OnlyWellFormed, Minus
  <2>2. /\ intake' = unacked' /\ acking' = NoCopies
        /\ UNCHANGED <<backlog, producing, log>>
    BY <1>9 DEF GatewayReconnects, kafka
  <2> QED BY <2>1, <2>2 DEF OnlyWellFormed, NoCopies
<1>10. ASSUME NEW e \in Events, NEW reported \in BOOLEAN, KafkaAppends(e, reported)
       PROVE  OnlyWellFormed'
  BY <1>10 DEF KafkaAppends, OnlyWellFormed, broker, worker
<1>11. ASSUME NEW e \in Events, KafkaFails(e) PROVE OnlyWellFormed'
  BY <1>11 DEF KafkaFails, OnlyWellFormed, broker, worker
<1> QED
  BY <1>1, <1>2, <1>3, <1>4, <1>5, <1>6, <1>7, <1>8, <1>9, <1>10, <1>11
     DEF Next, GatewayStep, Worker, KafkaStep

\* No malformed event reaches Kafka, however often a site sends it again and
\* the gateway is started again.
THEOREM RefusedStayOut == Spec => []RefusedStaysOut
<1>1. Init => OnlyWellFormed
  BY DEF Init, OnlyWellFormed, NoCopies
<1>2. IInv /\ OnlyWellFormed /\ [Next]_vars => OnlyWellFormed'
  BY OnlyWellFormedStep
<1>3. OnlyWellFormed => RefusedStaysOut
  BY DEF OnlyWellFormed, RefusedStaysOut
<1> QED BY <1>1, <1>2, <1>3, UplinkInvariant, PTL DEF Spec
-----------------------------------------------------------------------------
\* One step of the gateway at a time: what its file does.

LEMMA BacklogMoves ==
    ASSUME IInv, [Next]_vars
    PROVE  \/ backlog' = backlog
           \/ IntakeOnce
           \/ Confirm
           \/ \E reached \in SUBSET delivered, prune \in BOOLEAN : Tell(reached, prune)
BY DEF Next, SiteStep, GatewayStep, Worker, KafkaStep, Buffer, Publish, AckRow,
       SiteStops, OnMessage, AckBroker, Produce, GatewayStops, GatewayReconnects,
       KafkaAppends, KafkaFails, vars, worker

LEMMA PendingKept ==
    ASSUME IInv, [Next]_vars, NEW e \in Backlog
    PROVE  Id[e] \in IdsOf(Backlog' \cup log)
<1>1. e \in Events /\ backlog[e] = "pending"
  BY DEF Backlog
<1>2. e \in Backlog' => Id[e] \in IdsOf(Backlog' \cup log)
  BY DEF IdsOf
<1>3. CASE backlog' = backlog
  BY <1>2, <1>3 DEF Backlog
<1>4. CASE IntakeOnce
  <2>1. backlog'[e] = "pending"
    BY <1>1, <1>4 DEF IntakeOnce
  <2> QED BY <1>1, <1>2, <2>1 DEF Backlog
<1>5. CASE Confirm
  <2>1. CASE Id[e] \in IdsOf(delivered')
    <3>1. delivered' \subseteq log
      BY <1>5 DEF Confirm, IInv, AnswersTrue
    <3> QED BY <2>1, <3>1 DEF IdsOf
  <2>2. CASE Id[e] \notin IdsOf(delivered')
    <3>1. backlog'[e] = "pending"
      BY <1>1, <1>5, <2>2 DEF Confirm
    <3> QED BY <1>1, <1>2, <3>1 DEF Backlog
  <2> QED BY <2>1, <2>2
<1>6. CASE \E reached \in SUBSET delivered, prune \in BOOLEAN : Tell(reached, prune)
  <2>1. backlog'[e] = "pending"
    BY <1>1, <1>6 DEF Tell
  <2> QED BY <1>1, <1>2, <2>1 DEF Backlog
<1> QED BY <1>3, <1>4, <1>5, <1>6, BacklogMoves

\* The gateway gives no row up before Kafka has an event of its id, whatever
\* flush() and the callbacks report.
THEOREM StoredTillConfirmed == Spec => StoredUntilConfirmed
<1>1. IInv
      /\ [Next]_vars => [\A e \in Backlog : Id[e] \in IdsOf(Backlog' \cup log)]_vars
  BY PendingKept
<1> QED BY <1>1, UplinkInvariant, PTL DEF Spec, StoredUntilConfirmed

LEMMA ForgottenIsStored ==
    ASSUME IInv, [Next]_vars, NEW e \in Forgotten
    PROVE  Id[e] \in IdsOf(Stored(backlog)')
<1>1. /\ e \in Events /\ unacked'[e] < unacked[e]
      /\ queued'[e] + unacked'[e] < queued[e] + unacked[e]
  BY DEF Forgotten
<1>2. queued[e] \in Nat /\ unacked[e] \in Nat /\ acking[e] \in Nat
  BY <1>1 DEF IInv, TypeOK
<1>3. ASSUME e \in Held(acking), backlog' = backlog
      PROVE  Id[e] \in IdsOf(Stored(backlog)')
  BY <1>3 DEF IInv, AckingStored
<1>4. CASE AckBroker
  BY <1>1, <1>2, <1>3, <1>4 DEF AckBroker, Minus, Held
<1>5. ASSUME NEW sent \in Part(acking), GatewayStops(sent) \/ GatewayReconnects(sent)
      PROVE  Id[e] \in IdsOf(Stored(backlog)')
  <2>1. sent[e] \in Nat /\ sent[e] <= acking[e] /\ sent[e] <= unacked[e]
    BY <1>1, SentIsHeld
  <2>2. CASE GatewayStops(sent)
    <3>1. queued'[e] + unacked'[e] = queued[e] + (unacked[e] - sent[e])
      BY <1>1, <1>2, <2>1, <2>2 DEF GatewayStops, Plus, Minus, NoCopies
    <3>2. acking[e] > 0 /\ backlog' = backlog
      BY <1>1, <1>2, <2>1, <2>2, <3>1 DEF GatewayStops
    <3> QED BY <1>1, <1>3, <3>2 DEF Held
  <2>3. CASE GatewayReconnects(sent)
    BY <1>1, <1>2, <1>3, <2>1, <2>3 DEF GatewayReconnects, Minus, Held
  <2> QED BY <1>5, <2>2, <2>3
<1>6. CASE unacked' = unacked
  BY <1>1, <1>2, <1>6
<1>7. ASSUME NEW f \in Events, OnMessage(f) PROVE FALSE
  BY <1>1, <1>2, <1>7 DEF OnMessage, IInv, TypeOK
<1> QED
  BY <1>4, <1>5, <1>6, <1>7
     DEF Next, SiteStep, GatewayStep, Worker, KafkaStep, Buffer, Publish, AckRow,
         SiteStops, IntakeOnce, Produce, Confirm, Tell, KafkaAppends, KafkaFails, vars,
         broker

\* The broker is told to forget only what the gateway's file holds.
THEOREM ForgottenStored == Spec => AcknowledgedIsStored
<1>1. IInv /\ [Next]_vars
        => [\A e \in Forgotten : Id[e] \in IdsOf(Stored(backlog)')]_vars
  BY ForgottenIsStored
<1> QED BY <1>1, UplinkInvariant, PTL DEF Spec, AcknowledgedIsStored
-----------------------------------------------------------------------------
\* Whatever has left its site had fewer than WINDOW pending events before it,
\* and has not more of them since: a site stores in order.
Sent ==
    Held(queued) \cup Held(unacked) \cup Held(intake) \cup Stored(backlog)
        \cup producing \cup log

SentWithinWindow ==
    \A e \in Sent : outbox[e] # "new" /\ Cardinality(Older(Pending, e)) < WINDOW

LEMMA FinitelyOlder ==
    ASSUME NEW S \in SUBSET Events, NEW e
    PROVE  IsFiniteSet(Older(S, e)) /\ Cardinality(Older(S, e)) \in Nat
<1>1. Older(S, e) \subseteq Events
  BY DEF Older
<1> QED BY <1>1, FS_Subset, FS_CardinalityType

\* Nothing that was not sent before is sent by any step but Publish.
LEMMA SentByPublish ==
    ASSUME IInv, [Next]_vars
    PROVE  \/ Sent' \subseteq Sent
           \/ \E e \in Events : Publish(e) /\ Sent' \subseteq Sent \cup {e}
<1>1. CASE UNCHANGED vars
  BY <1>1 DEF vars, broker, worker, kafka, Sent, Held, Stored
<1>2. ASSUME NEW e \in Events, Buffer(e) PROVE Sent' \subseteq Sent
  BY <1>2 DEF Buffer, broker, worker, kafka, Sent, Held, Stored
<1>3. ASSUME NEW e \in Events, Publish(e) PROVE Sent' \subseteq Sent \cup {e}
  BY <1>3 DEF Publish, worker, kafka, Sent, Held, Stored, IInv, TypeOK
<1>4. ASSUME NEW e \in Events, AckRow(e) PROVE Sent' \subseteq Sent
  BY <1>4 DEF AckRow, broker, worker, kafka, Sent, Held, Stored
<1>5. ASSUME NEW d \in Devices, SiteStops(d) PROVE Sent' \subseteq Sent
  BY <1>5 DEF SiteStops, broker, worker, kafka, Sent, Held, Stored
<1>6. ASSUME NEW e \in Events, OnMessage(e) PROVE Sent' \subseteq Sent
  BY <1>6 DEF OnMessage, kafka, Sent, Held, Stored, IInv, TypeOK
<1>7. CASE IntakeOnce
  <2>1. PICK new \in Added(Held(intake)) :
            backlog' = [e \in Events |-> IF e \in new THEN "pending" ELSE backlog[e]]
    BY <1>7 DEF IntakeOnce
  <2>2. Stored(backlog)' \subseteq Held(intake) \cup Stored(backlog)
    BY <2>1, AddedAreTakenIn DEF Stored
  <2>3. Held(intake)' = {} /\ UNCHANGED <<queued, unacked, producing, log>>
    BY <1>7 DEF IntakeOnce, Held, NoCopies, broker, kafka
  <2> QED BY <2>2, <2>3 DEF Sent, Held
<1>8. CASE AckBroker
  <2>1. Held(unacked)' \subseteq Held(unacked)
    BY <1>8 DEF AckBroker, Held, Minus, IInv, TypeOK
  <2>2. UNCHANGED <<queued, intake, backlog, producing, log>>
    BY <1>8 DEF AckBroker, kafka
  <2> QED BY <2>1, <2>2 DEF Sent, Held, Stored
<1>9. CASE Confirm
  <2>1. UNCHANGED <<queued, unacked, intake, producing, log>>
    BY <1>9 DEF Confirm, broker
  <2>2. Stored(backlog)' \subseteq Stored(backlog)
    BY <1>9 DEF Confirm, Stored, Backlog
  <2> QED BY <2>1, <2>2 DEF Sent, Held
<1>10. ASSUME NEW S \in SUBSET Backlog, Produce(S) PROVE Sent' \subseteq Sent
  BY <1>10 DEF Produce, broker, Sent, Held, Stored, Backlog
<1>11. ASSUME NEW reached \in SUBSET delivered, NEW prune \in BOOLEAN,
              Tell(reached, prune)
       PROVE  Sent' \subseteq Sent
  <2>1. UNCHANGED <<queued, unacked, intake, producing, log>>
    BY <1>11 DEF Tell, broker, kafka
  <2>2. Stored(backlog)' \subseteq Stored(backlog)
    BY <1>11 DEF Tell, Stored
  <2> QED BY <2>1, <2>2 DEF Sent, Held
<1>12. ASSUME NEW told \in Part(acking), GatewayStops(told) PROVE Sent' \subseteq Sent
  <2>1. Held(queued)' \subseteq Held(queued) \cup Held(unacked)
    BY <1>12, SentIsHeld DEF GatewayStops, Held, Plus, Minus, IInv, TypeOK
  <2>2. /\ Held(unacked)' = {} /\ Held(intake)' = {} /\ producing' = {}
        /\ UNCHANGED <<backlog, log>>
    BY <1>12 DEF GatewayStops, Held, NoCopies
  <2> QED BY <2>1, <2>2 DEF Sent, Stored
<1>13. ASSUME NEW told \in Part(acking), GatewayReconnects(told)
       PROVE  Sent' \subseteq Sent
  <2>1. Held(unacked)' \subseteq Held(unacked) /\ Held(intake)' \subseteq Held(unacked)
    BY <1>13, SentIsHeld DEF GatewayReconnects, Held, Minus, IInv, TypeOK
  <2>2. UNCHANGED <<queued, backlog, producing, log>>
    BY <1>13 DEF GatewayReconnects, kafka
  <2> QED BY <2>1, <2>2 DEF Sent, Held, Stored
<1>14. ASSUME NEW e \in Events, NEW reported \in BOOLEAN, KafkaAppends(e, reported)
       PROVE  Sent' \subseteq Sent
  BY <1>14 DEF KafkaAppends, broker, worker, Sent, Held, Stored
<1>15. ASSUME NEW e \in Events, KafkaFails(e) PROVE Sent' \subseteq Sent
  BY <1>15 DEF KafkaFails, broker, worker, Sent, Held, Stored
<1> QED
  BY <1>1, <1>2, <1>3, <1>4, <1>5, <1>6, <1>7, <1>8, <1>9, <1>10, <1>11, <1>12,
     <1>13, <1>14, <1>15 DEF Next, SiteStep, GatewayStep, Worker, KafkaStep

\* Nothing becomes pending behind an event that is no longer new.
LEMMA PendingBehind ==
    ASSUME IInv, [Next]_vars, NEW e \in Events, outbox[e] # "new"
    PROVE  outbox'[e] # "new" /\ Older(Pending', e) \subseteq Older(Pending, e)
<1>1. CASE outbox' = outbox
  BY <1>1 DEF Pending
<1>2. ASSUME NEW f \in Events, Buffer(f)
      PROVE  outbox'[e] # "new" /\ Older(Pending', e) \subseteq Older(Pending, e)
  <2>1. PICK to \in {"pending", "refused"} : outbox' = [outbox EXCEPT ![f] = to]
    BY <1>2 DEF Buffer
  <2>2. f \in Unsent
    BY <1>2 DEF Buffer
  <2>3. f \notin Older(Pending', e)
    BY <2>2 DEF IInv, BufferedInOrder, Older
  <2> QED BY <2>1, <2>3 DEF IInv, TypeOK, Older, Pending
<1>3. ASSUME NEW f \in Events, AckRow(f)
      PROVE  outbox'[e] # "new" /\ Older(Pending', e) \subseteq Older(Pending, e)
  BY <1>3 DEF AckRow, IInv, TypeOK, Older, Pending
<1> QED
  BY <1>1, <1>2, <1>3
     DEF Next, SiteStep, GatewayStep, Worker, KafkaStep, Publish, SiteStops, OnMessage,
         IntakeOnce, AckBroker, Produce, Confirm, Tell, GatewayStops, GatewayReconnects,
         KafkaAppends, KafkaFails, vars, site

LEMMA WindowStep ==
    ASSUME IInv, SentWithinWindow, [Next]_vars
    PROVE  SentWithinWindow'
<1> SUFFICES ASSUME NEW e \in Sent'
             PROVE  outbox'[e] # "new" /\ Cardinality(Older(Pending', e)) < WINDOW
  BY DEF SentWithinWindow
<1>1. /\ e \in Events /\ outbox[e] # "new"
      /\ Cardinality(Older(Pending, e)) < WINDOW
  <2>1. Sent \subseteq Events
    BY DEF Sent, Held, Stored, IInv, TypeOK
  <2>2. CASE e \in Sent
    BY <2>1, <2>2 DEF SentWithinWindow
  <2>3. CASE Publish(e) /\ e \in Events
    BY <2>3 DEF Publish, Pending
  <2> QED BY <2>2, <2>3, SentByPublish
<1>2. outbox'[e] # "new" /\ Older(Pending', e) \subseteq Older(Pending, e)
  BY <1>1, PendingBehind
<1>3. Pending \in SUBSET Events /\ Pending' \in SUBSET Events
  BY DEF Pending
<1>4. Cardinality(Older(Pending', e)) <= Cardinality(Older(Pending, e))
  BY <1>2, <1>3, FinitelyOlder, FS_Subset
<1> QED BY <1>1, <1>2, <1>3, <1>4, FinitelyOlder

\* What Kafka lacks of the events before one that was sent is still pending.
LEMMA MissingArePending ==
    ASSUME IInv, SentWithinWindow, NEW e \in Sent
    PROVE  Cardinality(Missing(e)) < WINDOW
<1>1. Sent \subseteq Events
  BY DEF Sent, Held, Stored, IInv, TypeOK
<1>2. Missing(e) \subseteq Older(Pending, e)
  BY <1>1 DEF IInv, TypeOK, SentWithinWindow, BufferedInOrder, AckedIsInKafka, Missing,
              Older, Pending, Unsent
<1>3. Pending \in SUBSET Events
  BY DEF Pending
<1>4. Cardinality(Missing(e)) \in Nat
      /\ Cardinality(Missing(e)) <= Cardinality(Older(Pending, e))
  BY <1>2, <1>3, FinitelyOlder, FS_Subset, FS_CardinalityType
<1> QED BY <1>3, <1>4, FinitelyOlder DEF SentWithinWindow

\* What left a site left it within its window (edge_site.py).
THEOREM WindowInvariant == Spec => []SentWithinWindow
<1>1. Init => SentWithinWindow
  BY DEF Init, SentWithinWindow, Sent, Held, NoCopies, Stored
<1>2. IInv /\ SentWithinWindow /\ [Next]_vars => SentWithinWindow'
  BY WindowStep
<1> QED BY <1>1, <1>2, UplinkInvariant, PTL DEF Spec

\* An event that gets into Kafka overtakes fewer than WINDOW others of its
\* site, through every repetition, restart, refusal and failure.
THEOREM OvertakingIsBounded == Spec => []OvertakesWithinWindow
<1>1. IInv /\ SentWithinWindow => OvertakesWithinWindow
  BY MissingArePending DEF OvertakesWithinWindow, Sent
<1> QED BY <1>1, UplinkInvariant, WindowInvariant, PTL
=============================================================================
