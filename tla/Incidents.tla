----------------------------- MODULE Incidents -----------------------------
(***************************************************************************)
(* Traffic incidents (backend/analytics/incident_service.py on             *)
(* backend/repositories/incidents.py).  One correlator turns the detection *)
(* candidates into incidents, tick by tick and commit by commit, while     *)
(* people move the same incidents through the API.  A tick may be cut      *)
(* short anywhere: the process dies, or a transition is refused and the    *)
(* rest of the tick is given up until the next.                            *)
(*                                                                         *)
(* Times are reduced to what the code compares: whether a candidate's      *)
(* evidence is live, clear, or clear for resolve_hysteresis_s (settled);   *)
(* which pairs are linked; and whether a candidate was detected before an  *)
(* incident was last resolved.  Severity and confidence only decide        *)
(* whether an incident is escalated, which may happen whenever the code    *)
(* considers it.                                                           *)
(***************************************************************************)
EXTENDS Naturals, FiniteSets

CONSTANTS Candidates,
          Near,               \* pairs whose kind and place allow a link
          Weak,               \* may be below open_confidence
          MaxIncidents,       \* bound: incidents ever opened
          MaxMoves,           \* bound: transitions people make
          MaxDeaths           \* bound: ticks the process dies in

ASSUME IncidentsAssumption ==
    /\ Near \subseteq {p \in SUBSET Candidates : Cardinality(p) = 2}
    /\ Weak \subseteq Candidates /\ MaxIncidents \in Nat /\ MaxMoves \in Nat
    /\ MaxDeaths \in Nat

VARIABLES
    seen, bond,         \* evidence of each candidate; pairs now linked
    status, dup,        \* each incident's status and duplicate_of (0: null)
    before,             \* candidates detected before it was last resolved
    link,               \* incident_candidates (0: none)
    tick,               \* the tick under way
    moves, deaths       \* not in the code: moves of people, ticks cut short
evidence == <<seen, bond>>
bounds == <<moves, deaths>>
vars == <<evidence, status, dup, before, link, tick, bounds>>

Ids == 1..MaxIncidents
Idle == [pc |-> "idle"]

AllowedTransitions ==
    [s \in {"open", "acknowledged", "investigating", "escalated", "resolved",
            "reopened"} |->
        CASE s \in {"open", "reopened"} ->
                {"acknowledged", "investigating", "escalated", "resolved"}
          [] s = "acknowledged" -> {"investigating", "escalated", "resolved"}
          [] s = "investigating" -> {"escalated", "resolved"}
          [] s = "escalated" -> {"investigating", "resolved"}
          [] s = "resolved" -> {"reopened"}]

Opened == {i \in Ids : status[i] # "none"}
Seen == {c \in Candidates : seen[c] # "none"}

Init ==
    /\ seen = [c \in Candidates |-> "none"] /\ bond = {}
    /\ status = [i \in Ids |-> "none"]
    /\ dup = [i \in Ids |-> 0]
    /\ before = [i \in Ids |-> {}]
    /\ link = [c \in Candidates |-> 0]
    /\ tick = Idle /\ moves = 0 /\ deaths = 0
-----------------------------------------------------------------------------
(* What the detectors write between two ticks, in the correlator's thread. *)

\* A candidate appears, clears or comes back to life, which also decides
\* anew whom it is linked to; it may have been detected before an incident
\* was resolved, although it is seen only now.
Detect(c, s) ==
    /\ tick = Idle
    /\ seen[c] # s
    /\ seen' = [seen EXCEPT ![c] = s]
    /\ \E B \in SUBSET {p \in Near : c \in p /\ p \subseteq Seen \cup {c}} :
          bond' = {p \in bond : c \notin p} \cup B
    /\ \E late \in SUBSET {i \in Ids : status[i] = "resolved" /\ seen[c] = "none"} :
          before' = [i \in Ids |-> IF i \in late THEN before[i] \cup {c} ELSE before[i]]
    /\ UNCHANGED <<status, dup, link, tick, bounds>>

\* A live candidate is seen again: its links may have grown.
SeenAgain(c) ==
    /\ tick = Idle /\ seen[c] = "live"
    /\ \E d \in Seen \ {c} : {c, d} \in Near \ bond /\ bond' = bond \cup {{c, d}}
    /\ UNCHANGED <<seen, status, dup, before, link, tick, bounds>>

Settle(c) ==
    /\ tick = Idle /\ seen[c] = "clear"
    /\ seen' = [seen EXCEPT ![c] = "settled"]
    /\ UNCHANGED <<bond, status, dup, before, link, tick, bounds>>
-----------------------------------------------------------------------------
(* transition_incident: the row is locked, checked and committed.          *)

Legal(i, to) == status[i] # "none" /\ to \in AllowedTransitions[status[i]]

Move(i, to) ==
    /\ Legal(i, to)
    /\ status' = [status EXCEPT ![i] = to]
    /\ before' = IF to = "resolved" THEN [before EXCEPT ![i] = Seen] ELSE before

\* A person, by way of the API.
PersonMoves(i, to) ==
    /\ moves < MaxMoves /\ moves' = moves + 1
    /\ Move(i, to)
    /\ UNCHANGED <<evidence, dup, link, tick, deaths>>

Dies ==
    /\ tick # Idle /\ deaths < MaxDeaths
    /\ tick' = Idle /\ deaths' = deaths + 1
    /\ UNCHANGED <<evidence, status, dup, before, link, moves>>
-----------------------------------------------------------------------------
(* sync: one group of linked candidates after the other.                   *)

\* The connected component of a candidate.
GroupOf(c) ==
    {d \in Seen : \A S \in SUBSET Seen :
        c \in S /\ (\A p \in bond : p \cap S # {} => p \subseteq S) => d \in S}

Start ==
    /\ tick = Idle /\ Seen # {}
    /\ tick' = [pc |-> "group", todo |-> {GroupOf(c) : c \in Seen}, links |-> link]
    /\ UNCHANGED <<evidence, status, dup, before, link, bounds>>

\* The tick after group G: its members are known to be linked to i.
After(G, i) ==
    IF tick.todo = {G} THEN Idle
    ELSE [pc |-> "group", todo |-> tick.todo \ {G},
          links |-> [c \in Candidates |-> IF c \in G /\ i # 0 THEN i ELSE tick.links[c]]]

Live(G) == {i \in {tick.links[c] : c \in G} \ {0} : dup[i] = 0}

On(pc, G, i, rest) ==
    [pc |-> pc, todo |-> tick.todo, links |-> tick.links,
     group |-> G, keep |-> i, rest |-> rest]

\* First the rest is merged into i, then the group is linked to it.
Toward(G, i, rest) == On(IF rest = {} THEN "link" ELSE "merge", G, i, rest)

\* Weak evidence may be corroborated, and then opens an incident, or not.
Watch(G) ==
    /\ tick.pc = "group" /\ G \in tick.todo
    /\ Live(G) = {} /\ G \subseteq Weak
    /\ tick' = After(G, 0)
    /\ UNCHANGED <<evidence, status, dup, before, link, bounds>>

\* create_incident, committed before its candidates are linked.
Open(G, i) ==
    /\ tick.pc = "group" /\ G \in tick.todo
    /\ Live(G) = {}
    /\ i \notin Opened /\ \A j \in Ids : j < i => j \in Opened
    /\ status' = [status EXCEPT ![i] = "open"]
    /\ tick' = Toward(G, i, {})
    /\ UNCHANGED <<evidence, dup, before, link, bounds>>

Oldest(S) == CHOOSE i \in S : \A j \in S : i <= j

\* Mutant: the youngest incident of the group is kept.
Youngest(S) == CHOOSE i \in S : \A j \in S : i >= j

\* min over (opened_at, id): the numbers stand for that order.
Keep(S) == Oldest(S)

Choose(G) ==
    /\ tick.pc = "group" /\ G \in tick.todo
    /\ Live(G) # {}
    /\ LET keep == Keep(Live(G))
       IN  tick' = Toward(G, keep, Live(G) \ {keep})
    /\ UNCHANGED <<evidence, status, dup, before, link, bounds>>

\* Mutant: the candidates stay with the incident that is merged.
MergeAlone(i) ==
    /\ tick.pc = "merge" /\ i \in tick.rest
    /\ dup' = [dup EXCEPT ![i] = tick.keep]
    /\ tick' = IF status[i] = "resolved" THEN Toward(tick.group, tick.keep, tick.rest \ {i})
               ELSE [tick EXCEPT !.pc = "close"]
    /\ UNCHANGED <<evidence, status, before, link, bounds>>

\* _merge, first commit: candidates and duplicate_of.  The others are merged
\* in the order of their ids, which says nothing of their age.
Merge(i) ==
    /\ tick.pc = "merge" /\ i \in tick.rest
    /\ dup' = [dup EXCEPT ![i] = tick.keep]
    /\ link' = [c \in Candidates |-> IF link[c] = i THEN tick.keep ELSE link[c]]
    /\ tick' = IF status[i] = "resolved" THEN Toward(tick.group, tick.keep, tick.rest \ {i})
               ELSE [tick EXCEPT !.pc = "close"]
    /\ UNCHANGED <<evidence, status, before, bounds>>

\* The one of the others that was merged a moment ago.
Merged(i) == i \in tick.rest /\ dup[i] # 0

\* Mutant: the merged incident stays as it is.
CloseNothing(i) ==
    /\ tick.pc = "close" /\ Merged(i)
    /\ tick' = Toward(tick.group, tick.keep, tick.rest \ {i})
    /\ UNCHANGED <<evidence, status, before, dup, link, bounds>>

\* ... and its second: the duplicate is resolved.
Close(i) ==
    /\ tick.pc = "close" /\ Merged(i)
    /\ Move(i, "resolved")
    /\ tick' = Toward(tick.group, tick.keep, tick.rest \ {i})
    /\ UNCHANGED <<evidence, dup, link, bounds>>

\* _link and _refresh, and what _lifecycle reads.
Link ==
    /\ tick.pc = "link"
    /\ link' = [c \in Candidates |-> IF c \in tick.group THEN tick.keep ELSE link[c]]
    /\ tick' = [pc |-> "life", todo |-> tick.todo, links |-> tick.links,
                group |-> tick.group, keep |-> tick.keep, read |-> status[tick.keep]]
    /\ UNCHANGED <<evidence, status, dup, before, bounds>>
-----------------------------------------------------------------------------
(* _lifecycle: decided on the status read, applied to the status found.    *)

AllIn(states) == \A c \in tick.group : seen[c] \in states
Cleared == AllIn({"clear", "settled"})

\* Mutant: only a candidate that is new reopens an incident.
NewOnly == tick.group \ before[tick.keep] # {}

NewEvidence == tick.group \ before[tick.keep] # {} \/ ~Cleared

Reopen ==
    /\ tick.pc = "life" /\ tick.read = "resolved" /\ NewEvidence
    /\ Move(tick.keep, "reopened")
    /\ tick' = [tick EXCEPT !.pc = "forget"]
    /\ UNCHANGED <<evidence, dup, link, bounds>>

\* ... and in a commit of its own resolved_at is set to null, whatever the
\* incident has become: then nothing counts as detected after it.
Forget ==
    /\ tick.pc = "forget"
    /\ before' = [before EXCEPT ![tick.keep] = Candidates]
    /\ tick' = [tick EXCEPT !.pc = "life", !.read = "reopened"]
    /\ UNCHANGED <<evidence, status, dup, link, bounds>>

Fresh == tick.read \in {"open", "reopened"}

Resolve ==
    /\ tick.pc = "life" /\ Fresh /\ AllIn({"settled"})
    /\ Move(tick.keep, "resolved")
    /\ tick' = After(tick.group, tick.keep)
    /\ UNCHANGED <<evidence, dup, link, bounds>>

\* Looked at for high or critical severity, for nobody acknowledging, or for
\* a second kind of sensor.
Escalates ==
    /\ ~(Fresh /\ AllIn({"settled"}))
    /\ \/ Fresh
       \/ tick.read \in {"acknowledged", "investigating"} /\ ~Cleared

Escalate ==
    /\ tick.pc = "life" /\ Escalates
    /\ Move(tick.keep, "escalated")
    /\ tick' = After(tick.group, tick.keep)
    /\ UNCHANGED <<evidence, dup, link, bounds>>

\* InvalidTransition: somebody was faster, and the rest of the tick is given
\* up.
Refused ==
    /\ \/ /\ tick.pc = "close"
          /\ \E i \in tick.rest : Merged(i) /\ status[i] = "resolved"
       \/ /\ tick.pc = "life"
          /\ \/ /\ tick.read = "resolved" /\ NewEvidence
                /\ ~Legal(tick.keep, "reopened")
             \/ /\ Fresh /\ AllIn({"settled"})
                /\ ~Legal(tick.keep, "resolved")
             \/ /\ Escalates /\ ~Legal(tick.keep, "escalated")
    /\ tick' = Idle
    /\ UNCHANGED <<evidence, status, dup, before, link, bounds>>

Leave ==
    /\ tick.pc = "life" /\ ~(Fresh /\ AllIn({"settled"}))
    /\ ~(tick.read = "resolved" /\ NewEvidence)
    /\ tick' = After(tick.group, tick.keep)
    /\ UNCHANGED <<evidence, status, dup, before, link, bounds>>
-----------------------------------------------------------------------------
Detectors == \E c \in Candidates : \/ \E s \in {"live", "clear"} : Detect(c, s)
                                   \/ SeenAgain(c) \/ Settle(c)

People == \E i \in Ids, to \in DOMAIN AllowedTransitions : PersonMoves(i, to)

Tick == \/ Start
        \/ \E G \in SUBSET Candidates : \/ Watch(G) \/ Choose(G)
                                        \/ \E i \in Ids : Open(G, i)
        \/ \E i \in Ids : Merge(i) \/ Close(i)
        \/ Link \/ Reopen \/ Forget \/ Resolve \/ Escalate \/ Leave \/ Refused

Next == Detectors \/ People \/ Tick \/ Dies

Spec == Init /\ [][Next]_vars

\* The feeder ticks for ever.
FairSpec == Spec /\ WF_vars(Tick)
-----------------------------------------------------------------------------
\* The evidence of an incident is never left with one that was merged into
\* another, at any commit of a tick and wherever ticks are cut short: what
\* people look at is what the next tick updates.
EvidenceIsLive ==
    \A c \in Candidates :
        link[c] # 0 => status[link[c]] # "none" /\ dup[link[c]] = 0

\* "Keeps the older one": duplicates always lead, merge after merge, to an
\* incident that is none (incident_service.py:13).
DuplicatesLeadToOlder ==
    \A i \in Ids : dup[i] # 0 => dup[i] < i /\ status[dup[i]] # "none"

\* As long as no process died, between two ticks every incident has its
\* evidence or is a duplicate that was closed, also after refused ticks.
TidyUnlessDied ==
    deaths = 0 /\ tick = Idle =>
        \A i \in Opened : IF dup[i] = 0 THEN \E c \in Candidates : link[c] = i
                          ELSE status[i] # "open"

\* Strong evidence that stays has an incident that is not resolved, again
\* and again, whatever people and crashes did to it before.
EvidenceIsWatched ==
    \A c \in Candidates \ Weak :
        []<>(seen[c] = "live" => link[c] # 0 /\ status[link[c]] # "resolved")

\* incident_service.py:17-20 resolves "automatically only for incidents
\* nobody has taken (open/reopened)": "a person closes" the others.
TakenIsForPeople ==
    [][\A i \in Ids :
          tick.pc = "life" /\ tick' # tick
          /\ status[i] # "resolved" /\ status'[i] = "resolved"
             => status[i] \in {"open", "reopened"}]_vars
=============================================================================
