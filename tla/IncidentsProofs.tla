--------------------------- MODULE IncidentsProofs ---------------------------
(***************************************************************************)
(* Proofs about Incidents for any candidates, links and bounds.            *)
(***************************************************************************)
EXTENDS Incidents, WellFoundedInduction, TLAPS

Statuses == {"none", "open", "acknowledged", "investigating", "escalated",
             "resolved", "reopened"}

TypeOK ==
    /\ status \in [Ids -> Statuses]
    /\ dup \in [Ids -> Ids \cup {0}]
    /\ link \in [Candidates -> Ids \cup {0}]

\* What a tick carries from commit to commit.
TickSound ==
    /\ tick.pc \in {"idle", "group", "merge", "close", "link", "life", "forget"}
    /\ tick.pc # "idle" =>
          /\ tick.links \in [Candidates -> Ids \cup {0}]
          /\ \A c \in Candidates : tick.links[c] # 0 => tick.links[c] \in Opened
    /\ tick.pc \in {"merge", "close", "link", "life", "forget"} =>
          tick.keep \in Opened /\ dup[tick.keep] = 0
    /\ tick.pc \in {"merge", "close", "link"} =>
          /\ DOMAIN tick = {"pc", "todo", "links", "group", "keep", "rest"}
          /\ tick.rest \subseteq {j \in Opened : tick.keep < j}
    /\ tick.pc \in {"life", "forget"} =>
          DOMAIN tick = {"pc", "todo", "links", "group", "keep", "read"}

\* Only what was opened is a duplicate.
DuplicatesOpened == \A i \in Ids : dup[i] # 0 => i \in Opened

IInv ==
    /\ TypeOK
    /\ TickSound
    /\ DuplicatesOpened
    /\ EvidenceIsLive
    /\ DuplicatesLeadToOlder
-----------------------------------------------------------------------------
LEMMA IdsAre == Ids \subseteq Nat /\ 0 \notin Ids
BY DEF Ids

\* The transitions lead from an opened status to an opened status.
LEMMA Transitions ==
    ASSUME NEW s \in Statuses \ {"none"}
    PROVE  AllowedTransitions[s] \subseteq Statuses \ {"none"}
<1>1. CASE s \in {"open", "reopened"}
  BY <1>1 DEF AllowedTransitions, Statuses
<1>2. CASE s \in {"acknowledged", "investigating", "escalated", "resolved"}
  BY <1>2 DEF AllowedTransitions, Statuses
<1> QED BY <1>1, <1>2 DEF Statuses

LEMMA MoveKeeps ==
    ASSUME TypeOK, NEW i \in Ids, NEW to, Move(i, to)
    PROVE  /\ i \in Opened /\ to \in Statuses \ {"none"}
           /\ status' \in [Ids -> Statuses]
           /\ Opened' = Opened
<1>1. i \in Opened /\ to \in Statuses \ {"none"}
  BY Transitions DEF TypeOK, Move, Legal, Opened
<1>2. status' = [status EXCEPT ![i] = to]
  BY DEF Move
<1> QED BY <1>1, <1>2 DEF TypeOK, Opened

LEMMA Least ==
    ASSUME NEW S \in SUBSET Nat, S # {}
    PROVE  \E n \in S : \A m \in S : n <= m
<1> DEFINE R == OpToRel(<, Nat)
<1>1. IsWellFoundedOn(R, Nat)
  BY NatLessThanWellFounded
<1>2. \A x, y \in Nat : x < y => <<x, y>> \in R
  BY DEF OpToRel
<1> HIDE DEF R
<1>3. PICK n \in S : \A m \in S : ~ (<<m, n>> \in R)
  BY <1>1, WFMin, Zenon
<1>4. \A m \in S : ~ (m < n)
  <2> TAKE m \in S
  <2>1. m \in Nat /\ n \in Nat
    OBVIOUS
  <2>2. m < n => <<m, n>> \in R
    BY <1>2, <2>1, Zenon
  <2> QED BY <2>2, <1>3, Zenon
<1> QED BY <1>4

LEMMA LeastId ==
    ASSUME NEW S \in SUBSET Ids, S # {}
    PROVE  Oldest(S) \in S /\ \A j \in S : Oldest(S) <= j
<1>1. S \in SUBSET Nat
  BY IdsAre
<1>2. \E n \in S : \A m \in S : n <= m
  BY <1>1, Least
<1> QED BY <1>2 DEF Oldest

\* Where nothing is opened or merged, the tables stay sound.
LEMMA TablesKept ==
    ASSUME IInv, UNCHANGED <<dup, link>>, status' \in [Ids -> Statuses],
           Opened \subseteq Opened'
    PROVE  TypeOK' /\ DuplicatesOpened' /\ EvidenceIsLive' /\ DuplicatesLeadToOlder'
<1>1. TypeOK'
  BY DEF IInv, TypeOK
<1>2. DuplicatesOpened'
  BY DEF IInv, DuplicatesOpened
<1>3. EvidenceIsLive'
  BY DEF IInv, TypeOK, EvidenceIsLive, Opened
<1>4. DuplicatesLeadToOlder'
  BY DEF IInv, TypeOK, DuplicatesLeadToOlder, Opened
<1> QED BY <1>1, <1>2, <1>3, <1>4

\* ... and so does what the tick carries, if it goes on as it was.
LEMMA SameTick ==
    ASSUME IInv, UNCHANGED <<dup, link, tick>>, status' \in [Ids -> Statuses],
           Opened \subseteq Opened'
    PROVE  IInv'
<1>1. TickSound'
  BY DEF IInv, TickSound
<1> QED BY <1>1, TablesKept DEF IInv

\* A tick that ends is sound.
LEMMA TickEnds ==
    ASSUME tick' = Idle
    PROVE  TickSound'
BY DEF TickSound, Idle

\* The tick after a group.
LEMMA NextGroup ==
    ASSUME IInv, NEW G, NEW i \in Opened \cup {0}, tick.pc # "idle",
           tick' = After(G, i), Opened \subseteq Opened'
    PROVE  TickSound'
<1>1. CASE tick' = Idle
  BY <1>1, TickEnds
<1>2. CASE tick' = [pc |-> "group", todo |-> tick.todo \ {G},
                    links |-> [c \in Candidates |->
                                 IF c \in G /\ i # 0 THEN i ELSE tick.links[c]]]
  <2>1. i \in Ids \cup {0}
    BY DEF Opened
  <2>2. tick'.links \in [Candidates -> Ids \cup {0}]
    BY <1>2, <2>1 DEF IInv, TickSound
  <2>3. \A c \in Candidates : tick'.links[c] # 0 => tick'.links[c] \in Opened'
    BY <1>2 DEF IInv, TickSound
  <2>4. tick'.pc = "group"
    BY <1>2
  <2> QED BY <2>2, <2>3, <2>4 DEF TickSound
<1> QED BY <1>1, <1>2 DEF After

\* The tick that turns to an incident.
LEMMA TurnsTo ==
    ASSUME IInv, tick.pc # "idle", NEW G, NEW i \in Opened', dup'[i] = 0,
           NEW rest \in SUBSET {j \in Opened' : i < j},
           tick' = Toward(G, i, rest), Opened \subseteq Opened'
    PROVE  TickSound'
<1>1. PICK pc \in {"merge", "link"} :
        tick' = [pc |-> pc, todo |-> tick.todo, links |-> tick.links,
                 group |-> G, keep |-> i, rest |-> rest]
  BY DEF Toward, On
<1>2. /\ tick'.pc = pc /\ tick'.links = tick.links /\ tick'.keep = i /\ tick'.rest = rest
      /\ DOMAIN tick' = {"pc", "todo", "links", "group", "keep", "rest"}
  BY <1>1
<1>3. /\ tick.links \in [Candidates -> Ids \cup {0}]
      /\ \A c \in Candidates : tick.links[c] # 0 => tick.links[c] \in Opened'
  BY DEF IInv, TickSound
<1> QED BY <1>2, <1>3 DEF TickSound

LEMMA DetectStep ==
    ASSUME IInv, NEW c \in Candidates, NEW s, Detect(c, s)
    PROVE  IInv'
BY SameTick DEF Detect, IInv, TypeOK, Opened

LEMMA SeenAgainStep ==
    ASSUME IInv, NEW c \in Candidates, SeenAgain(c)
    PROVE  IInv'
BY SameTick DEF SeenAgain, IInv, TypeOK, Opened

LEMMA SettleStep ==
    ASSUME IInv, NEW c \in Candidates, Settle(c)
    PROVE  IInv'
BY SameTick DEF Settle, IInv, TypeOK, Opened

LEMMA PersonMovesStep ==
    ASSUME IInv, NEW i \in Ids, NEW to, PersonMoves(i, to)
    PROVE  IInv'
BY SameTick, MoveKeeps DEF PersonMoves, IInv

LEMMA DiesStep ==
    ASSUME IInv, Dies
    PROVE  IInv'
<1>1. UNCHANGED <<status, dup, link>> /\ tick' = Idle
  BY DEF Dies
<1> QED BY <1>1, TickEnds, TablesKept DEF IInv, TypeOK, Opened

LEMMA StartStep ==
    ASSUME IInv, Start
    PROVE  IInv'
<1>1. UNCHANGED <<status, dup, link>>
  BY DEF Start
<1>2. tick'.pc = "group" /\ tick'.links = link
  BY DEF Start
<1>3. TickSound'
  BY <1>1, <1>2 DEF IInv, TypeOK, EvidenceIsLive, TickSound, Opened
<1> QED BY <1>1, <1>3, TablesKept DEF IInv, TypeOK, Opened

LEMMA WatchStep ==
    ASSUME IInv, NEW G \in SUBSET Candidates, Watch(G)
    PROVE  IInv'
<1>1. UNCHANGED <<status, dup, link>> /\ tick' = After(G, 0) /\ tick.pc = "group"
  BY DEF Watch
<1>2. Opened' = Opened /\ status' \in [Ids -> Statuses]
  BY <1>1 DEF IInv, TypeOK, Opened
<1>3. TickSound'
  BY <1>1, <1>2, NextGroup
<1> QED BY <1>1, <1>2, <1>3, TablesKept DEF IInv

LEMMA OpenStep ==
    ASSUME IInv, NEW G \in SUBSET Candidates, NEW i \in Ids, Open(G, i)
    PROVE  IInv'
<1>1. /\ UNCHANGED <<dup, link>> /\ status' = [status EXCEPT ![i] = "open"]
      /\ tick' = Toward(G, i, {}) /\ tick.pc = "group" /\ i \notin Opened
  BY DEF Open
<1>2. status' \in [Ids -> Statuses] /\ Opened \subseteq Opened' /\ i \in Opened'
  BY <1>1 DEF IInv, TypeOK, Opened, Statuses
<1>3. dup'[i] = 0
  BY <1>1 DEF IInv, DuplicatesOpened
<1>4. TickSound'
  BY <1>1, <1>2, <1>3, TurnsTo
<1> QED BY <1>1, <1>2, <1>4, TablesKept DEF IInv

LEMMA ChooseStep ==
    ASSUME IInv, NEW G \in SUBSET Candidates, Choose(G)
    PROVE  IInv'
<1>1. PICK keep : keep = Keep(Live(G)) /\ tick' = Toward(G, keep, Live(G) \ {keep})
  BY DEF Choose
<1>2. UNCHANGED <<status, dup, link>> /\ tick.pc = "group" /\ Live(G) # {}
  BY DEF Choose
<1>3. Live(G) \subseteq Opened /\ \A j \in Live(G) : dup[j] = 0
  BY <1>2 DEF IInv, TickSound, Live
<1>4. keep \in Live(G) /\ \A j \in Live(G) : keep <= j
  BY <1>1, <1>2, <1>3, LeastId DEF Keep, Opened
<1>5. Live(G) \ {keep} \subseteq {j \in Opened : keep < j}
  <2>1. \A j \in Opened : j \in Nat
    BY IdsAre DEF Opened
  <2> QED BY <1>3, <1>4, <2>1
<1>6. Opened' = Opened /\ status' \in [Ids -> Statuses]
  BY <1>2 DEF IInv, TypeOK, Opened
<1>7. PICK rest : rest = Live(G) \ {keep}
  OBVIOUS
<1>8. TickSound'
  <2>1. /\ keep \in Opened' /\ dup'[keep] = 0
        /\ rest \in SUBSET {j \in Opened' : keep < j}
    BY <1>2, <1>3, <1>4, <1>5, <1>6, <1>7
  <2>2. tick' = Toward(G, keep, rest)
    BY <1>1, <1>7
  <2> QED BY <1>2, <1>6, <2>1, <2>2, TurnsTo
<1> QED BY <1>2, <1>6, <1>8, TablesKept DEF IInv

LEMMA MergeStep ==
    ASSUME IInv, NEW i \in Ids, Merge(i)
    PROVE  IInv'
<1>1. PICK keep : keep = tick.keep
  OBVIOUS
<1>2. /\ dup' = [dup EXCEPT ![i] = keep]
      /\ link' = [c \in Candidates |-> IF link[c] = i THEN keep ELSE link[c]]
      /\ status' = status /\ tick.pc = "merge" /\ i \in tick.rest
  BY <1>1 DEF Merge
<1>3. keep \in Opened /\ dup[keep] = 0 /\ i \in Opened /\ keep < i
  BY <1>1, <1>2 DEF IInv, TickSound
<1>4. keep \in Ids /\ keep # i /\ keep \in Nat
  BY <1>3, IdsAre DEF Opened
<1>5. Opened' = Opened
  BY <1>2 DEF Opened
<1>6. TypeOK'
  BY <1>2, <1>4 DEF IInv, TypeOK
<1>7. DuplicatesOpened' /\ DuplicatesLeadToOlder'
  BY <1>2, <1>3, <1>4, <1>5 DEF IInv, TypeOK, DuplicatesOpened,
                                DuplicatesLeadToOlder, Opened
<1>8. EvidenceIsLive'
  BY <1>2, <1>3, <1>4 DEF IInv, TypeOK, EvidenceIsLive, Opened
<1>9. dup'[keep] = 0
  BY <1>2, <1>3, <1>4 DEF IInv, TypeOK
<1>10. TickSound'
  <2>1. CASE tick' = Toward(tick.group, tick.keep, tick.rest \ {i})
    <3>1. PICK G, rest : G = tick.group /\ rest = tick.rest \ {i}
      OBVIOUS
    <3>2. rest \in SUBSET {j \in Opened' : keep < j}
      BY <1>1, <1>2, <1>5, <3>1 DEF IInv, TickSound
    <3>3. tick' = Toward(G, keep, rest)
      BY <1>1, <2>1, <3>1
    <3> QED BY <1>2, <1>3, <1>5, <1>9, <3>2, <3>3, TurnsTo
  <2>2. CASE tick' = [tick EXCEPT !.pc = "close"]
    <3>1. /\ tick'.pc = "close" /\ tick'.links = tick.links /\ tick'.keep = keep
          /\ tick'.rest = tick.rest /\ DOMAIN tick' = DOMAIN tick
      BY <1>1, <1>2, <2>2 DEF IInv, TickSound
    <3> QED BY <1>1, <1>2, <1>3, <1>5, <1>9, <3>1 DEF IInv, TickSound
  <2> QED BY <2>1, <2>2 DEF Merge
<1> QED BY <1>6, <1>7, <1>8, <1>10 DEF IInv

LEMMA CloseStep ==
    ASSUME IInv, NEW i \in Ids, Close(i)
    PROVE  IInv'
<1>1. PICK keep, G, rest : keep = tick.keep /\ G = tick.group /\ rest = tick.rest \ {i}
  OBVIOUS
<1>2. /\ UNCHANGED <<dup, link>> /\ tick.pc = "close" /\ tick' = Toward(G, keep, rest)
      /\ status' \in [Ids -> Statuses] /\ Opened' = Opened
  BY <1>1, MoveKeeps DEF IInv, Close
<1>3. /\ keep \in Opened' /\ dup'[keep] = 0
      /\ rest \in SUBSET {j \in Opened' : keep < j}
  BY <1>1, <1>2 DEF IInv, TickSound
<1>4. TickSound'
  BY <1>2, <1>3, TurnsTo
<1> QED BY <1>2, <1>4, TablesKept DEF IInv

LEMMA LinkStep ==
    ASSUME IInv, Link
    PROVE  IInv'
<1>1. PICK keep : keep = tick.keep
  OBVIOUS
<1>2. /\ link' = [c \in Candidates |-> IF c \in tick.group THEN keep ELSE link[c]]
      /\ UNCHANGED <<status, dup>> /\ tick.pc = "link"
      /\ tick' = [pc |-> "life", todo |-> tick.todo, links |-> tick.links,
                  group |-> tick.group, keep |-> keep, read |-> status[keep]]
  BY <1>1 DEF Link
<1>3. keep \in Opened /\ dup[keep] = 0 /\ keep \in Ids
  BY <1>1, <1>2 DEF IInv, TickSound, Opened
<1>4. TypeOK' /\ EvidenceIsLive'
  BY <1>2, <1>3 DEF IInv, TypeOK, EvidenceIsLive, Opened
<1>5. DuplicatesOpened' /\ DuplicatesLeadToOlder'
  BY <1>2 DEF IInv, DuplicatesOpened, DuplicatesLeadToOlder, Opened
<1>6. /\ tick'.pc = "life" /\ tick'.links = tick.links /\ tick'.keep = keep
      /\ DOMAIN tick' = {"pc", "todo", "links", "group", "keep", "read"}
  BY <1>2
<1>7. TickSound'
  BY <1>2, <1>3, <1>6 DEF IInv, TickSound, Opened
<1> QED BY <1>4, <1>5, <1>7 DEF IInv

LEMMA ReopenStep ==
    ASSUME IInv, Reopen
    PROVE  IInv'
<1>1. /\ UNCHANGED <<dup, link>> /\ tick.pc = "life"
      /\ tick' = [tick EXCEPT !.pc = "forget"] /\ Move(tick.keep, "reopened")
  BY DEF Reopen
<1>2. tick.keep \in Ids
  BY <1>1 DEF IInv, TickSound, Opened
<1>3. status' \in [Ids -> Statuses] /\ Opened' = Opened
  BY <1>1, <1>2, MoveKeeps DEF IInv
<1>4. /\ tick'.pc = "forget" /\ tick'.links = tick.links /\ tick'.keep = tick.keep
      /\ DOMAIN tick' = DOMAIN tick
  BY <1>1 DEF IInv, TickSound
<1>5. TickSound'
  BY <1>1, <1>3, <1>4 DEF IInv, TickSound
<1> QED BY <1>1, <1>3, <1>5, TablesKept DEF IInv

LEMMA ForgetStep ==
    ASSUME IInv, Forget
    PROVE  IInv'
<1>1. /\ UNCHANGED <<status, dup, link>> /\ tick.pc = "forget"
      /\ tick' = [tick EXCEPT !.pc = "life", !.read = "reopened"]
  BY DEF Forget
<1>2. status' \in [Ids -> Statuses] /\ Opened' = Opened
  BY <1>1 DEF IInv, TypeOK, Opened
<1>3. /\ tick'.pc = "life" /\ tick'.links = tick.links /\ tick'.keep = tick.keep
      /\ DOMAIN tick' = DOMAIN tick
  BY <1>1 DEF IInv, TickSound
<1>4. TickSound'
  BY <1>1, <1>2, <1>3 DEF IInv, TickSound
<1> QED BY <1>1, <1>2, <1>4, TablesKept DEF IInv

\* The steps that end a group by moving its incident, or not.
LEMMA GroupEnds ==
    ASSUME IInv, UNCHANGED <<dup, link>>, tick.pc = "life",
           tick' = After(tick.group, tick.keep),
           status' = status \/ \E to \in Statuses : Move(tick.keep, to)
    PROVE  IInv'
<1>1. PICK G, keep : G = tick.group /\ keep = tick.keep
  OBVIOUS
<1>2. keep \in Opened /\ keep \in Ids
  BY <1>1 DEF IInv, TickSound, Opened
<1>3. status' \in [Ids -> Statuses] /\ Opened' = Opened
  <2>1. CASE status' = status
    BY <2>1 DEF IInv, TypeOK, Opened
  <2>2. ASSUME NEW to \in Statuses, Move(keep, to)
        PROVE  status' \in [Ids -> Statuses] /\ Opened' = Opened
    BY <1>2, <2>2, MoveKeeps DEF IInv
  <2> QED BY <1>1, <2>1, <2>2
<1>4. TickSound'
  BY <1>1, <1>2, <1>3, NextGroup
<1> QED BY <1>3, <1>4, TablesKept DEF IInv

LEMMA ResolveStep ==
    ASSUME IInv, Resolve
    PROVE  IInv'
BY GroupEnds DEF Resolve, Statuses

LEMMA EscalateStep ==
    ASSUME IInv, Escalate
    PROVE  IInv'
BY GroupEnds DEF Escalate, Statuses

LEMMA LeaveStep ==
    ASSUME IInv, Leave
    PROVE  IInv'
BY GroupEnds DEF Leave

LEMMA RefusedStep ==
    ASSUME IInv, Refused
    PROVE  IInv'
<1>1. UNCHANGED <<status, dup, link>> /\ tick' = Idle
  BY DEF Refused
<1> QED BY <1>1, TickEnds, TablesKept DEF IInv, TypeOK, Opened

LEMMA InitHolds == ASSUME Init PROVE IInv
<1>1. TypeOK
  BY DEF Init, TypeOK, Statuses
<1>2. TickSound
  BY DEF Init, TickSound, Idle
<1>3. DuplicatesOpened /\ EvidenceIsLive /\ DuplicatesLeadToOlder
  BY DEF Init, DuplicatesOpened, EvidenceIsLive, DuplicatesLeadToOlder
<1> QED BY <1>1, <1>2, <1>3 DEF IInv

LEMMA NextHolds ==
    ASSUME IInv, [Next]_vars
    PROVE  IInv'
<1>1. CASE Detectors
  BY <1>1, DetectStep, SeenAgainStep, SettleStep DEF Detectors
<1>2. CASE People
  BY <1>2, PersonMovesStep DEF People
<1>3. CASE Tick
  BY <1>3, StartStep, WatchStep, ChooseStep, OpenStep, MergeStep, CloseStep, LinkStep,
     ReopenStep, ForgetStep, ResolveStep, EscalateStep, LeaveStep, RefusedStep DEF Tick
<1>4. CASE UNCHANGED vars
  BY <1>4, SameTick DEF vars, IInv, TypeOK, Opened
<1> QED BY <1>1, <1>2, <1>3, <1>4, DiesStep DEF Next

\* The incidents, their links and what a tick carries between its commits fit
\* together in every reachable state (incident_service.py's sync).
THEOREM IncidentsInvariant == Spec => []IInv
<1>1. Init => IInv
  BY InitHolds
<1>2. IInv /\ [Next]_vars => IInv'
  BY NextHolds
<1> QED BY <1>1, <1>2, PTL DEF Spec

\* No commit, refusal, person or death leaves evidence with an incident that
\* was merged into another.
THEOREM EvidenceLive == Spec => []EvidenceIsLive
<1>1. IInv => EvidenceIsLive
  BY DEF IInv
<1> QED BY <1>1, IncidentsInvariant, PTL

\* Following duplicate_of ends, at an older incident, whatever was merged into
\* what in which tick.
THEOREM DuplicatesEnd == Spec => []DuplicatesLeadToOlder
<1>1. IInv => DuplicatesLeadToOlder
  BY DEF IInv
<1> QED BY <1>1, IncidentsInvariant, PTL
-----------------------------------------------------------------------------
(* TidyUnlessDied: what holds inside a tick that no process died in.       *)

Busy == tick.pc \in {"merge", "close", "link", "life", "forget"}

\* The groups still to come are disjoint and none is empty.
GroupsApart ==
    tick.pc # "idle" =>
        /\ \A G \in tick.todo : G # {} /\ G \subseteq Candidates
        /\ \A G, H \in tick.todo : G # H => G \cap H = {}
        /\ Busy => tick.group \in tick.todo

\* What the group in hand was linked to is kept, still to be merged, or a
\* duplicate.
GroupInHand ==
    /\ tick.pc \in {"merge", "close", "link"} =>
          \A c \in tick.group :
              \/ tick.links[c] = 0
              \/ tick.links[c] = tick.keep
              \/ dup[tick.links[c]] # 0
              \/ tick.links[c] \in tick.rest
    /\ tick.pc = "merge" => \A i \in tick.rest : dup[i] = 0
    /\ tick.pc = "close" => \A i, j \in tick.rest : Merged(i) /\ Merged(j) => i = j
    /\ tick.pc = "link" => tick.rest = {}

\* A link that the tick does not know of was made by an earlier group of it,
\* whose candidates stay where they are.
LinksKnown ==
    /\ tick.pc # "idle" =>
          \A c \in Candidates :
              link[c] # 0 /\ dup[link[c]] = 0 /\ tick.links[c] # link[c] =>
                  \/ Busy /\ link[c] = tick.keep
                  \/ \E d \in Candidates \ UNION tick.todo : link[d] = link[c]
    /\ tick.pc \in {"life", "forget"} => \A c \in tick.group : link[c] = tick.keep

\* Every incident has evidence, but for one opened a moment ago.
EvidenceOfEach ==
    \A i \in Opened : dup[i] = 0 =>
        (\E c \in Candidates : link[c] = i) \/ (tick.pc = "link" /\ tick.keep = i)

\* No duplicate is open, but for one merged a moment ago.
DuplicatesClosed ==
    \A i \in Ids : dup[i] # 0 /\ status[i] = "open" =>
        tick.pc = "close" /\ Merged(i)

Orderly ==
    GroupsApart /\ GroupInHand /\ LinksKnown /\ EvidenceOfEach /\ DuplicatesClosed

BondSeen ==
    /\ seen \in [Candidates -> {"none", "live", "clear", "settled"}]
    /\ bond \subseteq SUBSET Seen

TidyInv ==
    /\ IInv
    /\ BondSeen
    /\ deaths \in Nat
    /\ deaths = 0 => Orderly

\* Two groups of a tick are the same or have nothing in common: what is closed
\* under the links and what is left of the candidates seen are both closed.
LEMMA GroupsDisjoint ==
    ASSUME BondSeen, NEW c \in Seen, NEW d \in Seen, GroupOf(c) \cap GroupOf(d) # {}
    PROVE  GroupOf(c) = GroupOf(d)
<1> DEFINE Closed(S) == \A p \in bond : p \cap S # {} => p \subseteq S
<1>1. \A e, f \in Seen : f \in GroupOf(e) <=>
          \A S \in SUBSET Seen : e \in S /\ Closed(S) => f \in S
  BY DEF GroupOf
<1>2. \A S \in SUBSET Seen : Closed(S) => Closed(Seen \ S)
  <2> TAKE S \in SUBSET Seen
  <2> HAVE Closed(S)
  <2>1. \A p \in bond : p \subseteq Seen
    BY DEF BondSeen
  <2> QED BY <2>1
<1> HIDE DEF Closed
<1>3. \A e, f \in Seen : f \in GroupOf(e) => e \in GroupOf(f)
  <2> TAKE e, f \in Seen
  <2> HAVE f \in GroupOf(e)
  <2>1. \A S \in SUBSET Seen : f \in S /\ Closed(S) => e \in S
    <3> SUFFICES ASSUME NEW S \in SUBSET Seen, f \in S, Closed(S), e \notin S
                 PROVE  FALSE
      OBVIOUS
    <3>1. Closed(Seen \ S) /\ e \in Seen \ S /\ Seen \ S \in SUBSET Seen
      BY <1>2
    <3>2. f \in Seen \ S
      BY <1>1, <3>1
    <3> QED BY <3>2
  <2> QED BY <1>1, <2>1
<1>4. \A e, f \in Seen : f \in GroupOf(e) => GroupOf(f) \subseteq GroupOf(e)
  <2> SUFFICES ASSUME NEW e \in Seen, NEW f \in Seen, f \in GroupOf(e),
                      NEW g \in GroupOf(f)
               PROVE  g \in GroupOf(e)
    OBVIOUS
  <2>1. g \in Seen
    BY DEF GroupOf
  <2>2. \A S \in SUBSET Seen : e \in S /\ Closed(S) => g \in S
    BY <1>1, <2>1
  <2> QED BY <1>1, <2>1, <2>2
<1>5. PICK e \in GroupOf(c) : e \in GroupOf(d)
  OBVIOUS
<1>6. e \in Seen
  BY DEF GroupOf
<1> QED BY <1>3, <1>4, <1>5, <1>6

\* No transition opens an incident.
LEMMA MoveOpensNone ==
    ASSUME TypeOK, NEW i \in Ids, NEW to, Move(i, to)
    PROVE  \A j \in Ids : status'[j] = "open" => status[j] = "open" /\ j # i
<1>1. status[i] \in Statuses \ {"none"} /\ to \in AllowedTransitions[status[i]]
  BY DEF TypeOK, Move, Legal
<1>2. "open" \notin AllowedTransitions[status[i]]
  <2>1. CASE status[i] \in {"open", "reopened"}
    BY <2>1 DEF AllowedTransitions
  <2>2. CASE status[i] \in {"acknowledged", "investigating", "escalated", "resolved"}
    BY <2>2 DEF AllowedTransitions
  <2> QED BY <1>1, <2>1, <2>2 DEF Statuses
<1> QED BY <1>1, <1>2 DEF TypeOK, Move

LEMMA SameTidy ==
    ASSUME Orderly, UNCHANGED <<dup, link, tick>>, Opened' = Opened,
           \A j \in Ids : status'[j] = "open" => status[j] = "open"
    PROVE  Orderly'
<1>1. GroupsApart' /\ GroupInHand' /\ LinksKnown'
  BY DEF Orderly, GroupsApart, GroupInHand, LinksKnown, Busy, Merged
<1>2. EvidenceOfEach' /\ DuplicatesClosed'
  BY DEF Orderly, EvidenceOfEach, DuplicatesClosed, Merged
<1> QED BY <1>1, <1>2 DEF Orderly

\* Outside the moments the two exceptions name, a tick may end.
LEMMA EndsTidy ==
    ASSUME Orderly, UNCHANGED <<dup, link>>, Opened' = Opened, tick' = Idle,
           tick.pc # "link",
           \A j \in Ids : dup[j] # 0 => status'[j] # "open"
    PROVE  Orderly'
<1>1. GroupsApart' /\ GroupInHand' /\ LinksKnown'
  BY DEF GroupsApart, GroupInHand, LinksKnown, Idle
<1>2. EvidenceOfEach' /\ DuplicatesClosed'
  BY DEF Orderly, EvidenceOfEach, DuplicatesClosed
<1> QED BY <1>1, <1>2 DEF Orderly

\* A group is done: nothing, or its members linked to i.
LEMMA AfterTidy ==
    ASSUME IInv, Orderly, UNCHANGED <<dup, link>>, Opened' = Opened,
           \A j \in Ids : status'[j] = "open" => status[j] = "open",
           tick.pc \in {"group", "life"}, NEW G \in tick.todo, NEW i,
           tick.pc = "group" => i = 0,
           tick.pc = "life" => i = tick.keep /\ G = tick.group,
           tick' = After(G, i)
    PROVE  Orderly'
<1>1. \A j \in Ids : dup[j] # 0 => status'[j] # "open"
  BY DEF Orderly, DuplicatesClosed
<1>2. CASE tick' = Idle
  BY <1>1, <1>2, EndsTidy
<1>3. CASE tick' = [pc |-> "group", todo |-> tick.todo \ {G},
                    links |-> [c \in Candidates |->
                                 IF c \in G /\ i # 0 THEN i ELSE tick.links[c]]]
  <2>1. tick'.pc = "group" /\ tick'.todo = tick.todo \ {G}
    BY <1>3
  <2>2. \A c \in Candidates :
            tick'.links[c] = IF c \in G /\ i # 0 THEN i ELSE tick.links[c]
    BY <1>3
  <2>3. GroupsApart'
    BY <2>1 DEF Orderly, GroupsApart, Busy
  <2>4. GroupInHand'
    BY <2>1 DEF GroupInHand
  <2>5. EvidenceOfEach' /\ DuplicatesClosed'
    BY <1>1, <2>1 DEF Orderly, EvidenceOfEach, DuplicatesClosed
  <2>6. LinksKnown'
    <3> SUFFICES ASSUME NEW c \in Candidates, link[c] # 0, dup[link[c]] = 0,
                        tick'.links[c] # link[c]
                 PROVE  \E d \in Candidates \ UNION (tick.todo \ {G}) : link[d] = link[c]
      BY <2>1 DEF LinksKnown
    <3>1. CASE tick.pc = "life" /\ link[c] = i
      <4>1. /\ G # {} /\ G \subseteq Candidates
            /\ \A H \in tick.todo \ {G} : G \cap H = {}
        BY DEF Orderly, GroupsApart
      <4>2. PICK d \in G : TRUE
        BY <4>1
      <4>3. d \in Candidates \ UNION (tick.todo \ {G})
        BY <4>1, <4>2
      <4>4. link[d] = i
        BY <3>1, <4>2 DEF Orderly, LinksKnown
      <4> QED BY <3>1, <4>3, <4>4
    <3>2. CASE ~(tick.pc = "life" /\ link[c] = i)
      <4>1. ~(Busy /\ link[c] = tick.keep)
        BY <3>2 DEF Busy
      <4>2. tick.links[c] # link[c]
        <5>1. CASE c \in G /\ i # 0
          <6>1. tick.pc = "life"
            BY <5>1
          <6>2. link[c] = i
            BY <5>1, <6>1 DEF Orderly, LinksKnown
          <6> QED BY <3>2, <6>1, <6>2
        <5>2. CASE ~(c \in G /\ i # 0)
          BY <2>2, <5>2
        <5> QED BY <5>1, <5>2
      <4>3. PICK d \in Candidates \ UNION tick.todo : link[d] = link[c]
        BY <4>1, <4>2 DEF Orderly, LinksKnown
      <4>4. d \in Candidates \ UNION (tick.todo \ {G})
        BY <4>3
      <4> QED BY <4>3, <4>4
    <3> QED BY <3>1, <3>2
  <2> QED BY <2>3, <2>4, <2>5, <2>6 DEF Orderly
<1> QED BY <1>2, <1>3 DEF After

\* The tick turns to an incident: its group stays in hand.
LEMMA TowardTidy ==
    ASSUME Orderly, NEW G \in tick.todo, NEW i, NEW rest,
           tick.pc # "idle", tick' = Toward(G, i, rest)
    PROVE  /\ tick'.pc \in {"link", "merge"} /\ (tick'.pc = "link" <=> rest = {})
           /\ tick'.todo = tick.todo /\ tick'.links = tick.links
           /\ tick'.group = G /\ tick'.keep = i /\ tick'.rest = rest
           /\ Busy' /\ GroupsApart'
<1>1. /\ tick'.pc \in {"link", "merge"} /\ (tick'.pc = "link" <=> rest = {})
      /\ tick'.todo = tick.todo /\ tick'.links = tick.links
      /\ tick'.group = G /\ tick'.keep = i /\ tick'.rest = rest
  BY DEF Toward, On
<1>2. Busy'
  BY <1>1 DEF Busy
<1>3. GroupsApart'
  BY <1>1 DEF Orderly, GroupsApart
<1> QED BY <1>1, <1>2, <1>3

LEMMA StartTidy ==
    ASSUME BondSeen, Orderly, Start
    PROVE  Orderly'
<1>1. /\ tick'.pc = "group" /\ tick'.links = link
      /\ tick'.todo = {GroupOf(c) : c \in Seen} /\ ~Busy'
      /\ UNCHANGED <<status, dup, link>> /\ tick.pc = "idle"
  BY DEF Start, Busy, Idle
<1>2. \A c \in Seen : c \in GroupOf(c) /\ GroupOf(c) \subseteq Candidates
  BY DEF GroupOf, Seen
<1>3. GroupsApart'
  <2>1. ASSUME NEW G \in tick'.todo PROVE G # {} /\ G \subseteq Candidates
    BY <1>1, <1>2
  <2>2. ASSUME NEW G \in tick'.todo, NEW H \in tick'.todo, G # H
        PROVE  G \cap H = {}
    <3>1. PICK c \in Seen : G = GroupOf(c)
      BY <1>1
    <3>2. PICK d \in Seen : H = GroupOf(d)
      BY <1>1
    <3> QED BY <2>2, <3>1, <3>2, GroupsDisjoint
  <2> QED BY <1>1, <2>1, <2>2 DEF GroupsApart
<1>4. GroupInHand' /\ LinksKnown'
  BY <1>1 DEF GroupInHand, LinksKnown
<1>5. EvidenceOfEach' /\ DuplicatesClosed'
  BY <1>1 DEF Orderly, EvidenceOfEach, DuplicatesClosed, Opened
<1> QED BY <1>3, <1>4, <1>5 DEF Orderly

LEMMA OpenTidy ==
    ASSUME IInv, Orderly, NEW G \in SUBSET Candidates, NEW i \in Ids, Open(G, i)
    PROVE  Orderly'
<1>1. /\ UNCHANGED <<dup, link>> /\ status' = [status EXCEPT ![i] = "open"]
      /\ tick' = Toward(G, i, {}) /\ tick.pc = "group" /\ i \notin Opened
      /\ G \in tick.todo /\ Live(G) = {}
  BY DEF Open
<1>2. /\ tick'.pc = "link" /\ tick'.todo = tick.todo /\ tick'.links = tick.links
      /\ tick'.group = G /\ tick'.keep = i /\ tick'.rest = {}
      /\ Busy' /\ GroupsApart'
  BY <1>1, TowardTidy
<1>3. GroupInHand'
  <2>1. \A c \in G : tick.links[c] = 0 \/ dup[tick.links[c]] # 0
    BY <1>1 DEF Live
  <2> QED BY <1>1, <1>2, <2>1 DEF GroupInHand
<1>4. LinksKnown'
  BY <1>1, <1>2 DEF Orderly, LinksKnown, Busy
<1>5. EvidenceOfEach'
  <2>1. Opened' \subseteq Opened \cup {i}
    BY <1>1 DEF IInv, TypeOK, Opened
  <2> QED BY <1>1, <1>2, <2>1 DEF Orderly, EvidenceOfEach
<1>6. DuplicatesClosed'
  <2>1. dup[i] = 0
    BY <1>1 DEF IInv, DuplicatesOpened
  <2> QED BY <1>1, <2>1 DEF IInv, TypeOK, Orderly, DuplicatesClosed
<1> QED BY <1>2, <1>3, <1>4, <1>5, <1>6 DEF Orderly

LEMMA ChooseTidy ==
    ASSUME Orderly, NEW G \in SUBSET Candidates, Choose(G)
    PROVE  Orderly'
<1>1. PICK keep, rest : /\ rest = Live(G) \ {keep}
                        /\ tick' = Toward(G, keep, rest)
  BY DEF Choose
<1>2. UNCHANGED <<status, dup, link>> /\ tick.pc = "group" /\ G \in tick.todo
  BY DEF Choose
<1>3. /\ tick'.pc \in {"link", "merge"} /\ (tick'.pc = "link" => rest = {})
      /\ tick'.todo = tick.todo /\ tick'.links = tick.links
      /\ tick'.group = G /\ tick'.keep = keep /\ tick'.rest = rest
      /\ Busy' /\ GroupsApart'
  <2>1. tick' = Toward(G, keep, rest)
    BY <1>1
  <2> QED BY <1>2, <2>1, TowardTidy
<1>4. GroupInHand'
  <2>1. \A c \in G : \/ tick.links[c] = 0 \/ dup[tick.links[c]] # 0
                     \/ tick.links[c] = keep \/ tick.links[c] \in rest
    BY <1>1 DEF Live
  <2>2. \A j \in rest : dup[j] = 0
    BY <1>1 DEF Live
  <2> QED BY <1>2, <1>3, <2>1, <2>2 DEF GroupInHand
<1>5. LinksKnown'
  BY <1>2, <1>3 DEF Orderly, LinksKnown, Busy
<1>6. EvidenceOfEach' /\ DuplicatesClosed'
  BY <1>2, <1>3 DEF Orderly, EvidenceOfEach, DuplicatesClosed, Opened
<1> QED BY <1>3, <1>4, <1>5, <1>6 DEF Orderly

LEMMA MergeTidy ==
    ASSUME IInv, Orderly, NEW i \in Ids, Merge(i)
    PROVE  Orderly'
<1>1. PICK keep, G, S : keep = tick.keep /\ G = tick.group /\ S = tick.rest
  OBVIOUS
<1>2. /\ dup' = [dup EXCEPT ![i] = keep] /\ i \in S
      /\ link' = [c \in Candidates |-> IF link[c] = i THEN keep ELSE link[c]]
      /\ status' = status /\ tick.pc = "merge" /\ Busy /\ Opened' = Opened
  BY <1>1 DEF Merge, Busy, Opened
<1>3. /\ keep \in Ids /\ keep # i /\ keep # 0 /\ dup[keep] = 0 /\ S \in SUBSET Ids
      /\ G \in tick.todo
  <2>1. keep \in Opened /\ dup[keep] = 0 /\ S \subseteq {j \in Opened : keep < j}
    BY <1>1, <1>2 DEF IInv, TickSound
  <2>2. G \in tick.todo
    BY <1>1, <1>2 DEF Orderly, GroupsApart
  <2> QED BY <1>2, <2>1, <2>2, IdsAre DEF Opened
<1>4. \A j \in Ids : dup'[j] = IF j = i THEN keep ELSE dup[j]
  BY <1>2, <1>3 DEF IInv, TypeOK
<1>5. \A c \in Candidates : link'[c] = IF link[c] = i THEN keep ELSE link[c]
  BY <1>2
<1>6. /\ tick'.pc \in {"link", "merge", "close"} /\ tick'.todo = tick.todo
      /\ tick'.links = tick.links /\ tick'.group = G /\ tick'.keep = keep
      /\ tick'.pc = "close" => tick'.rest = S
      /\ tick'.pc # "close" => tick'.rest = S \ {i} /\ status[i] = "resolved"
      /\ tick'.pc = "link" => tick'.rest = {}
      /\ Busy' /\ GroupsApart'
  <2>1. CASE status[i] = "resolved"
    <3>1. PICK rest : rest = S \ {i}
      OBVIOUS
    <3>2. tick' = Toward(G, keep, rest)
      BY <1>1, <2>1, <3>1 DEF Merge
    <3> QED BY <1>2, <1>3, <2>1, <3>1, <3>2, TowardTidy
  <2>2. CASE status[i] # "resolved"
    <3>1. tick' = [tick EXCEPT !.pc = "close"]
      BY <2>2 DEF Merge
    <3>2. /\ tick'.pc = "close" /\ tick'.todo = tick.todo /\ tick'.links = tick.links
          /\ tick'.group = G /\ tick'.keep = keep /\ tick'.rest = S
      BY <1>1, <1>2, <3>1 DEF IInv, TickSound
    <3> QED BY <1>2, <1>3, <3>2 DEF Orderly, GroupsApart, Busy
  <2> QED BY <2>1, <2>2
<1>7. GroupInHand'
  <2>1. ASSUME NEW c \in G
        PROVE  \/ tick.links[c] = 0 \/ tick.links[c] = keep
               \/ dup'[tick.links[c]] # 0 \/ tick.links[c] \in tick'.rest
    <3>1. \/ tick.links[c] = 0 \/ tick.links[c] = keep
          \/ dup[tick.links[c]] # 0 \/ tick.links[c] \in S
      BY <1>1, <1>2 DEF Orderly, GroupInHand
    <3>2. c \in Candidates
      BY <1>2, <1>3 DEF Orderly, GroupsApart
    <3>3. tick.links[c] \in Ids \cup {0}
      BY <1>2, <3>2 DEF IInv, TickSound
    <3> QED BY <1>3, <1>4, <1>6, <3>1, <3>3
  <2>2. \A j \in S : dup'[j] # 0 <=> j = i
    BY <1>1, <1>2, <1>3, <1>4 DEF Orderly, GroupInHand
  <2> QED BY <1>6, <2>1, <2>2 DEF GroupInHand, Merged
<1>8. LinksKnown'
  <2> SUFFICES ASSUME NEW c \in Candidates, link'[c] # keep, link'[c] # 0,
                      dup'[link'[c]] = 0, tick.links[c] # link'[c]
               PROVE  \E d \in Candidates \ UNION tick.todo : link'[d] = link'[c]
    BY <1>6 DEF LinksKnown, Busy
  <2>1. link'[c] = link[c] /\ link[c] # i /\ link[c] \in Ids
    BY <1>5 DEF IInv, TypeOK
  <2>2. dup[link[c]] = 0
    BY <1>4, <2>1
  <2>3. PICK d \in Candidates \ UNION tick.todo : link[d] = link[c]
    BY <1>1, <1>2, <2>1, <2>2 DEF Orderly, LinksKnown
  <2> QED BY <1>5, <2>1, <2>3
<1>9. EvidenceOfEach'
  <2> SUFFICES ASSUME NEW j \in Opened, dup'[j] = 0
               PROVE  \E c \in Candidates : link'[c] = j
    BY <1>2 DEF EvidenceOfEach
  <2>1. j \in Ids /\ j # i /\ dup[j] = 0
    BY <1>3, <1>4 DEF Opened
  <2>2. PICK c \in Candidates : link[c] = j
    BY <1>2, <2>1 DEF Orderly, EvidenceOfEach
  <2> QED BY <1>5, <2>1, <2>2
<1>10. DuplicatesClosed'
  <2> SUFFICES ASSUME NEW j \in Ids, dup'[j] # 0, status[j] = "open"
               PROVE  tick'.pc = "close" /\ j \in S
    BY <1>2, <1>6 DEF DuplicatesClosed, Merged
  <2>1. j = i
    BY <1>2, <1>4 DEF Orderly, DuplicatesClosed
  <2> QED BY <1>2, <1>6, <2>1
<1> QED BY <1>6, <1>7, <1>8, <1>9, <1>10 DEF Orderly

LEMMA CloseTidy ==
    ASSUME IInv, Orderly, NEW i \in Ids, Close(i)
    PROVE  Orderly'
<1>1. PICK keep, G, S, rest : /\ keep = tick.keep /\ G = tick.group /\ S = tick.rest
                              /\ rest = S \ {i}
  OBVIOUS
<1>2. /\ UNCHANGED <<dup, link>> /\ tick.pc = "close" /\ Busy
      /\ tick' = Toward(G, keep, rest) /\ i \in S /\ dup[i] # 0 /\ Move(i, "resolved")
  BY <1>1 DEF Close, Merged, Busy
<1>3. G \in tick.todo /\ S \in SUBSET Ids
  BY <1>1, <1>2 DEF IInv, TickSound, Opened, Orderly, GroupsApart
<1>4. /\ Opened' = Opened
      /\ \A j \in Ids : status'[j] = "open" => status[j] = "open" /\ j # i
  BY <1>2, MoveKeeps, MoveOpensNone DEF IInv
<1>5. /\ tick'.pc \in {"link", "merge"} /\ (tick'.pc = "link" <=> rest = {})
      /\ tick'.todo = tick.todo /\ tick'.links = tick.links
      /\ tick'.group = G /\ tick'.keep = keep /\ tick'.rest = rest
      /\ Busy' /\ GroupsApart'
  BY <1>2, <1>3, TowardTidy
<1>6. GroupInHand'
  <2>1. \A j \in rest : dup[j] = 0
    BY <1>1, <1>2 DEF Orderly, GroupInHand, Merged
  <2>2. ASSUME NEW c \in G
        PROVE  \/ tick.links[c] = 0 \/ tick.links[c] = keep
               \/ dup[tick.links[c]] # 0 \/ tick.links[c] \in rest
    BY <1>1, <1>2 DEF Orderly, GroupInHand
  <2> QED BY <1>2, <1>5, <2>1, <2>2 DEF GroupInHand
<1>7. LinksKnown'
  <2>1. /\ tick.pc # "idle" /\ Busy' /\ tick'.pc \notin {"life", "forget"}
        /\ tick'.keep = tick.keep /\ tick'.todo = tick.todo /\ tick'.links = tick.links
    BY <1>1, <1>2, <1>5
  <2> QED BY <1>2, <2>1 DEF Orderly, LinksKnown
<1>8. EvidenceOfEach'
  BY <1>2, <1>4 DEF Orderly, EvidenceOfEach
<1>9. DuplicatesClosed'
  <2> SUFFICES ASSUME NEW j \in Ids, dup[j] # 0, status'[j] = "open"
               PROVE  FALSE
    BY <1>2 DEF DuplicatesClosed
  <2>1. Merged(j) /\ j # i
    BY <1>4 DEF Orderly, DuplicatesClosed
  <2>2. Merged(i)
    BY <1>1, <1>2 DEF Merged
  <2> QED BY <1>2, <2>1, <2>2 DEF Orderly, GroupInHand, Merged
<1> QED BY <1>5, <1>6, <1>7, <1>8, <1>9 DEF Orderly

\* What the group took from other incidents was known to the tick, and merged,
\* so that each of the others has evidence in an earlier group.
LEMMA LinkTidy ==
    ASSUME IInv, Orderly, Link
    PROVE  Orderly'
<1>1. PICK keep, G : keep = tick.keep /\ G = tick.group
  OBVIOUS
<1>2. /\ link' = [c \in Candidates |-> IF c \in G THEN keep ELSE link[c]]
      /\ UNCHANGED <<status, dup>> /\ tick.pc = "link" /\ Busy /\ Opened' = Opened
      /\ tick'.pc = "life" /\ tick'.todo = tick.todo /\ tick'.links = tick.links
      /\ tick'.group = G /\ tick'.keep = keep
  BY <1>1 DEF Link, Busy, Opened
<1>3. /\ G \in tick.todo /\ G # {} /\ G \subseteq Candidates
      /\ \A c \in G : \/ tick.links[c] = 0 \/ tick.links[c] = keep
                      \/ dup[tick.links[c]] # 0
  BY <1>1, <1>2 DEF Orderly, GroupsApart, GroupInHand
<1>4. \A c \in Candidates : link'[c] = IF c \in G THEN keep ELSE link[c]
  BY <1>2
<1>5. GroupsApart' /\ GroupInHand' /\ DuplicatesClosed'
  <2>1. GroupsApart'
    BY <1>2, <1>3 DEF Orderly, GroupsApart
  <2>2. GroupInHand' /\ DuplicatesClosed'
    BY <1>2 DEF Orderly, GroupInHand, DuplicatesClosed
  <2> QED BY <2>1, <2>2
<1>6. ASSUME NEW c \in Candidates, link[c] # 0, link[c] # keep, dup[link[c]] = 0,
             c \in G \/ tick.links[c] # link[c]
      PROVE  \E d \in Candidates \ UNION tick.todo : link'[d] = link[c]
  <2>1. tick.links[c] # link[c]
    BY <1>3, <1>6
  <2>2. PICK d \in Candidates \ UNION tick.todo : link[d] = link[c]
    BY <1>1, <1>2, <1>6, <2>1 DEF Orderly, LinksKnown
  <2> QED BY <1>3, <1>4, <2>2
<1>7. LinksKnown'
  <2>1. ASSUME NEW c \in Candidates, link'[c] # 0, dup[link'[c]] = 0,
               tick.links[c] # link'[c], link'[c] # keep
        PROVE  \E d \in Candidates \ UNION tick.todo : link'[d] = link'[c]
    <3>1. link'[c] = link[c]
      BY <1>4, <2>1
    <3> QED BY <1>6, <2>1, <3>1
  <2> QED BY <1>2, <1>3, <1>4, <2>1 DEF LinksKnown, Busy
<1>8. EvidenceOfEach'
  <2> SUFFICES ASSUME NEW j \in Opened, dup[j] = 0
               PROVE  \E c \in Candidates : link'[c] = j
    BY <1>2 DEF EvidenceOfEach
  <2>1. CASE j = keep
    <3>1. PICK c \in G : TRUE
      BY <1>3
    <3> QED BY <1>3, <1>4, <2>1, <3>1
  <2>2. CASE j # keep
    <3>1. PICK c \in Candidates : link[c] = j
      BY <1>1, <2>2 DEF Orderly, EvidenceOfEach
    <3>2. CASE c \in G
      <4>1. link[c] # 0
        BY <3>1, IdsAre DEF Opened
      <4> QED BY <1>6, <2>2, <3>1, <3>2, <4>1
    <3>3. CASE c \notin G
      BY <1>4, <3>1, <3>3
    <3> QED BY <3>2, <3>3
  <2> QED BY <2>1, <2>2
<1> QED BY <1>5, <1>7, <1>8 DEF Orderly

LEMMA ReopenTidy ==
    ASSUME IInv, Orderly, Reopen
    PROVE  Orderly'
<1>1. /\ UNCHANGED <<dup, link>> /\ tick.pc = "life" /\ Move(tick.keep, "reopened")
      /\ tick' = [tick EXCEPT !.pc = "forget"]
  BY DEF Reopen
<1>2. tick.keep \in Ids
  BY <1>1 DEF IInv, TickSound, Opened
<1>3. /\ Opened' = Opened
      /\ \A j \in Ids : status'[j] = "open" => status[j] = "open"
  BY <1>1, <1>2, MoveKeeps, MoveOpensNone DEF IInv
<1>4. /\ tick'.pc = "forget" /\ tick'.todo = tick.todo /\ tick'.links = tick.links
      /\ tick'.group = tick.group /\ tick'.keep = tick.keep
  BY <1>1 DEF IInv, TickSound
<1>5. GroupsApart' /\ GroupInHand' /\ LinksKnown'
  BY <1>1, <1>4 DEF Orderly, GroupsApart, GroupInHand, LinksKnown, Busy
<1>6. EvidenceOfEach' /\ DuplicatesClosed'
  BY <1>1, <1>3, <1>4 DEF Orderly, EvidenceOfEach, DuplicatesClosed
<1> QED BY <1>5, <1>6 DEF Orderly

LEMMA ForgetTidy ==
    ASSUME IInv, Orderly, Forget
    PROVE  Orderly'
<1>1. /\ UNCHANGED <<status, dup, link>> /\ tick.pc = "forget" /\ Opened' = Opened
      /\ tick' = [tick EXCEPT !.pc = "life", !.read = "reopened"]
  BY DEF Forget, Opened
<1>2. /\ tick'.pc = "life" /\ tick'.todo = tick.todo /\ tick'.links = tick.links
      /\ tick'.group = tick.group /\ tick'.keep = tick.keep
  BY <1>1 DEF IInv, TickSound
<1>3. GroupsApart' /\ GroupInHand' /\ LinksKnown'
  BY <1>1, <1>2 DEF Orderly, GroupsApart, GroupInHand, LinksKnown, Busy
<1>4. EvidenceOfEach' /\ DuplicatesClosed'
  BY <1>1, <1>2 DEF Orderly, EvidenceOfEach, DuplicatesClosed
<1> QED BY <1>3, <1>4 DEF Orderly

\* The steps that end a group by moving its incident, or not.
LEMMA GroupEndsTidy ==
    ASSUME IInv, Orderly, UNCHANGED <<dup, link>>, tick.pc = "life",
           tick' = After(tick.group, tick.keep),
           status' = status \/ \E to \in Statuses : Move(tick.keep, to)
    PROVE  Orderly'
<1>1. PICK G, keep : G = tick.group /\ keep = tick.keep
  OBVIOUS
<1>2. keep \in Ids /\ G \in tick.todo
  BY <1>1 DEF IInv, TickSound, Opened, Orderly, GroupsApart, Busy
<1>3. /\ Opened' = Opened
      /\ \A j \in Ids : status'[j] = "open" => status[j] = "open"
  <2>1. CASE status' = status
    BY <2>1 DEF Opened
  <2>2. ASSUME NEW to \in Statuses, Move(keep, to)
        PROVE  /\ Opened' = Opened
               /\ \A j \in Ids : status'[j] = "open" => status[j] = "open"
    BY <1>2, <2>2, MoveKeeps, MoveOpensNone DEF IInv
  <2> QED BY <1>1, <2>1, <2>2
<1> QED BY <1>1, <1>2, <1>3, AfterTidy

LEMMA RefusedTidy ==
    ASSUME IInv, Orderly, Refused
    PROVE  Orderly'
<1>1. UNCHANGED <<status, dup, link>> /\ tick' = Idle /\ tick.pc \in {"close", "life"}
  BY DEF Refused
<1>2. Opened' = Opened
  BY <1>1 DEF Opened
<1>3. ASSUME NEW j \in Ids, dup[j] # 0, status[j] = "open"
      PROVE  FALSE
  <2>1. tick.pc = "close" /\ Merged(j)
    BY <1>3 DEF Orderly, DuplicatesClosed
  <2>2. PICK i \in tick.rest : Merged(i) /\ status[i] = "resolved"
    BY <2>1 DEF Refused
  <2>3. i = j
    BY <2>1, <2>2 DEF Orderly, GroupInHand, Merged
  <2> QED BY <1>3, <2>2, <2>3
<1> QED BY <1>1, <1>2, <1>3, EndsTidy

LEMMA TickTidy ==
    ASSUME IInv, BondSeen, Orderly, Tick
    PROVE  Orderly'
<1>1. ASSUME NEW G \in SUBSET Candidates, Watch(G) PROVE Orderly'
  BY <1>1, AfterTidy DEF Watch, Opened
<1>2. CASE Resolve \/ Escalate \/ Leave
  BY <1>2, GroupEndsTidy DEF Resolve, Escalate, Leave, Statuses
<1> QED BY <1>1, <1>2, StartTidy, ChooseTidy, OpenTidy, MergeTidy, CloseTidy, LinkTidy,
           ReopenTidy, ForgetTidy, RefusedTidy DEF Tick

LEMMA BondStep ==
    ASSUME BondSeen, [Next]_vars
    PROVE  BondSeen'
<1>1. ASSUME NEW c \in Candidates, NEW s \in {"live", "clear"}, Detect(c, s)
      PROVE  BondSeen'
  <2>1. PICK B \in SUBSET {p \in Near : c \in p /\ p \subseteq Seen \cup {c}} :
          bond' = {p \in bond : c \notin p} \cup B
    BY <1>1 DEF Detect
  <2>2. seen' = [seen EXCEPT ![c] = s]
    BY <1>1 DEF Detect
  <2>3. Seen' = Seen \cup {c}
    BY <2>2 DEF BondSeen, Seen
  <2> QED BY <2>1, <2>2, <2>3 DEF BondSeen
<1>2. ASSUME NEW c \in Candidates, SeenAgain(c)
      PROVE  BondSeen'
  <2>1. PICK d \in Seen \ {c} : bond' = bond \cup {{c, d}}
    BY <1>2 DEF SeenAgain
  <2>2. Seen' = Seen /\ c \in Seen /\ seen' = seen
    BY <1>2 DEF SeenAgain, Seen
  <2> QED BY <2>1, <2>2 DEF BondSeen
<1>3. ASSUME NEW c \in Candidates, Settle(c)
      PROVE  BondSeen'
  <2>1. seen' = [seen EXCEPT ![c] = "settled"] /\ bond' = bond /\ seen[c] = "clear"
    BY <1>3 DEF Settle
  <2>2. Seen' = Seen
    BY <2>1 DEF BondSeen, Seen
  <2> QED BY <2>1, <2>2 DEF BondSeen
<1>4. CASE UNCHANGED evidence
  BY <1>4 DEF BondSeen, evidence, Seen
<1>5. People \/ Tick \/ Dies \/ UNCHANGED vars => UNCHANGED evidence
  BY DEF People, PersonMoves, Tick, Dies, vars, Start, Watch, Open, Choose, Merge, Close,
         Link, Reopen, Forget, Resolve, Escalate, Refused, Leave
<1> QED BY <1>1, <1>2, <1>3, <1>4, <1>5 DEF Next, Detectors

LEMMA TidyStep ==
    ASSUME TidyInv, [Next]_vars
    PROVE  TidyInv'
<1>1. IInv' /\ BondSeen'
  BY NextHolds, BondStep DEF TidyInv
<1>2. deaths' \in Nat /\ (Dies \/ deaths' = deaths) /\ (Dies => deaths' # 0)
  <2>1. Dies => deaths' = deaths + 1
    BY DEF Dies
  <2>2. Next \/ UNCHANGED vars => Dies \/ deaths' = deaths
    BY DEF Next, Detectors, Detect, SeenAgain, Settle, People, PersonMoves, Tick, vars,
           bounds, Start, Watch, Open, Choose, Merge, Close, Link, Reopen, Forget,
           Resolve, Escalate, Refused, Leave
  <2> QED BY <2>1, <2>2 DEF TidyInv
<1>3. ASSUME deaths' = 0 PROVE Orderly'
  <2>1. IInv /\ BondSeen /\ Orderly /\ ~Dies
    BY <1>2, <1>3 DEF TidyInv
  <2>2. CASE Detectors \/ UNCHANGED vars
    <3>1. UNCHANGED <<dup, link, tick, status>>
      BY <2>2 DEF Detectors, Detect, SeenAgain, Settle, vars
    <3> QED BY <2>1, <3>1, SameTidy DEF Opened
  <2>3. CASE People
    <3>1. PICK i \in Ids, to \in DOMAIN AllowedTransitions : PersonMoves(i, to)
      BY <2>3 DEF People
    <3>2. UNCHANGED <<dup, link, tick>> /\ Move(i, to)
      BY <3>1 DEF PersonMoves
    <3> QED BY <2>1, <3>2, SameTidy, MoveKeeps, MoveOpensNone DEF IInv
  <2>4. CASE Tick
    BY <2>1, <2>4, TickTidy
  <2> QED BY <2>1, <2>2, <2>3, <2>4 DEF Next
<1> QED BY <1>1, <1>2, <1>3 DEF TidyInv

LEMMA TidyInit == ASSUME Init PROVE TidyInv
<1>1. Orderly
  <2>1. tick.pc = "idle" /\ Opened = {} /\ \A i \in Ids : dup[i] = 0
    BY DEF Init, Idle, Opened
  <2> QED BY <2>1 DEF Orderly, GroupsApart, GroupInHand, LinksKnown, EvidenceOfEach,
                      DuplicatesClosed
<1>2. BondSeen /\ deaths \in Nat
  BY DEF Init, BondSeen
<1> QED BY <1>1, <1>2, InitHolds DEF TidyInv

\* As long as no process died, every incident has its evidence or is a closed
\* duplicate between two ticks, also after a tick that was given up.
THEOREM TidyBetweenTicks == Spec => []TidyUnlessDied
<1>1. Init => TidyInv
  BY TidyInit
<1>2. TidyInv /\ [Next]_vars => TidyInv'
  BY TidyStep
<1>3. TidyInv => TidyUnlessDied
  <2>1. tick = Idle => tick.pc = "idle"
    BY DEF Idle
  <2>2. Orderly /\ tick = Idle => /\ \A i \in Opened : dup[i] = 0 =>
                                         \E c \in Candidates : link[c] = i
                                  /\ \A i \in Ids : dup[i] # 0 => status[i] # "open"
    BY <2>1 DEF Orderly, EvidenceOfEach, DuplicatesClosed
  <2> QED BY <2>2 DEF TidyInv, TidyUnlessDied, Opened
<1> QED BY <1>1, <1>2, <1>3, PTL DEF Spec
=============================================================================
