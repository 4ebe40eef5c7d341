--------------------------- MODULE IngestionProofs ---------------------------
(***************************************************************************)
(* Proofs about Ingestion for any events, batch size and length of the     *)
(* log.  What a transaction writes is characterised once, in WriteEffect;  *)
(* the invariant and the refinement of Telemetry both rest on it.  The     *)
(* last part is about Delivery: Uplink and Ingestion end to end.           *)
(***************************************************************************)
EXTENDS Delivery, FiniteSetTheorems, WellFoundedInduction, TLAPS

USE IngestionAssumption

Settled(e) == Answered(e) \/ e \in skipped

\* Where the loop is says what has been settled.
LoopSound ==
    /\ mode = "batch" => done = offset
    /\ mode = "commit" => done = upto
    /\ mode \in {"single", "commit"} => \A i \in 1..done : Settled(log[i])

\* A rejection names what is true of the event for good.
RejectionsSound ==
    \A e \in Events :
        /\ <<e, "schema_invalid">> \in rejections => e \in Malformed
        /\ <<e, "unknown_device">> \in rejections => e \in Late

\* What is recorded was in the log, under its own id.
KeptInLog ==
    \A id \in Ids : table[id] # None =>
        /\ Id[table[id]] = id
        /\ \E i \in 1..Len(log) : log[i] = table[id]

IInv ==
    /\ TypeOK
    /\ LoopSound
    /\ OffsetIsSettled
    /\ ConflictsAreTrue
    /\ RejectionsSound
    /\ KeptInLog
    /\ FirstWins
-----------------------------------------------------------------------------
\* Of the acceptable messages of a transaction under one id one is the first.
LEMMA Least ==
    ASSUME NEW S \in SUBSET Nat, S # {}
    PROVE  \E n \in S : \A m \in S : n <= m
<1> DEFINE R == OpToRel(<, Nat)
<1>1. IsWellFoundedOn(R, Nat)
  BY NatLessThanWellFounded
<1>2. \A x, y \in Nat : x < y => <<x, y>> \in R
  BY DEF OpToRel
<1> HIDE DEF R
<1>3. PICK n \in S : \A m \in S : ~ (<<m, n>> \in R)
  BY <1>1, WFMin, Zenon
<1>4. \A m \in S : ~ (m < n)
  <2> TAKE m \in S
  <2>1. m \in Nat /\ n \in Nat
    OBVIOUS
  <2>2. m < n => <<m, n>> \in R
    BY <1>2, <2>1, Zenon
  <2> QED BY <2>2, <1>3, Zenon
<1> QED BY <1>4

LEMMA FirstExists ==
    ASSUME log \in Seq(Events), NEW lo \in Nat, NEW hi \in 0..Len(log)
    PROVE  \A i \in (lo + 1)..hi :
              Acceptable(log[i]) => \E k \in Firsts(lo, hi) : Id[log[k]] = Id[log[i]]
<1> SUFFICES ASSUME NEW i \in (lo + 1)..hi, Acceptable(log[i])
             PROVE  \E k \in Firsts(lo, hi) : Id[log[k]] = Id[log[i]]
  OBVIOUS
<1> DEFINE S == {j \in (lo + 1)..hi : Acceptable(log[j]) /\ Id[log[j]] = Id[log[i]]}
<1>1. S \in SUBSET Nat /\ S # {}
  OBVIOUS
<1>2. PICK k \in S : \A j \in S : k <= j
  BY <1>1, Least
<1>3. k \in Firsts(lo, hi)
  BY <1>2 DEF Firsts
<1> QED BY <1>2, <1>3

LEMMA FirstUnique ==
    ASSUME NEW lo \in Nat, NEW hi \in Nat,
           NEW j \in Firsts(lo, hi), NEW k \in Firsts(lo, hi),
           Id[log[j]] = Id[log[k]]
    PROVE  j = k
BY DEF Firsts

\* What Write(lo, hi) does to the tables.
WriteFacts(lo, hi) ==
    /\ table' \in [Ids -> Events \cup {None}]
    /\ rejections' \subseteq Events \X Reasons
    /\ \A id \in Ids :
          /\ table[id] # None => table'[id] = table[id]
          /\ \A k \in Firsts(lo, hi) :
                table[id] = None /\ Id[log[k]] = id => table'[id] = log[k]
          /\ \/ table'[id] = table[id]
             \/ \E k \in Firsts(lo, hi) : Id[log[k]] = id /\ table'[id] = log[k]
    /\ \A i \in (lo + 1)..hi : Acceptable(log[i]) => table'[Id[log[i]]] # None
    /\ rejections' = rejections \cup Verdicts(table', lo, hi)

LEMMA WriteEffect ==
    ASSUME TypeOK, NEW lo \in Nat, NEW hi \in 0..Len(log), Write(lo, hi)
    PROVE  WriteFacts(lo, hi)
<1> DEFINE F(id) == CHOOSE i \in Firsts(lo, hi) : Id[log[i]] = id
<1>1. /\ log \in Seq(Events)
      /\ table \in [Ids -> Events \cup {None}]
      /\ rejections \subseteq Events \X Reasons
      /\ hi \in Nat
  BY DEF TypeOK
<1>2. \A k \in Firsts(lo, hi) :
          k \in (lo + 1)..hi /\ log[k] \in Events /\ Id[log[k]] \in Ids
  BY <1>1 DEF Firsts, Ids
<1>3. \A k \in Firsts(lo, hi) : F(Id[log[k]]) = k
  <2> TAKE k \in Firsts(lo, hi)
  <2>1. F(Id[log[k]]) \in Firsts(lo, hi) /\ Id[log[F(Id[log[k]])]] = Id[log[k]]
    OBVIOUS
  <2> HIDE DEF F
  <2> QED BY <1>1, <2>1, FirstUnique
<1>4. \A id \in Ids :
        table'[id] = IF table[id] = None /\ \E i \in Firsts(lo, hi) : Id[log[i]] = id
                     THEN log[F(id)] ELSE table[id]
  BY DEF Write, Recorded
<1>5. table' = [id \in Ids |-> table'[id]]
  BY DEF Write, Recorded
<1> HIDE DEF F
<1>6. \A id \in Ids :
          /\ table[id] # None => table'[id] = table[id]
          /\ \A k \in Firsts(lo, hi) :
                table[id] = None /\ Id[log[k]] = id => table'[id] = log[k]
          /\ \/ table'[id] = table[id]
             \/ \E k \in Firsts(lo, hi) : Id[log[k]] = id /\ table'[id] = log[k]
  BY <1>3, <1>4
<1>7. \A id \in Ids : table'[id] \in Events \cup {None}
  BY <1>1, <1>2, <1>6
<1>8. table' \in [Ids -> Events \cup {None}]
  BY <1>5, <1>7
<1>9. ASSUME NEW i \in (lo + 1)..hi, Acceptable(log[i])
      PROVE  table'[Id[log[i]]] # None
  <2>1. \A j \in (lo + 1)..hi :
            Acceptable(log[j]) => \E k \in Firsts(lo, hi) : Id[log[k]] = Id[log[j]]
    BY <1>1, FirstExists
  <2>2. PICK k \in Firsts(lo, hi) : Id[log[k]] = Id[log[i]]
    BY <1>9, <2>1
  <2>3. Id[log[k]] \in Ids /\ log[k] # None
    BY <1>2, <2>2
  <2> QED BY <1>6, <2>2, <2>3
<1>10. rejections' = rejections \cup Verdicts(table', lo, hi)
  BY DEF Write
<1>11. Verdicts(table', lo, hi) \subseteq Events \X Reasons
  <2>1. \A i \in (lo + 1)..hi : log[i] \in Events
    BY <1>1
  <2> QED BY <2>1 DEF Verdicts, Reasons
<1> QED BY <1>1, <1>6, <1>8, <1>9, <1>10, <1>11 DEF WriteFacts
-----------------------------------------------------------------------------
\* What was settled stays so.
LEMMA AnswersKept ==
    ASSUME TypeOK, NEW lo \in Nat, NEW hi \in Nat, WriteFacts(lo, hi),
           NEW e \in Events, Answered(e)
    PROVE  Answered(e)'
<1>1. Id[e] \in Ids /\ e # None
  BY DEF Ids
<1>2. table[Id[e]] = e => table'[Id[e]] = e
  BY <1>1 DEF WriteFacts
<1> QED BY <1>2 DEF Answered, WriteFacts

\* A transaction settles every message in it.
LEMMA WriteSettles ==
    ASSUME TypeOK, NEW lo \in Nat, NEW hi \in 0..Len(log), WriteFacts(lo, hi),
           log' = log, registered' = registered,
           NEW i \in (lo + 1)..hi
    PROVE  Answered(log[i])'
<1>1. log[i] \in Events
  BY DEF TypeOK
<1>2. CASE log[i] \in Malformed
  <2>1. <<log[i], "schema_invalid">> \in rejections'
    BY <1>2 DEF WriteFacts, Verdicts
  <2> QED BY <2>1 DEF Answered, Reasons
<1>3. CASE log[i] \in Late \ Malformed /\ ~registered
  <2>1. <<log[i], "unknown_device">> \in rejections'
    BY <1>3 DEF WriteFacts, Verdicts
  <2> QED BY <2>1 DEF Answered, Reasons
<1>4. CASE Acceptable(log[i])
  <2>1. CASE table'[Id[log[i]]] = log[i]
    BY <2>1 DEF Answered
  <2>2. CASE table'[Id[log[i]]] # log[i]
    <3>1. <<log[i], "content_conflict">> \in rejections'
      BY <1>4, <2>2 DEF WriteFacts, Verdicts
    <3> QED BY <3>1 DEF Answered, Reasons
  <2> QED BY <2>1, <2>2
<1> QED BY <1>1, <1>2, <1>3, <1>4 DEF Acceptable

\* The invariant's parts about the tables survive a transaction over the
\* messages that follow the settled ones.
LEMMA WriteKeeps ==
    ASSUME IInv, NEW lo \in Nat, NEW hi \in 0..Len(log), WriteFacts(lo, hi),
           \A i \in 1..lo : Settled(log[i]), lo <= hi,
           log' = log, registered' = registered, skipped' = skipped
    PROVE  /\ \A i \in 1..hi : Settled(log[i])'
           /\ ConflictsAreTrue'
           /\ RejectionsSound'
           /\ KeptInLog'
           /\ FirstWins'
<1>1. /\ log \in Seq(Events) /\ hi \in Nat /\ Len(log) \in Nat
      /\ \A i \in 1..Len(log) : log[i] \in Events /\ log[i] # None /\ Id[log[i]] \in Ids
  BY DEF IInv, TypeOK, Ids
<1>2. \A i \in 1..hi : Settled(log[i])'
  <2> TAKE i \in 1..hi
  <2>1. CASE i \in (lo + 1)..hi
    BY <2>1, WriteSettles DEF IInv, Settled
  <2>2. CASE i \in 1..lo
    <3>1. log[i] \in Events /\ Settled(log[i])
      BY <1>1, <2>2
    <3>2. Answered(log[i]) => Answered(log[i])'
      BY <1>1, <3>1, AnswersKept DEF IInv
    <3> QED BY <3>1, <3>2 DEF Settled
  <2> QED BY <2>1, <2>2
<1>3. ConflictsAreTrue'
  <2> SUFFICES ASSUME NEW e \in Events, <<e, "content_conflict">> \in rejections'
               PROVE  table'[Id[e]] \notin {None, e}
    BY DEF ConflictsAreTrue
  <2>1. Id[e] \in Ids
    BY DEF Ids
  <2>2. CASE <<e, "content_conflict">> \in rejections
    BY <2>1, <2>2 DEF IInv, ConflictsAreTrue, WriteFacts
  <2>3. CASE <<e, "content_conflict">> \in Verdicts(table', lo, hi)
    <3>1. PICK i \in (lo + 1)..hi : /\ e = log[i] /\ Acceptable(log[i])
                                    /\ table'[Id[log[i]]] # log[i]
      BY <2>3 DEF Verdicts
    <3> QED BY <3>1 DEF WriteFacts
  <2> QED BY <2>2, <2>3 DEF WriteFacts
<1>4. RejectionsSound'
  <2> SUFFICES ASSUME NEW e \in Events
               PROVE  /\ <<e, "schema_invalid">> \in rejections' => e \in Malformed
                      /\ <<e, "unknown_device">> \in rejections' => e \in Late
    BY DEF RejectionsSound
  <2>1. <<e, "schema_invalid">> \in Verdicts(table', lo, hi) => e \in Malformed
    BY DEF Verdicts
  <2>2. <<e, "unknown_device">> \in Verdicts(table', lo, hi) => e \in Late
    BY DEF Verdicts
  <2> QED BY <2>1, <2>2 DEF IInv, RejectionsSound, WriteFacts
<1>5. \A k \in Firsts(lo, hi) : k \in (lo + 1)..hi /\ k \in 1..Len(log)
  BY <1>1 DEF Firsts
<1>6. KeptInLog'
  <2> SUFFICES ASSUME NEW id \in Ids, table'[id] # None
               PROVE  /\ Id[table'[id]] = id
                      /\ \E i \in 1..Len(log) : log[i] = table'[id]
    BY DEF KeptInLog
  <2>1. CASE table'[id] = table[id]
    BY <2>1 DEF IInv, KeptInLog
  <2>2. CASE \E k \in Firsts(lo, hi) : Id[log[k]] = id /\ table'[id] = log[k]
    BY <2>2, <1>5
  <2> QED BY <2>1, <2>2 DEF WriteFacts
<1>7. FirstWins'
  <2> SUFFICES ASSUME NEW i \in 1..Len(log), table'[Id[log[i]]] # None,
                      \A j \in 1..i : log[j] # table'[Id[log[i]]]
               PROVE  log[i] \in Malformed \cup Late \cup skipped
    BY DEF FirstWins
  <2> DEFINE id == Id[log[i]]
  <2>1. id \in Ids /\ log[i] \in Events
    BY <1>1
  <2>2. CASE table[id] # None
    BY <2>1, <2>2 DEF IInv, FirstWins, WriteFacts
  <2>3. CASE table[id] = None
    <3>1. PICK k \in Firsts(lo, hi) : Id[log[k]] = id /\ table'[id] = log[k]
      BY <2>1, <2>3 DEF WriteFacts
    <3>2. i < k
      BY <1>5, <3>1
    <3>3. CASE i \in 1..lo
      <4>1. Settled(log[i]) /\ table[Id[log[i]]] = None /\ log[i] # None
        BY <1>1, <2>3, <3>3
      <4>2. <<log[i], "content_conflict">> \notin rejections
        BY <2>1, <4>1 DEF IInv, ConflictsAreTrue
      <4>3. \/ <<log[i], "schema_invalid">> \in rejections
            \/ <<log[i], "unknown_device">> \in rejections
            \/ log[i] \in skipped
        BY <4>1, <4>2 DEF Settled, Answered, Reasons
      <4> QED BY <2>1, <4>3 DEF IInv, RejectionsSound
    <3>4. CASE i \in (lo + 1)..hi
      <4>1. ~Acceptable(log[i])
        BY <1>1, <1>5, <3>1, <3>2, <3>4 DEF Firsts
      <4> QED BY <4>1 DEF Acceptable
    <3> QED BY <1>1, <1>5, <3>2, <3>3, <3>4
  <2> QED BY <2>2, <2>3
<1> QED BY <1>2, <1>3, <1>4, <1>6, <1>7
-----------------------------------------------------------------------------
\* The steps that write nothing leave the parts about the tables as they are.
LEMMA TablesKept ==
    ASSUME IInv, UNCHANGED <<log, database>>
    PROVE  /\ ConflictsAreTrue'
           /\ RejectionsSound'
           /\ KeptInLog'
           /\ FirstWins'
           /\ \A i \in 1..Len(log) : Settled(log[i])' = Settled(log[i])
<1>1. table' = table /\ rejections' = rejections /\ skipped' = skipped /\ log' = log
  BY DEF database
<1> QED BY <1>1 DEF IInv, ConflictsAreTrue, RejectionsSound, KeptInLog, FirstWins,
                    Settled, Answered

LEMMA OffsetsOf ==
    ASSUME TypeOK
    PROVE  /\ Len(log) \in Nat /\ upto \in Nat /\ done \in Nat /\ offset \in Nat
           /\ offset <= done /\ done <= upto /\ upto <= Len(log)
BY DEF TypeOK

LEMMA ConsumeStep ==
    ASSUME IInv, NEW n \in 1..BATCH, Consume(n)
    PROVE  IInv'
<1>1. TypeOK'
  BY OffsetsOf DEF IInv, TypeOK, Consume, database
<1>2. LoopSound' /\ OffsetIsSettled'
  BY DEF IInv, LoopSound, OffsetIsSettled, Answered, Consume, database
<1> QED BY <1>1, <1>2, TablesKept DEF IInv, Consume

LEMMA WriteBatchStep ==
    ASSUME IInv, WriteBatch
    PROVE  IInv'
<1>1. done \in Nat /\ upto \in 0..Len(log) /\ done <= upto /\ offset \in Nat
  BY OffsetsOf DEF IInv
<1>2. WriteFacts(done, upto)
  BY <1>1, WriteEffect DEF IInv, WriteBatch
<1>3. \A i \in 1..done : Settled(log[i])
  BY DEF IInv, LoopSound, OffsetIsSettled, Settled, WriteBatch
<1>4. /\ \A i \in 1..upto : Settled(log[i])'
      /\ ConflictsAreTrue' /\ RejectionsSound' /\ KeptInLog' /\ FirstWins'
  BY <1>1, <1>2, <1>3, WriteKeeps DEF WriteBatch
<1>5. TypeOK'
  BY <1>1, <1>2 DEF IInv, TypeOK, WriteBatch, WriteFacts
<1>6. LoopSound' /\ OffsetIsSettled'
  BY <1>1, <1>4, OffsetsOf DEF IInv, LoopSound, OffsetIsSettled, Settled, WriteBatch
<1> QED BY <1>4, <1>5, <1>6 DEF IInv

LEMMA WriteOneStep ==
    ASSUME IInv, WriteOne
    PROVE  IInv'
<1>1. done \in Nat /\ done + 1 \in 0..Len(log) /\ done + 1 <= upto /\ offset <= done
  BY OffsetsOf DEF IInv, WriteOne
<1>2. WriteFacts(done, done + 1)
  BY <1>1, WriteEffect DEF IInv, WriteOne
<1>3. \A i \in 1..done : Settled(log[i])
  BY DEF IInv, LoopSound, WriteOne
<1>4. /\ \A i \in 1..(done + 1) : Settled(log[i])'
      /\ ConflictsAreTrue' /\ RejectionsSound' /\ KeptInLog' /\ FirstWins'
  BY <1>1, <1>2, <1>3, WriteKeeps DEF WriteOne
<1>5. TypeOK'
  BY <1>1, <1>2, OffsetsOf DEF IInv, TypeOK, WriteOne, WriteFacts
<1>6. LoopSound' /\ OffsetIsSettled'
  <2>1. done' = done + 1 /\ UNCHANGED <<log, offset, mode>> /\ mode = "single"
    BY DEF WriteOne
  <2>2. LoopSound'
    BY <1>4, <2>1 DEF LoopSound
  <2>3. \A i \in 1..offset : i \in 1..(done + 1)
    BY <1>1, OffsetsOf DEF IInv
  <2>4. OffsetIsSettled'
    BY <1>4, <2>1, <2>3 DEF OffsetIsSettled, Settled
  <2> QED BY <2>2, <2>4
<1> QED BY <1>4, <1>5, <1>6 DEF IInv

LEMMA SkipOneStep ==
    ASSUME IInv, SkipOne
    PROVE  IInv'
<1>1. /\ done \in Nat /\ done + 1 \in 1..Len(log) /\ done + 1 <= upto /\ offset <= done
      /\ offset \in Nat
  BY OffsetsOf DEF IInv, SkipOne
<1>2. TypeOK'
  BY <1>1, OffsetsOf DEF IInv, TypeOK, SkipOne
<1>3. \A i \in 1..Len(log) : Settled(log[i]) => Settled(log[i])'
  BY DEF Settled, Answered, SkipOne
<1>4. \A i \in 1..(done + 1) : Settled(log[i])'
  <2> TAKE i \in 1..(done + 1)
  <2>1. CASE i = done + 1
    BY <2>1 DEF Settled, SkipOne
  <2>2. CASE i \in 1..done
    BY <1>1, <1>3, <2>2 DEF IInv, LoopSound, SkipOne
  <2> QED BY <1>1, <2>1, <2>2
<1>5. LoopSound' /\ OffsetIsSettled'
  BY <1>1, <1>4 DEF LoopSound, OffsetIsSettled, Settled, SkipOne
<1>6. ConflictsAreTrue' /\ RejectionsSound' /\ KeptInLog' /\ FirstWins'
  BY DEF IInv, ConflictsAreTrue, RejectionsSound, KeptInLog, FirstWins, SkipOne
<1> QED BY <1>2, <1>5, <1>6 DEF IInv

LEMMA BatchFailsStep ==
    ASSUME IInv, BatchFails
    PROVE  IInv'
<1>1. TypeOK'
  BY DEF IInv, TypeOK, BatchFails, database
<1>2. LoopSound' /\ OffsetIsSettled'
  BY DEF IInv, LoopSound, OffsetIsSettled, Settled, Answered, BatchFails, database
<1> QED BY <1>1, <1>2, TablesKept DEF IInv, BatchFails

LEMMA SinglesDoneStep ==
    ASSUME IInv, SinglesDone
    PROVE  IInv'
<1>1. TypeOK'
  BY DEF IInv, TypeOK, SinglesDone, database
<1>2. LoopSound' /\ OffsetIsSettled'
  BY DEF IInv, LoopSound, OffsetIsSettled, Settled, Answered, SinglesDone, database
<1> QED BY <1>1, <1>2, TablesKept DEF IInv, SinglesDone

LEMMA CommitOffsetsStep ==
    ASSUME IInv, CommitOffsets
    PROVE  IInv'
<1>1. TypeOK'
  BY OffsetsOf DEF IInv, TypeOK, LoopSound, CommitOffsets, database
<1>2. LoopSound' /\ OffsetIsSettled'
  BY DEF IInv, LoopSound, OffsetIsSettled, Settled, Answered, CommitOffsets, database
<1> QED BY <1>1, <1>2, TablesKept DEF IInv, CommitOffsets

LEMMA IngestionStopsStep ==
    ASSUME IInv, IngestionStops
    PROVE  IInv'
<1>1. TypeOK'
  BY OffsetsOf DEF IInv, TypeOK, IngestionStops, database
<1>2. LoopSound' /\ OffsetIsSettled'
  BY DEF IInv, LoopSound, OffsetIsSettled, Answered, IngestionStops, database
<1> QED BY <1>1, <1>2, TablesKept DEF IInv, IngestionStops

LEMMA ArriveStep ==
    ASSUME IInv, NEW e \in Events, Arrive(e)
    PROVE  IInv'
<1>1. /\ Len(log) \in Nat /\ Len(log') = Len(log) + 1
      /\ log' \in Seq(Events)
      /\ \A i \in 1..Len(log) : log'[i] = log[i]
      /\ log'[Len(log) + 1] = e
  BY DEF IInv, TypeOK, Arrive
<1>2. TypeOK'
  <2>1. Len(log') <= MaxLog
    BY <1>1 DEF Arrive, IngestionAssumption
  <2>2. /\ offset' \in 0..Len(log') /\ upto' \in 0..Len(log')
        /\ done' \in offset'..upto'
    BY <1>1 DEF IInv, TypeOK, Arrive
  <2> QED BY <1>1, <2>1, <2>2 DEF IInv, TypeOK, Arrive, database
<1>3. LoopSound' /\ OffsetIsSettled'
  <2>1. UNCHANGED <<table, rejections, skipped, offset, mode, done, upto>>
    BY DEF Arrive, database
  <2>2. /\ \A i \in 1..done : i \in 1..Len(log)
        /\ \A i \in 1..offset : i \in 1..Len(log)
    BY <1>1, OffsetsOf DEF IInv
  <2>3. LoopSound'
    BY <1>1, <2>1, <2>2 DEF IInv, LoopSound, Settled, Answered
  <2>4. OffsetIsSettled'
    BY <1>1, <2>1, <2>2 DEF IInv, OffsetIsSettled, Settled, Answered
  <2> QED BY <2>3, <2>4
<1>4. ConflictsAreTrue' /\ RejectionsSound'
  BY DEF IInv, ConflictsAreTrue, RejectionsSound, Arrive, database
<1>5. KeptInLog'
  BY <1>1 DEF IInv, KeptInLog, Arrive, database
<1>6. FirstWins'
  <2> SUFFICES ASSUME NEW i \in 1..(Len(log) + 1), table[Id[log'[i]]] # None,
                      \A j \in 1..i : log'[j] # table[Id[log'[i]]]
               PROVE  log'[i] \in Malformed \cup Late \cup skipped
    BY <1>1 DEF FirstWins, Arrive, database
  <2>1. CASE i \in 1..Len(log)
    BY <1>1, <2>1 DEF IInv, FirstWins
  <2>2. CASE i = Len(log) + 1
    <3>1. Id[e] \in Ids
      BY DEF Ids
    <3>2. PICK j \in 1..Len(log) : log[j] = table[Id[e]]
      BY <1>1, <2>2, <3>1 DEF IInv, KeptInLog
    <3> QED BY <1>1, <2>2, <3>2
  <2> QED BY <1>1, <2>1, <2>2
<1> QED BY <1>2, <1>3, <1>4, <1>5, <1>6 DEF IInv

LEMMA RegisterStep ==
    ASSUME IInv, Register
    PROVE  IInv'
<1>1. TypeOK'
  BY DEF IInv, TypeOK, Register, database
<1>2. LoopSound' /\ OffsetIsSettled'
  BY DEF IInv, LoopSound, OffsetIsSettled, Settled, Answered, Register, database
<1> QED BY <1>1, <1>2, TablesKept DEF IInv, Register

LEMMA InitHolds == ASSUME Init PROVE IInv
<1>1. TypeOK
  BY DEF Init, TypeOK
<1>2. LoopSound /\ OffsetIsSettled /\ ConflictsAreTrue /\ RejectionsSound
  BY DEF Init, LoopSound, OffsetIsSettled, ConflictsAreTrue, RejectionsSound
<1>3. KeptInLog /\ FirstWins
  BY DEF Init, KeptInLog, FirstWins
<1> QED BY <1>1, <1>2, <1>3 DEF IInv

LEMMA NextHolds ==
    ASSUME IInv, [Next]_vars
    PROVE  IInv'
<1>1. ASSUME NEW n \in 1..BATCH, Consume(n) PROVE IInv'
  BY <1>1, ConsumeStep
<1>2. CASE WriteBatch
  BY <1>2, WriteBatchStep
<1>3. CASE BatchFails
  BY <1>3, BatchFailsStep
<1>4. CASE WriteOne
  BY <1>4, WriteOneStep
<1>5. CASE SkipOne
  BY <1>5, SkipOneStep
<1>6. CASE SinglesDone
  BY <1>6, SinglesDoneStep
<1>7. CASE CommitOffsets
  BY <1>7, CommitOffsetsStep
<1>8. CASE IngestionStops
  BY <1>8, IngestionStopsStep
<1>9. ASSUME NEW e \in Events, Arrive(e) PROVE IInv'
  BY <1>9, ArriveStep
<1>10. CASE Register
  BY <1>10, RegisterStep
<1>11. CASE UNCHANGED vars
  <2>1. TypeOK' /\ LoopSound' /\ OffsetIsSettled'
    BY <1>11 DEF vars, database, IInv, TypeOK, LoopSound, OffsetIsSettled, Settled,
                 Answered
  <2> QED BY <1>11, <2>1, TablesKept DEF vars, IInv
<1> QED
  BY <1>1, <1>2, <1>3, <1>4, <1>5, <1>6, <1>7, <1>8, <1>9, <1>10, <1>11
     DEF Next, Loop

\* What the loop has settled, recorded and refused fits together in every
\* reachable state (the consumer loop of ingest.py).
THEOREM IngestionInvariant == Spec => []IInv
<1>1. Init => IInv
  BY InitHolds
<1>2. IInv /\ [Next]_vars => IInv'
  BY NextHolds
<1> QED BY <1>1, <1>2, PTL DEF Spec

\* No crash, failed batch or restart moves the committed offset past a message
\* that was not written, refused or given up with a log line.
THEOREM OffsetSettled == Spec => []OffsetIsSettled
<1>1. IInv => OffsetIsSettled
  BY DEF IInv
<1> QED BY <1>1, IngestionInvariant, PTL

\* A batch read again never turns an event into a conflict with itself: what
\* was refused for its content differs from what is recorded.
THEOREM ConflictsTrue == Spec => []ConflictsAreTrue
<1>1. IInv => ConflictsAreTrue
  BY DEF IInv
<1> QED BY <1>1, IngestionInvariant, PTL

\* What is recorded under an id is the first message of the log that could be,
\* through batches, single writes and replays.
THEOREM FirstIsKept == Spec => []FirstWins
<1>1. IInv => FirstWins
  BY DEF IInv
<1> QED BY <1>1, IngestionInvariant, PTL
-----------------------------------------------------------------------------
\* The refinement of Telemetry.

Refused == {e \in Events : <<e, "content_conflict">> \in rejections}

LEMMA WriteSettlesPromise ==
    ASSUME IInv, IInv', NEW lo \in Nat, NEW hi \in 0..Len(log), WriteFacts(lo, hi)
    PROVE  Promise!Next
<1> DEFINE rec == {log[k] : k \in {j \in Firsts(lo, hi) : table[Id[log[j]]] = None}}
           new == {e \in Events : <<e, "content_conflict">>
                                       \in Verdicts(table', lo, hi)}
<1>1. /\ log \in Seq(Events) /\ hi \in Nat
      /\ table \in [Ids -> Events \cup {None}]
      /\ \A k \in Firsts(lo, hi) : log[k] \in Events /\ Id[log[k]] \in Ids
  BY DEF IInv, TypeOK, Firsts, Ids
<1>2. \A e \in rec : /\ e \in Events /\ Id[e] \in Ids
                     /\ table[Id[e]] = None /\ table'[Id[e]] = e
  BY <1>1 DEF WriteFacts
<1>3. \A id \in Ids : (\A e \in rec : Id[e] # id) => table'[id] = table[id]
  BY <1>1 DEF WriteFacts
<1>4. table' \in [Ids -> Events \cup {None}]
  BY DEF WriteFacts
<1>5. Refused' = Refused \cup new
  BY DEF Refused, WriteFacts
<1>6. \A e \in Refused' : table'[Id[e]] \notin {None, e}
  BY DEF IInv, ConflictsAreTrue, Refused
<1> HIDE DEF rec, new
<1>7. table' = [i \in Ids |-> IF \E e \in rec : Id[e] = i
                              THEN CHOOSE e \in rec : Id[e] = i
                              ELSE table[i]]
  <2> SUFFICES ASSUME NEW i \in Ids
               PROVE  table'[i] = IF \E e \in rec : Id[e] = i
                                  THEN CHOOSE e \in rec : Id[e] = i
                                  ELSE table[i]
    BY <1>4
  <2>1. CASE \E e \in rec : Id[e] = i
    <3> DEFINE c == CHOOSE e \in rec : Id[e] = i
    <3>1. c \in rec /\ Id[c] = i
      BY <2>1
    <3> HIDE DEF c
    <3>2. table'[i] = c
      BY <1>2, <3>1
    <3> QED BY <2>1, <3>2 DEF c
  <2>2. CASE ~ \E e \in rec : Id[e] = i
    BY <1>3, <2>2
  <2> QED BY <2>1, <2>2
<1>8. rec \in SUBSET Events /\ new \in SUBSET Events
  BY <1>2 DEF new
<1>9. PICK r \in SUBSET Events, n \in SUBSET Events : r = rec /\ n = new
  BY <1>8
<1>10. Promise!Settle(r, n)
  <2>1. \A e \in r : table[Id[e]] = None
    BY <1>2, <1>9
  <2>2. \A e, f \in r : Id[e] = Id[f] => e = f
    BY <1>2, <1>9
  <2>3. table' = [i \in DOMAIN table |-> IF \E e \in r : Id[e] = i
                                         THEN CHOOSE e \in r : Id[e] = i
                                         ELSE table[i]]
    BY <1>1, <1>7, <1>9
  <2>4. Refused' = Refused \cup n /\ \A e \in n : table'[Id[e]] \notin {None, e}
    BY <1>5, <1>6, <1>9
  <2> QED BY <2>1, <2>2, <2>3, <2>4 DEF Promise!Settle, Refused
<1> QED BY <1>10 DEF Promise!Next

LEMMA StepKeepsPromise ==
    ASSUME IInv, IInv', [Next]_vars
    PROVE  [Promise!Next]_<<table, Refused>>
<1>1. CASE WriteBatch
  <2>1. done \in Nat /\ upto \in 0..Len(log)
    BY OffsetsOf DEF IInv
  <2>2. WriteFacts(done, upto)
    BY <1>1, <2>1, WriteEffect DEF IInv, WriteBatch
  <2> QED BY <2>1, <2>2, WriteSettlesPromise
<1>2. CASE WriteOne
  <2>1. done \in Nat /\ done + 1 \in 0..Len(log)
    BY <1>2, OffsetsOf DEF IInv, WriteOne
  <2>2. WriteFacts(done, done + 1)
    BY <1>2, <2>1, WriteEffect DEF IInv, WriteOne
  <2> QED BY <2>1, <2>2, WriteSettlesPromise
<1>3. CASE UNCHANGED <<table, rejections>>
  BY <1>3 DEF Refused
<1> QED
  BY <1>1, <1>2, <1>3
     DEF Next, Loop, vars, database, Consume, BatchFails, SkipOne, SinglesDone,
         CommitOffsets, IngestionStops, Arrive, Register

\* Ingestion implements Telemetry: the first content recorded under an
\* event_id stays, and an event is refused as a conflict only when other
\* content is recorded, through every crash, replay and batch that fails.
THEOREM IngestionKeepsRecords == Spec => KeepsRecords
<1>1. Init => Promise!Init
  BY DEF Init, Promise!Init, Ids
<1>2. IInv /\ IInv' /\ [Next]_vars => [Promise!Next]_<<table, Refused>>
  BY StepKeepsPromise
<1> QED
  BY <1>1, <1>2, IngestionInvariant, PTL
     DEF Spec, KeepsRecords, Promise!Spec, Refused
-----------------------------------------------------------------------------
\* The way into Kafka and the way out of it together (Delivery.tla).  The facts
\* about the first half are those of UplinkProofs, with the topic for the log.
UP == INSTANCE UplinkProofs WITH log <- {log[i] : i \in 1..Len(log)}

\* The instance that the proofs of Uplink are about is the one of Delivery.
LEMMA SameAssumption == U!UplinkAssumption <=> UP!UplinkAssumption
BY DEF U!UplinkAssumption, UP!UplinkAssumption, U!IsFiniteSet, UP!IsFiniteSet

LEMMA SameInit == U!Init <=> UP!Init
BY DEF U!Init, UP!Init, U!NoCopies, UP!NoCopies

LEMMA SameSite == U!SiteStep <=> UP!SiteStep
BY DEF U!SiteStep, UP!SiteStep, U!Buffer, UP!Buffer, U!AckRow, UP!AckRow,
       U!SiteStops, UP!SiteStops, U!Publish, UP!Publish, U!Pending, UP!Pending,
       U!Older, UP!Older, U!Unsent, UP!Unsent, U!At, UP!At,
       U!Cardinality, UP!Cardinality,
       U!site, UP!site, U!worker, UP!worker, U!broker, UP!broker, U!kafka, UP!kafka

LEMMA SameWorker == U!Worker <=> UP!Worker
BY DEF U!Worker, UP!Worker, U!IntakeOnce, UP!IntakeOnce, U!AckBroker, UP!AckBroker,
       U!Confirm, UP!Confirm, U!Produce, UP!Produce, U!Tell, UP!Tell, U!Added, UP!Added,
       U!IdsOf, UP!IdsOf, U!Stored, UP!Stored, U!Backlog, UP!Backlog, U!Held, UP!Held,
       U!NoCopies, UP!NoCopies, U!Minus, UP!Minus, U!Pending, UP!Pending,
       U!Cardinality, UP!Cardinality,
       U!site, UP!site, U!broker, UP!broker, U!kafka, UP!kafka

LEMMA SameMessage == ASSUME NEW e PROVE U!OnMessage(e) <=> UP!OnMessage(e)
BY DEF U!OnMessage, UP!OnMessage, U!Total, UP!Total, U!Cardinality, UP!Cardinality,
       U!site, UP!site, U!kafka, UP!kafka

LEMMA SameGateway == U!GatewayStep <=> UP!GatewayStep
BY SameWorker, SameMessage
   DEF U!GatewayStep, UP!GatewayStep, U!GatewayStops, UP!GatewayStops,
       U!GatewayReconnects, UP!GatewayReconnects, U!Part, UP!Part, U!Plus, UP!Plus,
       U!Minus, UP!Minus, U!NoCopies, UP!NoCopies,
       U!site, UP!site, U!broker, UP!broker, U!kafka, UP!kafka

LEMMA SameKafka == U!KafkaStep <=> UP!KafkaStep
BY DEF U!KafkaStep, UP!KafkaStep, U!KafkaAppends, UP!KafkaAppends,
       U!KafkaFails, UP!KafkaFails,
       U!site, UP!site, U!worker, UP!worker, U!broker, UP!broker

LEMMA SameUplink == [U!Next]_(U!vars) => [UP!Next]_(UP!vars)
<1>1. U!Next <=> UP!Next
  BY SameSite, SameGateway, SameKafka DEF U!Next, UP!Next
<1>2. UNCHANGED U!vars => UNCHANGED UP!vars
  BY DEF U!vars, UP!vars, U!site, UP!site, U!broker, UP!broker, U!worker, UP!worker,
         U!kafka, UP!kafka
<1> QED BY <1>1, <1>2

\* A step of the whole is a step of the way into Kafka, or none.
LEMMA DeliveryUplinkStep ==
    ASSUME [DeliveryNext]_<<vars, upstream>>
    PROVE  [U!Next]_(U!vars)
<1>1. CASE Upstream
  BY <1>1 DEF Upstream, U!Next, U!KafkaStep
<1>2. CASE Downstream \/ UNCHANGED <<vars, upstream>>
  <2>1. UNCHANGED <<upstream, log>>
    BY <1>2 DEF Downstream, Loop, Consume, WriteBatch, BatchFails, WriteOne, SkipOne,
       SinglesDone, CommitOffsets, IngestionStops, Register, vars
  <2> QED BY <2>1 DEF upstream, U!vars, U!site, U!broker, U!worker, U!kafka
<1>3. ASSUME NEW e \in Events, NEW reported \in BOOLEAN, Appends(e, reported)
      PROVE  U!Next
  BY <1>3 DEF Appends, U!Next, U!KafkaStep
<1> QED BY <1>1, <1>2, <1>3 DEF DeliveryNext

\* The sites, the gateway and Kafka behave as Uplink says when the consumer of
\* the topic runs beside them.
THEOREM DeliveryIsUplink == DeliverySpec => U!Spec
<1>1. DeliveryInit => U!Init
  BY DEF DeliveryInit
<1>2. [DeliveryNext]_<<vars, upstream>> => [U!Next]_(U!vars)
  BY DeliveryUplinkStep
<1> QED BY <1>1, <1>2, PTL DEF DeliverySpec, U!Spec

\* ... and the consumer behaves as Ingestion says when all it is sent comes
\* from the gateway.
THEOREM DeliveryIsIngestion == DeliverySpec => Spec
<1>1. DeliveryInit => Init
  BY DEF DeliveryInit
<1>2. [DeliveryNext]_<<vars, upstream>> => [Next]_vars
  BY DEF DeliveryNext, Upstream, Downstream, Appends, Next
<1> QED BY <1>1, <1>2, PTL DEF DeliverySpec, Spec

LEMMA DeliveryIsProvedUplink == DeliverySpec => UP!Spec
<1>1. DeliveryInit => UP!Init
  BY SameInit DEF DeliveryInit
<1>2. [DeliveryNext]_<<vars, upstream>> => [UP!Next]_(UP!vars)
  BY DeliveryUplinkStep, SameUplink
<1> QED BY <1>1, <1>2, PTL DEF DeliverySpec, UP!Spec

\* What a site deletes is in the topic; what the committed offset has passed
\* is settled; what is malformed never got there.
LEMMA FateOfAcked ==
    ASSUME IInv, UP!AckedIsInKafka, UP!RefusedStaysOut
    PROVE  NothingVanishes
<1> SUFFICES ASSUME NEW e \in Events, outbox[e] = "acked",
                    ~ \E i \in (offset + 1)..Len(log) : log[i] = e
             PROVE  \/ table[Id[e]] = e
                    \/ /\ <<e, "content_conflict">> \in rejections
                       /\ table[Id[e]] \notin {None, e}
                    \/ <<e, "unknown_device">> \in rejections /\ e \in Late
                    \/ e \in skipped
  BY DEF NothingVanishes
<1>1. PICK i \in 1..Len(log) : log[i] = e
  BY DEF UP!AckedIsInKafka
<1>2. i \in 1..offset
  BY <1>1 DEF IInv, TypeOK
<1>3. e \notin Malformed
  BY <1>1 DEF UP!RefusedStaysOut
<1>4. Answered(e) \/ e \in skipped
  BY <1>1, <1>2 DEF IInv, OffsetIsSettled
<1> QED
  BY <1>3, <1>4 DEF IInv, Answered, Reasons, RejectionsSound, ConflictsAreTrue

\* From the outbox of a site to the database, whoever is killed and whatever is
\* lost, sent twice or read again: an event its site has deleted is still to be
\* read, recorded, refused for a reason that holds, or on the record as given up.
THEOREM NothingIsLostOnTheWay ==
    ASSUME U!UplinkAssumption
    PROVE  DeliverySpec => []NothingVanishes
<1>1. UP!Spec => []UP!AckedIsInKafka
  BY UP!AckedInKafka, SameAssumption
<1>2. UP!Spec => []UP!RefusedStaysOut
  BY UP!RefusedStayOut, SameAssumption
<1>3. IInv /\ UP!AckedIsInKafka /\ UP!RefusedStaysOut => NothingVanishes
  BY FateOfAcked
<1> QED
  BY <1>1, <1>2, <1>3, DeliveryIsProvedUplink, DeliveryIsIngestion,
     IngestionInvariant, PTL
-----------------------------------------------------------------------------
\* The messages of the topic stay where they are, with one more at most.
LEMMA TopicGrows ==
    ASSUME IInv, [DeliveryNext]_<<vars, upstream>>
    PROVE  \/ log' = log
           \/ /\ outbox' = outbox
              /\ \E e \in UP!Sent : log' = Append(log, e)
<1>1. CASE Upstream \/ UNCHANGED <<vars, upstream>>
  BY <1>1 DEF Upstream, vars
<1>2. CASE Downstream
  BY <1>2 DEF Downstream, Loop, Consume, WriteBatch, BatchFails, WriteOne, SkipOne,
     SinglesDone, CommitOffsets, IngestionStops, Register
<1>3. ASSUME NEW e \in Events, NEW reported \in BOOLEAN, Appends(e, reported)
      PROVE  /\ outbox' = outbox
             /\ e \in UP!Sent /\ log' = Append(log, e)
  BY <1>3 DEF Appends, Arrive, U!KafkaAppends, U!site, UP!Sent
<1> QED BY <1>1, <1>2, <1>3 DEF DeliveryNext

LEMMA RefusalStands ==
    ASSUME UP!IInv, [UP!Next]_(UP!vars), NEW e \in Events, outbox[e] = "refused"
    PROVE  outbox'[e] = "refused"
BY DEF UP!IInv, UP!TypeOK, UP!Next, UP!SiteStep, UP!GatewayStep, UP!Worker,
       UP!KafkaStep, UP!Buffer, UP!Publish, UP!AckRow, UP!SiteStops,
       UP!OnMessage, UP!IntakeOnce, UP!AckBroker, UP!Produce, UP!Confirm,
       UP!Tell, UP!GatewayStops, UP!GatewayReconnects, UP!KafkaAppends,
       UP!KafkaFails, UP!vars, UP!site, UP!Unsent, UP!Pending

LEMMA OvertakenFinite ==
    ASSUME NEW j
    PROVE  IsFiniteSet(Overtaken(j)) /\ Cardinality(Overtaken(j)) \in Nat
<1>1. Overtaken(j) \subseteq Events
  BY DEF Overtaken, U!Older
<1> QED BY <1>1, FS_Subset, FS_CardinalityType

LEMMA TopicOrderStep ==
    ASSUME U!UplinkAssumption, IInv, UP!IInv, UP!SentWithinWindow, TopicOrder,
           [DeliveryNext]_<<vars, upstream>>
    PROVE  TopicOrder'
<1>1. [UP!Next]_(UP!vars)
  BY DeliveryUplinkStep, SameUplink
<1>2. \A e \in Events : outbox[e] = "refused" => outbox'[e] = "refused"
  BY <1>1, RefusalStands
<1>3. log \in Seq(Events) /\ WINDOW \in Nat
  BY DEF IInv, TypeOK, U!UplinkAssumption
<1>4. ASSUME NEW j \in 1..Len(log), \A i \in 1..Len(log) : log'[i] = log[i]
      PROVE  Cardinality(Overtaken(j)') < WINDOW
  <2>1. Overtaken(j)' \subseteq Overtaken(j)
    <3> SUFFICES ASSUME NEW f, f \in Overtaken(j)'
                 PROVE  f \in Overtaken(j)
      OBVIOUS
    <3>1. \A i \in 1..j : i \in 1..Len(log) /\ log'[i] = log[i]
      BY <1>3, <1>4
    <3>2. log'[j] = log[j]
      BY <1>4
    <3>3. /\ f \in Events /\ f[1] = log[j][1] /\ f[2] < log[j][2]
          /\ outbox'[f] # "refused" /\ \A i \in 1..j : log[i] # f
      BY <3>1, <3>2 DEF Overtaken, U!Older
    <3> QED BY <1>2, <3>3 DEF Overtaken, U!Older
  <2>2. Cardinality(Overtaken(j)') <= Cardinality(Overtaken(j))
    BY <2>1, OvertakenFinite, FS_Subset
  <2>3. Cardinality(Overtaken(j)) < WINDOW
    BY DEF TopicOrder
  <2>4. Cardinality(Overtaken(j)') \in Nat
    BY <2>1, OvertakenFinite, FS_Subset, FS_CardinalityType
  <2> QED BY <1>3, <2>2, <2>3, <2>4, OvertakenFinite
<1>5. CASE log' = log
  BY <1>4, <1>5 DEF TopicOrder
<1>6. ASSUME NEW e \in UP!Sent, log' = Append(log, e), outbox' = outbox
      PROVE  TopicOrder'
  <2>1. PICK n \in Nat : n = Len(log)
    BY <1>3
  <2>2. /\ Len(log') = n + 1 /\ log'[n + 1] = e
        /\ \A i \in 1..Len(log) : log'[i] = log[i]
    BY <1>3, <1>6, <2>1
  <2>3. UP!Cardinality(UP!Missing(e)) < WINDOW
    BY UP!MissingArePending, SameAssumption
  <2>4. Overtaken(n + 1)' \subseteq UP!Missing(e)
    <3> SUFFICES ASSUME NEW f, f \in Overtaken(n + 1)'
                 PROVE  f \in UP!Missing(e)
      OBVIOUS
    <3>1. /\ f \in Events /\ f[1] = e[1] /\ f[2] < e[2]
          /\ outbox[f] # "refused" /\ \A i \in 1..(n + 1) : log'[i] # f
      BY <1>6, <2>2 DEF Overtaken, U!Older
    <3>2. \A i \in 1..Len(log) : log[i] # f
      BY <2>1, <2>2, <3>1
    <3> QED BY <3>1, <3>2 DEF UP!Missing, UP!Older
  <2>5. IsFiniteSet(UP!Missing(e))
    <3>1. UP!Missing(e) \subseteq Events
      BY DEF UP!Missing, UP!Older
    <3> QED BY <3>1, FS_Subset
  <2>6. /\ Cardinality(Overtaken(n + 1)') <= Cardinality(UP!Missing(e))
        /\ Cardinality(Overtaken(n + 1)') \in Nat
        /\ Cardinality(UP!Missing(e)) \in Nat
    BY <2>4, <2>5, FS_Subset, FS_CardinalityType
  <2>7. Cardinality(UP!Missing(e)) < WINDOW
    BY <2>3 DEF UP!Cardinality, Cardinality
  <2>8. Cardinality(Overtaken(n + 1)') < WINDOW
    BY <1>3, <2>6, <2>7
  <2>9. \A j \in 1..Len(log) : Cardinality(Overtaken(j)') < WINDOW
    BY <1>4, <2>2
  <2>20. \A j \in 1..Len(log') : j \in 1..Len(log) \/ j = n + 1
    BY <2>1, <2>2
  <2> QED BY <2>8, <2>9, <2>20 DEF TopicOrder
<1> QED BY <1>5, <1>6, TopicGrows

\* However sites, gateway and producer repeat, refuse, lose and restart, the
\* consumer finds the events of a site out of order by less than a window.
THEOREM TopicKeepsOrder ==
    ASSUME U!UplinkAssumption
    PROVE  DeliverySpec => []TopicOrder
<1>1. UP!Spec => []UP!IInv
  BY UP!UplinkInvariant, SameAssumption
<1>2. UP!Spec => []UP!SentWithinWindow
  BY UP!WindowInvariant, SameAssumption
<1>3. DeliveryInit => TopicOrder
  BY DEF DeliveryInit, Init, TopicOrder
<1>4. /\ IInv /\ UP!IInv /\ UP!SentWithinWindow /\ TopicOrder
      /\ [DeliveryNext]_<<vars, upstream>>
      => TopicOrder'
  BY TopicOrderStep
<1> QED
  BY <1>1, <1>2, <1>3, <1>4, DeliveryIsProvedUplink, DeliveryIsIngestion,
     IngestionInvariant, PTL DEF DeliverySpec
=============================================================================
