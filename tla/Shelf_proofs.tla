----------------------------- MODULE Shelf_proofs -----------------------------
(***************************************************************************)
(* Theorems about Shelf, for every set of artifacts, suites and threads,    *)
(* every ceiling and window, and every bound.                               *)
(***************************************************************************)
EXTENDS Shelf, SequenceTheorems, FunctionTheorems, FiniteSetTheorems, TLAPS

\* Every thread has a record of what it is doing.
IsRecord(r) == r = [at |-> r.at, stale |-> r.stale, suite |-> r.suite]
Shaped ==
    /\ thread = [t \in Threads |-> thread[t]]
    /\ \A t \in Threads : IsRecord(thread[t])

LEMMA IdleFacts == IsRecord(Idle) /\ Idle.at = "idle"
  BY DEF Idle, IsRecord

LEMMA AtFacts ==
  ASSUME NEW r, IsRecord(r), NEW v, NEW s, s = [r EXCEPT !.at = v]
  PROVE  IsRecord(s) /\ s.at = v /\ s.suite = r.suite
  BY DEF IsRecord

LEMMA IdleAtFacts ==
  ASSUME NEW v, NEW s, s = [Idle EXCEPT !.at = v]
  PROVE  IsRecord(s) /\ s.at = v
  BY DEF Idle, IsRecord

LEMMA SuiteFacts ==
  ASSUME NEW r, IsRecord(r), NEW v, NEW s, s = [r EXCEPT !.suite = v]
  PROVE  IsRecord(s) /\ s.at = r.at
  BY DEF IsRecord

LEMMA ListedFacts ==
  ASSUME NEW r, IsRecord(r), NEW v, NEW s, s = [r EXCEPT !.stale = v]
  PROVE  IsRecord(s) /\ s.at = r.at /\ s.stale = v
  BY DEF IsRecord

\* A step of one thread leaves the others where they are.
LEMMA NowFacts ==
  ASSUME Shaped, NEW t \in Threads, NEW r, IsRecord(r), Now(t, r)
  PROVE  Shaped' /\ thread'[t] = r /\ \A u \in Threads : u # t => thread'[u] = thread[u]
  BY DEF Now, Shaped
-----------------------------------------------------------------------------
(* What each step does to the thread that takes it and to the suites, as    *)
(* far as the ceiling is concerned.                                         *)
Moves(t, at) ==
    /\ Shaped' /\ thread'[t].at = at
    /\ \A u \in Threads : u # t => thread'[u] = thread[u]

LEMMA StoreMoves ==
  ASSUME Shaped, NEW t \in Threads, NEW id \in Artifacts, NEW created \in 1 .. LastSecond,
         StoreArtifact(t, id, created)
  PROVE  /\ thread[t].at = "idle"
         /\ LET doc == [id |-> id, created |-> created, version |-> stores]
            IN  \/ /\ Moves(t, "stored") /\ owed' = owed
                   /\ disk' = WithDoc(disk, doc) /\ unsure' = unsure \ {id}
                \/ /\ thread' = thread /\ owed' = owed + 1
                   /\ disk' = disk /\ unsure' = unsure \cup {id}
  <1> DEFINE r == [Idle EXCEPT !.at = "stored"]
  <1>1. IsRecord(r) /\ r.at = "stored"
    BY IdleAtFacts
  <1> HIDE DEF r
  <1>2. Now(t, r) => Moves(t, "stored")
    BY <1>1, NowFacts DEF Moves
  <1> QED BY <1>2 DEF StoreArtifact, In, r

LEMMA ListMoves ==
  ASSUME Shaped, NEW t \in Threads, ListArtifacts(t)
  PROVE  /\ thread[t].at = "stored"
         /\ Moves(t, "evicting") /\ thread'[t].stale = Stale(memory, Keep)
  <1> DEFINE ids == Stale(memory, Keep)
             first == [Idle EXCEPT !.at = "evicting"]
             r == [first EXCEPT !.stale = ids]
  <1>1. Now(t, [Idle EXCEPT !.at = "evicting", !.stale = ids])
    BY DEF ListArtifacts
  <1> HIDE DEF ids
  <1>2. Now(t, r)
    BY <1>1
  <1>3. IsRecord(first) /\ first.at = "evicting"
    BY IdleAtFacts
  <1> HIDE DEF first
  <1>4. IsRecord(r) /\ r.at = "evicting" /\ r.stale = ids
    BY <1>3, ListedFacts
  <1> HIDE DEF r
  <1> QED BY <1>2, <1>4, NowFacts DEF Moves, ListArtifacts, In, ids

LEMMA EvictMoves ==
  ASSUME Shaped, NEW t \in Threads, Evict(t)
  PROVE  /\ thread[t].at = "evicting" /\ thread[t].stale # <<>>
         /\ LET id == Head(thread[t].stale)
            IN  \/ /\ Moves(t, "evicting") /\ thread'[t].stale = Tail(thread[t].stale)
                   /\ unsure' = unsure /\ owed' = owed
                   /\ disk' = (IF id \in DocIds(Held) THEN {d \in disk : d.id # id} ELSE disk)
                \/ /\ Moves(t, "idle")
                   /\ unsure' = unsure \cup {id} /\ owed' = owed + 2 /\ disk' = disk
  <1> DEFINE r == [thread[t] EXCEPT !.stale = Tail(@)]
  <1>1. IsRecord(thread[t])
    BY DEF Shaped
  <1>2. IsRecord(r) /\ r.at = thread[t].at /\ r.stale = Tail(thread[t].stale)
    BY <1>1, ListedFacts
  <1>3. thread[t].at = "evicting" /\ thread[t].stale # <<>>
    BY DEF Evict, In
  <1> HIDE DEF r
  <1>4. Now(t, r) => Moves(t, "evicting") /\ thread'[t].stale = Tail(thread[t].stale)
    BY <1>2, <1>3, NowFacts DEF Moves
  <1>5. Done(t) => Moves(t, "idle")
    BY IdleFacts, NowFacts DEF Done, Moves
  <1> QED BY <1>3, <1>4, <1>5 DEF Evict, r

LEMMA AnswerMoves ==
  ASSUME Shaped, NEW t \in Threads, Answer(t)
  PROVE  thread[t].at = "evicting" /\ thread[t].stale = <<>> /\ Moves(t, "idle")
  BY IdleFacts, NowFacts DEF Answer, In, Done, Moves

LEMMA ArtifactMoves ==
  ASSUME Shaped, NEW t \in Threads,
         \/ \E id \in Artifacts, created \in 1 .. LastSecond : StoreArtifact(t, id, created)
         \/ ListArtifacts(t) \/ Evict(t) \/ Answer(t)
  PROVE  /\ suites' = suites
         /\ \E at \in {"idle", "stored", "evicting"} : Moves(t, at)
  <1>1. suites' = suites
    BY DEF StoreArtifact, ListArtifacts, Evict, Answer
  <1>2. thread' = thread /\ thread[t].at = "idle" => Moves(t, "idle")
    BY DEF Moves, Shaped
  <1>3. ASSUME NEW id \in Artifacts, NEW created \in 1 .. LastSecond, StoreArtifact(t, id, created)
        PROVE  Moves(t, "stored") \/ Moves(t, "idle")
    BY <1>2, <1>3, StoreMoves
  <1> QED BY <1>1, <1>3, ListMoves, EvictMoves, AnswerMoves

LEMMA SaveMoves ==
  ASSUME Shaped, NEW t \in Threads, NEW id \in Suites, NEW create \in BOOLEAN,
         SaveSuite(t, id, create)
  PROVE  suites' = suites /\ Moves(t, "named")
  <1> DEFINE first == [Idle EXCEPT !.at = "named"]
             r == [first EXCEPT !.suite = id]
  <1>1. Now(t, [Idle EXCEPT !.at = "named", !.suite = id])
    BY DEF SaveSuite
  <1>2. Now(t, r)
    BY <1>1
  <1>3. IsRecord(first) /\ first.at = "named"
    BY IdleAtFacts
  <1> HIDE DEF first
  <1>4. IsRecord(r) /\ r.at = "named"
    BY <1>3, SuiteFacts
  <1> HIDE DEF r
  <1> QED BY <1>2, <1>4, NowFacts DEF SaveSuite, Moves

LEMMA CheckMoves ==
  ASSUME Shaped, NEW t \in Threads, CheckNew(t) \/ CheckCeiling(t)
  PROVE  /\ suites' = suites
         /\ \/ \E at \in {"idle", "new"} : Moves(t, at)
            \/ /\ Moves(t, "allowed") /\ thread'[t].suite = thread[t].suite
               /\ thread[t].suite \in suites \cup BuiltIn \/ ~(Cardinality(suites) >= MaxSuites)
  <1>1. IsRecord(thread[t])
    BY DEF Shaped
  <1>2. CASE CheckNew(t)
    <2> DEFINE at == IF thread[t].suite \in suites \cup BuiltIn THEN "allowed" ELSE "new"
               r == [thread[t] EXCEPT !.at = at]
    <2>1. Now(t, r) /\ suites' = suites
      BY <1>2 DEF CheckNew
    <2> HIDE DEF at
    <2>2. IsRecord(r) /\ r.at = at /\ r.suite = thread[t].suite
      BY <1>1, AtFacts
    <2> HIDE DEF r
    <2>3. Moves(t, at) /\ thread'[t].suite = thread[t].suite
      BY <2>1, <2>2, NowFacts DEF Moves
    <2>4. CASE thread[t].suite \in suites \cup BuiltIn
      BY <2>1, <2>3, <2>4 DEF at
    <2>5. CASE thread[t].suite \notin suites \cup BuiltIn
      BY <2>1, <2>3, <2>5 DEF at
    <2> QED BY <2>4, <2>5
  <1>3. CASE CheckCeiling(t)
    <2>1. suites' = suites
      BY <1>3 DEF CheckCeiling
    <2>2. CASE Cardinality(suites) >= MaxSuites
      <3>1. Moves(t, "idle")
        BY <1>3, <2>2, IdleFacts, NowFacts DEF CheckCeiling, Done, Moves
      <3> QED BY <2>1, <3>1
    <2>3. CASE ~(Cardinality(suites) >= MaxSuites)
      <3> DEFINE r == [thread[t] EXCEPT !.at = "allowed"]
      <3>1. Now(t, r)
        BY <1>3, <2>3 DEF CheckCeiling
      <3>2. IsRecord(r) /\ r.at = "allowed" /\ r.suite = thread[t].suite
        BY <1>1, AtFacts
      <3> HIDE DEF r
      <3>3. Moves(t, "allowed") /\ thread'[t].suite = thread[t].suite
        BY <3>1, <3>2, NowFacts DEF Moves
      <3> QED BY <2>1, <2>3, <3>3
    <2> QED BY <2>2, <2>3
  <1> QED BY <1>2, <1>3

LEMMA PutMoves ==
  ASSUME Shaped, NEW t \in Threads, PutSuite(t)
  PROVE  suites' = suites \cup {thread[t].suite} /\ thread[t].at = "allowed" /\ Moves(t, "idle")
  BY IdleFacts, NowFacts DEF PutSuite, In, Done, Moves

LEMMA StepShaped ==
  ASSUME Shaped, [Next]_vars
  PROVE  Shaped'
  <1>1. CASE \E id \in Suites : DeleteSuite(id)
    BY <1>1 DEF DeleteSuite, Shaped
  <1>2. CASE Restart
    BY <1>2, IdleFacts DEF Restart, Shaped
  <1>3. CASE UNCHANGED vars
    BY <1>3 DEF vars, Shaped
  <1> QED BY <1>1, <1>2, <1>3, ArtifactMoves, SaveMoves, CheckMoves, PutMoves DEF Next, Moves
-----------------------------------------------------------------------------
(* The suites there are and those that requests past the ceiling will save, *)
(* the copies of built-in ones, which no ceiling stops, left out.           *)
Passed == {t \in Threads : thread[t].at = "allowed"}
Coming == {thread[t].suite : t \in Passed}
Own == (suites \cup Coming) \ BuiltIn
Room ==
    /\ IsFiniteSet(suites \cup Coming)
    /\ Cardinality(Own) <= MaxSuites + Cardinality(Threads) - 1

LEMMA Numbers ==
  /\ IsFiniteSet(Threads) /\ Cardinality(Threads) \in Nat
  /\ MaxSuites \in Nat /\ MaxSuites >= 1
  BY ShelfAssumption, FS_CardinalityType

\* There are no more suites coming than threads.
LEMMA ComingBound ==
  /\ IsFiniteSet(Coming) /\ Cardinality(Coming) \in Nat
  /\ Cardinality(Coming) <= Cardinality(Threads)
  <1> DEFINE f == [t \in Passed |-> thread[t].suite]
  <1>1. Passed \in SUBSET Threads
    BY DEF Passed
  <1>2. IsFiniteSet(Passed) /\ Cardinality(Passed) <= Cardinality(Threads)
    BY <1>1, Numbers, FS_Subset
  <1>3. f \in Surjection(Passed, Coming)
    BY DEF Surjection, Coming
  <1>4. IsFiniteSet(Coming) /\ Cardinality(Coming) <= Cardinality(Passed)
    BY <1>2, <1>3, FS_Surjection
  <1> QED BY <1>2, <1>4, Numbers, FS_CardinalityType

LEMMA RoomKept ==
  ASSUME Room, IsFiniteSet(suites' \cup Coming'), Own' \subseteq Own
  PROVE  Room'
  <1>1. IsFiniteSet(Own)
    BY FS_Difference DEF Room, Own
  <1>2. IsFiniteSet(Own') /\ Cardinality(Own') <= Cardinality(Own)
    BY <1>1, FS_Subset
  <1>3. Cardinality(Own') \in Nat /\ Cardinality(Own) \in Nat
    BY <1>1, <1>2, FS_CardinalityType
  <1> QED BY <1>2, <1>3, Numbers DEF Room

LEMMA RoomShrinks ==
  ASSUME Room, suites' \cup Coming' \subseteq suites \cup Coming
  PROVE  Room'
  <1>1. IsFiniteSet(suites' \cup Coming')
    BY FS_Subset DEF Room
  <1>2. Own' \subseteq Own
    BY DEF Own
  <1> QED BY <1>1, <1>2, RoomKept

\* A thread that is not let through brings no suite.
LEMMA MovesComing ==
  ASSUME NEW t \in Threads, NEW at, Moves(t, at)
  PROVE  at # "allowed" => Coming' \subseteq Coming
  BY DEF Moves, Coming, Passed

LEMMA RoomStep ==
  ASSUME Shaped, Room, [Next]_vars
  PROVE  Room'
  <1>1. ASSUME NEW t \in Threads,
               \/ \E id \in Artifacts, created \in 1 .. LastSecond : StoreArtifact(t, id, created)
               \/ ListArtifacts(t) \/ Evict(t) \/ Answer(t)
        PROVE  Room'
    BY <1>1, ArtifactMoves, MovesComing, RoomShrinks
  <1>2. ASSUME NEW t \in Threads, NEW id \in Suites, NEW create \in BOOLEAN, SaveSuite(t, id, create)
        PROVE  Room'
    BY <1>2, SaveMoves, MovesComing, RoomShrinks
  <1>3. ASSUME NEW t \in Threads, CheckNew(t) \/ CheckCeiling(t)
        PROVE  Room'
    <2>1. suites' = suites
      BY <1>3, CheckMoves
    <2>2. CASE \E at \in {"idle", "new"} : Moves(t, at)
      BY <2>1, <2>2, MovesComing, RoomShrinks
    <2>3. CASE /\ Moves(t, "allowed") /\ thread'[t].suite = thread[t].suite
               /\ thread[t].suite \in suites \cup BuiltIn
      <3>1. Coming' \subseteq Coming \cup {thread[t].suite}
        BY <2>3 DEF Moves, Coming, Passed
      <3>2. IsFiniteSet((suites \cup Coming) \cup {thread[t].suite})
        BY FS_AddElement DEF Room
      <3>3. IsFiniteSet(suites' \cup Coming')
        BY <2>1, <3>1, <3>2, FS_Subset
      <3>4. Own' \subseteq Own
        BY <2>1, <2>3, <3>1 DEF Own
      <3> QED BY <3>3, <3>4, RoomKept
    <2>4. CASE Moves(t, "allowed") /\ ~(Cardinality(suites) >= MaxSuites)
      <3>1. /\ IsFiniteSet(Coming') /\ Cardinality(Coming') \in Nat
            /\ Cardinality(Coming') <= Cardinality(Threads)
        <4> DEFINE f == [u \in Passed' |-> thread'[u].suite]
        <4>1. Passed' \in SUBSET Threads
          BY DEF Passed
        <4>2. IsFiniteSet(Passed') /\ Cardinality(Passed') <= Cardinality(Threads)
          BY <4>1, Numbers, FS_Subset
        <4>3. f \in Surjection(Passed', Coming')
          BY DEF Surjection, Coming
        <4>4. IsFiniteSet(Coming') /\ Cardinality(Coming') <= Cardinality(Passed')
          BY <4>2, <4>3, FS_Surjection
        <4> QED BY <4>2, <4>4, Numbers, FS_CardinalityType
      <3>2. IsFiniteSet(suites) /\ Cardinality(suites) \in Nat
        BY FS_Subset, FS_CardinalityType DEF Room
      <3>3. /\ IsFiniteSet(suites' \cup Coming')
            /\ Cardinality(suites' \cup Coming') <= Cardinality(suites) + Cardinality(Coming')
        <4>1. IsFiniteSet(suites \cap Coming') /\ Cardinality(suites \cap Coming') \in Nat
          BY <3>2, FS_Intersection, FS_CardinalityType
        <4>2. /\ IsFiniteSet(suites \cup Coming')
              /\ Cardinality(suites \cup Coming') =
                    Cardinality(suites) + Cardinality(Coming') - Cardinality(suites \cap Coming')
          BY <3>1, <3>2, FS_Union
        <4> QED BY <2>1, <3>1, <3>2, <4>1, <4>2
      <3>4. /\ IsFiniteSet(Own') /\ Cardinality(Own') <= Cardinality(suites' \cup Coming')
        BY <3>3, FS_Subset DEF Own
      <3>5. Cardinality(suites' \cup Coming') \in Nat /\ Cardinality(Own') \in Nat
        BY <3>3, <3>4, FS_CardinalityType
      <3> QED BY <2>4, <3>1, <3>2, <3>3, <3>4, <3>5, Numbers DEF Room
    <2> QED BY <1>3, <2>2, <2>3, <2>4, CheckMoves
  <1>4. ASSUME NEW t \in Threads, PutSuite(t)
        PROVE  Room'
    <2>1. suites' = suites \cup {thread[t].suite} /\ thread[t].at = "allowed" /\ Moves(t, "idle")
      BY <1>4, PutMoves
    <2>2. thread[t].suite \in Coming
      BY <2>1 DEF Coming, Passed
    <2> QED BY <2>1, <2>2, MovesComing, RoomShrinks
  <1>5. CASE \E id \in Suites : DeleteSuite(id)
    <2>1. Coming' = Coming /\ suites' \subseteq suites
      BY <1>5 DEF DeleteSuite, Coming, Passed
    <2> QED BY <2>1, RoomShrinks
  <1>6. CASE Restart
    <2>1. suites' = suites /\ Coming' = {}
      BY <1>6, IdleFacts DEF Restart, Coming, Passed
    <2> QED BY <2>1, RoomShrinks
  <1>7. CASE UNCHANGED vars
    <2>1. Coming' = Coming /\ suites' = suites
      BY <1>7 DEF vars, Coming, Passed
    <2> QED BY <2>1, RoomShrinks
  <1> QED BY <1>1, <1>2, <1>3, <1>4, <1>5, <1>6, <1>7 DEF Next

\* The plan's ceiling on the suites a workspace authored is exceeded by fewer
\* suites than there are requests at once, whatever is created, updated and
\* deleted between the reads and whichever built-in suites have copies.
THEOREM CeilingOnSuites == Spec => []SuitesBounded
  <1>1. Init => Shaped
    BY IdleFacts DEF Init, Shaped
  <1>2. Init => Room
    <2> SUFFICES ASSUME Init PROVE Room
      OBVIOUS
    <2>1. suites \cup Coming = {}
      BY IdleFacts DEF Init, Coming, Passed
    <2>2. Own = {}
      BY <2>1 DEF Own
    <2>3. IsFiniteSet(suites \cup Coming) /\ Cardinality(Own) = 0
      BY <2>1, <2>2, FS_EmptySet
    <2> QED BY <2>3, Numbers DEF Room
  <1>3. Room => SuitesBounded
    <2> SUFFICES ASSUME Room PROVE SuitesBounded
      OBVIOUS
    <2>1. IsFiniteSet(Own)
      BY FS_Difference DEF Room, Own
    <2>2. /\ IsFiniteSet(suites \ BuiltIn)
          /\ Cardinality(suites \ BuiltIn) <= Cardinality(Own)
      BY <2>1, FS_Subset DEF Own
    <2>3. Cardinality(suites \ BuiltIn) \in Nat /\ Cardinality(Own) \in Nat
      BY <2>1, <2>2, FS_CardinalityType
    <2> QED BY <2>2, <2>3, Numbers DEF Room, SuitesBounded
  <1> QED BY <1>1, <1>2, <1>3, StepShaped, RoomStep, PTL DEF Spec
-----------------------------------------------------------------------------
(* Memory is a sequence with one document of an id at most.                 *)
OneEach(m) == \A i, j \in DOMAIN m : m[i].id = m[j].id => i = j

LEMMA RangeFacts ==
  ASSUME NEW m \in Seq(Documents)
  PROVE  /\ DOMAIN m = 1 .. Len(m) /\ Len(m) \in Nat
         /\ \A d : d \in Range(m) <=> \E i \in 1 .. Len(m) : m[i] = d
         /\ \A i \in 1 .. Len(m) : m[i] \in Documents
  BY LenProperties, RangeEquality, ElementOfSeq

\* A document stored in the place of the one it replaces, or at the end.
LEMMA WrittenFacts ==
  ASSUME NEW m \in Seq(Documents), OneEach(m), NEW doc \in Documents
  PROVE  /\ Written(m, doc) \in Seq(Documents) /\ OneEach(Written(m, doc))
         /\ \A d : d \in Range(Written(m, doc)) <=> (d \in Range(m) /\ d.id # doc.id) \/ d = doc
  <1> DEFINE w == Written(m, doc)
  <1>1. CASE doc.id \in DocIds(Range(m))
    <2>1. w = [i \in 1 .. Len(m) |-> IF m[i].id = doc.id THEN doc ELSE m[i]]
      BY <1>1, RangeFacts DEF Written
    <2>2. w \in [1 .. Len(m) -> Documents]
      BY <2>1, RangeFacts
    <2>3. w \in Seq(Documents) /\ Len(w) = Len(m)
      BY <2>1, <2>2, RangeFacts
    <2>4. \A i \in 1 .. Len(m) : w[i] = IF m[i].id = doc.id THEN doc ELSE m[i]
      BY <2>1
    <2> HIDE DEF w
    <2>5. \A i \in 1 .. Len(m) : w[i].id = m[i].id
      BY <2>4
    <2>6. OneEach(w)
      BY <2>3, <2>5, RangeFacts DEF OneEach
    <2>7. PICK k \in 1 .. Len(m) : m[k].id = doc.id
      BY <1>1, RangeFacts DEF DocIds
    <2>8. \A d : d \in Range(w) <=> \E i \in 1 .. Len(m) : w[i] = d
      BY <2>3, RangeFacts
    <2>9. \A d : d \in Range(m) <=> \E i \in 1 .. Len(m) : m[i] = d
      BY RangeFacts
    <2>10. ASSUME NEW d, d \in Range(w)
           PROVE  (d \in Range(m) /\ d.id # doc.id) \/ d = doc
      BY <2>4, <2>8, <2>9, <2>10
    <2>11. ASSUME NEW d, (d \in Range(m) /\ d.id # doc.id) \/ d = doc
           PROVE  d \in Range(w)
      BY <2>4, <2>7, <2>8, <2>9, <2>11
    <2> QED BY <2>3, <2>6, <2>10, <2>11 DEF w
  <1>2. CASE doc.id \notin DocIds(Range(m))
    <2>1. w = Append(m, doc)
      BY <1>2 DEF Written
    <2>2. /\ w \in Seq(Documents) /\ Len(w) = Len(m) + 1 /\ w[Len(m) + 1] = doc
          /\ \A i \in 1 .. Len(m) : w[i] = m[i]
      BY <2>1, AppendProperties
    <2> HIDE DEF w
    <2>3. \A i \in 1 .. Len(m) : m[i].id # doc.id
      BY <1>2, RangeFacts DEF DocIds
    <2>4. \A i \in 1 .. Len(w) : i = Len(m) + 1 \/ i \in 1 .. Len(m)
      BY <2>2, RangeFacts
    <2>5. OneEach(w)
      <3> SUFFICES ASSUME NEW i \in 1 .. Len(w), NEW j \in 1 .. Len(w), w[i].id = w[j].id
                   PROVE  i = j
        BY <2>2, RangeFacts DEF OneEach
      <3> QED BY <2>2, <2>3, <2>4, RangeFacts DEF OneEach
    <2>6. \A d : d \in Range(w) <=> \E i \in 1 .. Len(w) : w[i] = d
      BY <2>2, RangeFacts
    <2>7. \A d : d \in Range(m) <=> \E i \in 1 .. Len(m) : m[i] = d
      BY RangeFacts
    <2>8. \A i \in 1 .. Len(m) : i \in 1 .. Len(w)
      BY <2>2, RangeFacts
    <2>9. Len(m) + 1 \in 1 .. Len(w)
      BY <2>2, RangeFacts
    <2>10. ASSUME NEW d, d \in Range(w)
           PROVE  (d \in Range(m) /\ d.id # doc.id) \/ d = doc
      BY <2>2, <2>3, <2>4, <2>6, <2>7, <2>10
    <2>11. ASSUME NEW d, (d \in Range(m) /\ d.id # doc.id) \/ d = doc
           PROVE  d \in Range(w)
      BY <2>2, <2>6, <2>7, <2>8, <2>9, <2>11
    <2> QED BY <2>2, <2>5, <2>10, <2>11 DEF w
  <1> QED BY <1>1, <1>2

\* A document taken out leaves the others.
LEMMA WithoutFacts ==
  ASSUME NEW m \in Seq(Documents), OneEach(m), NEW id
  PROVE  /\ Without(m, id) \in Seq(Documents) /\ OneEach(Without(m, id))
         /\ \A d : d \in Range(Without(m, id)) <=> d \in Range(m) /\ d.id # id
  <1>1. CASE id \notin DocIds(Range(m))
    <2>1. Without(m, id) = m
      BY <1>1 DEF Without
    <2> QED BY <1>1, <2>1 DEF DocIds
  <1>2. CASE id \in DocIds(Range(m))
    <2> DEFINE k == CHOOSE i \in DOMAIN m : m[i].id = id
               w == Without(m, id)
    <2>1. k \in 1 .. Len(m) /\ m[k].id = id
      BY <1>2, RangeFacts DEF DocIds
    <2>2. w = SubSeq(m, 1, k - 1) \o SubSeq(m, k + 1, Len(m))
      BY <1>2 DEF Without, RemoveAt
    <2> HIDE DEF k, w
    <2>3. /\ SubSeq(m, 1, k - 1) \in Seq(Documents) /\ Len(SubSeq(m, 1, k - 1)) = k - 1
          /\ \A i \in 1 .. k - 1 : SubSeq(m, 1, k - 1)[i] = m[i]
      <3>1. \A i \in 1 .. k - 1 : m[i] \in Documents
        BY <2>1, RangeFacts
      <3>2. 1 \in Int /\ k - 1 \in Int
        BY <2>1, RangeFacts
      <3>3. /\ SubSeq(m, 1, k - 1) \in Seq(Documents)
            /\ Len(SubSeq(m, 1, k - 1)) = IF 1 <= k - 1 THEN k - 1 - 1 + 1 ELSE 0
            /\ \A i \in 1 .. k - 1 - 1 + 1 : SubSeq(m, 1, k - 1)[i] = m[1 + i - 1]
        BY <3>1, <3>2, SubSeqProperties
      <3> QED BY <2>1, <3>3, RangeFacts
    <2>4. /\ SubSeq(m, k + 1, Len(m)) \in Seq(Documents)
          /\ Len(SubSeq(m, k + 1, Len(m))) = Len(m) - k
          /\ \A i \in 1 .. Len(m) - k : SubSeq(m, k + 1, Len(m))[i] = m[k + i]
      <3>1. \A i \in k + 1 .. Len(m) : m[i] \in Documents
        BY <2>1, RangeFacts
      <3>2. k + 1 \in Int /\ Len(m) \in Int
        BY <2>1, RangeFacts
      <3>3. /\ SubSeq(m, k + 1, Len(m)) \in Seq(Documents)
            /\ Len(SubSeq(m, k + 1, Len(m))) = IF k + 1 <= Len(m) THEN Len(m) - (k + 1) + 1 ELSE 0
            /\ \A i \in 1 .. Len(m) - (k + 1) + 1 : SubSeq(m, k + 1, Len(m))[i] = m[k + 1 + i - 1]
        BY <3>1, <3>2, SubSeqProperties
      <3> QED BY <2>1, <3>3, RangeFacts
    <2>5. /\ w \in Seq(Documents) /\ Len(w) = Len(m) - 1
          /\ \A i \in 1 .. Len(m) - 1 : w[i] = IF i < k THEN m[i] ELSE m[i + 1]
      <3> DEFINE s == SubSeq(m, 1, k - 1)
                 u == SubSeq(m, k + 1, Len(m))
      <3>1. /\ s \in Seq(Documents) /\ Len(s) = k - 1 /\ \A i \in 1 .. k - 1 : s[i] = m[i]
            /\ u \in Seq(Documents) /\ Len(u) = Len(m) - k
            /\ \A i \in 1 .. Len(m) - k : u[i] = m[k + i]
            /\ w = s \o u
        BY <2>2, <2>3, <2>4
      <3> HIDE DEF s, u
      <3>2. /\ w \in Seq(Documents) /\ Len(w) = Len(s) + Len(u)
            /\ \A i \in 1 .. Len(s) + Len(u) : w[i] = IF i <= Len(s) THEN s[i] ELSE u[i - Len(s)]
        BY <3>1, ConcatProperties
      <3>3. Len(w) = Len(m) - 1 /\ Len(s) + Len(u) = Len(m) - 1
        BY <2>1, <3>1, <3>2, RangeFacts
      <3>4. ASSUME NEW i \in 1 .. Len(m) - 1
            PROVE  w[i] = IF i < k THEN m[i] ELSE m[i + 1]
        <4>1. CASE i < k
          <5>1. w[i] = s[i] /\ i \in 1 .. k - 1
            BY <2>1, <3>1, <3>2, <3>3, <4>1, RangeFacts
          <5> QED BY <3>1, <4>1, <5>1
        <4>2. CASE ~(i < k)
          <5>1. w[i] = u[i - (k - 1)] /\ i - (k - 1) \in 1 .. Len(m) - k
            BY <2>1, <3>1, <3>2, <3>3, <4>2, RangeFacts
          <5>2. k + (i - (k - 1)) = i + 1
            BY <2>1, RangeFacts
          <5>3. u[i - (k - 1)] = m[k + (i - (k - 1))]
            BY <3>1, <5>1
          <5> QED BY <4>2, <5>1, <5>2, <5>3
        <4> QED BY <4>1, <4>2
      <3> QED BY <3>2, <3>3, <3>4
    <2>6. OneEach(w)
      <3> SUFFICES ASSUME NEW i \in 1 .. Len(w), NEW j \in 1 .. Len(w), w[i].id = w[j].id
                   PROVE  i = j
        BY <2>5, RangeFacts DEF OneEach
      <3>1. PICK x \in 1 .. Len(m) : w[i] = m[x] /\ x = IF i < k THEN i ELSE i + 1
        BY <2>1, <2>5, RangeFacts
      <3>2. PICK y \in 1 .. Len(m) : w[j] = m[y] /\ y = IF j < k THEN j ELSE j + 1
        BY <2>1, <2>5, RangeFacts
      <3>3. x = y
        BY <3>1, <3>2, RangeFacts DEF OneEach
      <3> QED BY <2>1, <3>1, <3>2, <3>3, RangeFacts
    <2>7. \A d : d \in Range(w) <=> \E i \in 1 .. Len(w) : w[i] = d
      BY <2>5, RangeFacts
    <2>8. \A d : d \in Range(m) <=> \E i \in 1 .. Len(m) : m[i] = d
      BY RangeFacts
    <2>9. ASSUME NEW d, d \in Range(w)
          PROVE  d \in Range(m) /\ d.id # id
      <3>1. PICK i \in 1 .. Len(w) : w[i] = d
        BY <2>7, <2>9
      <3>2. PICK x \in 1 .. Len(m) : d = m[x] /\ x # k
        BY <2>1, <2>5, <3>1, RangeFacts
      <3> QED BY <2>1, <2>8, <3>2, RangeFacts DEF OneEach
    <2>10. ASSUME NEW d, d \in Range(m), d.id # id
           PROVE  d \in Range(w)
      <3>1. PICK x \in 1 .. Len(m) : m[x] = d
        BY <2>8, <2>10
      <3>2. x # k
        BY <2>1, <2>10, <3>1
      <3>3. CASE x < k
        <4>1. x \in 1 .. Len(w) /\ w[x] = d
          BY <2>1, <2>5, <3>1, <3>3, RangeFacts
        <4> QED BY <2>7, <4>1
      <3>4. CASE x > k
        <4>1. x - 1 \in 1 .. Len(w) /\ w[x - 1] = d
          BY <2>1, <2>5, <3>1, <3>4, RangeFacts
        <4> QED BY <2>7, <4>1
      <3> QED BY <2>1, <3>2, <3>3, <3>4, RangeFacts
    <2> QED BY <2>5, <2>6, <2>9, <2>10 DEF w
  <1> QED BY <1>1, <1>2
-----------------------------------------------------------------------------
LEMMA ShelfUntouched ==
  ASSUME TypeOK, DiskFollows, UNCHANGED <<memory, disk, unsure>>,
         stores' = stores
  PROVE  TypeOK' /\ DiskFollows'
  BY DEF TypeOK, DiskFollows, Held

\* What memory and the files hold of each id, when memory or both change.
LEMMA StoreFollows ==
  ASSUME TypeOK, DiskFollows, NEW t \in Threads, NEW id \in Artifacts, NEW created \in 1 .. LastSecond,
         StoreArtifact(t, id, created)
  PROVE  TypeOK' /\ DiskFollows'
  <1> DEFINE doc == [id |-> id, created |-> created, version |-> stores]
  <1>1. doc \in Documents /\ stores' \in 0 .. MaxStores
    BY ShelfAssumption DEF StoreArtifact, TypeOK, Documents
  <1>2. memory' = Written(memory, doc) /\ doc.id = id
    BY DEF StoreArtifact
  <1>3. /\ \/ disk' = WithDoc(disk, doc) /\ unsure' = unsure \ {id}
           \/ disk' = disk /\ unsure' = unsure \cup {id}
    BY DEF StoreArtifact
  <1> HIDE DEF doc
  <1>4. /\ memory' \in Seq(Documents) /\ OneEach(memory')
        /\ \A d : d \in Range(memory') <=> (d \in Range(memory) /\ d.id # id) \/ d = doc
    BY <1>1, <1>2, WrittenFacts DEF TypeOK, OneEach
  <1>5. /\ WithDoc(disk, doc) \subseteq Documents /\ IsFiniteSet(WithDoc(disk, doc))
        /\ \A d, e \in WithDoc(disk, doc) : d.id = e.id => d = e
    <2>1. IsFiniteSet({d \in disk : d.id # doc.id})
      BY FS_Subset DEF TypeOK
    <2>2. IsFiniteSet(WithDoc(disk, doc))
      BY <2>1, FS_AddElement DEF WithDoc
    <2> QED BY <1>1, <2>2 DEF WithDoc, TypeOK
  <1>6. TypeOK'
    BY <1>1, <1>3, <1>4, <1>5 DEF TypeOK, OneEach
  <1>7. ASSUME NEW x \in Artifacts \ unsure', NEW d, d.id = x
        PROVE  d \in Held' <=> d \in disk'
    <2>1. CASE x = id
      BY <1>2, <1>3, <1>4, <1>7, <2>1 DEF Held, WithDoc
    <2>2. CASE x # id
      <3>1. x \notin unsure
        BY <1>3, <1>7, <2>2
      <3>2. d \in Held <=> d \in disk
        BY <1>7, <3>1 DEF DiskFollows
      <3> QED BY <1>2, <1>3, <1>4, <1>7, <2>2, <3>2 DEF Held, WithDoc
    <2> QED BY <2>1, <2>2
  <1> QED BY <1>6, <1>7 DEF DiskFollows

LEMMA EvictFollows ==
  ASSUME TypeOK, DiskFollows, NEW t \in Threads, Evict(t)
  PROVE  TypeOK' /\ DiskFollows'
  <1> DEFINE id == Head(thread[t].stale)
  <1>1. /\ memory' = Without(memory, id) /\ stores' = stores
        /\ \/ disk' = (IF id \in DocIds(Held) THEN {d \in disk : d.id # id} ELSE disk)
              /\ unsure' = unsure
           \/ id \in DocIds(Held) /\ disk' = disk /\ unsure' = unsure \cup {id}
    BY DEF Evict
  <1> HIDE DEF id
  <1>2. /\ memory' \in Seq(Documents) /\ OneEach(memory')
        /\ \A d : d \in Range(memory') <=> d \in Range(memory) /\ d.id # id
    BY <1>1, WithoutFacts DEF TypeOK, OneEach
  <1>3. disk' \subseteq disk /\ IsFiniteSet(disk')
    <2>1. disk' \subseteq disk
      BY <1>1
    <2> QED BY <2>1, FS_Subset DEF TypeOK
  <1>4. unsure' \subseteq Artifacts
    <2>1. id \in DocIds(Held) => id \in Artifacts
      <3>1. \A d \in Held : d \in Documents
        BY RangeFacts DEF Held, TypeOK
      <3>2. \A d \in Documents : d.id \in Artifacts
        BY DEF Documents
      <3> QED BY <3>1, <3>2 DEF DocIds
    <2> QED BY <1>1, <2>1 DEF TypeOK
  <1>5. TypeOK'
    BY <1>1, <1>2, <1>3, <1>4 DEF TypeOK, OneEach
  <1>6. ASSUME NEW x \in Artifacts \ unsure', NEW d, d.id = x
        PROVE  d \in Held' <=> d \in disk'
    <2>1. x \notin unsure
      BY <1>1, <1>6
    <2>2. d \in Held <=> d \in disk
      BY <1>6, <2>1 DEF DiskFollows
    <2> QED BY <1>1, <1>2, <1>6, <2>2 DEF Held, DocIds
  <1> QED BY <1>5, <1>6 DEF DiskFollows

\* The next process lists what is on the disk.
LEMMA RestartLists ==
  ASSUME TypeOK, Restart
  PROVE  \A d : d \in Held' <=> d \in disk
  <1> DEFINE n == Cardinality(disk)
  <1>1. n \in Nat /\ memory' \in [1 .. n -> disk] /\ IsInjective(memory')
    BY FS_CardinalityType DEF Restart, TypeOK
  <1>2. memory' \in Injection(1 .. n, disk)
    BY <1>1 DEF IsInjective, Injection
  <1>3. IsFiniteSet(1 .. n) /\ Cardinality(1 .. n) = n
    BY <1>1, FS_Interval
  <1>4. memory' \in Surjection(1 .. n, disk)
    BY <1>2, <1>3, FS_Injection DEF TypeOK
  <1> QED BY <1>1, <1>4 DEF Surjection, Range, Held

LEMMA RestartFollows ==
  ASSUME TypeOK, Restart
  PROVE  TypeOK' /\ DiskFollows'
  <1> DEFINE n == Cardinality(disk)
  <1>1. n \in Nat /\ disk' = disk /\ UNCHANGED <<unsure, stores>>
        /\ memory' \in [1 .. n -> disk] /\ IsInjective(memory')
    BY FS_CardinalityType DEF Restart, TypeOK
  <1>2. memory' \in Seq(Documents) /\ DOMAIN memory' = 1 .. n
    BY <1>1 DEF TypeOK
  <1>3. OneEach(memory')
    BY <1>1, <1>2 DEF OneEach, IsInjective, TypeOK
  <1>4. TypeOK'
    BY <1>1, <1>2, <1>3 DEF TypeOK, OneEach
  <1>5. DiskFollows'
    BY <1>1, RestartLists DEF DiskFollows
  <1> QED BY <1>4, <1>5

LEMMA FollowsStep ==
  ASSUME TypeOK, DiskFollows, [Next]_vars
  PROVE  TypeOK' /\ DiskFollows'
  <1>1. ASSUME NEW t \in Threads,
               \/ ListArtifacts(t) \/ Answer(t) \/ CheckNew(t) \/ CheckCeiling(t) \/ PutSuite(t)
               \/ \E id \in Suites, create \in BOOLEAN : SaveSuite(t, id, create)
        PROVE  TypeOK' /\ DiskFollows'
    BY <1>1, ShelfUntouched
       DEF ListArtifacts, Answer, CheckNew, CheckCeiling, SaveSuite, PutSuite
  <1>2. CASE (\E id \in Suites : DeleteSuite(id)) \/ UNCHANGED vars
    BY <1>2, ShelfUntouched DEF DeleteSuite, vars
  <1> QED BY <1>1, <1>2, StoreFollows, EvictFollows, RestartFollows DEF Next

LEMMA EmptyFollows == Init => TypeOK /\ DiskFollows
  <1> SUFFICES ASSUME Init PROVE TypeOK /\ DiskFollows
    OBVIOUS
  <1>1. memory = << >> /\ disk = {} /\ unsure = {} /\ stores = 0
    BY DEF Init
  <1>2. memory \in Seq(Documents) /\ Len(memory) = 0
    BY <1>1, EmptySeq
  <1>3. DOMAIN memory = {} /\ Range(memory) = {}
    <2>1. DOMAIN memory = 1 .. 0
      BY <1>2, LenProperties
    <2>2. \A i : i \notin 1 .. 0
      OBVIOUS
    <2> QED BY <2>1, <2>2 DEF Range
  <1>4. IsFiniteSet(disk)
    BY <1>1, FS_EmptySet
  <1> QED BY <1>1, <1>2, <1>3, <1>4, ShelfAssumption DEF TypeOK, DiskFollows, Held

\* Memory and the files hold documents, one of an id at most.
THEOREM ShelfTypeCorrect == Spec => []TypeOK
  BY EmptyFollows, FollowsStep, PTL DEF Spec

\* Memory and the files agree on every artifact whose last write or removal the
\* disk took, through every interleaving, refusal and restart.
THEOREM DiskAlwaysFollows == Spec => []DiskFollows
  BY EmptyFollows, FollowsStep, PTL DEF Spec
-----------------------------------------------------------------------------
(* The list, newest first.                                                  *)

LEMMA IntervalFacts ==
  ASSUME NEW n \in Nat
  PROVE  /\ IsFiniteSet(1 .. n) /\ Cardinality(1 .. n) = n
         /\ IsFiniteSet(0 .. n - 1) /\ Cardinality(0 .. n - 1) = n
  <1>1. 0 \in Int /\ 1 \in Int /\ n \in Int /\ n - 1 \in Int
    OBVIOUS
  <1>2. /\ IsFiniteSet(0 .. n - 1)
        /\ Cardinality(0 .. n - 1) = IF 0 > n - 1 THEN 0 ELSE (n - 1) - 0 + 1
    BY <1>1, FS_Interval
  <1>3. /\ IsFiniteSet(1 .. n) /\ Cardinality(1 .. n) = IF 1 > n THEN 0 ELSE n - 1 + 1
    BY <1>1, FS_Interval
  <1> QED BY <1>2, <1>3

LEMMA DocumentFacts ==
  ASSUME NEW d \in Documents
  PROVE  d.id \in Artifacts /\ d.created \in Nat
  BY ShelfAssumption DEF Documents

\* Of two documents of the list one comes first, and it ranks before.
LEMMA RankOrders ==
  ASSUME NEW m \in Seq(Documents), NEW i \in 1 .. Len(m), NEW j \in 1 .. Len(m), i # j
  PROVE  /\ Newer(m, i, j) \/ Newer(m, j, i)
         /\ Newer(m, i, j) => Rank(m, i) < Rank(m, j)
         /\ Rank(m, i) \in 0 .. Len(m) - 1
  <1> DEFINE Before(k) == {x \in DOMAIN m : Newer(m, x, k)}
  <1>1. DOMAIN m = 1 .. Len(m) /\ Len(m) \in Nat
    BY RangeFacts
  <1>2. \A k \in 1 .. Len(m) : m[k].created \in Nat
    BY RangeFacts, DocumentFacts
  <1>3. IsFiniteSet(1 .. Len(m)) /\ Cardinality(1 .. Len(m)) = Len(m)
    BY <1>1, IntervalFacts
  <1>4. \A k \in 1 .. Len(m) : /\ Before(k) \subseteq (1 .. Len(m)) \ {k}
                               /\ IsFiniteSet(Before(k)) /\ Cardinality(Before(k)) \in Nat
                               /\ Cardinality(Before(k)) <= Len(m) - 1
    <2> TAKE k \in 1 .. Len(m)
    <2>1. Before(k) \subseteq (1 .. Len(m)) \ {k}
      BY <1>1, <1>2 DEF Newer
    <2>2. /\ IsFiniteSet((1 .. Len(m)) \ {k})
          /\ Cardinality((1 .. Len(m)) \ {k}) = Len(m) - 1
      BY <1>3, FS_RemoveElement
    <2> HIDE DEF Before
    <2>3. IsFiniteSet(Before(k)) /\ Cardinality(Before(k)) <= Cardinality((1 .. Len(m)) \ {k})
      BY <2>1, <2>2, FS_Subset
    <2> QED BY <2>1, <2>2, <2>3, FS_CardinalityType
  <1>5. Newer(m, i, j) \/ Newer(m, j, i)
    BY <1>1, <1>2 DEF Newer
  <1>6. ASSUME Newer(m, i, j)
        PROVE  Cardinality(Before(i)) < Cardinality(Before(j))
    <2>1. Before(i) \subseteq Before(j) /\ i \in Before(j) /\ i \notin Before(i)
      <3>1. \A x \in 1 .. Len(m) : Newer(m, x, i) => Newer(m, x, j)
        BY <1>1, <1>2, <1>6 DEF Newer
      <3>2. ~Newer(m, i, i)
        BY <1>1, <1>2 DEF Newer
      <3> QED BY <1>1, <1>6, <3>1, <3>2
    <2> HIDE DEF Before
    <2>2. Before(i) \subseteq Before(j) \ {i}
      BY <2>1
    <2>3. /\ IsFiniteSet(Before(j) \ {i})
          /\ Cardinality(Before(j) \ {i}) = Cardinality(Before(j)) - 1
      BY <1>4, <2>1, FS_RemoveElement
    <2>4. Cardinality(Before(i)) <= Cardinality(Before(j) \ {i})
      BY <2>2, <2>3, FS_Subset
    <2> QED BY <1>4, <2>3, <2>4
  <1>7. Rank(m, i) = Cardinality(Before(i)) /\ Rank(m, j) = Cardinality(Before(j))
    BY DEF Rank
  <1> HIDE DEF Before
  <1>8. Cardinality(Before(i)) \in 0 .. Len(m) - 1
    BY <1>1, <1>4
  <1> QED BY <1>5, <1>6, <1>7, <1>8

\* Every rank is taken, by one document.
LEMMA RankFacts ==
  ASSUME NEW m \in Seq(Documents)
  PROVE  /\ \A j \in 1 .. Len(m) : Rank(m, j) \in 0 .. Len(m) - 1
         /\ \A i, j \in 1 .. Len(m) : Rank(m, i) = Rank(m, j) => i = j
         /\ \A r \in 0 .. Len(m) - 1 : \E j \in 1 .. Len(m) : Rank(m, j) = r
  <1> DEFINE n == Len(m)
             f == [j \in 1 .. n |-> Rank(m, j)]
  <1>1. n \in Nat
    BY RangeFacts
  <1>2. \A i, j \in 1 .. n : Rank(m, i) = Rank(m, j) => i = j
    <2> SUFFICES ASSUME NEW i \in 1 .. n, NEW j \in 1 .. n, i # j
                 PROVE  Rank(m, i) # Rank(m, j)
      OBVIOUS
    <2>1. Rank(m, i) \in 0 .. n - 1 /\ Rank(m, j) \in 0 .. n - 1
      BY RankOrders
    <2>2. Rank(m, i) < Rank(m, j) \/ Rank(m, j) < Rank(m, i)
      BY RankOrders
    <2> QED BY <2>1, <2>2
  <1>3. \A j \in 1 .. n : Rank(m, j) \in 0 .. n - 1
    <2> TAKE j \in 1 .. n
    <2>1. CASE n = 1
      <3> DEFINE B == {x \in DOMAIN m : Newer(m, x, j)}
      <3>1. DOMAIN m = 1 .. n /\ m[j].created \in Nat
        BY RangeFacts, DocumentFacts
      <3>2. j = 1
        BY <2>1
      <3>3. B = {}
        BY <2>1, <3>1, <3>2 DEF Newer
      <3>4. Rank(m, j) = 0
        BY <3>3, FS_EmptySet DEF Rank
      <3> QED BY <2>1, <3>4
    <2>2. CASE n # 1
      <3>1. \E i \in 1 .. n : i # j
        <4>1. CASE j = 1
          <5> HIDE DEF n
          <5>1. 2 \in 1 .. n /\ 2 # j
            BY <1>1, <2>2, <4>1
          <5> QED BY <5>1
        <4>2. CASE j # 1
          <5>1. 1 \in 1 .. n /\ 1 # j
            BY <1>1, <4>2
          <5> QED BY <5>1
        <4> QED BY <4>1, <4>2
      <3> QED BY <3>1, RankOrders
    <2> QED BY <2>1, <2>2
  <1>4. f \in Injection(1 .. n, 0 .. n - 1)
    BY <1>2, <1>3, Fun_IsInj
  <1>5. /\ IsFiniteSet(1 .. n) /\ Cardinality(1 .. n) = n
        /\ IsFiniteSet(0 .. n - 1) /\ Cardinality(0 .. n - 1) = n
    BY <1>1, IntervalFacts
  <1> HIDE DEF f
  <1>6. f \in Surjection(1 .. n, 0 .. n - 1)
    BY <1>4, <1>5, FS_Injection
  <1>7. \A r \in 0 .. n - 1 : \E j \in 1 .. n : f[j] = r
    BY <1>6 DEF Surjection
  <1> QED BY <1>2, <1>3, <1>7 DEF f

\* What a pass is about to evict: all but the first `keep`.
LEMMA StaleFacts ==
  ASSUME NEW m \in Seq(Documents), NEW keep \in Nat
  PROVE  /\ Stale(m, keep) \in Seq(Artifacts)
         /\ \A id \in Range(Stale(m, keep)) :
                \E j \in 1 .. Len(m) : m[j].id = id /\ Rank(m, j) >= keep
         /\ \A j \in 1 .. Len(m) : Rank(m, j) >= keep => m[j].id \in Range(Stale(m, keep))
  <1> DEFINE n == Len(m)
             At(r) == CHOOSE j \in 1 .. n : Rank(m, j) = r
             s == Stale(m, keep)
  <1>1. DOMAIN m = 1 .. n /\ n \in Nat /\ \A j \in 1 .. n : m[j].id \in Artifacts
    BY RangeFacts DEF Documents
  <1>2. s = [k \in 1 .. n - keep |-> m[At(keep + k - 1)].id]
    BY <1>1 DEF Stale
  <1>3. \A r \in 0 .. n - 1 : At(r) \in 1 .. n /\ Rank(m, At(r)) = r
    BY RankFacts
  <1> HIDE DEF s, At
  <1>4. \A k \in 1 .. n - keep : keep + k - 1 \in 0 .. n - 1
    BY <1>1
  <1>5. \A k \in 1 .. n - keep : /\ At(keep + k - 1) \in 1 .. n /\ s[k] = m[At(keep + k - 1)].id
                                 /\ Rank(m, At(keep + k - 1)) = keep + k - 1
    BY <1>2, <1>3, <1>4
  <1>6. s \in Seq(Artifacts)
    <2> DEFINE l == IF n >= keep THEN n - keep ELSE 0
    <2>1. l \in Nat /\ 1 .. l = 1 .. n - keep
      <3>1. n \in Nat
        BY <1>1
      <3> HIDE DEF n
      <3> QED BY <3>1
    <2>2. s \in [1 .. n - keep -> Artifacts]
      BY <1>1, <1>2, <1>5
    <2> HIDE DEF l
    <2>3. s \in [1 .. l -> Artifacts]
      BY <2>1, <2>2
    <2> QED BY <2>1, <2>3
  <1>7. DOMAIN s = 1 .. n - keep
    BY <1>2
  <1>8. ASSUME NEW id \in Range(s)
        PROVE  \E j \in 1 .. n : m[j].id = id /\ Rank(m, j) >= keep
    <2>1. PICK k \in 1 .. n - keep : s[k] = id
      BY <1>7, <1>8 DEF Range
    <2>2. keep + k - 1 >= keep
      BY <1>1
    <2> QED BY <1>5, <2>1, <2>2
  <1>9. ASSUME NEW j \in 1 .. n, Rank(m, j) >= keep
        PROVE  m[j].id \in Range(s)
    <2> DEFINE k == Rank(m, j) - keep + 1
    <2>1. Rank(m, j) \in 0 .. n - 1
      BY RankFacts
    <2>2. k \in 1 .. n - keep /\ keep + k - 1 = Rank(m, j)
      BY <1>1, <1>9, <2>1
    <2>3. At(keep + k - 1) = j
      <3>1. Rank(m, At(keep + k - 1)) = Rank(m, j) /\ At(keep + k - 1) \in 1 .. n
        BY <1>5, <2>2
      <3> HIDE DEF k
      <3> QED BY <3>1, RankFacts
    <2>4. s[k] = m[j].id
      BY <1>5, <2>2, <2>3
    <2> HIDE DEF k
    <2> QED BY <1>7, <2>2, <2>4 DEF Range
  <1> QED BY <1>6, <1>8, <1>9 DEF s

\* A pass leaves `keep` documents of the list at most.
LEMMA StaleLeaves ==
  ASSUME NEW m \in Seq(Documents), OneEach(m), NEW keep \in Nat
  PROVE  LET S == DocIds(Range(m)) \ Range(Stale(m, keep))
         IN  IsFiniteSet(S) /\ Cardinality(S) \in Nat /\ Cardinality(S) <= keep
  <1> DEFINE S == DocIds(Range(m)) \ Range(Stale(m, keep))
             at(id) == CHOOSE j \in 1 .. Len(m) : m[j].id = id
             f == [id \in S |-> Rank(m, at(id))]
  <1>1. Len(m) \in Nat /\ DOMAIN m = 1 .. Len(m)
    BY RangeFacts
  <1>2. \A id \in S : at(id) \in 1 .. Len(m) /\ m[at(id)].id = id
    <2> TAKE id \in S
    <2>1. \E j \in 1 .. Len(m) : m[j].id = id
      BY RangeFacts DEF DocIds
    <2> QED BY <2>1
  <1>3. \A id \in S : Rank(m, at(id)) \in 0 .. keep - 1
    <2> TAKE id \in S
    <2>1. at(id) \in 1 .. Len(m) /\ m[at(id)].id = id
      BY <1>2
    <2> HIDE DEF at
    <2>2. Rank(m, at(id)) \in 0 .. Len(m) - 1
      BY <2>1, RankFacts
    <2>3. ~(Rank(m, at(id)) >= keep)
      BY <2>1, StaleFacts
    <2> QED BY <1>1, <2>2, <2>3
  <1> HIDE DEF at, S
  <1>4. \A x, y \in S : f[x] = f[y] => x = y
    <2> TAKE x, y \in S
    <2>1. f[x] = f[y] => at(x) = at(y)
      BY <1>2, RankFacts
    <2> QED BY <1>2, <2>1
  <1>5. f \in [S -> 0 .. keep - 1]
    BY <1>3
  <1>6. f \in Injection(S, 0 .. keep - 1)
    BY <1>4, <1>5, Fun_IsInj
  <1>7. IsFiniteSet(0 .. keep - 1) /\ Cardinality(0 .. keep - 1) = keep
    BY IntervalFacts
  <1> HIDE DEF f
  <1>8. IsFiniteSet(S) /\ Cardinality(S) <= Cardinality(0 .. keep - 1)
    BY <1>6, <1>7, FS_Injection
  <1> QED BY <1>7, <1>8, FS_CardinalityType DEF S
-----------------------------------------------------------------------------
(* The window.  Once the passes of T have taken out what they listed, what  *)
(* is beyond the window is owed, or of a request that is not of T.          *)
Evicting == {t \in Threads : thread[t].at = "evicting"}
Pending == {t \in Threads : thread[t].at \in {"stored", "evicting"}}
Listed(T) == UNION {Range(thread[t].stale) : t \in T}
Unlisted(T) == DocIds(Held) \ Listed(T)
DiskOnly == DocIds(disk) \ DocIds(Held)

StaleShape == \A t \in Evicting : thread[t].stale \in Seq(Artifacts)
Accounted ==
    /\ owed \in Nat /\ Cardinality(DiskOnly) <= owed
    /\ \A T \in SUBSET Evicting :
        Cardinality(Unlisted(T)) + Cardinality(DiskOnly)
            <= Keep + owed + Cardinality(Pending \ T)
WindowInv == Shaped /\ TypeOK /\ DiskFollows /\ StaleShape /\ Accounted

LEMMA IdsFinite ==
  ASSUME NEW S, IsFiniteSet(S)
  PROVE  IsFiniteSet(DocIds(S)) /\ Cardinality(DocIds(S)) \in Nat
         /\ Cardinality(DocIds(S)) <= Cardinality(S)
  <1> DEFINE f == [d \in S |-> d.id]
  <1>1. f \in Surjection(S, DocIds(S))
    BY Fun_IsSurj DEF DocIds
  <1> HIDE DEF f
  <1> QED BY <1>1, FS_Surjection, FS_CardinalityType

\* Memory has as many documents as ids.
LEMMA MemoryIds ==
  ASSUME TypeOK
  PROVE  /\ IsFiniteSet(DocIds(Held)) /\ Cardinality(DocIds(Held)) = Len(memory)
         /\ IsFiniteSet(DocIds(disk)) /\ IsFiniteSet(DiskOnly)
  <1> DEFINE n == Len(memory)
             f == [i \in 1 .. n |-> memory[i].id]
  <1>1. memory \in Seq(Documents) /\ n \in Nat /\ DOMAIN memory = 1 .. n
    BY RangeFacts DEF TypeOK
  <1>2. \A i, j \in 1 .. n : memory[i].id = memory[j].id => i = j
    BY <1>1 DEF TypeOK
  <1>3. DocIds(Held) = {memory[i].id : i \in 1 .. n}
    BY <1>1, RangeFacts DEF DocIds, Held
  <1>4. f \in Surjection(1 .. n, DocIds(Held))
    BY <1>3, Fun_IsSurj
  <1>5. f \in Injection(1 .. n, DocIds(Held))
    BY <1>2, <1>3, Fun_IsInj
  <1> HIDE DEF f
  <1>6. IsFiniteSet(DocIds(Held)) /\ Cardinality(DocIds(Held)) = n
    BY <1>1, <1>4, <1>5, IntervalFacts, FS_Surjection
  <1>7. IsFiniteSet(DocIds(disk))
    BY IdsFinite DEF TypeOK
  <1>8. IsFiniteSet(DiskOnly)
    BY <1>7, FS_Difference DEF DiskOnly
  <1> QED BY <1>6, <1>7, <1>8

\* The sets that are counted are finite.
LEMMA Counts ==
  ASSUME TypeOK, NEW T
  PROVE  /\ IsFiniteSet(Unlisted(T)) /\ Cardinality(Unlisted(T)) \in Nat
         /\ IsFiniteSet(DiskOnly) /\ Cardinality(DiskOnly) \in Nat
         /\ IsFiniteSet(Pending \ T) /\ Cardinality(Pending \ T) \in Nat
  <1>1. IsFiniteSet(Unlisted(T)) /\ IsFiniteSet(DiskOnly)
    BY MemoryIds, FS_Difference DEF Unlisted
  <1>2. Pending \ T \in SUBSET Threads
    BY DEF Pending
  <1>3. IsFiniteSet(Pending \ T)
    BY <1>2, ShelfAssumption, FS_Subset
  <1> QED BY <1>1, <1>3, FS_CardinalityType

LEMMA CountsNext ==
  ASSUME NEW T
  PROVE  IsFiniteSet(Pending' \ T) /\ Cardinality(Pending' \ T) \in Nat
  <1>1. Pending' \ T \in SUBSET Threads
    BY DEF Pending
  <1>2. IsFiniteSet(Pending' \ T)
    BY <1>1, ShelfAssumption, FS_Subset
  <1> QED BY <1>2, FS_CardinalityType

LEMMA CountsWithin ==
  ASSUME NEW S, IsFiniteSet(S), NEW R, R \subseteq S
  PROVE  Cardinality(R) <= Cardinality(S) /\ Cardinality(R) \in Nat /\ Cardinality(S) \in Nat
  BY FS_Subset, FS_CardinalityType

LEMMA CountsOneMore ==
  ASSUME NEW S, IsFiniteSet(S), NEW x, NEW R, R \subseteq S \cup {x}
  PROVE  Cardinality(R) <= Cardinality(S) + 1 /\ Cardinality(R) \in Nat /\ Cardinality(S) \in Nat
  <1>1. /\ IsFiniteSet(S \cup {x})
        /\ Cardinality(S \cup {x}) = (IF x \in S THEN Cardinality(S) ELSE Cardinality(S) + 1)
    BY FS_AddElement
  <1>2. Cardinality(R) <= Cardinality(S \cup {x}) /\ Cardinality(R) \in Nat
    BY <1>1, CountsWithin
  <1>3. Cardinality(S) \in Nat
    BY FS_CardinalityType
  <1> QED BY <1>1, <1>2, <1>3

\* A step after which no more is beyond.
LEMMA StillAccounted ==
  ASSUME TypeOK, TypeOK', Accounted, NEW T \in SUBSET Evicting, NEW T2,
         Unlisted(T2)' \subseteq Unlisted(T), DiskOnly' \subseteq DiskOnly, owed' = owed,
         (Pending' \ T2) = Pending \ T
  PROVE  Cardinality(Unlisted(T2)') + Cardinality(DiskOnly')
            <= Keep + owed' + Cardinality(Pending' \ T2)
  <1>1. /\ Cardinality(Unlisted(T2)') <= Cardinality(Unlisted(T))
        /\ Cardinality(Unlisted(T2)') \in Nat /\ Cardinality(Unlisted(T)) \in Nat
    BY Counts, CountsWithin
  <1>2. /\ Cardinality(DiskOnly') <= Cardinality(DiskOnly)
        /\ Cardinality(DiskOnly') \in Nat /\ Cardinality(DiskOnly) \in Nat
    BY Counts, CountsWithin
  <1>3. Cardinality(Pending \ T) \in Nat
    BY Counts
  <1>4. Cardinality(Unlisted(T)) + Cardinality(DiskOnly) <= Keep + owed + Cardinality(Pending \ T)
    BY DEF Accounted
  <1>5. owed \in Nat /\ Keep \in Nat
    BY ShelfAssumption DEF Accounted
  <1>6. Cardinality(Pending' \ T2) = Cardinality(Pending \ T)
    OBVIOUS
  <1> QED BY <1>1, <1>2, <1>3, <1>4, <1>5, <1>6

\* The ids there are after a store and after an eviction.
LEMMA StoreIds ==
  ASSUME TypeOK, NEW t \in Threads, NEW id \in Artifacts, NEW created \in 1 .. LastSecond,
         StoreArtifact(t, id, created)
  PROVE  LET doc == [id |-> id, created |-> created, version |-> stores]
         IN  /\ \A d : d \in Held' <=> (d \in Held /\ d.id # id) \/ d = doc
             /\ DocIds(Held') = DocIds(Held) \cup {id}
             /\ DocIds(disk') \subseteq DocIds(disk) \cup {id}
  <1> DEFINE doc == [id |-> id, created |-> created, version |-> stores]
  <1>1. doc \in Documents /\ doc.id = id
    BY ShelfAssumption DEF TypeOK, Documents
  <1>2. memory' = Written(memory, doc) /\ (disk' = WithDoc(disk, doc) \/ disk' = disk)
    BY DEF StoreArtifact
  <1> HIDE DEF doc
  <1>3. \A d : d \in Held' <=> (d \in Held /\ d.id # id) \/ d = doc
    BY <1>1, <1>2, WrittenFacts DEF TypeOK, OneEach, Held
  <1>4. DocIds(Held') = DocIds(Held) \cup {id}
    BY <1>1, <1>3 DEF DocIds
  <1>5. DocIds(disk') \subseteq DocIds(disk) \cup {id}
    BY <1>1, <1>2 DEF DocIds, WithDoc
  <1> QED BY <1>3, <1>4, <1>5 DEF doc

LEMMA EvictIds ==
  ASSUME TypeOK, NEW t \in Threads, Evict(t)
  PROVE  LET id == Head(thread[t].stale)
         IN  /\ \A d : d \in Held' <=> d \in Held /\ d.id # id
             /\ DocIds(Held') = DocIds(Held) \ {id}
             /\ disk' \subseteq disk
             /\ DocIds({d \in disk : d.id # id}) = DocIds(disk) \ {id}
  <1> DEFINE id == Head(thread[t].stale)
  <1>1. memory' = Without(memory, id) /\ disk' \subseteq disk
    BY DEF Evict
  <1> HIDE DEF id
  <1>2. \A d : d \in Held' <=> d \in Held /\ d.id # id
    BY <1>1, WithoutFacts DEF TypeOK, OneEach, Held
  <1>3. DocIds(Held') = DocIds(Held) \ {id}
    BY <1>2 DEF DocIds
  <1>4. DocIds({d \in disk : d.id # id}) = DocIds(disk) \ {id}
    BY DEF DocIds
  <1> QED BY <1>1, <1>2, <1>3, <1>4 DEF id

\* A request that stores: one more is beyond, and it is pending or owed.
LEMMA StoreAccounted ==
  ASSUME WindowInv, TypeOK', NEW t \in Threads, NEW id \in Artifacts, NEW created \in 1 .. LastSecond,
         StoreArtifact(t, id, created)
  PROVE  StaleShape' /\ Accounted'
  <1>1. /\ TypeOK /\ Shaped /\ StaleShape /\ Accounted /\ owed \in Nat /\ Keep \in Nat
        /\ Cardinality(DiskOnly) <= owed
    BY ShelfAssumption DEF WindowInv, Accounted
  <1>2. thread[t].at = "idle" /\ t \notin Evicting /\ t \notin Pending
    BY <1>1, StoreMoves DEF Evicting, Pending
  <1>3. DocIds(Held') = DocIds(Held) \cup {id} /\ DocIds(disk') \subseteq DocIds(disk) \cup {id}
    BY <1>1, StoreIds
  <1>4. DiskOnly' \subseteq DiskOnly
    BY <1>3 DEF DiskOnly
  <1>5. /\ Cardinality(DiskOnly') <= Cardinality(DiskOnly)
        /\ Cardinality(DiskOnly') \in Nat /\ Cardinality(DiskOnly) \in Nat
    BY <1>1, <1>4, Counts, CountsWithin
  <1>6. /\ Evicting' = Evicting /\ \A u \in Evicting : thread'[u] = thread[u]
        /\ \/ Pending' = Pending \cup {t} /\ owed' = owed
           \/ Pending' = Pending /\ owed' = owed + 1
    <2>1. CASE Moves(t, "stored") /\ owed' = owed
      BY <1>2, <2>1 DEF Moves, Evicting, Pending
    <2>2. CASE thread' = thread /\ owed' = owed + 1
      BY <2>2 DEF Evicting, Pending
    <2> QED BY <1>1, <2>1, <2>2, StoreMoves
  <1>7. StaleShape'
    BY <1>1, <1>6 DEF StaleShape
  <1>8. ASSUME NEW T \in SUBSET Evicting'
        PROVE  Cardinality(Unlisted(T)') + Cardinality(DiskOnly')
                    <= Keep + owed' + Cardinality(Pending' \ T)
    <2>1. T \in SUBSET Evicting /\ t \notin T
      BY <1>2, <1>6, <1>8
    <2>2. Listed(T)' = Listed(T)
      BY <1>6, <2>1 DEF Listed
    <2>3. Unlisted(T)' \subseteq Unlisted(T) \cup {id}
      BY <1>3, <2>2 DEF Unlisted
    <2>4. /\ Cardinality(Unlisted(T)') <= Cardinality(Unlisted(T)) + 1
          /\ Cardinality(Unlisted(T)') \in Nat /\ Cardinality(Unlisted(T)) \in Nat
      BY <1>1, <2>3, Counts, CountsOneMore
    <2>5. Cardinality(Pending \ T) \in Nat /\ IsFiniteSet(Pending \ T)
      BY <1>1, Counts
    <2>6. Cardinality(Unlisted(T)) + Cardinality(DiskOnly) <= Keep + owed + Cardinality(Pending \ T)
      BY <1>1, <2>1 DEF Accounted
    <2>7. Cardinality(Pending' \ T) + owed' = Cardinality(Pending \ T) + owed + 1
      <3>1. CASE Pending' = Pending \cup {t} /\ owed' = owed
        <4>1. Pending' \ T = (Pending \ T) \cup {t} /\ t \notin Pending \ T
          BY <1>2, <2>1, <3>1
        <4>2. Cardinality(Pending' \ T) = Cardinality(Pending \ T) + 1
          BY <2>5, <4>1, FS_AddElement
        <4> QED BY <1>1, <2>5, <3>1, <4>2
      <3>2. CASE Pending' = Pending /\ owed' = owed + 1
        BY <1>1, <2>5, <3>2
      <3> QED BY <1>6, <3>1, <3>2
    <2>8. Cardinality(Pending' \ T) \in Nat
      BY CountsNext
    <2>9. owed' \in Nat
      BY <1>1, <1>6
    <2> QED BY <1>1, <1>5, <2>4, <2>5, <2>6, <2>7, <2>8, <2>9
  <1>9. owed' \in Nat /\ Cardinality(DiskOnly') <= owed'
    BY <1>1, <1>5, <1>6
  <1> QED BY <1>7, <1>8, <1>9 DEF Accounted

\* A request that lists: it will leave no more than the window holds.
LEMMA ListAccounted ==
  ASSUME WindowInv, TypeOK', NEW t \in Threads, ListArtifacts(t)
  PROVE  StaleShape' /\ Accounted'
  <1>1. /\ TypeOK /\ Shaped /\ StaleShape /\ Accounted /\ owed \in Nat /\ Keep \in Nat
        /\ Cardinality(DiskOnly) <= owed /\ memory \in Seq(Documents) /\ OneEach(memory)
    BY ShelfAssumption DEF WindowInv, Accounted, TypeOK, OneEach
  <1>2. memory' = memory /\ disk' = disk /\ owed' = owed
    BY DEF ListArtifacts
  <1>3. /\ thread[t].at = "stored" /\ Moves(t, "evicting")
        /\ thread'[t].stale = Stale(memory, Keep)
    BY <1>1, ListMoves
  <1>4. /\ Evicting' = Evicting \cup {t} /\ Pending' = Pending /\ t \notin Evicting
        /\ \A u \in Evicting : thread'[u] = thread[u]
    BY <1>3 DEF Moves, Evicting, Pending
  <1>5. Held' = Held /\ DiskOnly' = DiskOnly
    BY <1>2 DEF Held, DiskOnly
  <1>6. StaleShape'
    BY <1>1, <1>3, <1>4, StaleFacts DEF StaleShape
  <1>7. ASSUME NEW T \in SUBSET Evicting'
        PROVE  Cardinality(Unlisted(T)') + Cardinality(DiskOnly')
                    <= Keep + owed' + Cardinality(Pending' \ T)
    <2>1. CASE t \notin T
      <3>1. T \in SUBSET Evicting
        BY <1>4, <2>1
      <3>2. Unlisted(T)' = Unlisted(T)
        BY <1>4, <1>5, <3>1 DEF Unlisted, Listed
      <3> QED BY <1>1, <1>2, <1>4, <1>5, <3>1, <3>2 DEF Accounted
    <2>2. CASE t \in T
      <3> DEFINE S == DocIds(Range(memory)) \ Range(Stale(memory, Keep))
      <3>1. Unlisted(T)' \subseteq S
        BY <1>3, <1>5, <2>2 DEF Unlisted, Listed, Held
      <3>2. IsFiniteSet(S) /\ Cardinality(S) \in Nat /\ Cardinality(S) <= Keep
        BY <1>1, StaleLeaves
      <3> HIDE DEF S
      <3>3. Cardinality(Unlisted(T)') <= Cardinality(S) /\ Cardinality(Unlisted(T)') \in Nat
        BY <3>1, <3>2, CountsWithin
      <3>4. Cardinality(DiskOnly) \in Nat /\ Cardinality(Pending' \ T) \in Nat
        BY <1>1, Counts, CountsNext
      <3> QED BY <1>1, <1>2, <1>5, <3>2, <3>3, <3>4
    <2> QED BY <2>1, <2>2
  <1> QED BY <1>1, <1>2, <1>5, <1>6, <1>7 DEF Accounted

\* An eviction: what is taken out was listed; a refused one is owed, and so is
\* the file it left.
LEMMA EvictAccounted ==
  ASSUME WindowInv, TypeOK', NEW t \in Threads, Evict(t)
  PROVE  StaleShape' /\ Accounted'
  <1> DEFINE id == Head(thread[t].stale)
  <1>1. /\ TypeOK /\ Shaped /\ StaleShape /\ Accounted /\ owed \in Nat /\ Keep \in Nat
        /\ Cardinality(DiskOnly) <= owed
    BY ShelfAssumption DEF WindowInv, Accounted
  <1>2. t \in Evicting /\ t \in Pending /\ thread[t].stale \in Seq(Artifacts) /\ thread[t].stale # <<>>
    BY <1>1, EvictMoves DEF Evicting, Pending, StaleShape
  <1>3. DocIds(Held') = DocIds(Held) \ {id}
        /\ DocIds({d \in disk : d.id # id}) = DocIds(disk) \ {id}
    BY <1>1, EvictIds
  <1>4. /\ Tail(thread[t].stale) \in Seq(Artifacts)
        /\ \A x : x \in Range(thread[t].stale) => x = id \/ x \in Range(Tail(thread[t].stale))
    <2> DEFINE s == thread[t].stale
    <2>1. s \in Seq(Artifacts) /\ s # <<>> /\ id = Head(s)
      BY <1>2
    <2> HIDE DEF s, id
    <2>2. /\ Tail(s) \in Seq(Artifacts) /\ Len(Tail(s)) = Len(s) - 1 /\ id = s[1]
          /\ \A i \in 1 .. Len(s) - 1 : Tail(s)[i] = s[i + 1]
      BY <2>1, HeadTailProperties
    <2>3. DOMAIN s = 1 .. Len(s) /\ DOMAIN Tail(s) = 1 .. Len(Tail(s)) /\ Len(s) \in Nat
      BY <2>1, <2>2, LenProperties
    <2>4. ASSUME NEW i \in 1 .. Len(s), i # 1
          PROVE  s[i] \in Range(Tail(s))
      <3>1. i - 1 \in 1 .. Len(s) - 1 /\ (i - 1) + 1 = i
        BY <2>3, <2>4
      <3>2. Tail(s)[i - 1] = s[i] /\ i - 1 \in DOMAIN Tail(s)
        BY <2>2, <2>3, <3>1
      <3> QED BY <3>2 DEF Range
    <2> QED BY <2>2, <2>3, <2>4 DEF Range, s
  <1> HIDE DEF id
  <1>5. CASE /\ Moves(t, "evicting") /\ thread'[t].stale = Tail(thread[t].stale)
             /\ owed' = owed
             /\ disk' = (IF id \in DocIds(Held) THEN {d \in disk : d.id # id} ELSE disk)
    <2>1. /\ Evicting' = Evicting /\ Pending' = Pending
          /\ \A u \in Evicting : u # t => thread'[u] = thread[u]
      BY <1>2, <1>5 DEF Moves, Evicting, Pending
    <2>2. StaleShape'
      BY <1>1, <1>4, <1>5, <2>1 DEF StaleShape
    <2>3. DiskOnly' \subseteq DiskOnly
      BY <1>3, <1>5 DEF DiskOnly
    <2>4. ASSUME NEW T \in SUBSET Evicting'
          PROVE  Unlisted(T)' \subseteq Unlisted(T)
      <3>1. \A x \in Listed(T) : x = id \/ x \in Listed(T)'
        <4>1. ASSUME NEW u \in T, NEW x \in Range(thread[u].stale)
              PROVE  x = id \/ x \in Range(thread'[u].stale)
          BY <1>4, <1>5, <2>1, <2>4, <4>1
        <4> QED BY <4>1 DEF Listed
      <3> QED BY <1>3, <3>1 DEF Unlisted
    <2>5. \A T \in SUBSET Evicting' :
            Cardinality(Unlisted(T)') + Cardinality(DiskOnly')
                <= Keep + owed' + Cardinality(Pending' \ T)
      BY <1>1, <1>5, <2>1, <2>3, <2>4, StillAccounted
    <2>6. Cardinality(DiskOnly') <= Cardinality(DiskOnly)
          /\ Cardinality(DiskOnly') \in Nat /\ Cardinality(DiskOnly) \in Nat
      BY <1>1, <2>3, Counts, CountsWithin
    <2> QED BY <1>1, <1>5, <2>2, <2>5, <2>6 DEF Accounted
  <1>6. CASE Moves(t, "idle") /\ owed' = owed + 2 /\ disk' = disk
    <2>1. /\ Evicting' = Evicting \ {t} /\ Pending' = Pending \ {t}
          /\ \A u \in Evicting : u # t => thread'[u] = thread[u]
      BY <1>6 DEF Moves, Evicting, Pending
    <2>2. StaleShape'
      BY <1>1, <2>1 DEF StaleShape
    <2>3. DiskOnly' \subseteq DiskOnly \cup {id}
      BY <1>3, <1>6 DEF DiskOnly
    <2>4. Cardinality(DiskOnly') <= Cardinality(DiskOnly) + 1
          /\ Cardinality(DiskOnly') \in Nat /\ Cardinality(DiskOnly) \in Nat
      BY <1>1, <2>3, Counts, CountsOneMore
    <2>5. ASSUME NEW T \in SUBSET Evicting'
          PROVE  Cardinality(Unlisted(T)') + Cardinality(DiskOnly')
                    <= Keep + owed' + Cardinality(Pending' \ T)
      <3>1. T \in SUBSET Evicting /\ t \notin T
        BY <2>1, <2>5
      <3>2. Unlisted(T)' \subseteq Unlisted(T)
        BY <1>3, <2>1, <3>1 DEF Unlisted, Listed
      <3>3. /\ Cardinality(Unlisted(T)') <= Cardinality(Unlisted(T))
            /\ Cardinality(Unlisted(T)') \in Nat /\ Cardinality(Unlisted(T)) \in Nat
        BY <1>1, <3>2, Counts, CountsWithin
      <3>4. IsFiniteSet(Pending \ T) /\ Cardinality(Pending \ T) \in Nat
        BY <1>1, Counts
      <3>5. Pending' \ T = (Pending \ T) \ {t} /\ t \in Pending \ T
        BY <1>2, <2>1, <3>1
      <3>6. Cardinality(Pending' \ T) = Cardinality(Pending \ T) - 1
        <4> DEFINE P == Pending \ T
        <4>1. IsFiniteSet(P) /\ t \in P
          BY <3>4, <3>5
        <4>2. Pending' \ T = P \ {t}
          BY <3>5
        <4> HIDE DEF P
        <4>3. Cardinality(P \ {t}) = Cardinality(P) - 1
          BY <4>1, FS_RemoveElement
        <4> QED BY <4>2, <4>3 DEF P
      <3>7. Cardinality(Unlisted(T)) + Cardinality(DiskOnly) <= Keep + owed + Cardinality(Pending \ T)
        BY <1>1, <3>1 DEF Accounted
      <3> QED BY <1>1, <1>6, <2>4, <3>3, <3>4, <3>6, <3>7
    <2> QED BY <1>1, <1>6, <2>2, <2>4, <2>5 DEF Accounted
  <1> QED BY <1>1, <1>5, <1>6, EvictMoves DEF id

\* A pass that is over has taken out what it listed.
LEMMA AnswerAccounted ==
  ASSUME WindowInv, TypeOK', NEW t \in Threads, Answer(t)
  PROVE  StaleShape' /\ Accounted'
  <1>1. /\ TypeOK /\ Shaped /\ StaleShape /\ Accounted
        /\ memory' = memory /\ disk' = disk /\ owed' = owed
    BY DEF WindowInv, Answer
  <1>2. /\ t \in Evicting /\ thread[t].stale = <<>> /\ Evicting' = Evicting \ {t}
        /\ Pending' = Pending \ {t} /\ \A u \in Evicting : u # t => thread'[u] = thread[u]
    BY <1>1, AnswerMoves DEF Moves, Evicting, Pending
  <1>3. Held' = Held /\ DiskOnly' = DiskOnly
    BY <1>1 DEF Held, DiskOnly
  <1>4. Range(thread[t].stale) = {}
    <2>1. Len(<<>>) = 0 /\ <<>> \in Seq(Documents)
      BY EmptySeq
    <2>2. DOMAIN <<>> = 1 .. 0
      BY <2>1, LenProperties
    <2>3. \A i : i \notin 1 .. 0
      OBVIOUS
    <2> QED BY <1>2, <2>2, <2>3 DEF Range
  <1>5. ASSUME NEW T \in SUBSET Evicting'
        PROVE  Cardinality(Unlisted(T)') + Cardinality(DiskOnly')
                    <= Keep + owed' + Cardinality(Pending' \ T)
    <2>1. T \cup {t} \in SUBSET Evicting /\ Pending' \ T = Pending \ (T \cup {t})
      BY <1>2, <1>5
    <2>2. Listed(T \cup {t}) \subseteq Listed(T)'
      BY <1>2, <1>4, <1>5 DEF Listed
    <2>3. Unlisted(T)' \subseteq Unlisted(T \cup {t})
      BY <1>3, <2>2 DEF Unlisted
    <2> QED BY <1>1, <1>3, <2>1, <2>3, StillAccounted
  <1>6. StaleShape'
    BY <1>1, <1>2 DEF StaleShape
  <1> QED BY <1>1, <1>3, <1>5, <1>6 DEF Accounted

\* A step of a request that stores no artifact.
LEMMA ElseAccounted ==
  ASSUME WindowInv, memory' = memory, disk' = disk, owed' = owed,
         \A u \in Threads : \/ thread'[u] = thread[u]
                            \/ {thread[u].at, thread'[u].at} \cap {"stored", "evicting"} = {}
  PROVE  StaleShape' /\ Accounted'
  <1>1. /\ Evicting' = Evicting /\ Pending' = Pending
        /\ \A u \in Evicting : thread'[u] = thread[u]
    BY DEF Evicting, Pending
  <1>2. StaleShape'
    BY <1>1 DEF StaleShape, WindowInv
  <1>3. Held' = Held /\ DiskOnly' = DiskOnly
    BY DEF Held, DiskOnly
  <1>4. ASSUME NEW T \in SUBSET Evicting
        PROVE  Unlisted(T)' = Unlisted(T)
    BY <1>1, <1>3, <1>4 DEF Unlisted, Listed
  <1> QED BY <1>1, <1>2, <1>3, <1>4 DEF Accounted, WindowInv

\* No request goes on in the next process.
LEMMA RestartAccounted ==
  ASSUME WindowInv, Restart
  PROVE  StaleShape' /\ Accounted'
  <1>1. TypeOK /\ Accounted /\ owed \in Nat /\ Keep \in Nat
    BY ShelfAssumption DEF WindowInv, Accounted
  <1>2. /\ disk' = disk /\ owed' = owed + Cardinality(Pending)
        /\ \A u \in Threads : thread'[u] = Idle
    BY DEF Restart, Pending
  <1>3. Evicting' = {} /\ Pending' = {}
    BY <1>2, IdleFacts DEF Evicting, Pending
  <1>4. DocIds(Held') = DocIds(disk) /\ DiskOnly' = {}
    BY <1>1, <1>2, RestartLists DEF DocIds, DiskOnly
  <1>5. Cardinality({}) = 0
    BY FS_EmptySet
  <1>6. IsFiniteSet(Pending) /\ Cardinality(Pending) \in Nat
    <2>1. Pending \in SUBSET Threads
      BY DEF Pending
    <2> QED BY <2>1, ShelfAssumption, FS_Subset, FS_CardinalityType
  <1>7. Cardinality(DocIds(disk)) <= Keep + owed'
    <2>1. /\ IsFiniteSet(DocIds(Held)) /\ IsFiniteSet(DiskOnly) /\ IsFiniteSet(DocIds(disk))
          /\ Cardinality(DocIds(Held)) \in Nat /\ Cardinality(DiskOnly) \in Nat
      BY <1>1, MemoryIds, FS_CardinalityType
    <2>2. DocIds(disk) \subseteq DocIds(Held) \cup DiskOnly
      BY DEF DiskOnly
    <2>3. DocIds(Held) \cap DiskOnly = {}
      BY DEF DiskOnly
    <2>4. /\ IsFiniteSet(DocIds(Held) \cup DiskOnly)
          /\ Cardinality(DocIds(Held) \cup DiskOnly) = Cardinality(DocIds(Held)) + Cardinality(DiskOnly)
      <3> DEFINE A == DocIds(Held)
                 B == DiskOnly
      <3>1. IsFiniteSet(A) /\ IsFiniteSet(B) /\ Cardinality(A) \in Nat /\ Cardinality(B) \in Nat
        BY <2>1
      <3>2. A \cap B = {}
        BY <2>3
      <3> HIDE DEF A, B
      <3>3. /\ IsFiniteSet(A \cup B)
            /\ Cardinality(A \cup B) = Cardinality(A) + Cardinality(B) - Cardinality(A \cap B)
        BY <3>1, FS_Union
      <3>4. Cardinality(A \cap B) = 0
        BY <1>5, <3>2
      <3>5. Cardinality(A \cup B) = Cardinality(A) + Cardinality(B)
        BY <3>1, <3>3, <3>4
      <3> QED BY <3>3, <3>5 DEF A, B
    <2>5. Cardinality(DocIds(disk)) <= Cardinality(DocIds(Held)) + Cardinality(DiskOnly)
          /\ Cardinality(DocIds(disk)) \in Nat
      BY <2>2, <2>4, CountsWithin
    <2>6. Unlisted({}) = DocIds(Held) /\ Pending \ {} = Pending /\ {} \in SUBSET Evicting
      BY DEF Unlisted, Listed
    <2>7. Cardinality(DocIds(Held)) + Cardinality(DiskOnly) <= Keep + owed + Cardinality(Pending)
      BY <1>1, <2>6 DEF Accounted
    <2> QED BY <1>1, <1>2, <1>6, <2>1, <2>5, <2>7
  <1>8. ASSUME NEW T \in SUBSET Evicting'
        PROVE  Cardinality(Unlisted(T)') + Cardinality(DiskOnly')
                    <= Keep + owed' + Cardinality(Pending' \ T)
    <2>1. T = {} /\ Unlisted(T)' = DocIds(disk) /\ Pending' \ T = {}
      BY <1>3, <1>4, <1>8 DEF Unlisted, Listed
    <2>2. Cardinality(DocIds(disk)) \in Nat /\ owed' \in Nat
      BY <1>1, <1>2, <1>6, MemoryIds, FS_CardinalityType
    <2> QED BY <1>1, <1>4, <1>5, <1>7, <2>1, <2>2
  <1>9. owed' \in Nat
    BY <1>1, <1>2, <1>6
  <1> QED BY <1>3, <1>4, <1>5, <1>8, <1>9 DEF Accounted, StaleShape

LEMMA WindowStep ==
  ASSUME WindowInv, [Next]_vars
  PROVE  WindowInv'
  <1>1. /\ Shaped /\ TypeOK /\ DiskFollows /\ Shaped' /\ TypeOK' /\ DiskFollows'
    BY StepShaped, FollowsStep DEF WindowInv
  <1>2. ASSUME NEW t \in Threads,
               \/ \E id \in Suites, create \in BOOLEAN : SaveSuite(t, id, create)
               \/ CheckNew(t) \/ CheckCeiling(t) \/ PutSuite(t)
        PROVE  StaleShape' /\ Accounted'
    <2>1. memory' = memory /\ disk' = disk /\ owed' = owed
          /\ thread[t].at \in {"idle", "named", "new", "allowed"}
      BY <1>2 DEF SaveSuite, CheckNew, CheckCeiling, PutSuite, In
    <2>2. \E at \in {"idle", "named", "new", "allowed"} : Moves(t, at)
      BY <1>1, <1>2, SaveMoves, CheckMoves, PutMoves
    <2>3. \A u \in Threads : \/ thread'[u] = thread[u]
                             \/ {thread[u].at, thread'[u].at} \cap {"stored", "evicting"} = {}
      BY <2>1, <2>2 DEF Moves
    <2> QED BY <2>1, <2>3, ElseAccounted
  <1>3. ASSUME (\E id \in Suites : DeleteSuite(id)) \/ UNCHANGED vars
        PROVE  StaleShape' /\ Accounted'
    <2>1. memory' = memory /\ disk' = disk /\ owed' = owed /\ thread' = thread
      BY <1>3 DEF DeleteSuite, vars
    <2>2. \A u \in Threads : thread'[u] = thread[u]
      BY <2>1
    <2> QED BY <2>1, <2>2, ElseAccounted
  <1>4. ASSUME NEW t \in Threads,
               \/ \E id \in Artifacts, created \in 1 .. LastSecond : StoreArtifact(t, id, created)
               \/ ListArtifacts(t) \/ Evict(t) \/ Answer(t)
        PROVE  StaleShape' /\ Accounted'
    BY <1>1, <1>4, StoreAccounted, ListAccounted, EvictAccounted, AnswerAccounted
  <1>5. StaleShape' /\ Accounted'
    BY <1>2, <1>3, <1>4, RestartAccounted DEF Next
  <1> QED BY <1>1, <1>5 DEF WindowInv

LEMMA WindowInit == Init => WindowInv
  <1> SUFFICES ASSUME Init PROVE WindowInv
    OBVIOUS
  <1>1. TypeOK /\ DiskFollows
    BY EmptyFollows
  <1>2. Shaped /\ Evicting = {} /\ Pending = {}
    BY IdleFacts DEF Init, Shaped, Evicting, Pending
  <1>3. Len(memory) = 0 /\ DiskOnly = {} /\ owed = 0
    BY EmptySeq DEF Init, DiskOnly, DocIds
  <1>4. Cardinality({}) = 0 /\ Keep \in Nat
    BY FS_EmptySet, ShelfAssumption
  <1>5. Unlisted({}) = DocIds(Held)
    BY DEF Unlisted, Listed
  <1>6. Cardinality(Unlisted({})) = 0
    BY <1>1, <1>3, <1>5, MemoryIds
  <1>7. Accounted
    <2>1. \A T \in SUBSET Evicting : T = {} /\ Pending \ T = {}
      BY <1>2
    <2>2. owed \in Nat /\ Cardinality(DiskOnly) <= owed
      BY <1>3, <1>4
    <2>3. ASSUME NEW T \in SUBSET Evicting
          PROVE  Cardinality(Unlisted(T)) + Cardinality(DiskOnly)
                    <= Keep + owed + Cardinality(Pending \ T)
      <3>1. /\ Cardinality(Unlisted(T)) = 0 /\ Cardinality(DiskOnly) = 0
            /\ Cardinality(Pending \ T) = 0 /\ owed = 0
        BY <1>3, <1>4, <1>6, <2>1
      <3> QED BY <1>4, <3>1
    <2> QED BY <2>2, <2>3 DEF Accounted
  <1> QED BY <1>1, <1>2, <1>7 DEF WindowInv, StaleShape

LEMMA WindowFollows ==
  ASSUME WindowInv
  PROVE  WindowHolds
  <1>1. Unlisted({}) = DocIds(Held) /\ Pending \ {} = Pending /\ {} \in SUBSET Evicting
    BY DEF Unlisted, Listed
  <1>2. Cardinality(Unlisted({})) = Len(memory)
    BY <1>1, MemoryIds DEF WindowInv
  <1>3. Len(memory) + Cardinality(DiskOnly) <= Keep + owed + Cardinality(Pending)
    BY <1>1, <1>2 DEF WindowInv, Accounted
  <1>4. /\ Len(memory) \in Nat /\ Cardinality(DiskOnly) \in Nat /\ owed \in Nat /\ Keep \in Nat
        /\ Cardinality(Pending) \in Nat
    BY <1>1, <1>2, Counts, ShelfAssumption DEF WindowInv, Accounted
  <1>5. Len(memory) <= Keep + owed + Cardinality(Pending)
    BY <1>3, <1>4
  <1> QED BY <1>5 DEF WindowHolds, Pending
-----------------------------------------------------------------------------
(* The newest.  A document is old once `keep` others were created after or  *)
(* with it; what is gone, or about to be, of what the disk never refused    *)
(* and no store overtook, is old.                                           *)
Later(d) == {e \in latest : e.created >= d.created}
Old(d) == Cardinality(Later(d)) > Keep
Sure(id) == id \notin overtaken \cup unsure

LatestShape ==
    /\ latest \subseteq Documents /\ IsFiniteSet(latest)
    /\ \A d, e \in latest : d.id = e.id => d = e
KeptAsLatest ==
    /\ \A d \in Held \cup disk : \E e \in latest : e.id = d.id /\ e.created >= d.created
    /\ \A d \in Held : d.id \notin unsure => d \in latest
GoneIsOld == \A d \in latest : Sure(d.id) /\ d \notin Held => Old(d)
ListedIsOld ==
    \A t \in Evicting : \A d \in latest :
        d.id \in Range(thread[t].stale) /\ Sure(d.id) => Old(d)
LatestInv == LatestShape /\ KeptAsLatest /\ GoneIsOld /\ ListedIsOld

\* A step that stores nothing: what it takes out or lists is old.
LEMMA NothingStored ==
  ASSUME LatestInv, latest' = latest, overtaken' = overtaken, unsure \subseteq unsure',
         \A d : d \in Held' \cup disk' => d \in Held \cup disk,
         \A d : d \in Held' /\ d.id \notin unsure' => d \in Held,
         \A d \in latest : Sure(d.id)' /\ d \in Held /\ d \notin Held' => Old(d),
         \A t \in Evicting' : \A d \in latest :
            d.id \in Range(thread'[t].stale) /\ Sure(d.id)'
            => Old(d) \/ \E u \in Evicting : d.id \in Range(thread[u].stale)
  PROVE  LatestInv'
  <1>1. \A d : Old(d)' = Old(d)
    BY DEF Old, Later
  <1>2. \A id : Sure(id)' => Sure(id)
    BY DEF Sure
  <1>3. LatestShape' /\ KeptAsLatest'
    BY DEF LatestInv, LatestShape, KeptAsLatest
  <1>4. GoneIsOld'
    <2> SUFFICES ASSUME NEW d \in latest, Sure(d.id)', d \notin Held'
                 PROVE  Old(d)
      BY <1>1 DEF GoneIsOld
    <2> QED BY <1>2 DEF LatestInv, GoneIsOld
  <1>5. ListedIsOld'
    <2> SUFFICES ASSUME NEW t \in Evicting', NEW d \in latest,
                        d.id \in Range(thread'[t].stale), Sure(d.id)'
                 PROVE  Old(d)
      BY <1>1 DEF ListedIsOld
    <2> QED BY <1>2 DEF LatestInv, ListedIsOld
  <1> QED BY <1>3, <1>4, <1>5 DEF LatestInv

\* A request that stores makes nothing else newer.
LEMMA StoreLatest ==
  ASSUME WindowInv, LatestInv, NEW t \in Threads, NEW id \in Artifacts, NEW created \in 1 .. LastSecond,
         StoreArtifact(t, id, created)
  PROVE  LatestInv'
  <1> DEFINE doc == [id |-> id, created |-> created, version |-> stores]
  <1>1. /\ doc \in Documents /\ doc.id = id /\ doc.created = created
        /\ \A d \in latest : d.id = id => d.created <= created
        /\ latest' = WithDoc(latest, doc)
        /\ overtaken' = overtaken \cup
                ({id} \cap UNION {Range(thread[u].stale) : u \in Threads})
    BY ShelfAssumption DEF StoreArtifact, WindowInv, TypeOK, Documents
  <1>2. /\ TypeOK /\ LatestShape /\ KeptAsLatest /\ GoneIsOld /\ ListedIsOld
        /\ latest \subseteq Documents
    BY DEF WindowInv, LatestInv, LatestShape
  <1>3. \A d : d \in Held' <=> (d \in Held /\ d.id # id) \/ d = doc
    BY <1>2, StoreIds
  <1>4. /\ \/ disk' = WithDoc(disk, doc) /\ unsure' = unsure \ {id}
           \/ disk' = disk /\ unsure' = unsure \cup {id}
        /\ Evicting' = Evicting /\ \A u \in Evicting : thread'[u] = thread[u]
    <2>1. /\ thread[t].at = "idle"
          /\ \/ Moves(t, "stored") /\ disk' = WithDoc(disk, doc) /\ unsure' = unsure \ {id}
             \/ thread' = thread /\ disk' = disk /\ unsure' = unsure \cup {id}
      BY StoreMoves DEF WindowInv
    <2> HIDE DEF doc
    <2> QED BY <2>1 DEF Moves, Evicting
  <1> HIDE DEF doc
  <1>5. /\ \A d \in latest' : d = doc \/ (d \in latest /\ d.id # id)
        /\ \A d \in latest : d.id # id => d \in latest'
        /\ doc \in latest'
    BY <1>1 DEF WithDoc
  <1>6. LatestShape'
    <2>1. IsFiniteSet({d \in latest : d.id # doc.id})
      BY <1>2, FS_Subset DEF LatestShape
    <2>2. IsFiniteSet(latest')
      BY <1>1, <2>1, FS_AddElement DEF WithDoc
    <2> QED BY <1>1, <1>2, <1>5, <2>2 DEF LatestShape
  <1>7. ASSUME NEW d \in latest, d.id # id, Old(d)
        PROVE  Old(d)'
    <2> DEFINE to(e) == IF e.id = id THEN doc ELSE e
               f == [e \in Later(d) |-> to(e)]
               L == Later(d)
               M == Later(d)'
    <2>1. \A e \in L : to(e) \in M /\ to(e).id = e.id
      <3> SUFFICES ASSUME NEW e \in latest, e.created >= d.created
                   PROVE  to(e) \in latest' /\ to(e).created >= d.created /\ to(e).id = e.id
        BY DEF Later
      <3>1. e.created \in Nat /\ d.created \in Nat /\ created \in Nat
        BY <1>1, <1>2, DocumentFacts
      <3> QED BY <1>1, <1>5, <3>1
    <2>2. \A x, y \in L : x.id = y.id => x = y
      BY <1>2 DEF Later, LatestShape
    <2>3. f \in Injection(L, M)
      <3> HIDE DEF to
      <3>1. \A x, y \in L : f[x] = f[y] => x = y
        BY <2>1, <2>2
      <3>2. f \in [L -> M]
        BY <2>1
      <3> QED BY <3>1, <3>2, Fun_IsInj
    <2>4. IsFiniteSet(L) /\ IsFiniteSet(M)
      BY <1>2, <1>6, FS_Subset DEF Later, LatestShape
    <2>5. Cardinality(L) \in Nat /\ Cardinality(M) \in Nat
      BY <2>4, FS_CardinalityType
    <2> HIDE DEF f, L, M
    <2>6. Cardinality(L) <= Cardinality(M)
      BY <2>3, <2>4, FS_Injection
    <2>7. Cardinality(L) > Keep => Cardinality(M) > Keep
      BY <2>5, <2>6, ShelfAssumption
    <2> QED BY <1>7, <2>7 DEF Old, L, M
  <1>8. KeptAsLatest'
    <2>1. ASSUME NEW d \in Held \cup disk
          PROVE  \E e \in latest' : e.id = d.id /\ e.created >= d.created
      <3>1. PICK e \in latest : e.id = d.id /\ e.created >= d.created
        BY <1>2, <2>1 DEF KeptAsLatest
      <3>2. CASE e.id # id
        BY <1>5, <3>1, <3>2
      <3>3. CASE e.id = id
        <4>1. d \in Documents
          <5>1. \A x \in Held : x \in Documents
            BY <1>2, RangeFacts DEF Held, TypeOK
          <5> QED BY <1>2, <2>1, <5>1 DEF TypeOK
        <4>2. e.created \in Nat /\ d.created \in Nat /\ created \in Nat
          BY <1>1, <1>2, <4>1, DocumentFacts
        <4>3. e.created <= created
          BY <1>1, <3>3
        <4>4. created >= d.created
          BY <3>1, <4>2, <4>3
        <4> QED BY <1>1, <1>5, <3>1, <3>3, <4>4
      <3> QED BY <3>2, <3>3
    <2>2. doc.created >= doc.created
      BY <1>1, DocumentFacts
    <2>3. \A d \in Held' \cup disk' : d = doc \/ d \in Held \cup disk
      BY <1>3, <1>4 DEF WithDoc
    <2>4. \A d \in Held' \cup disk' : \E e \in latest' : e.id = d.id /\ e.created >= d.created
      BY <1>5, <2>1, <2>2, <2>3
    <2>5. \A d \in Held' : d.id \notin unsure' => d \in latest'
      BY <1>2, <1>3, <1>4, <1>5 DEF KeptAsLatest
    <2> QED BY <2>4, <2>5 DEF KeptAsLatest
  <1>9. \A x : x # id /\ Sure(x)' => Sure(x)
    BY <1>1, <1>4 DEF Sure
  <1>10. GoneIsOld'
    <2> SUFFICES ASSUME NEW d \in latest', Sure(d.id)', d \notin Held'
                 PROVE  Old(d)'
      BY DEF GoneIsOld
    <2>1. d # doc /\ d \in latest /\ d.id # id /\ d \notin Held
      BY <1>3, <1>5
    <2> QED BY <1>2, <1>7, <1>9, <2>1 DEF GoneIsOld
  <1>11. ListedIsOld'
    <2> SUFFICES ASSUME NEW u \in Evicting', NEW d \in latest',
                        d.id \in Range(thread'[u].stale), Sure(d.id)'
                 PROVE  Old(d)'
      BY DEF ListedIsOld
    <2>1. u \in Evicting /\ d.id \in Range(thread[u].stale) /\ u \in Threads
      BY <1>4 DEF Evicting
    <2>2. d.id # id
      BY <1>1, <2>1 DEF Sure
    <2>3. d \in latest
      BY <1>1, <1>5, <2>2
    <2> QED BY <1>2, <1>7, <1>9, <2>1, <2>2, <2>3 DEF ListedIsOld
  <1> QED BY <1>6, <1>8, <1>10, <1>11 DEF LatestInv

\* What a request lists is old: as many are listed before it.
LEMMA RankedIsOld ==
  ASSUME TypeOK, LatestShape, KeptAsLatest, NEW j \in 1 .. Len(memory), Rank(memory, j) >= Keep,
         memory[j] \in latest
  PROVE  Old(memory[j])
  <1> DEFINE d == memory[j]
             B == {i \in DOMAIN memory : Newer(memory, i, j)}
             of(i) == CHOOSE e \in latest : e.id = memory[i].id /\ e.created >= memory[i].created
             f == [i \in B |-> of(i)]
             L == Later(d) \ {d}
  <1>1. /\ memory \in Seq(Documents) /\ DOMAIN memory = 1 .. Len(memory) /\ Len(memory) \in Nat
        /\ \A i \in 1 .. Len(memory) : memory[i].created \in Nat
        /\ \A e \in latest : e.created \in Nat
    BY RangeFacts, DocumentFacts DEF TypeOK, LatestShape
  <1>2. \A i \in B : /\ i \in 1 .. Len(memory) /\ i # j
                     /\ memory[i].created >= memory[j].created
    BY <1>1 DEF Newer
  <1>3. \A i \in 1 .. Len(memory) : /\ of(i) \in latest /\ of(i).id = memory[i].id
                                    /\ of(i).created >= memory[i].created
    <2> TAKE i \in 1 .. Len(memory)
    <2>1. memory[i] \in Held
      BY RangeFacts, <1>1 DEF Held
    <2>2. \E e \in latest : e.id = memory[i].id /\ e.created >= memory[i].created
      BY <2>1 DEF KeptAsLatest
    <2> QED BY <2>2
  <1> HIDE DEF of, B
  <1>4. \A i, k \in 1 .. Len(memory) : memory[i].id = memory[k].id => i = k
    BY <1>1 DEF TypeOK
  <1>5. \A i \in B : of(i) \in L
    <2> TAKE i \in B
    <2>1. of(i).created >= d.created
      BY <1>1, <1>2, <1>3
    <2>2. of(i) # d
      BY <1>2, <1>3, <1>4
    <2> QED BY <1>2, <1>3, <2>1, <2>2 DEF Later
  <1>6. \A x, y \in B : of(x) = of(y) => x = y
    BY <1>2, <1>3, <1>4
  <1>7. f \in Injection(B, L)
    <2> HIDE DEF L
    <2>1. f \in [B -> L]
      BY <1>5
    <2>2. \A x, y \in B : f[x] = f[y] => x = y
      BY <1>6
    <2> QED BY <2>1, <2>2, Fun_IsInj
  <1>8. /\ IsFiniteSet(Later(d)) /\ d \in Later(d)
        /\ IsFiniteSet(L) /\ Cardinality(L) = Cardinality(Later(d)) - 1
        /\ Cardinality(Later(d)) \in Nat
    <2>1. IsFiniteSet(Later(d))
      BY FS_Subset DEF Later, LatestShape
    <2>2. d \in Later(d)
      BY <1>1 DEF Later
    <2> HIDE DEF d
    <2> QED BY <2>1, <2>2, FS_RemoveElement, FS_CardinalityType
  <1>9. IsFiniteSet(B) /\ Cardinality(B) \in Nat
    <2>1. IsFiniteSet(1 .. Len(memory)) /\ B \in SUBSET (1 .. Len(memory))
      BY <1>1, <1>2, IntervalFacts
    <2> QED BY <2>1, FS_Subset, FS_CardinalityType
  <1>10. Cardinality(B) >= Keep
    BY DEF Rank, B
  <1> HIDE DEF f, L, d
  <1>11. Cardinality(B) <= Cardinality(L)
    BY <1>7, <1>8, FS_Injection
  <1>12. Cardinality(Later(d)) > Keep
    BY <1>8, <1>9, <1>10, <1>11, ShelfAssumption
  <1> QED BY <1>12 DEF Old, d

LEMMA ListLatest ==
  ASSUME WindowInv, LatestInv, NEW t \in Threads, ListArtifacts(t)
  PROVE  LatestInv'
  <1>1. /\ TypeOK /\ LatestShape /\ KeptAsLatest /\ memory \in Seq(Documents) /\ Keep \in Nat
    BY ShelfAssumption DEF WindowInv, LatestInv, TypeOK
  <1>2. /\ memory' = memory /\ UNCHANGED <<disk, latest, unsure, overtaken>>
    BY DEF ListArtifacts
  <1>3. /\ thread[t].at = "stored" /\ Moves(t, "evicting")
        /\ thread'[t].stale = Stale(memory, Keep)
    BY ListMoves DEF WindowInv
  <1>4. Held' = Held
    BY <1>2 DEF Held
  <1>5. ASSUME NEW d \in latest, d.id \in Range(Stale(memory, Keep)), Sure(d.id)
        PROVE  Old(d)
    <2>1. PICK j \in 1 .. Len(memory) : memory[j].id = d.id /\ Rank(memory, j) >= Keep
      BY <1>1, <1>5, StaleFacts
    <2>2. memory[j] \in Held
      BY <1>1, RangeFacts DEF Held
    <2>3. memory[j] \in latest
      BY <1>1, <1>5, <2>1, <2>2 DEF KeptAsLatest, Sure
    <2>4. memory[j] = d
      BY <1>1, <2>1, <2>3 DEF LatestShape
    <2> QED BY <1>1, <2>1, <2>3, <2>4, RankedIsOld
  <1>6. ASSUME NEW u \in Evicting', NEW d \in latest,
               d.id \in Range(thread'[u].stale), Sure(d.id)'
        PROVE  Old(d) \/ \E x \in Evicting : d.id \in Range(thread[x].stale)
    <2>1. Sure(d.id)
      BY <1>2, <1>6 DEF Sure
    <2>2. CASE u = t
      BY <1>3, <1>5, <1>6, <2>1, <2>2
    <2>3. CASE u # t
      BY <1>3, <1>6, <2>3 DEF Moves, Evicting
    <2> QED BY <2>2, <2>3
  <1> QED BY <1>2, <1>4, <1>6, NothingStored

\* What an eviction takes out was listed.
LEMMA EvictLatest ==
  ASSUME WindowInv, LatestInv, NEW t \in Threads, Evict(t)
  PROVE  LatestInv'
  <1> DEFINE id == Head(thread[t].stale)
  <1>1. TypeOK /\ Shaped /\ StaleShape /\ ListedIsOld
    BY DEF WindowInv, LatestInv
  <1>2. latest' = latest /\ overtaken' = overtaken
    BY DEF Evict
  <1>3. /\ thread[t].at = "evicting" /\ t \in Evicting
        /\ thread[t].stale \in Seq(Artifacts) /\ thread[t].stale # <<>>
    BY <1>1, EvictMoves DEF Evicting, StaleShape
  <1>4. /\ \A d : d \in Held' <=> d \in Held /\ d.id # id
        /\ disk' \subseteq disk
    BY <1>1, EvictIds
  <1>5. /\ \A x : x \in Range(Tail(thread[t].stale)) => x \in Range(thread[t].stale)
        /\ id \in Range(thread[t].stale)
    <2> DEFINE s == thread[t].stale
    <2>1. s \in Seq(Artifacts) /\ s # <<>> /\ id = Head(s)
      BY <1>3
    <2> HIDE DEF s, id
    <2>2. /\ Tail(s) \in Seq(Artifacts) /\ Len(Tail(s)) = Len(s) - 1 /\ id = s[1]
          /\ \A i \in 1 .. Len(s) - 1 : Tail(s)[i] = s[i + 1]
      BY <2>1, HeadTailProperties
    <2>3. DOMAIN s = 1 .. Len(s) /\ DOMAIN Tail(s) = 1 .. Len(Tail(s)) /\ Len(s) \in Nat
          /\ Len(Tail(s)) \in Nat
      BY <2>1, <2>2, LenProperties
    <2>4. 1 \in 1 .. Len(s)
      BY <2>2, <2>3
    <2>5. \A i \in 1 .. Len(s) - 1 : i + 1 \in 1 .. Len(s)
      BY <2>3
    <2> QED BY <2>2, <2>3, <2>4, <2>5 DEF Range, s
  <1>6. /\ unsure \subseteq unsure'
        /\ \A u \in Evicting' : u \in Evicting
        /\ \A u \in Evicting' : \A x : x \in Range(thread'[u].stale) => x \in Range(thread[u].stale)
    <2>1. \/ /\ Moves(t, "evicting") /\ thread'[t].stale = Tail(thread[t].stale)
             /\ unsure' = unsure
          \/ Moves(t, "idle") /\ unsure' = unsure \cup {id}
      BY <1>1, EvictMoves
    <2> HIDE DEF id
    <2>2. CASE /\ Moves(t, "evicting") /\ thread'[t].stale = Tail(thread[t].stale)
               /\ unsure' = unsure
      <3>1. ASSUME NEW u \in Evicting', NEW x \in Range(thread'[u].stale)
            PROVE  u \in Evicting /\ x \in Range(thread[u].stale)
        <4>1. CASE u = t
          BY <1>3, <1>5, <2>2, <3>1, <4>1
        <4>2. CASE u # t
          BY <2>2, <3>1, <4>2 DEF Moves, Evicting
        <4> QED BY <4>1, <4>2
      <3>2. \A u \in Evicting' : u \in Evicting
        BY <1>3, <2>2 DEF Moves, Evicting
      <3> QED BY <2>2, <3>1, <3>2
    <2>3. CASE Moves(t, "idle") /\ unsure' = unsure \cup {id}
      BY <2>3 DEF Moves, Evicting
    <2> QED BY <2>1, <2>2, <2>3
  <1>7. ASSUME NEW d \in latest, Sure(d.id)', d \in Held, d \notin Held'
        PROVE  Old(d)
    <2>1. d.id = id /\ Sure(d.id)
      BY <1>2, <1>4, <1>6, <1>7 DEF Sure
    <2> HIDE DEF id
    <2> QED BY <1>1, <1>3, <1>5, <1>7, <2>1 DEF ListedIsOld
  <1> HIDE DEF id
  <1>8. /\ \A d : d \in Held' \cup disk' => d \in Held \cup disk
        /\ \A d : d \in Held' /\ d.id \notin unsure' => d \in Held
    BY <1>4
  <1>9. \A u \in Evicting' : \A d \in latest :
            d.id \in Range(thread'[u].stale) /\ Sure(d.id)'
            => Old(d) \/ \E x \in Evicting : d.id \in Range(thread[x].stale)
    BY <1>6
  <1> QED BY <1>2, <1>6, <1>7, <1>8, <1>9, NothingStored

\* The steps that leave memory, the files and the lists as they are.
LEMMA ElseLatest ==
  ASSUME LatestInv, UNCHANGED <<memory, disk, latest, unsure, overtaken>>,
         \A u \in Evicting' : u \in Evicting /\ thread'[u] = thread[u]
  PROVE  LatestInv'
  <1>1. Held' = Held
    BY DEF Held
  <1>2. \A u \in Evicting' : \A d \in latest :
            d.id \in Range(thread'[u].stale) /\ Sure(d.id)'
            => Old(d) \/ \E x \in Evicting : d.id \in Range(thread[x].stale)
    OBVIOUS
  <1> QED BY <1>1, <1>2, NothingStored

\* The files hold what memory held of what the disk never refused.
LEMMA RestartLatest ==
  ASSUME WindowInv, LatestInv, Restart
  PROVE  LatestInv'
  <1>1. /\ TypeOK /\ DiskFollows /\ LatestShape
        /\ UNCHANGED <<disk, latest, unsure, overtaken>>
    BY DEF WindowInv, LatestInv, Restart
  <1>2. \A d : d \in Held' <=> d \in disk
    BY <1>1, RestartLists
  <1>3. Evicting' = {}
    BY IdleFacts DEF Restart, Evicting
  <1>4. \A d \in Documents : d.id \notin unsure => (d \in Held <=> d \in disk)
    BY <1>1, DocumentFacts DEF DiskFollows
  <1>5. \A d : d \in Held' /\ d.id \notin unsure' => d \in Held
    BY <1>1, <1>2, <1>4 DEF TypeOK
  <1>6. \A d \in latest : Sure(d.id)' /\ d \in Held => d \in Held'
    BY <1>1, <1>2, <1>4 DEF LatestShape, Sure
  <1>7. \A d : d \in Held' \cup disk' => d \in Held \cup disk
    BY <1>1, <1>2
  <1> QED BY <1>1, <1>3, <1>5, <1>6, <1>7, NothingStored

LEMMA LatestStep ==
  ASSUME WindowInv, LatestInv, [Next]_vars
  PROVE  LatestInv'
  <1>1. Shaped
    BY DEF WindowInv
  <1>2. ASSUME NEW t \in Threads,
               \/ \E id \in Suites, create \in BOOLEAN : SaveSuite(t, id, create)
               \/ CheckNew(t) \/ CheckCeiling(t) \/ PutSuite(t) \/ Answer(t)
        PROVE  LatestInv'
    <2>1. UNCHANGED <<memory, disk, latest, unsure, overtaken>>
      BY <1>2 DEF SaveSuite, CheckNew, CheckCeiling, PutSuite, Answer
    <2>2. \E at \in {"idle", "named", "new", "allowed"} : Moves(t, at)
      BY <1>1, <1>2, SaveMoves, CheckMoves, PutMoves, AnswerMoves
    <2>3. \A u \in Evicting' : u \in Evicting /\ thread'[u] = thread[u]
      BY <2>2 DEF Moves, Evicting
    <2> QED BY <2>1, <2>3, ElseLatest
  <1>3. ASSUME (\E id \in Suites : DeleteSuite(id)) \/ UNCHANGED vars
        PROVE  LatestInv'
    <2>1. UNCHANGED <<memory, disk, latest, unsure, overtaken>> /\ thread' = thread
      BY <1>3 DEF DeleteSuite, vars
    <2>2. \A u \in Evicting' : u \in Evicting /\ thread'[u] = thread[u]
      BY <2>1 DEF Evicting
    <2> QED BY <2>1, <2>2, ElseLatest
  <1>4. ASSUME NEW t \in Threads,
               \/ \E id \in Artifacts, created \in 1 .. LastSecond : StoreArtifact(t, id, created)
               \/ ListArtifacts(t) \/ Evict(t)
        PROVE  LatestInv'
    BY <1>4, StoreLatest, ListLatest, EvictLatest
  <1> QED BY <1>2, <1>3, <1>4, RestartLatest DEF Next

LEMMA LatestInit == Init => LatestInv
  <1> SUFFICES ASSUME Init PROVE LatestInv
    OBVIOUS
  <1>1. latest = {} /\ disk = {} /\ Evicting = {}
    BY IdleFacts DEF Init, Evicting
  <1>2. Held = {}
    <2>1. memory = <<>> /\ Len(<<>>) = 0 /\ <<>> \in Seq(Documents)
      BY EmptySeq DEF Init
    <2>2. \A i : i \notin 1 .. 0
      OBVIOUS
    <2> QED BY <2>1, <2>2, RangeFacts DEF Held
  <1>3. IsFiniteSet(latest)
    BY <1>1, FS_EmptySet
  <1> QED BY <1>1, <1>2, <1>3
         DEF LatestInv, LatestShape, KeptAsLatest, GoneIsOld, ListedIsOld

LEMMA NewestFollows ==
  ASSUME WindowInv, LatestInv
  PROVE  NewestAreKept
  <1> SUFFICES ASSUME NEW d \in latest, Cardinality(Later(d)) <= Keep, Sure(d.id)
               PROVE  d \in Held
    BY DEF NewestAreKept, Later, Sure
  <1>1. Cardinality(Later(d)) \in Nat
    BY FS_Subset, FS_CardinalityType DEF Later, LatestInv, LatestShape
  <1>2. ~Old(d)
    BY <1>1, ShelfAssumption DEF Old
  <1> QED BY <1>2 DEF LatestInv, GoneIsOld

\* Whichever threads store and evict together, whatever the disk refuses and
\* however often the process restarts: the newest documents of the window are
\* there, and no more than the requests in progress account for
\* (enforce_artifact_retention).
THEOREM RetentionAlwaysHolds == Spec => []RetentionHolds
  <1>1. Init => WindowInv /\ LatestInv
    BY WindowInit, LatestInit
  <1>2. WindowInv /\ LatestInv /\ [Next]_vars => WindowInv' /\ LatestInv'
    BY WindowStep, LatestStep
  <1>3. WindowInv /\ LatestInv => RetentionHolds
    BY WindowFollows, NewestFollows DEF RetentionHolds
  <1> QED BY <1>1, <1>2, <1>3, PTL DEF Spec
=============================================================================
