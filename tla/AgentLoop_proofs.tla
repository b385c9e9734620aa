-------------------------- MODULE AgentLoop_proofs --------------------------
(***************************************************************************)
(* A finished trace is what ran (AgentLoop), for any agent, scenario and   *)
(* budgets, in every arm.  The invariant speaks of what the toolset has    *)
(* recorded so far; what finalize_trace makes of it, verdicts stripped or  *)
(* not, follows from how positions are counted (InOrder).                  *)
(* Read again (Rereading), it replays as it was decided, and a pin, a      *)
(* match, a case and a claim are of the calls that were made.              *)
(***************************************************************************)
EXTENDS Rereading, FunctionTheorems, FiniteSetTheorems, SequenceTheorems, TLAPS

----------------------------------------------------------------------------
(* Positions in order *)

(* What holds of 0 and of the successor of each number it holds of.         *)
LEMMA Counting ==
    ASSUME NEW S \in SUBSET Nat, 0 \in S, \A n \in S : n + 1 \in S
    PROVE  S = Nat
<1>1. SUFFICES ASSUME Nat \ S # {}
               PROVE  FALSE
  OBVIOUS
<1>2. PICK x \in Nat \ S : \A y \in Nat \ S : <<y, x>> \notin OpToRel(<, Nat)
  BY <1>1, WFMin, NatLessThanWellFounded, Zenon
<1>3. \A y \in Nat \ S : ~(y < x)
  BY <1>2, Zenon DEF OpToRel
<1>4. x \in Nat /\ x # 0 /\ x - 1 \in Nat
  OBVIOUS
<1>5. x - 1 \in S
  BY <1>3, <1>4
<1>6. QED
  <2>1. x = (x - 1) + 1
    BY <1>4
  <2>2. QED
    BY <1>5, <2>1

(* f lists S from its least member up *)
Enumerates(f, m, S) ==
    /\ f \in [1 .. m -> S]
    /\ \A i, j \in 1 .. m : i < j => f[i] < f[j]
    /\ \A x \in S : \E i \in 1 .. m : f[i] = x

(* There is one such list, and InOrder is it.                               *)
LEMMA InOrderIs ==
    ASSUME NEW S \in SUBSET Nat, NEW m \in Nat, NEW f, Enumerates(f, m, S)
    PROVE  IsFiniteSet(S) /\ Cardinality(S) = m /\ InOrder(S) = f
<1> DEFINE Upto(i) == {j \in S : j <= i}
<1>1. /\ f \in [1 .. m -> S]
      /\ \A i, j \in 1 .. m : i < j => f[i] < f[j]
      /\ \A x \in S : \E i \in 1 .. m : f[i] = x
  BY DEF Enumerates
<1>2. \A i \in 1 .. m : f[i] \in Nat
  BY <1>1
<1>3. \A i, j \in 1 .. m : f[i] <= f[j] <=> i <= j
  <2>1. TAKE i, j \in 1 .. m
  <2>2. CASE i < j
    BY <1>1, <1>2, <2>2
  <2>3. CASE i = j
    BY <1>1, <1>2, <2>3
  <2>4. CASE j < i
    BY <1>1, <1>2, <2>4
  <2>5. QED
    BY <2>2, <2>3, <2>4
<1>4. f \in Bijection(1 .. m, S)
  <2>1. \A i, j \in 1 .. m : f[i] = f[j] => i = j
    BY <1>2, <1>3
  <2>2. f \in Surjection(1 .. m, S)
    BY <1>1, Fun_IsSurj
  <2>3. f \in Injection(1 .. m, S)
    BY <1>1, <2>1, Fun_IsInj
  <2>4. QED
    BY <2>2, <2>3 DEF Bijection
<1>5. IsFiniteSet(S) /\ Cardinality(S) = m
  <2>1. IsFiniteSet(1 .. m) /\ Cardinality(1 .. m) = m
    BY FS_Interval
  <2>2. ExistsBijection(1 .. m, S)
    BY <1>4 DEF ExistsBijection
  <2>3. QED
    BY <2>1, <2>2, FS_Bijection
<1>6. \A k \in 1 .. m : Cardinality(Upto(f[k])) = k
  <2>1. TAKE k \in 1 .. m
  <2> DEFINE g == [i \in 1 .. k |-> f[i]]
  <2>2. 1 .. k \subseteq 1 .. m
    OBVIOUS
  <2>3. g \in [1 .. k -> Upto(f[k])]
    BY <1>1, <1>3, <2>2
  <2>4. \A x \in Upto(f[k]) : \E i \in 1 .. k : g[i] = x
    <3>1. TAKE x \in Upto(f[k])
    <3>2. PICK i \in 1 .. m : f[i] = x
      BY <1>1
    <3>3. i <= k
      BY <1>3, <3>2
    <3>4. i \in 1 .. k
      BY <3>3
    <3>5. QED
      BY <3>2, <3>4
  <2>5. \A i, j \in 1 .. k : g[i] = g[j] => i = j
    BY <1>2, <1>3, <2>2
  <2>6. g \in Surjection(1 .. k, Upto(f[k]))
    BY <2>3, <2>4, Fun_IsSurj
  <2>7. g \in Injection(1 .. k, Upto(f[k]))
    BY <2>3, <2>5, Fun_IsInj
  <2>8. ExistsBijection(1 .. k, Upto(f[k]))
    BY <2>6, <2>7 DEF Bijection, ExistsBijection
  <2>9. IsFiniteSet(1 .. k) /\ Cardinality(1 .. k) = k
    BY FS_Interval
  <2>10. QED
    BY <2>8, <2>9, FS_Bijection
<1>7. \A k \in 1 .. m : (CHOOSE i \in S : Cardinality(Upto(i)) = k) = f[k]
  <2>1. TAKE k \in 1 .. m
  <2>2. f[k] \in S /\ Cardinality(Upto(f[k])) = k
    BY <1>1, <1>6
  <2>3. \A i \in S : Cardinality(Upto(i)) = k => i = f[k]
    <3>1. TAKE i \in S
    <3>2. PICK l \in 1 .. m : f[l] = i
      BY <1>1
    <3>3. Cardinality(Upto(i)) = l
      BY <1>6, <3>2
    <3>4. QED
      BY <3>2, <3>3
  <2> HIDE DEF Upto
  <2>4. QED
    BY <2>2, <2>3
<1>8. InOrder(S) = [k \in 1 .. m |-> f[k]]
  BY <1>5, <1>7 DEF InOrder
<1>9. QED
  BY <1>1, <1>5, <1>8

(* A number above all the others comes last.                                *)
LEMMA OneMore ==
    ASSUME NEW n \in Nat, NEW S \in SUBSET (1 .. n), NEW m \in Nat, NEW f,
           Enumerates(f, m, S), NEW x \in Nat, x > n
    PROVE  Enumerates([k \in 1 .. m + 1 |-> IF k = m + 1 THEN x ELSE f[k]], m + 1, S \cup {x})
<1> DEFINE g == [k \in 1 .. m + 1 |-> IF k = m + 1 THEN x ELSE f[k]]
<1>1. /\ f \in [1 .. m -> S]
      /\ \A i, j \in 1 .. m : i < j => f[i] < f[j]
      /\ \A y \in S : \E i \in 1 .. m : f[i] = y
  BY DEF Enumerates
<1>2. 1 .. m + 1 = (1 .. m) \cup {m + 1}
  OBVIOUS
<1>3. g \in [1 .. m + 1 -> S \cup {x}]
  BY <1>1, <1>2
<1>4. \A i, j \in 1 .. m + 1 : i < j => g[i] < g[j]
  <2>1. SUFFICES ASSUME NEW i \in 1 .. m + 1, NEW j \in 1 .. m + 1, i < j
                 PROVE  g[i] < g[j]
    OBVIOUS
  <2>2. i \in 1 .. m /\ i # m + 1
    BY <2>1
  <2>7. g[i] = f[i] /\ f[i] \in S
    BY <1>1, <2>2
  <2>8. f[i] \in 1 .. n
    BY <2>7
  <2>6. g[i] = f[i] /\ f[i] \in Nat /\ f[i] <= n
    BY <2>7, <2>8
  <2>3. CASE j = m + 1
    <3>1. g[j] = x
      BY <2>3
    <3> HIDE DEF g
    <3>2. QED
      BY <2>6, <3>1
  <2>4. CASE j \in 1 .. m
    BY <1>1, <2>1, <2>2, <2>4, <2>6
  <2>5. QED
    BY <1>2, <2>3, <2>4
<1>5. \A y \in S \cup {x} : \E i \in 1 .. m + 1 : g[i] = y
  <2>1. TAKE y \in S \cup {x}
  <2>2. CASE y = x
    <3>1. m + 1 \in 1 .. m + 1
      OBVIOUS
    <3>2. QED
      BY <2>2, <3>1
  <2>3. CASE y \in S
    <3>1. PICK i \in 1 .. m : f[i] = y
      BY <1>1, <2>3
    <3>2. i \in 1 .. m + 1 /\ i # m + 1
      BY <3>1
    <3>3. QED
      BY <3>1, <3>2
  <2>4. QED
    BY <2>2, <2>3
<1> HIDE DEF g
<1>6. QED
  BY <1>3, <1>4, <1>5 DEF Enumerates, g

(* Every set of positions can be listed.                                    *)
LEMMA CanEnumerate ==
    ASSUME NEW n \in Nat, NEW S \in SUBSET (1 .. n)
    PROVE  \E m \in Nat : \E f : Enumerates(f, m, S)
<1> DEFINE Listed == {k \in Nat : \A T \in SUBSET (1 .. k) :
                                      \E m \in Nat : \E f : Enumerates(f, m, T)}
<1>1. 0 \in Listed
  <2>1. Enumerates([k \in 1 .. 0 |-> 0], 0, {})
    BY DEF Enumerates
  <2>2. \A T \in SUBSET (1 .. 0) : T = {}
    OBVIOUS
  <2>3. QED
    BY <2>1, <2>2
<1>2. \A k \in Listed : k + 1 \in Listed
  <2>1. SUFFICES ASSUME NEW k \in Nat, k \in Listed
                 PROVE  k + 1 \in Listed
    OBVIOUS
  <2>9. SUFFICES ASSUME NEW T \in SUBSET (1 .. k + 1)
                 PROVE  \E m \in Nat : \E f : Enumerates(f, m, T)
    OBVIOUS
  <2>2. k \in Nat /\ k + 1 \in Nat
    OBVIOUS
  <2>3. 1 .. k + 1 = (1 .. k) \cup {k + 1}
    BY <2>2
  <2>4. T \ {k + 1} \in SUBSET (1 .. k)
    BY <2>3, SMT
  <2>5. PICK m \in Nat : \E f : Enumerates(f, m, T \ {k + 1})
    BY <2>1, <2>4
  <2>0. PICK f : Enumerates(f, m, T \ {k + 1})
    BY <2>5
  <2>6. CASE k + 1 \notin T
    <3>1. T \ {k + 1} = T
      BY <2>6
    <3>2. QED
      BY <2>5, <3>1
  <2>7. CASE k + 1 \in T
    <3>1. T = (T \ {k + 1}) \cup {k + 1}
      BY <2>7
    <3>2. k + 1 \in Nat /\ k + 1 > k
      BY <2>2
    <3> HIDE DEF Listed
    <3>3. \E g : Enumerates(g, m + 1, (T \ {k + 1}) \cup {k + 1})
      BY <2>0, <2>2, <2>4, <3>2, OneMore
    <3>4. QED
      BY <3>1, <3>3
  <2>8. QED
    BY <2>6, <2>7
<1>3. Listed \in SUBSET Nat
  OBVIOUS
<1> HIDE DEF Listed
<1>4. Listed = Nat
  BY <1>1, <1>2, <1>3, Counting
<1>5. QED
  BY <1>4 DEF Listed

(* InOrder lists any set of positions.                                      *)
LEMMA InOrderEnumerates ==
    ASSUME NEW n \in Nat, NEW S \in SUBSET (1 .. n)
    PROVE  /\ IsFiniteSet(S) /\ Cardinality(S) \in Nat
           /\ Enumerates(InOrder(S), Cardinality(S), S)
<1>0. PICK m \in Nat : \E f : Enumerates(f, m, S)
  BY CanEnumerate
<1>1. PICK f : Enumerates(f, m, S)
  BY <1>0
<1>2. S \in SUBSET Nat
  OBVIOUS
<1>3. IsFiniteSet(S) /\ Cardinality(S) = m /\ InOrder(S) = f
  BY <1>1, <1>2, InOrderIs
<1>4. QED
  BY <1>1, <1>3

(* A position after all the others is last in order, and leaves them as     *)
(* they were.                                                               *)
LEMMA InOrderLast ==
    ASSUME NEW n \in Nat, NEW S \in SUBSET (1 .. n), NEW x \in Nat, x > n
    PROVE  /\ Cardinality(S \cup {x}) = Cardinality(S) + 1
           /\ InOrder(S \cup {x}) =
                [k \in 1 .. Cardinality(S) + 1 |->
                    IF k = Cardinality(S) + 1 THEN x ELSE InOrder(S)[k]]
<1> DEFINE m == Cardinality(S)
           g == [k \in 1 .. m + 1 |-> IF k = m + 1 THEN x ELSE InOrder(S)[k]]
<1>1. m \in Nat /\ Enumerates(InOrder(S), m, S)
  BY InOrderEnumerates
<1> HIDE DEF m
<1>2. Enumerates(g, m + 1, S \cup {x})
  BY <1>1, OneMore
<1>3. S \cup {x} \in SUBSET Nat /\ m + 1 \in Nat
  BY <1>1
<1> HIDE DEF g
<1>4. Cardinality(S \cup {x}) = m + 1 /\ InOrder(S \cup {x}) = g
  BY <1>2, <1>3, InOrderIs
<1>5. QED
  BY <1>4 DEF m, g

(* Counting some of the positions of a filtered list is counting them in    *)
(* the list itself.                                                         *)
LEMMA InOrderWithin ==
    ASSUME NEW n \in Nat, NEW S \in SUBSET (1 .. n), NEW T \in SUBSET S,
           NEW R \in SUBSET (1 .. Cardinality(S)),
           \A k \in 1 .. Cardinality(S) : k \in R <=> InOrder(S)[k] \in T
    PROVE  /\ Cardinality(R) = Cardinality(T)
           /\ \A k \in 1 .. Cardinality(R) : InOrder(S)[InOrder(R)[k]] = InOrder(T)[k]
<1> DEFINE m == Cardinality(S)
           at == InOrder(S)
           c == Cardinality(R)
           in == InOrder(R)
           g == [k \in 1 .. c |-> at[in[k]]]
<1>1. m \in Nat /\ Enumerates(at, m, S)
  BY InOrderEnumerates
<1>2. R \in SUBSET (1 .. m)
  OBVIOUS
<1> HIDE DEF m
<1>3. c \in Nat /\ Enumerates(in, c, R)
  BY <1>1, <1>2, InOrderEnumerates
<1>4. R = {k \in 1 .. m : at[k] \in T}
  BY DEF m
<1> HIDE DEF at, c, in
<1>5. g \in [1 .. c -> T]
  BY <1>3, <1>4 DEF Enumerates
<1>6. \A i, j \in 1 .. c : i < j => g[i] < g[j]
  BY <1>1, <1>2, <1>3 DEF Enumerates
<1>7. \A x \in T : \E i \in 1 .. c : g[i] = x
  <2>1. TAKE x \in T
  <2>2. PICK k \in 1 .. m : at[k] = x
    BY <1>1 DEF Enumerates
  <2>3. PICK i \in 1 .. c : in[i] = k
    BY <1>3, <1>4, <2>2 DEF Enumerates
  <2>4. QED
    BY <2>2, <2>3
<1> HIDE DEF g
<1>8. Enumerates(g, c, T)
  BY <1>5, <1>6, <1>7 DEF Enumerates
<1>9. T \in SUBSET Nat
  OBVIOUS
<1>10. Cardinality(T) = c /\ InOrder(T) = g
  BY <1>3, <1>8, <1>9, InOrderIs
<1>11. QED
  BY <1>10 DEF g, at, in, c

----------------------------------------------------------------------------
(* What the toolset has recorded *)
Recorded == [kernel |-> TRUE, events |-> events, values |-> values]

IntentEvent ==
    [type : {"tool_call_intent"}, node : {"root"}, seq : Nat, call : Nat,
     tool : DOMAIN Manifests, bound : {<<>>} \cup [{"to"} -> Nat]]
DecisionEvent ==
    [type : {"gate_decision"}, node : {"root"}, seq : Nat, call : Nat,
     decision : Decision]
ResultEvent ==
    [type : {"tool_result"}, node : {"root"}, seq : Nat, call : Nat,
     tool : DOMAIN Manifests, makes : SUBSET Nat]

TypeInv ==
    /\ arm \in Arms
    /\ events \in Seq(IntentEvent \cup DecisionEvent \cup ResultEvent)
    /\ values \in Seq(LedgerValue)
    /\ armed \in BOOLEAN
    /\ ran \in Seq([tool : DOMAIN Manifests, data : Data \cup {None}, call : Nat])
    /\ emitted \in Nat /\ tool_calls \in Nat /\ model_calls \in Nat
    /\ stop_reason \in {None, "finished", "max_steps", "max_tool_calls", "raised"}

(* an event's place is its number, a call's is no later than the last's, and *)
(* the decision on an intent comes right after it                            *)
Placed ==
    /\ \A i \in 1 .. Len(events) : events[i].seq = i - 1 /\ events[i].call <= tool_calls
    /\ \A i \in 1 .. Len(events) : IsIntent(events[i]) =>
            /\ i + 1 <= Len(events)
            /\ IsDecision(events[i + 1]) /\ events[i + 1].call = events[i].call
    /\ OneCallOneId(Recorded)

(* a value's place is its id, and what refers to one refers to one that is there *)
Ledgered ==
    /\ \A i \in 1 .. Len(values) :
            /\ values[i].id = i
            /\ values[i].from \subseteq 1 .. Len(values)
            /\ values[i].data = IF "sensitive" \in values[i].labels THEN None
                               ELSE values[i].hash
    /\ \A i \in 1 .. Len(events) :
            /\ IsIntent(events[i]) =>
                    \A arg \in DOMAIN events[i].bound : events[i].bound[arg] \in 1 .. Len(values)
            /\ IsResult(events[i]) => events[i].makes \subseteq 1 .. Len(values)
            /\ IsDecision(events[i]) =>
                    IF events[i].decision.driving = None
                    THEN events[i].decision.unresolved # None
                    ELSE events[i].decision.driving \in 1 .. Len(values)

(* the intents that were carried out *)
Runs == {i \in 1 .. Len(events) : /\ IsIntent(events[i])
                                  /\ ExecutedUnder(events[i + 1].decision)}
RunsAreRan ==
    /\ Cardinality(Runs) = Len(ran)
    /\ \A k \in 1 .. Len(ran) : /\ events[InOrder(Runs)[k]].tool = ran[k].tool
                               /\ events[InOrder(Runs)[k]].call = ran[k].call

NoDecisions == {i \in 1 .. Len(events) : ~IsDecision(events[i])}
Budget ==
    /\ emitted = IF governed THEN Len(events) ELSE Cardinality(NoDecisions)
    /\ emitted <= MaxSteps + 2
    /\ tool_calls <= MaxToolCalls

Unenforced ==
    arm # "on" => \A i \in 1 .. Len(events) :
                        IsDecision(events[i]) => events[i].decision.enforced = FALSE

Finished ==
    /\ stop_reason \in {None, "raised"} => trace = None
    /\ stop_reason \notin {None, "raised"} => trace = FinalizeTrace

LoopInv ==
    TypeInv /\ Placed /\ Ledgered /\ RunsAreRan /\ Budget /\ Unenforced /\ Finished

----------------------------------------------------------------------------
(* What is read of it *)

(* the events that were recorded, by what they are *)
LEMMA EventsAre ==
    ASSUME TypeInv, NEW i \in 1 .. Len(events)
    PROVE  /\ IsIntent(events[i]) => events[i] \in IntentEvent
           /\ IsDecision(events[i]) => events[i] \in DecisionEvent
           /\ IsResult(events[i]) => events[i] \in ResultEvent
           /\ IsIntent(events[i]) \/ IsDecision(events[i]) \/ IsResult(events[i])
           /\ events[i].node = "root" /\ events[i].call \in Nat
           /\ IsIntent(events[i]) => ~IsDecision(events[i])
<1>1. events[i] \in IntentEvent \cup DecisionEvent \cup ResultEvent
  BY DEF TypeInv
<1>2. CASE events[i] \in IntentEvent
  BY <1>2 DEF IntentEvent, IsIntent, IsDecision, IsResult
<1>3. CASE events[i] \in DecisionEvent
  BY <1>3 DEF DecisionEvent, IsIntent, IsDecision, IsResult
<1>4. CASE events[i] \in ResultEvent
  BY <1>4 DEF ResultEvent, IsIntent, IsDecision, IsResult
<1>5. QED
  BY <1>1, <1>2, <1>3, <1>4

LEMMA ValuesAre ==
    ASSUME TypeInv, Ledgered, NEW i \in 1 .. Len(values)
    PROVE  /\ values[i].id = i /\ values[i].from \subseteq 1 .. Len(values)
           /\ values[i].hash # None
           /\ values[i].data # None => values[i].hash = values[i].data
           /\ values[i].data = None => "sensitive" \in values[i].labels
<1>1. values[i] \in LedgerValue
  BY DEF TypeInv
<1>2. values[i].hash \in Contents
  BY <1>1 DEF LedgerValue
<1>3. None \notin Contents
  BY LoopAssumption DEF Contents
<1>4. QED
  BY <1>2, <1>3 DEF Ledgered

(* What was recorded is a trace the validator takes.                        *)
LEMMA RecordedIsWell ==
    ASSUME TypeInv, Placed, Ledgered
    PROVE  TraceSemantics(Recorded)
<1>1. Recorded.events = events /\ Recorded.values = values
  BY DEF Recorded
<1>2. UnambiguousLedger(Recorded)
  BY <1>1, ValuesAre DEF UnambiguousLedger
<1>3. {values[i].id : i \in 1 .. Len(values)} = 1 .. Len(values)
  BY ValuesAre
<1>4. RefersToLedger(Recorded)
  BY <1>1, <1>3, ValuesAre DEF RefersToLedger, Ledgered
<1>5. OrderedPerNode(Recorded)
  BY <1>1 DEF OrderedPerNode, Placed
<1>6. QED
  BY <1>2, <1>4, <1>5 DEF TraceSemantics, Placed

Renumbered(e, s) == [e EXCEPT !.seq = s]

(* the events that are left when the verdicts are stripped *)
LEMMA StrippedIs ==
    ASSUME TypeInv, Placed
    PROVE  LET at == InOrder(NoDecisions)
               m == Cardinality(NoDecisions)
           IN  /\ m \in Nat /\ Enumerates(at, m, NoDecisions)
               /\ ~Strip(Recorded).kernel /\ Strip(Recorded).values = values
               /\ Len(Strip(Recorded).events) = m
               /\ \A k \in 1 .. m :
                    /\ at[k] \in 1 .. Len(events)
                    /\ Strip(Recorded).events[k] = Renumbered(events[at[k]], k - 1)
<1> DEFINE at == InOrder(NoDecisions)
           m == Cardinality(NoDecisions)
<1>1. Len(events) \in Nat /\ NoDecisions \in SUBSET (1 .. Len(events))
  BY DEF TypeInv, NoDecisions
<1>2. m \in Nat /\ Enumerates(at, m, NoDecisions)
  BY <1>1, InOrderEnumerates
<1>3. DOMAIN at = 1 .. m /\ at = [k \in 1 .. m |-> at[k]]
  BY <1>2 DEF Enumerates
<1>4. Len(at) = m
  BY <1>2, <1>3
<1>5. \A k \in 1 .. m : at[k] \in NoDecisions
  BY <1>2 DEF Enumerates
<1>6. Strip(Recorded) =
        [kernel |-> FALSE, values |-> values,
         events |-> [k \in 1 .. Len(at) |-> Renumbered(events[at[k]], k - 1)]]
  BY DEF Strip, Recorded, NoDecisions, Renumbered
<1> HIDE DEF at, m
<1>7. Strip(Recorded).events = [k \in 1 .. m |-> Renumbered(events[at[k]], k - 1)]
  BY <1>4, <1>6
<1>8. Len(Strip(Recorded).events) = m
  BY <1>2, <1>7
<1>9. ~Strip(Recorded).kernel /\ Strip(Recorded).values = values
  BY <1>6
<1>10. \A k \in 1 .. m : /\ at[k] \in 1 .. Len(events)
                         /\ Strip(Recorded).events[k] = Renumbered(events[at[k]], k - 1)
  BY <1>1, <1>5, <1>7
<1>11. QED
  BY <1>2, <1>8, <1>9, <1>10 DEF at, m

(* an event that is only numbered anew *)
LEMMA OnlyRenumbered ==
    ASSUME TypeInv, NEW i \in 1 .. Len(events), NEW s \in Nat,
           NEW e, e = Renumbered(events[i], s)
    PROVE  /\ e.type = events[i].type /\ e.call = events[i].call /\ e.node = "root" /\ e.seq = s
           /\ IsIntent(events[i]) => e.bound = events[i].bound
           /\ IsIntent(events[i]) \/ IsResult(events[i]) => e.tool = events[i].tool
           /\ IsResult(events[i]) => e.makes = events[i].makes
           /\ IsIntent(e) <=> IsIntent(events[i])
           /\ IsDecision(e) <=> IsDecision(events[i])
           /\ IsResult(e) <=> IsResult(events[i])
<1>1. events[i] \in IntentEvent \cup DecisionEvent \cup ResultEvent
  BY DEF TypeInv
<1>2. CASE events[i] \in IntentEvent
  BY <1>2 DEF Renumbered, IntentEvent, IsIntent, IsDecision, IsResult
<1>3. CASE events[i] \in DecisionEvent
  BY <1>3 DEF Renumbered, DecisionEvent, IsIntent, IsDecision, IsResult
<1>4. CASE events[i] \in ResultEvent
  BY <1>4 DEF Renumbered, ResultEvent, IsIntent, IsDecision, IsResult
<1>5. QED
  BY <1>1, <1>2, <1>3, <1>4

(* So is what is left when the verdicts are stripped.                       *)
LEMMA StrippedIsWell ==
    ASSUME TypeInv, Placed, Ledgered
    PROVE  TraceSemantics(Strip(Recorded))
<1> DEFINE at == InOrder(NoDecisions)
           m == Cardinality(NoDecisions)
           t == Strip(Recorded)
<1>1. /\ m \in Nat /\ Enumerates(at, m, NoDecisions)
      /\ t.values = values /\ Len(t.events) = m
      /\ \A k \in 1 .. m : at[k] \in 1 .. Len(events)
                           /\ t.events[k] = Renumbered(events[at[k]], k - 1)
  BY StrippedIs
<1>2. \A k, l \in 1 .. m : at[k] = at[l] => k = l
  <2>1. \A k, l \in 1 .. m : k < l => at[k] < at[l]
    BY <1>1 DEF Enumerates
  <2>2. \A k \in 1 .. m : at[k] \in Nat
    <3>1. \A k \in 1 .. m : at[k] \in 1 .. Len(events)
      BY <1>1
    <3> HIDE DEF at, m
    <3>2. QED
      BY <3>1
  <2> HIDE DEF at, m
  <2>3. QED
    BY <1>1, <2>1, <2>2
<1>3. \A k \in 1 .. m : ~IsDecision(events[at[k]])
  BY <1>1 DEF Enumerates, NoDecisions
<1> HIDE DEF at, m, t
<1>4. \A k \in 1 .. m :
        LET e == t.events[k]
        IN  /\ e.type = events[at[k]].type /\ e.call = events[at[k]].call
            /\ e.node = "root" /\ e.seq = k - 1
            /\ ~IsDecision(e)
            /\ IsIntent(e) => IsIntent(events[at[k]]) /\ e.bound = events[at[k]].bound
            /\ IsResult(e) => IsResult(events[at[k]]) /\ e.makes = events[at[k]].makes
  <2> TAKE k \in 1 .. m
  <2>1. at[k] \in 1 .. Len(events) /\ t.events[k] = Renumbered(events[at[k]], k - 1)
    BY <1>1
  <2>2. k - 1 \in Nat
    BY <1>1
  <2>3. /\ t.events[k].type = events[at[k]].type /\ t.events[k].call = events[at[k]].call
        /\ t.events[k].node = "root" /\ t.events[k].seq = k - 1
        /\ IsIntent(events[at[k]]) => t.events[k].bound = events[at[k]].bound
        /\ IsResult(events[at[k]]) => t.events[k].makes = events[at[k]].makes
        /\ IsIntent(t.events[k]) <=> IsIntent(events[at[k]])
        /\ IsDecision(t.events[k]) <=> IsDecision(events[at[k]])
        /\ IsResult(t.events[k]) <=> IsResult(events[at[k]])
    BY <2>1, <2>2, OnlyRenumbered
  <2>4. QED
    BY <1>3, <2>3
<1>5. UnambiguousLedger(t)
  BY <1>1, ValuesAre DEF UnambiguousLedger
<1>6. {values[i].id : i \in 1 .. Len(values)} = 1 .. Len(values)
  BY ValuesAre
<1>7. RefersToLedger(t)
  <2>3. \A k \in 1 .. m :
          /\ IsIntent(events[at[k]]) => \A arg \in DOMAIN events[at[k]].bound :
                                            events[at[k]].bound[arg] \in 1 .. Len(values)
          /\ IsResult(events[at[k]]) => events[at[k]].makes \subseteq 1 .. Len(values)
    BY <1>1 DEF Ledgered
  <2>1. \A k \in 1 .. m :
          /\ IsIntent(t.events[k]) => \A arg \in DOMAIN t.events[k].bound :
                                           t.events[k].bound[arg] \in 1 .. Len(values)
          /\ IsResult(t.events[k]) => t.events[k].makes \subseteq 1 .. Len(values)
          /\ ~IsDecision(t.events[k])
    BY <1>4, <2>3
  <2>4. {t.values[i].id : i \in 1 .. Len(t.values)} = 1 .. Len(values)
    BY <1>1, <1>6
  <2>5. \A i \in 1 .. Len(t.values) : t.values[i].from \subseteq 1 .. Len(values)
    BY <1>1, ValuesAre
  <2>6. Len(t.events) = m
    BY <1>1
  <2>2. QED
    BY <2>1, <2>4, <2>5, <2>6 DEF RefersToLedger
<1>8. OrderedPerNode(t)
  BY <1>1, <1>4 DEF OrderedPerNode
<1>9. OneCallOneId(t)
  <2>1. \A i, j \in 1 .. Len(events) :
            i # j /\ events[i].type = events[j].type /\ events[i].type # "tool_result"
                => events[i].call = None \/ events[i].call # events[j].call
    BY DEF OneCallOneId, Placed, Recorded
  <2>2. SUFFICES ASSUME NEW k \in 1 .. m, NEW l \in 1 .. m, k # l,
                        t.events[k].type = t.events[l].type, t.events[k].type # "tool_result"
                 PROVE  t.events[k].call = None \/ t.events[k].call # t.events[l].call
    BY <1>1 DEF OneCallOneId
  <2>3. at[k] # at[l] /\ at[k] \in 1 .. Len(events) /\ at[l] \in 1 .. Len(events)
    BY <1>1, <1>2, <2>2
  <2>4. /\ t.events[k].type = events[at[k]].type /\ t.events[k].call = events[at[k]].call
        /\ t.events[l].type = events[at[l]].type /\ t.events[l].call = events[at[l]].call
    BY <1>4
  <2>5. QED
    BY <2>1, <2>2, <2>3, <2>4
<1>10. QED
  BY <1>5, <1>7, <1>8, <1>9 DEF TraceSemantics, t

(* A reader pairs each intent with the decision right after it.             *)
LEMMA ExecutedAreRuns ==
    ASSUME TypeInv, Placed
    PROVE  ExecutedCalls(Recorded) = Runs
<1>1. Recorded.events = events /\ Gated(Recorded)
  BY DEF Recorded, Gated
<1>2. ASSUME NEW i \in 1 .. Len(events), IsIntent(events[i])
      PROVE  DecisionFor(events, i) = events[i + 1].decision
  <2> DEFINE byId == {j \in 1 .. Len(events) :
                        IsDecision(events[j]) /\ events[j].call = events[i].call}
  <2>1. /\ i + 1 \in 1 .. Len(events) /\ IsDecision(events[i + 1])
        /\ events[i + 1].call = events[i].call
    BY <1>2 DEF Placed, TypeInv
  <2>2. events[i].call # None
    BY EventsAre, AbsentIsNoValue
  <2>3. \A j \in byId : j = i + 1
    BY <1>1, <2>1, <2>2 DEF Placed, OneCallOneId, IsDecision
  <2>4. byId = {i + 1}
    BY <2>1, <2>3
  <2>5. FirstOf({i + 1}) = i + 1
    BY DEF FirstOf
  <2>6. QED
    BY <2>2, <2>4, <2>5 DEF DecisionFor
<1>3. ASSUME NEW i \in 1 .. Len(events), IsIntent(events[i])
      PROVE  events[i + 1].decision # None
  <2>1. i + 1 \in 1 .. Len(events) /\ IsDecision(events[i + 1])
    BY <1>3 DEF Placed, TypeInv
  <2>2. events[i + 1].decision \in Decision
    BY <2>1, EventsAre DEF DecisionEvent
  <2>3. QED
    BY <2>2, AbsentIsNoValue
<1>4. \A i \in 1 .. Len(events) :
        Executed(Recorded, i) <=> IsIntent(events[i]) /\ ExecutedUnder(events[i + 1].decision)
  BY <1>1, <1>2, <1>3 DEF Executed
<1>5. QED
  BY <1>1, <1>4 DEF ExecutedCalls, Runs

(* With the verdicts stripped, every intent that is left counts as a call.  *)
LEMMA ExecutedStripped ==
    ASSUME TypeInv, Placed
    PROVE  ExecutedCalls(Strip(Recorded))
             = {k \in 1 .. Cardinality(NoDecisions) : IsIntent(events[InOrder(NoDecisions)[k]])}
<1> DEFINE at == InOrder(NoDecisions)
           m == Cardinality(NoDecisions)
           t == Strip(Recorded)
<1>1. /\ m \in Nat /\ Enumerates(at, m, NoDecisions) /\ ~t.kernel /\ Len(t.events) = m
      /\ \A k \in 1 .. m : at[k] \in 1 .. Len(events)
                           /\ t.events[k] = Renumbered(events[at[k]], k - 1)
  BY StrippedIs
<1>2. \A k \in 1 .. m : ~IsDecision(events[at[k]])
  BY <1>1 DEF Enumerates, NoDecisions
<1> HIDE DEF at, m, t
<1>3. \A k \in 1 .. m : /\ t.events[k].call # None /\ ~IsDecision(t.events[k])
                        /\ IsIntent(t.events[k]) <=> IsIntent(events[at[k]])
  <2> TAKE k \in 1 .. m
  <2>1. at[k] \in 1 .. Len(events) /\ t.events[k] = Renumbered(events[at[k]], k - 1)
    BY <1>1
  <2>2. k - 1 \in Nat
    BY <1>1
  <2>4. /\ t.events[k].call = events[at[k]].call
        /\ IsDecision(t.events[k]) <=> IsDecision(events[at[k]])
        /\ IsIntent(t.events[k]) <=> IsIntent(events[at[k]])
    BY <2>1, <2>2, OnlyRenumbered
  <2>5. events[at[k]].call # None
    BY <2>1, EventsAre, AbsentIsNoValue
  <2>6. QED
    BY <1>2, <2>4, <2>5
<1>4. \A k \in 1 .. m : DecisionFor(t.events, k) = None
  <2>1. \A k \in 1 .. m : {j \in 1 .. Len(t.events) :
            IsDecision(t.events[j]) /\ t.events[j].call = t.events[k].call} = {}
    BY <1>1, <1>3
  <2>2. QED
    BY <1>3, <2>1 DEF DecisionFor
<1>5. \A k \in 1 .. m : Executed(t, k) <=> IsIntent(events[at[k]])
  BY <1>1, <1>3, <1>4 DEF Executed, Gated
<1>6. ExecutedCalls(t) = {k \in 1 .. m : IsIntent(events[at[k]])}
  BY <1>1, <1>5 DEF ExecutedCalls
<1>7. QED
  BY <1>6 DEF at, m, t

(* The finished trace, verdicts stripped or not, is what ran.               *)
LEMMA FinishedIsWhatRan ==
    ASSUME LoopInv
    PROVE  TraceIsWhatRan
<1>1. SUFFICES ASSUME Done
               PROVE  /\ ReadingIsWhatRan /\ BudgetIsTraceSize /\ TraceSemantics(trace)
  BY DEF TraceIsWhatRan, ReadingIsWhatRan, BudgetIsTraceSize
<1>2. TypeInv /\ Placed /\ Ledgered /\ RunsAreRan /\ Budget /\ Unenforced
  BY DEF LoopInv
<1>3. trace = IF governed THEN Recorded ELSE Strip(Recorded)
  BY <1>1 DEF Done, LoopInv, Finished, FinalizeTrace, Recorded
<1>4. Len(ran) \in Nat /\ Len(events) \in Nat
  BY <1>2 DEF TypeInv
<1>5. CASE governed
  <2>1. trace = Recorded /\ trace.events = events
    BY <1>3, <1>5 DEF Recorded
  <2>2. ExecutedCalls(trace) = Runs
    BY <1>2, <2>1, ExecutedAreRuns
  <2>3. Len(InOrder(Runs)) = Cardinality(Runs)
    BY <1>2, <1>4 DEF InOrder, RunsAreRan
  <2>4. ReadingIsWhatRan
    BY <1>2, <2>1, <2>2, <2>3 DEF ReadingIsWhatRan, RunsAreRan
  <2>5. BudgetIsTraceSize
    BY <1>2, <1>5, <2>1 DEF Budget, BudgetIsTraceSize
  <2>6. QED
    BY <1>2, <2>1, <2>4, <2>5, RecordedIsWell
<1>6. CASE ~governed
  <2> DEFINE at == InOrder(NoDecisions)
             m == Cardinality(NoDecisions)
             R == {k \in 1 .. m : at[k] \in Runs}
  <2>1. trace = Strip(Recorded)
    BY <1>3, <1>6
  <2>2. /\ m \in Nat /\ Enumerates(at, m, NoDecisions) /\ Len(trace.events) = m
        /\ \A k \in 1 .. m : /\ at[k] \in 1 .. Len(events)
                             /\ trace.events[k] = Renumbered(events[at[k]], k - 1)
    BY <1>2, <2>1, StrippedIs
  <2>3. \A i \in 1 .. Len(events) : IsIntent(events[i]) => i \in Runs
    <3>1. SUFFICES ASSUME NEW i \in 1 .. Len(events), IsIntent(events[i])
                   PROVE  ExecutedUnder(events[i + 1].decision)
      BY DEF Runs
    <3>2. i + 1 \in 1 .. Len(events) /\ IsDecision(events[i + 1])
      BY <1>2, <1>4, <3>1 DEF Placed
    <3>3. arm # "on"
      BY <1>6 DEF governed
    <3>4. events[i + 1].decision.enforced = FALSE
      BY <1>2, <3>2, <3>3 DEF Unenforced
    <3>5. QED
      BY <3>4 DEF ExecutedUnder, WasEnforced
  <2>4. Runs \in SUBSET NoDecisions
    BY <1>2, EventsAre DEF Runs, NoDecisions
  <2>5. NoDecisions \in SUBSET (1 .. Len(events))
    BY DEF NoDecisions
  <2>6. ExecutedCalls(trace) = {k \in 1 .. m : IsIntent(events[at[k]])}
    BY <1>2, <2>1, ExecutedStripped
  <2>7. \A k \in 1 .. m : IsIntent(events[at[k]]) <=> at[k] \in Runs
    <3>1. \A k \in 1 .. m : at[k] \in 1 .. Len(events)
      BY <2>2
    <3> HIDE DEF at, m
    <3>2. QED
      BY <2>3, <3>1 DEF Runs
  <2>8. ExecutedCalls(trace) = R
    BY <2>6, <2>7
  <2>9. /\ Cardinality(R) = Cardinality(Runs)
        /\ \A k \in 1 .. Cardinality(R) : at[InOrder(R)[k]] = InOrder(Runs)[k]
    <3>1. /\ R \in SUBSET (1 .. Cardinality(NoDecisions))
          /\ \A k \in 1 .. Cardinality(NoDecisions) : k \in R <=> InOrder(NoDecisions)[k] \in Runs
      OBVIOUS
    <3> HIDE DEF R, at, m
    <3>2. QED
      BY <1>4, <2>4, <2>5, <3>1, InOrderWithin DEF at
  <2>10. Enumerates(InOrder(R), Cardinality(R), R)
    BY <2>2, InOrderEnumerates
  <2> HIDE DEF at, m
  <2>11. \A k \in 1 .. Cardinality(R) : InOrder(R)[k] \in R
    BY <2>10 DEF Enumerates
  <2>12. \A k \in R : trace.events[k].tool = events[at[k]].tool
    <3>1. TAKE k \in R
    <3>2. k \in 1 .. m /\ at[k] \in 1 .. Len(events) /\ k - 1 \in Nat
      BY <2>2
    <3>3. IsIntent(events[at[k]])
      BY <2>7, <3>2
    <3>4. trace.events[k] = Renumbered(events[at[k]], k - 1)
      BY <2>2, <3>2
    <3>5. QED
      BY <1>2, <3>2, <3>3, <3>4, OnlyRenumbered
  <2>13. Len(InOrder(R)) = Cardinality(R)
    BY <1>2, <1>4, <2>9 DEF InOrder, RunsAreRan
  <2> HIDE DEF R
  <2>14. ReadingIsWhatRan
    <3>1. Len(InOrder(R)) = Len(ran)
      BY <1>2, <2>9, <2>13 DEF RunsAreRan
    <3>2. \A k \in 1 .. Len(InOrder(R)) : trace.events[InOrder(R)[k]].tool = ran[k].tool
      BY <1>2, <2>9, <2>11, <2>12, <2>13 DEF RunsAreRan
    <3>3. QED
      BY <2>8, <3>1, <3>2 DEF ReadingIsWhatRan
  <2>15. BudgetIsTraceSize
    BY <1>2, <1>6, <2>2 DEF Budget, BudgetIsTraceSize, m
  <2>16. QED
    BY <1>2, <2>1, <2>14, <2>15, StrippedIsWell
<1>7. QED
  BY <1>5, <1>6

----------------------------------------------------------------------------
(* The loop, step by step *)

(* what a step leaves alone when it records nothing *)
NothingRecorded == UNCHANGED <<arm, events, values, registered, armed, ran, emitted>>

LEMMA RecordingNothing ==
    ASSUME LoopInv, NothingRecorded,
           tool_calls' \in Nat, tool_calls <= tool_calls', tool_calls' <= MaxToolCalls
    PROVE  Placed' /\ Ledgered' /\ RunsAreRan' /\ Budget' /\ Unenforced'
<1>1. /\ events' = events /\ values' = values /\ ran' = ran /\ arm' = arm /\ emitted' = emitted
      /\ Runs' = Runs /\ NoDecisions' = NoDecisions /\ governed' = governed
      /\ Recorded' = Recorded
  BY DEF NothingRecorded, Runs, NoDecisions, governed, Recorded
<1>2. TypeInv /\ Placed /\ Ledgered /\ RunsAreRan /\ Budget /\ Unenforced
  BY DEF LoopInv
<1>3. Placed'
  <2>1. \A i \in 1 .. Len(events) : events[i].seq = i - 1 /\ events[i].call <= tool_calls'
    <3>1. TAKE i \in 1 .. Len(events)
    <3>2. events[i].call \in Nat /\ events[i].call <= tool_calls /\ events[i].seq = i - 1
      BY <1>2, EventsAre DEF Placed
    <3>3. tool_calls \in Nat
      BY <1>2 DEF TypeInv
    <3>4. QED
      BY <3>2, <3>3
  <2>2. QED
    BY <1>1, <1>2, <2>1 DEF Placed
<1>4. Ledgered' /\ RunsAreRan' /\ Unenforced'
  BY <1>1, <1>2 DEF Ledgered, RunsAreRan, Unenforced
<1>5. Budget'
  BY <1>1, <1>2 DEF Budget
<1>6. QED
  BY <1>3, <1>4, <1>5

LEMMA StopPreserves ==
    ASSUME LoopInv, stop_reason = None, model_calls' \in Nat,
           NEW reason \in {"finished", "max_steps", "max_tool_calls"}, Stop(reason)
    PROVE  LoopInv'
<1>1. /\ NothingRecorded /\ tool_calls' = tool_calls /\ stop_reason' = reason
      /\ trace' = FinalizeTrace
  BY DEF Stop, NothingRecorded
<1>2. TypeInv /\ Budget
  BY DEF LoopInv
<1>3. tool_calls \in Nat /\ tool_calls <= MaxToolCalls
  BY <1>2 DEF TypeInv, Budget
<1>4. Placed' /\ Ledgered' /\ RunsAreRan' /\ Budget' /\ Unenforced'
  BY <1>1, <1>3, RecordingNothing
<1>5. TypeInv'
  BY <1>1, <1>2 DEF TypeInv, NothingRecorded
<1>6. FinalizeTrace' = FinalizeTrace
  BY <1>1 DEF NothingRecorded, FinalizeTrace, governed
<1>7. reason \notin {None, "raised"}
  BY LoopAssumption
<1>8. Finished'
  BY <1>1, <1>6, <1>7 DEF Finished
<1>9. QED
  BY <1>4, <1>5, <1>8 DEF LoopInv

LEMMA RaisePreserves ==
    ASSUME LoopInv, stop_reason = None, model_calls' \in Nat, stop_reason' = "raised",
           NothingRecorded, trace' = trace, tool_calls' \in Nat, tool_calls <= tool_calls',
           tool_calls' <= MaxToolCalls
    PROVE  LoopInv'
<1>1. TypeInv /\ Finished
  BY DEF LoopInv
<1>2. Placed' /\ Ledgered' /\ RunsAreRan' /\ Budget' /\ Unenforced'
  BY RecordingNothing
<1>3. TypeInv'
  BY <1>1 DEF TypeInv, NothingRecorded
<1>4. Finished'
  BY <1>1 DEF Finished
<1>5. QED
  BY <1>2, <1>3, <1>4 DEF LoopInv

(* the parts of a call (Call) *)
BoundTo(data) == IF data = None THEN <<>> ELSE [arg \in {"to"} |-> Len(values) + 1]
WithArgument(data) == IF data = None THEN values ELSE Append(values, ArgumentValue(data))
DecisionOn(tool, data) ==
    GateWithGovernor("pinned", enforcement, registered, armed, tool, BoundTo(data), data)
IntentOf(tool, data) ==
    [type |-> "tool_call_intent", node |-> "root", seq |-> Len(events), call |-> tool_calls + 1,
     tool |-> tool, bound |-> BoundTo(data)]
DecidedOn(tool, data) ==
    [type |-> "gate_decision", node |-> "root", seq |-> Len(events) + 1, call |-> tool_calls + 1,
     decision |-> DecisionOn(tool, data)]
MadeBy(tool, data) ==
    Value(Len(WithArgument(data)) + 1, ResultLabels(tool), FixtureResult(tool), {})
ResultOf(tool, data) ==
    [type |-> "tool_result", node |-> "root", seq |-> Len(events) + 2, call |-> tool_calls + 1,
     tool |-> tool, makes |-> {MadeBy(tool, data).id}]

(* an enforced denial, and a call that ran *)
Denied(tool, data) ==
    /\ Contained(DecisionOn(tool, data))
    /\ events' = events \o <<IntentOf(tool, data), DecidedOn(tool, data)>>
    /\ values' = WithArgument(data)
    /\ emitted' = emitted + 1 + (IF governed THEN 1 ELSE 0)
    /\ UNCHANGED <<registered, armed, ran, stop_reason>>
RanNow(tool, data) ==
    /\ ~Contained(DecisionOn(tool, data))
    /\ events' = Append(events \o <<IntentOf(tool, data), DecidedOn(tool, data)>>,
                        ResultOf(tool, data))
    /\ values' = Append(WithArgument(data), MadeBy(tool, data))
    /\ registered' = registered \cup (IF tool \in Untrusted THEN {FixtureResult(tool)} ELSE {})
    /\ armed' = (armed \/ tool \in Sensitive)
    /\ ran' = Append(ran, [tool |-> tool, data |-> data, call |-> tool_calls + 1])
    /\ emitted' = emitted + 1 + (IF governed THEN 1 ELSE 0) + 1
    /\ UNCHANGED stop_reason
Failed ==
    stop_reason' = "raised" /\ UNCHANGED <<events, values, registered, armed, ran, emitted>>

LEMMA CallIs ==
    ASSUME NEW tool, NEW data, Call(tool, data)
    PROVE  /\ stop_reason = None /\ emitted < MaxSteps /\ model_calls' = model_calls + 1
           /\ tool_calls < MaxToolCalls /\ tool \in DOMAIN Manifests
           /\ tool_calls' = tool_calls + 1 /\ UNCHANGED <<arm, trace>>
           /\ Denied(tool, data) \/ RanNow(tool, data) \/ Failed
<1>1. /\ stop_reason = None /\ emitted < MaxSteps /\ model_calls' = model_calls + 1
      /\ tool_calls < MaxToolCalls /\ tool \in DOMAIN Manifests
      /\ tool_calls' = tool_calls + 1 /\ UNCHANGED <<arm, trace>>
  BY DEF Call, Asked
<1>2. Denied(tool, data) \/ RanNow(tool, data) \/ Failed
  BY DEF Call, Denied, RanNow, Failed, DecisionOn, IntentOf, DecidedOn, ResultOf, MadeBy,
         WithArgument, BoundTo
<1>3. QED
  BY <1>1, <1>2

LedgerOf(vs) ==
    /\ vs \in Seq(LedgerValue)
    /\ \A i \in 1 .. Len(vs) :
            /\ vs[i].id = i /\ vs[i].from \subseteq 1 .. Len(vs)
            /\ vs[i].data = IF "sensitive" \in vs[i].labels THEN None ELSE vs[i].hash

(* A value recorded last, made of values that are there, belongs there.     *)
LEMMA LedgerGrows ==
    ASSUME NEW vs, LedgerOf(vs), NEW data \in Contents, NEW from \in SUBSET (1 .. Len(vs)),
           NEW labels \in SUBSET {"untrusted", "sensitive"},
           NEW v, v = Value(Len(vs) + 1, labels, data, from)
    PROVE  LedgerOf(Append(vs, v))
<1>1. /\ v.id = Len(vs) + 1 /\ v.from = from /\ v.labels = labels /\ v.hash = data
      /\ v.data = IF "sensitive" \in labels THEN None ELSE data
  BY DEF Value
<1>2. vs \in Seq(LedgerValue) /\ Len(vs) \in Nat
  BY DEF LedgerOf
<1>3. from \in SUBSET Nat
  BY <1>2
<1>4. v \in LedgerValue
  BY <1>2, <1>3 DEF Value, LedgerValue
<1>5. /\ Append(vs, v) \in Seq(LedgerValue) /\ Len(Append(vs, v)) = Len(vs) + 1
      /\ \A i \in 1 .. Len(vs) : Append(vs, v)[i] = vs[i]
      /\ Append(vs, v)[Len(vs) + 1] = v
  BY <1>2, <1>4
<1>6. ASSUME NEW i \in 1 .. Len(vs) + 1
      PROVE  /\ Append(vs, v)[i].id = i /\ Append(vs, v)[i].from \subseteq 1 .. Len(vs) + 1
             /\ Append(vs, v)[i].data = IF "sensitive" \in Append(vs, v)[i].labels THEN None
                                       ELSE Append(vs, v)[i].hash
  <2>1. CASE i = Len(vs) + 1
    <3>1. Append(vs, v)[i] = v
      BY <1>5, <2>1
    <3>2. from \subseteq 1 .. Len(vs) + 1
      BY <1>2
    <3>3. QED
      BY <1>1, <2>1, <3>1, <3>2
  <2>2. CASE i \in 1 .. Len(vs)
    <3>1. vs[i].from \subseteq 1 .. Len(vs)
      BY <2>2 DEF LedgerOf
    <3>2. vs[i].from \subseteq 1 .. Len(vs) + 1
      BY <1>2, <3>1
    <3>3. QED
      BY <1>5, <2>2, <3>2 DEF LedgerOf
  <2>3. QED
    BY <1>2, <2>1, <2>2
<1>7. QED
  BY <1>5, <1>6 DEF LedgerOf

(* the ledger after a call, and what its intent is bound to *)
LEMMA ArgumentIsKept ==
    ASSUME LoopInv, NEW data \in Data \cup {None}
    PROVE  /\ LedgerOf(WithArgument(data))
           /\ Len(WithArgument(data)) \in Nat /\ Len(values) <= Len(WithArgument(data))
           /\ BoundTo(data) \in {<<>>} \cup [{"to"} -> Nat]
           /\ \A arg \in DOMAIN BoundTo(data) :
                    BoundTo(data)[arg] \in 1 .. Len(WithArgument(data))
<1>1. TypeInv /\ Ledgered
  BY DEF LoopInv
<1>2. LedgerOf(values)
  BY <1>1 DEF LedgerOf, Ledgered, TypeInv
<1>3. values \in Seq(LedgerValue) /\ Len(values) \in Nat
  BY <1>1 DEF TypeInv
<1>4. CASE data = None
  BY <1>2, <1>3, <1>4 DEF WithArgument, BoundTo
<1>5. CASE data # None
  <2>1. WithArgument(data) = Append(values, ArgumentValue(data))
    BY <1>5 DEF WithArgument
  <2>2. SourcesOf(data) \in SUBSET (1 .. Len(values))
    BY DEF SourcesOf
  <2>3. \A i \in SourcesOf(data) : values[i].labels \in SUBSET {"untrusted", "sensitive"}
    <3>1. \A i \in 1 .. Len(values) : values[i] \in LedgerValue
      BY <1>3
    <3>2. QED
      BY <2>2, <3>1 DEF LedgerValue
  <2>4. UNION {values[i].labels : i \in SourcesOf(data)} \in SUBSET {"untrusted", "sensitive"}
    BY <2>3
  <2>5. data \in Contents
    BY <1>5 DEF Contents
  <2>6. LedgerOf(Append(values, ArgumentValue(data)))
    BY <1>2, <2>2, <2>4, <2>5, LedgerGrows DEF ArgumentValue
  <2>7. Len(Append(values, ArgumentValue(data))) = Len(values) + 1
    BY <1>3
  <2>8. BoundTo(data) = [arg \in {"to"} |-> Len(values) + 1]
    BY <1>5 DEF BoundTo
  <2>9. QED
    BY <1>3, <2>1, <2>6, <2>7, <2>8
<1>6. QED
  BY <1>4, <1>5

LEMMA MadeIsKept ==
    ASSUME LoopInv, NEW data \in Data \cup {None}, NEW tool \in DOMAIN Manifests
    PROVE  /\ LedgerOf(Append(WithArgument(data), MadeBy(tool, data)))
           /\ Len(Append(WithArgument(data), MadeBy(tool, data))) = Len(WithArgument(data)) + 1
           /\ MadeBy(tool, data).id = Len(WithArgument(data)) + 1
<1>1. LedgerOf(WithArgument(data)) /\ Len(WithArgument(data)) \in Nat
  BY ArgumentIsKept
<1>2. ResultLabels(tool) \in SUBSET {"untrusted", "sensitive"}
  BY DEF ResultLabels
<1>3. FixtureResult(tool) \in Contents
  BY DEF FixtureResult, Contents
<1>4. {} \in SUBSET (1 .. Len(WithArgument(data)))
  OBVIOUS
<1>5. LedgerOf(Append(WithArgument(data), MadeBy(tool, data)))
  BY <1>1, <1>2, <1>3, <1>4, LedgerGrows DEF MadeBy
<1>6. QED
  BY <1>1, <1>5 DEF LedgerOf, MadeBy, Value

(* what the toolset records of a call *)
LEMMA PartsAre ==
    ASSUME LoopInv, NEW data \in Data \cup {None}, NEW tool \in DOMAIN Manifests
    PROVE  /\ IntentOf(tool, data) \in IntentEvent
           /\ DecidedOn(tool, data) \in DecisionEvent
           /\ ResultOf(tool, data) \in ResultEvent
           /\ DecisionOn(tool, data).verdict \in {"ALLOW", "DENY"}
           /\ DecisionOn(tool, data).enforced = (enforcement # "off")
           /\ IF DecisionOn(tool, data).driving = None
              THEN DecisionOn(tool, data).unresolved # None
              ELSE DecisionOn(tool, data).driving \in 1 .. Len(WithArgument(data))
<1>1. Len(events) \in Nat /\ tool_calls \in Nat /\ armed \in BOOLEAN
  BY DEF LoopInv, TypeInv
<1>2. /\ BoundTo(data) \in {<<>>} \cup [{"to"} -> Nat]
      /\ \A arg \in DOMAIN BoundTo(data) : BoundTo(data)[arg] \in 1 .. Len(WithArgument(data))
      /\ Len(WithArgument(data)) \in Nat
  BY ArgumentIsKept
<1>3. IntentOf(tool, data) \in IntentEvent
  BY <1>1, <1>2 DEF IntentOf, IntentEvent
<1>4. MadeBy(tool, data).id \in Nat
  BY <1>2, MadeIsKept
<1>5. ResultOf(tool, data) \in ResultEvent
  BY <1>1, <1>4 DEF ResultOf, ResultEvent
<1> DEFINE d == DecisionOn(tool, data)
           to == "to" \in DOMAIN BoundTo(data)
<1>6. d = [verdict |-> IF Denies("pinned", registered, armed, tool, data) THEN "DENY" ELSE "ALLOW",
           enforced |-> enforcement # "off",
           driving |-> IF tool \in Driven /\ to THEN BoundTo(data)["to"] ELSE None,
           unresolved |-> IF tool \notin Driven THEN "no_driving_args"
                          ELSE IF ~to THEN "unresolved_argument" ELSE None]
  BY DEF DecisionOn, GateWithGovernor
<1> HIDE DEF d
<1>7. /\ d.verdict \in {"ALLOW", "DENY"} /\ d.enforced = (enforcement # "off")
      /\ d.driving = IF tool \in Driven /\ to THEN BoundTo(data)["to"] ELSE None
      /\ d.unresolved = IF tool \notin Driven THEN "no_driving_args"
                        ELSE IF ~to THEN "unresolved_argument" ELSE None
  BY <1>6
<1>8. to => BoundTo(data)["to"] \in 1 .. Len(WithArgument(data))
  BY <1>2
<1> HIDE DEF to
<1>9. d.driving \in Nat \cup {None} /\ d.unresolved \in {None, "no_driving_args", "unresolved_argument"}
  BY <1>2, <1>7, <1>8
<1>10. d \in Decision
  BY <1>6, <1>7, <1>9 DEF Decision
<1>11. IF d.driving = None THEN d.unresolved # None
       ELSE d.driving \in 1 .. Len(WithArgument(data))
  BY <1>2, <1>7, <1>8, AbsentIsNoValue
<1>12. DecidedOn(tool, data) \in DecisionEvent
  BY <1>1, <1>10 DEF DecidedOn, DecisionEvent, d
<1>13. QED
  BY <1>3, <1>5, <1>7, <1>11, <1>12 DEF d

(* what a call that was decided adds: its intent, the decision and, if it   *)
(* ran, its result                                                          *)
Grown(tool, data, k) ==
    /\ tool_calls' = tool_calls + 1 /\ arm' = arm
    /\ events' \in Seq(IntentEvent \cup DecisionEvent \cup ResultEvent)
    /\ Len(events') = Len(events) + k
    /\ \A i \in 1 .. Len(events) : events'[i] = events[i]
    /\ events'[Len(events) + 1] = IntentOf(tool, data)
    /\ events'[Len(events) + 2] = DecidedOn(tool, data)
    /\ k = 3 => events'[Len(events) + 3] = ResultOf(tool, data)
    /\ LedgerOf(values') /\ Len(WithArgument(data)) <= Len(values')
    /\ k = 3 => Len(values') = Len(WithArgument(data)) + 1

LEMMA DeniedGrows ==
    ASSUME LoopInv, NEW data \in Data \cup {None}, NEW tool, Call(tool, data), Denied(tool, data)
    PROVE  Grown(tool, data, 2)
<1>1. tool \in DOMAIN Manifests /\ tool_calls' = tool_calls + 1 /\ arm' = arm
  BY CallIs
<1>2. events \in Seq(IntentEvent \cup DecisionEvent \cup ResultEvent)
  BY DEF LoopInv, TypeInv
<1>3. IntentOf(tool, data) \in IntentEvent /\ DecidedOn(tool, data) \in DecisionEvent
  BY <1>1, PartsAre
<1>4. LedgerOf(values') /\ Len(WithArgument(data)) <= Len(values')
  BY ArgumentIsKept DEF Denied
<1>5. events' = events \o <<IntentOf(tool, data), DecidedOn(tool, data)>>
  BY DEF Denied
<1>6. QED
  BY <1>1, <1>2, <1>3, <1>4, <1>5 DEF Grown

LEMMA RanGrows ==
    ASSUME LoopInv, NEW data \in Data \cup {None}, NEW tool, Call(tool, data), RanNow(tool, data)
    PROVE  Grown(tool, data, 3)
<1>1. tool \in DOMAIN Manifests /\ tool_calls' = tool_calls + 1 /\ arm' = arm
  BY CallIs
<1>2. events \in Seq(IntentEvent \cup DecisionEvent \cup ResultEvent) /\ Len(events) \in Nat
  BY DEF LoopInv, TypeInv
<1>3. /\ IntentOf(tool, data) \in IntentEvent /\ DecidedOn(tool, data) \in DecisionEvent
      /\ ResultOf(tool, data) \in ResultEvent
  BY <1>1, PartsAre
<1>4. /\ LedgerOf(values') /\ Len(WithArgument(data)) <= Len(values')
      /\ Len(values') = Len(WithArgument(data)) + 1
  BY <1>1, MadeIsKept, ArgumentIsKept DEF RanNow
<1>5. events' = Append(events \o <<IntentOf(tool, data), DecidedOn(tool, data)>>,
                      ResultOf(tool, data))
  BY DEF RanNow
<1>6. PICK both \in Seq(IntentEvent \cup DecisionEvent \cup ResultEvent) :
        both = events \o <<IntentOf(tool, data), DecidedOn(tool, data)>>
  <2>1. events \o <<IntentOf(tool, data), DecidedOn(tool, data)>>
            \in Seq(IntentEvent \cup DecisionEvent \cup ResultEvent)
    BY <1>2, <1>3
  <2>2. QED
    BY <2>1
<1>7. /\ Len(both) = Len(events) + 2
      /\ \A i \in 1 .. Len(events) : both[i] = events[i]
      /\ both[Len(events) + 1] = IntentOf(tool, data)
      /\ both[Len(events) + 2] = DecidedOn(tool, data)
  BY <1>2, <1>3, <1>6
<1>8. /\ events' \in Seq(IntentEvent \cup DecisionEvent \cup ResultEvent)
      /\ Len(events') = Len(events) + 3 /\ events'[Len(events) + 3] = ResultOf(tool, data)
      /\ \A i \in 1 .. Len(events) + 2 : events'[i] = both[i]
  BY <1>2, <1>3, <1>5, <1>6, <1>7
<1>9. /\ \A i \in 1 .. Len(events) : events'[i] = events[i]
      /\ events'[Len(events) + 1] = IntentOf(tool, data)
      /\ events'[Len(events) + 2] = DecidedOn(tool, data)
  BY <1>2, <1>7, <1>8
<1>10. QED
  BY <1>1, <1>4, <1>8, <1>9 DEF Grown

(* A decided call keeps the events in their places.                         *)
LEMMA GrowthPlaced ==
    ASSUME LoopInv, NEW data \in Data \cup {None}, NEW tool \in DOMAIN Manifests,
           NEW k \in {2, 3}, Grown(tool, data, k)
    PROVE  Placed'
<1> DEFINE n == Len(events)
<1>1. n \in Nat /\ tool_calls \in Nat /\ Len(events') = n + k
  BY DEF LoopInv, TypeInv, Grown
<1>2. \A i \in 1 .. n + k : \/ i \in 1 .. n \/ i = n + 1 \/ i = n + 2 \/ (i = n + 3 /\ k = 3)
  BY <1>1
<1>3. /\ events'[n + 1] = IntentOf(tool, data) /\ events'[n + 2] = DecidedOn(tool, data)
      /\ k = 3 => events'[n + 3] = ResultOf(tool, data)
      /\ \A i \in 1 .. n : events'[i] = events[i]
      /\ tool_calls' = tool_calls + 1
  BY DEF Grown
<1>4. /\ IsIntent(events'[n + 1]) /\ events'[n + 1].call = tool_calls + 1
      /\ events'[n + 1].seq = n /\ events'[n + 1].type = "tool_call_intent"
  BY <1>3 DEF IntentOf, IsIntent
<1>5. /\ IsDecision(events'[n + 2]) /\ events'[n + 2].call = tool_calls + 1
      /\ ~IsIntent(events'[n + 2]) /\ events'[n + 2].type = "gate_decision"
      /\ events'[n + 2].seq = n + 1
  BY <1>3 DEF DecidedOn, IsIntent, IsDecision
<1>6. k = 3 => /\ events'[n + 3].call = tool_calls + 1 /\ events'[n + 3].seq = n + 2
               /\ ~IsIntent(events'[n + 3]) /\ events'[n + 3].type = "tool_result"
  BY <1>3 DEF ResultOf, IsIntent
<1>7. \A i \in 1 .. n : /\ events'[i].seq = i - 1 /\ events'[i].call \in Nat
                        /\ events'[i].call <= tool_calls
  BY <1>3, EventsAre DEF LoopInv, Placed
<1>8. \A i \in 1 .. n : IsIntent(events'[i]) =>
            i + 1 \in 1 .. n /\ IsDecision(events'[i + 1]) /\ events'[i + 1].call = events'[i].call
  <2>1. \A i \in 1 .. n : IsIntent(events[i]) =>
            i + 1 <= n /\ IsDecision(events[i + 1]) /\ events[i + 1].call = events[i].call
    BY DEF LoopInv, Placed
  <2>2. QED
    BY <1>1, <1>3, <2>1
<1>9. \A i, j \in 1 .. n :
        /\ i # j /\ events'[i].type = events'[j].type /\ events'[i].type # "tool_result"
        => events'[i].call # events'[j].call
  <2>1. \A i, j \in 1 .. n :
          /\ i # j /\ events[i].type = events[j].type /\ events[i].type # "tool_result"
          => events[i].call = None \/ events[i].call # events[j].call
    BY DEF LoopInv, Placed, OneCallOneId, Recorded
  <2>2. \A i \in 1 .. n : events[i].call # None
    BY EventsAre, AbsentIsNoValue DEF LoopInv
  <2>3. QED
    BY <1>3, <2>1, <2>2
<1> HIDE DEF n
<1>10. \A i \in 1 .. n + k : events'[i].seq = i - 1 /\ events'[i].call <= tool_calls + 1
  <2>1. TAKE i \in 1 .. n + k
  <2>2. CASE i \in 1 .. n
    <3>1. /\ events'[i].seq = i - 1 /\ events'[i].call \in Nat
          /\ events'[i].call <= tool_calls
      BY <1>7, <2>2
    <3>2. QED
      BY <1>1, <3>1
  <2>3. CASE i = n + 1
    BY <1>1, <1>4, <2>3
  <2>4. CASE i = n + 2
    BY <1>1, <1>5, <2>4
  <2>5. CASE i = n + 3 /\ k = 3
    BY <1>1, <1>6, <2>5
  <2>6. QED
    BY <1>2, <2>2, <2>3, <2>4, <2>5
<1>11. \A i \in 1 .. n + k : IsIntent(events'[i]) =>
            i + 1 <= n + k /\ IsDecision(events'[i + 1]) /\ events'[i + 1].call = events'[i].call
  <2>1. SUFFICES ASSUME NEW i \in 1 .. n + k, IsIntent(events'[i])
                 PROVE  /\ i + 1 <= n + k /\ IsDecision(events'[i + 1])
                        /\ events'[i + 1].call = events'[i].call
    OBVIOUS
  <2>2. CASE i \in 1 .. n
    BY <1>1, <1>8, <2>1, <2>2
  <2>3. CASE i = n + 1
    <3>1. i + 1 = n + 2 /\ i + 1 <= n + k
      BY <1>1, <2>3
    <3>2. QED
      BY <1>4, <1>5, <2>3, <3>1
  <2>4. QED
    BY <1>2, <1>5, <1>6, <2>1, <2>2, <2>3
<1>12. \A i, j \in 1 .. n + k :
        /\ i # j /\ events'[i].type = events'[j].type /\ events'[i].type # "tool_result"
        => events'[i].call # events'[j].call
  <2>1. SUFFICES ASSUME NEW i \in 1 .. n + k, NEW j \in 1 .. n + k, i # j,
                        events'[i].type = events'[j].type, events'[i].type # "tool_result"
                 PROVE  events'[i].call # events'[j].call
    OBVIOUS
  <2>2. CASE i \in 1 .. n /\ j \in 1 .. n
    BY <1>9, <2>1, <2>2
  <2>3. CASE i \in 1 .. n /\ j \notin 1 .. n
    <3>1. events'[j].call = tool_calls + 1
      BY <1>2, <1>4, <1>5, <1>6, <2>3
    <3>2. events'[i].call \in Nat /\ events'[i].call <= tool_calls
      BY <1>7, <2>3
    <3>3. QED
      BY <1>1, <3>1, <3>2
  <2>4. CASE j \in 1 .. n /\ i \notin 1 .. n
    <3>1. events'[i].call = tool_calls + 1
      BY <1>2, <1>4, <1>5, <1>6, <2>4
    <3>2. events'[j].call \in Nat /\ events'[j].call <= tool_calls
      BY <1>7, <2>4
    <3>3. QED
      BY <1>1, <3>1, <3>2
  <2>5. CASE i \notin 1 .. n /\ j \notin 1 .. n
    BY <1>2, <1>4, <1>5, <1>6, <2>1, <2>5
  <2>6. QED
    BY <2>2, <2>3, <2>4, <2>5
<1>13. OneCallOneId(Recorded)'
  BY <1>1, <1>12 DEF OneCallOneId, Recorded
<1>14. QED
  BY <1>1, <1>3, <1>10, <1>11, <1>13 DEF Placed

(* A decided call refers to values that are there.                          *)
LEMMA GrowthLedgered ==
    ASSUME LoopInv, NEW data \in Data \cup {None}, NEW tool \in DOMAIN Manifests,
           NEW k \in {2, 3}, Grown(tool, data, k)
    PROVE  Ledgered'
<1> DEFINE n == Len(events)
           v == Len(values')
<1>1. n \in Nat /\ Len(events') = n + k /\ v \in Nat /\ Len(values) \in Nat
  BY DEF LoopInv, TypeInv, Grown, LedgerOf
<1>2. \A i \in 1 .. n + k : \/ i \in 1 .. n \/ i = n + 1 \/ i = n + 2 \/ (i = n + 3 /\ k = 3)
  BY <1>1
<1>3. /\ events'[n + 1] = IntentOf(tool, data) /\ events'[n + 2] = DecidedOn(tool, data)
      /\ k = 3 => events'[n + 3] = ResultOf(tool, data)
      /\ \A i \in 1 .. n : events'[i] = events[i]
      /\ LedgerOf(values')
  BY DEF Grown
<1>4. 1 .. Len(values) \subseteq 1 .. v /\ 1 .. Len(WithArgument(data)) \subseteq 1 .. v
  <2>1. Len(values) <= Len(WithArgument(data)) /\ Len(WithArgument(data)) <= v
    BY ArgumentIsKept DEF Grown
  <2>2. Len(WithArgument(data)) \in Nat
    BY ArgumentIsKept
  <2> HIDE DEF v
  <2>3. QED
    BY <1>1, <2>1, <2>2
<1>5. k = 3 => MadeBy(tool, data).id \in 1 .. v
  <2>1. k = 3 => v = Len(WithArgument(data)) + 1
    BY DEF Grown
  <2>2. MadeBy(tool, data).id = Len(WithArgument(data)) + 1 /\ Len(WithArgument(data)) \in Nat
    BY MadeIsKept, ArgumentIsKept
  <2> HIDE DEF v
  <2>3. QED
    BY <2>1, <2>2
<1> DEFINE Refers(e) ==
        /\ IsIntent(e) => \A arg \in DOMAIN e.bound : e.bound[arg] \in 1 .. v
        /\ IsResult(e) => e.makes \subseteq 1 .. v
        /\ IsDecision(e) => IF e.decision.driving = None THEN e.decision.unresolved # None
                            ELSE e.decision.driving \in 1 .. v
<1> HIDE DEF n, v
<1>6. \A i \in 1 .. n : Refers(events[i])
  <2>1. TAKE i \in 1 .. n
  <2>2. /\ IsIntent(events[i]) => \A arg \in DOMAIN events[i].bound :
                                        events[i].bound[arg] \in 1 .. Len(values)
        /\ IsResult(events[i]) => events[i].makes \subseteq 1 .. Len(values)
        /\ IsDecision(events[i]) => IF events[i].decision.driving = None
                                    THEN events[i].decision.unresolved # None
                                    ELSE events[i].decision.driving \in 1 .. Len(values)
    BY DEF LoopInv, Ledgered, n
  <2>3. QED
    BY <1>4, <2>2
<1>7. Refers(IntentOf(tool, data))
  <2>1. /\ IntentOf(tool, data).bound = BoundTo(data)
        /\ ~IsResult(IntentOf(tool, data)) /\ ~IsDecision(IntentOf(tool, data))
    BY DEF IntentOf, IsResult, IsDecision
  <2>2. \A arg \in DOMAIN BoundTo(data) : BoundTo(data)[arg] \in 1 .. Len(WithArgument(data))
    BY ArgumentIsKept
  <2>3. QED
    BY <1>4, <2>1, <2>2
<1>8. Refers(DecidedOn(tool, data))
  <2>1. /\ DecidedOn(tool, data).decision = DecisionOn(tool, data)
        /\ ~IsResult(DecidedOn(tool, data)) /\ ~IsIntent(DecidedOn(tool, data))
    BY DEF DecidedOn, IsResult, IsIntent
  <2>2. IF DecisionOn(tool, data).driving = None THEN DecisionOn(tool, data).unresolved # None
        ELSE DecisionOn(tool, data).driving \in 1 .. Len(WithArgument(data))
    BY PartsAre
  <2>3. QED
    BY <1>4, <2>1, <2>2
<1>9. k = 3 => Refers(ResultOf(tool, data))
  <2>1. /\ ResultOf(tool, data).makes = {MadeBy(tool, data).id}
        /\ ~IsDecision(ResultOf(tool, data)) /\ ~IsIntent(ResultOf(tool, data))
    BY DEF ResultOf, IsDecision, IsIntent
  <2>2. QED
    BY <1>5, <2>1
<1> HIDE DEF Refers
<1>10. \A i \in 1 .. n + k : Refers(events'[i])
  <2>1. TAKE i \in 1 .. n + k
  <2>2. CASE i \in 1 .. n
    BY <1>3, <1>6, <2>2 DEF n
  <2>3. CASE i = n + 1
    BY <1>3, <1>7, <2>3 DEF n
  <2>4. CASE i = n + 2
    BY <1>3, <1>8, <2>4 DEF n
  <2>5. CASE i = n + 3 /\ k = 3
    BY <1>3, <1>9, <2>5 DEF n
  <2>6. QED
    BY <1>2, <2>2, <2>3, <2>4, <2>5 DEF n
<1>11. \A i \in 1 .. v :
        /\ values'[i].id = i /\ values'[i].from \subseteq 1 .. v
        /\ values'[i].data = IF "sensitive" \in values'[i].labels THEN None ELSE values'[i].hash
  BY <1>3 DEF LedgerOf, v
<1>12. QED
  BY <1>1, <1>10, <1>11 DEF Ledgered, Refers, n, v

(* A decided call adds one intent, carried out or not, and leaves the       *)
(* earlier ones as they were.                                               *)
LEMMA GrowthRuns ==
    ASSUME LoopInv, NEW data \in Data \cup {None}, NEW tool \in DOMAIN Manifests,
           NEW k \in {2, 3}, Grown(tool, data, k)
    PROVE  /\ Len(events) + 1 \in Nat /\ Runs \in SUBSET (1 .. Len(events))
           /\ NoDecisions \in SUBSET (1 .. Len(events))
           /\ Runs' = IF ExecutedUnder(DecisionOn(tool, data)) THEN Runs \cup {Len(events) + 1}
                      ELSE Runs
           /\ NoDecisions' = IF k = 3 THEN (NoDecisions \cup {Len(events) + 1}) \cup {Len(events) + 3}
                             ELSE NoDecisions \cup {Len(events) + 1}
<1> DEFINE n == Len(events)
<1>1. n \in Nat /\ Len(events') = n + k
  BY DEF LoopInv, TypeInv, Grown
<1>2. \A i \in 1 .. n + k : \/ i \in 1 .. n \/ i = n + 1 \/ i = n + 2 \/ (i = n + 3 /\ k = 3)
  BY <1>1
<1>3. /\ \A i \in 1 .. n : i \in 1 .. n + k
      /\ n + 1 \in 1 .. n + k /\ n + 2 \in 1 .. n + k /\ (k = 3 => n + 3 \in 1 .. n + k)
      /\ n + 1 \notin 1 .. n /\ n + 2 \notin 1 .. n /\ n + 3 \notin 1 .. n
      /\ n + 1 # n + 2 /\ n + 2 # n + 3 /\ n + 1 # n + 3
  BY <1>1
<1>4. /\ events'[n + 1] = IntentOf(tool, data) /\ events'[n + 2] = DecidedOn(tool, data)
      /\ k = 3 => events'[n + 3] = ResultOf(tool, data)
      /\ \A i \in 1 .. n : events'[i] = events[i]
  BY DEF Grown
<1>5. /\ IsIntent(events'[n + 1]) /\ ~IsDecision(events'[n + 1])
      /\ IsDecision(events'[n + 2]) /\ ~IsIntent(events'[n + 2])
      /\ events'[n + 2].decision = DecisionOn(tool, data)
      /\ k = 3 => ~IsDecision(events'[n + 3]) /\ ~IsIntent(events'[n + 3])
  BY <1>4 DEF IntentOf, DecidedOn, ResultOf, IsIntent, IsDecision
<1>6. \A i \in 1 .. n : IsIntent(events[i]) => i + 1 \in 1 .. n
  BY <1>1 DEF LoopInv, Placed
<1>7. n + 1 + 1 = n + 2
  BY <1>1
<1>8. Runs = {i \in 1 .. n : IsIntent(events[i]) /\ ExecutedUnder(events[i + 1].decision)}
  BY DEF Runs
<1>9. Runs' = {i \in 1 .. n + k : IsIntent(events'[i]) /\ ExecutedUnder(events'[i + 1].decision)}
  BY <1>1 DEF Runs
<1>10. NoDecisions = {i \in 1 .. n : ~IsDecision(events[i])}
  BY DEF NoDecisions
<1>11. NoDecisions' = {i \in 1 .. n + k : ~IsDecision(events'[i])}
  BY <1>1 DEF NoDecisions
<1> HIDE DEF n
<1>12. \A i \in 1 .. n : i \in Runs' <=> i \in Runs
  BY <1>3, <1>4, <1>6, <1>8, <1>9
<1>13. n + 1 \in Runs' <=> ExecutedUnder(DecisionOn(tool, data))
  BY <1>3, <1>5, <1>7, <1>9
<1>14. n + 2 \notin Runs' /\ (k = 3 => n + 3 \notin Runs')
  BY <1>5, <1>9
<1>15. Runs \subseteq 1 .. n /\ Runs' \subseteq 1 .. n + k
  BY <1>8, <1>9
<1>16. Runs' = IF ExecutedUnder(DecisionOn(tool, data)) THEN Runs \cup {n + 1} ELSE Runs
  <2>1. \A i : i \in Runs' <=> i \in Runs \/ (i = n + 1 /\ ExecutedUnder(DecisionOn(tool, data)))
    BY <1>2, <1>12, <1>13, <1>14, <1>15
  <2>2. QED
    BY <2>1
<1>17. \A i \in 1 .. n : i \in NoDecisions' <=> i \in NoDecisions
  BY <1>3, <1>4, <1>10, <1>11
<1>18. /\ n + 1 \in NoDecisions' /\ n + 2 \notin NoDecisions'
       /\ k = 3 => n + 3 \in NoDecisions'
  BY <1>3, <1>5, <1>11
<1>19. NoDecisions \subseteq 1 .. n /\ NoDecisions' \subseteq 1 .. n + k
  BY <1>10, <1>11
<1>20. \A i : i \in NoDecisions' <=> i \in NoDecisions \/ i = n + 1 \/ (i = n + 3 /\ k = 3)
  <2>1. TAKE i
  <2>2. CASE i \in 1 .. n
    BY <1>3, <1>17, <2>2
  <2>3. CASE i \notin 1 .. n
    BY <1>2, <1>18, <1>19, <2>3
  <2>4. QED
    BY <2>2, <2>3
<1>21. QED
  BY <1>1, <1>15, <1>16, <1>19, <1>20 DEF n

(* whether a decision let the call run *)
LEMMA ExecutedOrContained ==
    ASSUME LoopInv, NEW data \in Data \cup {None}, NEW tool \in DOMAIN Manifests
    PROVE  /\ ExecutedUnder(DecisionOn(tool, data)) <=> ~Contained(DecisionOn(tool, data))
           /\ arm # "on" => /\ DecisionOn(tool, data).enforced = FALSE
                            /\ ~Contained(DecisionOn(tool, data))
<1>1. /\ DecisionOn(tool, data).verdict \in {"ALLOW", "DENY"}
      /\ DecisionOn(tool, data).enforced = (enforcement # "off")
  BY PartsAre
<1>2. ExecutedUnder(DecisionOn(tool, data)) <=> ~Contained(DecisionOn(tool, data))
  BY <1>1 DEF ExecutedUnder, Contained
<1>3. arm # "on" => DecisionOn(tool, data).enforced = FALSE
  BY <1>1 DEF enforcement
<1>4. QED
  BY <1>2, <1>3 DEF Contained, WasEnforced

(* In an arm that does not enforce, no decision of a call is enforced.      *)
LEMMA GrowthUnenforced ==
    ASSUME LoopInv, NEW data \in Data \cup {None}, NEW tool \in DOMAIN Manifests,
           NEW k \in {2, 3}, Grown(tool, data, k)
    PROVE  Unenforced'
<1> DEFINE n == Len(events)
<1>1. n \in Nat /\ Len(events') = n + k /\ arm' = arm
  BY DEF LoopInv, TypeInv, Grown
<1>2. \A i \in 1 .. n + k : \/ i \in 1 .. n \/ i = n + 1 \/ i = n + 2 \/ (i = n + 3 /\ k = 3)
  BY <1>1
<1>3. /\ events'[n + 1] = IntentOf(tool, data) /\ events'[n + 2] = DecidedOn(tool, data)
      /\ k = 3 => events'[n + 3] = ResultOf(tool, data)
      /\ \A i \in 1 .. n : events'[i] = events[i]
  BY DEF Grown
<1>4. /\ ~IsDecision(events'[n + 1]) /\ (k = 3 => ~IsDecision(events'[n + 3]))
      /\ events'[n + 2].decision = DecisionOn(tool, data)
  BY <1>3 DEF IntentOf, DecidedOn, ResultOf, IsDecision
<1>5. arm # "on" => /\ DecisionOn(tool, data).enforced = FALSE
                    /\ \A i \in 1 .. n : IsDecision(events[i]) => events[i].decision.enforced = FALSE
  BY ExecutedOrContained DEF LoopInv, Unenforced
<1> HIDE DEF n
<1>6. QED
  BY <1>1, <1>2, <1>3, <1>4, <1>5 DEF Unenforced

LEMMA DeniedPreserves ==
    ASSUME LoopInv, NEW data \in Data \cup {None}, NEW tool, Call(tool, data), Denied(tool, data)
    PROVE  LoopInv'
<1>1. /\ tool \in DOMAIN Manifests /\ stop_reason = None /\ emitted < MaxSteps
      /\ tool_calls < MaxToolCalls /\ model_calls' = model_calls + 1
      /\ tool_calls' = tool_calls + 1 /\ arm' = arm /\ trace' = trace
  BY CallIs
<1>2. Grown(tool, data, 2)
  BY DeniedGrows
<1>3. 2 \in {2, 3}
  OBVIOUS
<1>4. TypeInv /\ RunsAreRan /\ Budget /\ Finished
  BY DEF LoopInv
<1>5. Placed' /\ Ledgered' /\ Unenforced'
  BY <1>1, <1>2, <1>3, GrowthPlaced, GrowthLedgered, GrowthUnenforced
<1>6. /\ ~ExecutedUnder(DecisionOn(tool, data)) /\ arm = "on"
  BY <1>1, ExecutedOrContained DEF Denied
<1>7. Runs' = Runs /\ ran' = ran /\ stop_reason' = stop_reason /\ emitted' = emitted + 2
  <2>1. Runs' = Runs
    BY <1>1, <1>2, <1>3, <1>6, GrowthRuns
  <2>2. emitted \in Nat /\ governed
    BY <1>4, <1>6 DEF TypeInv, governed
  <2>3. QED
    BY <2>1, <2>2 DEF Denied
<1>8. TypeInv'
  <2>1. armed' = armed
    BY DEF Denied
  <2>2. QED
    BY <1>1, <1>2, <1>4, <1>7, <2>1 DEF TypeInv, Grown, LedgerOf
<1>9. RunsAreRan'
  <2>1. \A j \in 1 .. Len(ran) : InOrder(Runs)[j] \in 1 .. Len(events)
    <3>1. Len(events) \in Nat /\ Runs \in SUBSET (1 .. Len(events))
      BY <1>4 DEF Runs, TypeInv
    <3>2. Enumerates(InOrder(Runs), Cardinality(Runs), Runs)
      BY <3>1, InOrderEnumerates
    <3>3. QED
      BY <1>4, <3>1, <3>2 DEF Enumerates, RunsAreRan
  <2>2. \A i \in 1 .. Len(events) : events'[i] = events[i]
    BY <1>2 DEF Grown
  <2>3. QED
    BY <1>4, <1>7, <2>1, <2>2 DEF RunsAreRan
<1>10. Budget'
  <2>1. Len(events') = Len(events) + 2 /\ governed' /\ governed
    BY <1>1, <1>2, <1>6 DEF Grown, governed
  <2>2. MaxSteps \in Nat /\ MaxToolCalls \in Nat /\ emitted \in Nat /\ tool_calls \in Nat
    BY <1>4, LoopAssumption DEF TypeInv
  <2>3. emitted = Len(events)
    BY <1>4, <2>1 DEF Budget
  <2>4. QED
    BY <1>1, <1>7, <2>1, <2>2, <2>3 DEF Budget
<1>11. Finished'
  BY <1>1, <1>4, <1>7 DEF Finished
<1>12. QED
  BY <1>5, <1>8, <1>9, <1>10, <1>11 DEF LoopInv

LEMMA RanPreserves ==
    ASSUME LoopInv, NEW data \in Data \cup {None}, NEW tool, Call(tool, data), RanNow(tool, data)
    PROVE  LoopInv'
<1> DEFINE n == Len(events)
<1>1. /\ tool \in DOMAIN Manifests /\ stop_reason = None /\ emitted < MaxSteps
      /\ tool_calls < MaxToolCalls /\ model_calls' = model_calls + 1
      /\ tool_calls' = tool_calls + 1 /\ arm' = arm /\ trace' = trace
  BY CallIs
<1>2. Grown(tool, data, 3)
  BY RanGrows
<1>3. 3 \in {2, 3}
  OBVIOUS
<1>4. TypeInv /\ RunsAreRan /\ Budget /\ Finished
  BY DEF LoopInv
<1>5. Placed' /\ Ledgered' /\ Unenforced'
  BY <1>1, <1>2, <1>3, GrowthPlaced, GrowthLedgered, GrowthUnenforced
<1>6. ExecutedUnder(DecisionOn(tool, data))
  BY <1>1, ExecutedOrContained DEF RanNow
<1>7. /\ n \in Nat /\ Runs \in SUBSET (1 .. n) /\ NoDecisions \in SUBSET (1 .. n)
      /\ Runs' = Runs \cup {n + 1} /\ NoDecisions' = (NoDecisions \cup {n + 1}) \cup {n + 3}
  <2>1. n \in Nat
    BY <1>4 DEF TypeInv
  <2>2. /\ Runs \in SUBSET (1 .. n) /\ NoDecisions \in SUBSET (1 .. n)
        /\ Runs' = IF ExecutedUnder(DecisionOn(tool, data)) THEN Runs \cup {n + 1} ELSE Runs
        /\ NoDecisions' = IF 3 = 3 THEN (NoDecisions \cup {n + 1}) \cup {n + 3}
                          ELSE NoDecisions \cup {n + 1}
    BY <1>1, <1>2, <1>3, GrowthRuns
  <2>3. QED
    BY <1>6, <2>1, <2>2
<1>8. /\ ran' = Append(ran, [tool |-> tool, data |-> data, call |-> tool_calls + 1])
      /\ stop_reason' = stop_reason /\ armed' = (armed \/ tool \in Sensitive)
      /\ emitted' = emitted + 1 + (IF governed THEN 1 ELSE 0) + 1
  BY DEF RanNow
<1>9. /\ emitted \in Nat /\ tool_calls \in Nat /\ MaxSteps \in Nat /\ MaxToolCalls \in Nat
      /\ ran \in Seq([tool : DOMAIN Manifests, data : Data \cup {None}, call : Nat])
  BY <1>4, LoopAssumption DEF TypeInv
<1> HIDE DEF n
<1>10. TypeInv'
  <2>1. [tool |-> tool, data |-> data, call |-> tool_calls + 1]
            \in [tool : DOMAIN Manifests, data : Data \cup {None}, call : Nat]
    BY <1>1, <1>9
  <2>2. ran' \in Seq([tool : DOMAIN Manifests, data : Data \cup {None}, call : Nat])
    BY <1>8, <1>9, <2>1
  <2>3. emitted' \in Nat /\ armed' \in BOOLEAN
    <3>1. armed' \in BOOLEAN
      BY <1>8, Zenon
    <3>2. emitted \in Nat /\ (emitted' = emitted + 3 \/ emitted' = emitted + 2)
      <4>1. emitted \in Nat
        BY <1>9
      <4>2. emitted' = emitted + 1 + (IF governed THEN 1 ELSE 0) + 1
        BY <1>8
      <4>3. QED
        BY <4>1, <4>2
    <3>3. emitted' \in Nat
      BY <3>2
    <3>4. QED
      BY <3>1, <3>3, Zenon
  <2>4. /\ arm \in Arms /\ model_calls \in Nat
        /\ stop_reason \in {None, "finished", "max_steps", "max_tool_calls", "raised"}
    BY <1>4 DEF TypeInv
  <2>5. /\ tool_calls' = tool_calls + 1 /\ arm' = arm
        /\ events' \in Seq(IntentEvent \cup DecisionEvent \cup ResultEvent)
        /\ values' \in Seq(LedgerValue)
    BY <1>2 DEF Grown, LedgerOf
  <2>6. tool_calls' \in Nat
    BY <1>9, <2>5
  <2>7. model_calls' \in Nat
    BY <1>1, <2>4
  <2>8. arm' \in Arms /\ stop_reason' \in {None, "finished", "max_steps", "max_tool_calls", "raised"}
    BY <1>8, <2>4, <2>5, Zenon
  <2>9. QED
    BY <2>2, <2>3, <2>5, <2>6, <2>7, <2>8, Zenon DEF TypeInv
<1>11. RunsAreRan'
  <2> DEFINE m == Cardinality(Runs)
             at == InOrder(Runs)
             at2 == InOrder(Runs \cup {n + 1})
  <2>1. /\ Cardinality(Runs \cup {n + 1}) = m + 1
        /\ at2 = [j \in 1 .. m + 1 |-> IF j = m + 1 THEN n + 1 ELSE at[j]]
    <3>1. n \in Nat /\ Runs \in SUBSET (1 .. n) /\ n + 1 \in Nat /\ n + 1 > n
      BY <1>7
    <3>2. /\ Cardinality(Runs \cup {n + 1}) = Cardinality(Runs) + 1
          /\ InOrder(Runs \cup {n + 1}) =
               [j \in 1 .. Cardinality(Runs) + 1 |->
                    IF j = Cardinality(Runs) + 1 THEN n + 1 ELSE InOrder(Runs)[j]]
      BY ONLY <3>1, InOrderLast
    <3>3. QED
      BY <3>2, Zenon
  <2>2. m \in Nat /\ Enumerates(at, m, Runs)
    BY <1>7, InOrderEnumerates
  <2>3. m = Len(ran) /\ \A j \in 1 .. m : /\ events[at[j]].tool = ran[j].tool
                                          /\ events[at[j]].call = ran[j].call
    BY <1>4 DEF RunsAreRan
  <2>4. /\ Len(ran') = m + 1 /\ ran'[m + 1].tool = tool /\ ran'[m + 1].call = tool_calls + 1
        /\ \A j \in 1 .. m : ran'[j] = ran[j]
    BY <1>8, <1>9, <2>3
  <2>5. /\ \A i \in 1 .. n : events'[i] = events[i]
        /\ events'[n + 1].tool = tool /\ events'[n + 1].call = tool_calls + 1
    BY <1>2 DEF Grown, IntentOf, n
  <2> HIDE DEF m, at, at2
  <2>6. \A j \in 1 .. m : at[j] \in 1 .. n
    BY <1>7, <2>2 DEF Enumerates
  <2>7. \A j \in 1 .. m + 1 : /\ events'[at2[j]].tool = ran'[j].tool
                              /\ events'[at2[j]].call = ran'[j].call
    <3>1. TAKE j \in 1 .. m + 1
    <3>2. CASE j = m + 1
      BY <2>1, <2>4, <2>5, <3>2
    <3>3. CASE j \in 1 .. m
      <4>1. at2[j] = at[j]
        BY <2>1, <2>2, <3>3
      <4>2. QED
        BY <2>3, <2>4, <2>5, <2>6, <3>3, <4>1
    <3>4. QED
      BY <2>2, <3>2, <3>3
  <2>8. QED
    BY <1>7, <2>1, <2>4, <2>7 DEF RunsAreRan, at2, m
<1>12. Budget'
  <2>1. Len(events') = n + 3 /\ governed' = governed
    BY <1>1, <1>2 DEF Grown, governed, n
  <2>2. emitted <= MaxSteps + 2 /\ emitted' <= MaxSteps + 2 /\ tool_calls' <= MaxToolCalls
    BY <1>1, <1>8, <1>9
  <2>3. CASE governed
    <3>1. emitted = n
      BY <1>4, <2>3 DEF Budget, n
    <3>2. emitted' = n + 3
      BY <1>7, <1>8, <2>3, <3>1
    <3>3. QED
      BY <2>1, <2>2, <2>3, <3>2 DEF Budget
  <2>4. CASE ~governed
    <3>1. emitted = Cardinality(NoDecisions)
      BY <1>4, <2>4 DEF Budget
    <3>2. Cardinality(NoDecisions \cup {n + 1}) = Cardinality(NoDecisions) + 1
      <4>1. n + 1 \in Nat /\ n + 1 > n
        BY <1>7
      <4>2. QED
        BY <1>7, <4>1, InOrderLast
    <3>3. NoDecisions \cup {n + 1} \in SUBSET (1 .. n + 1) /\ n + 1 \in Nat /\ n + 3 \in Nat
      BY <1>7
    <3>4. Cardinality((NoDecisions \cup {n + 1}) \cup {n + 3})
            = Cardinality(NoDecisions \cup {n + 1}) + 1
      <4>1. n + 3 > n + 1
        BY <1>7
      <4>2. QED
        BY <3>3, <4>1, InOrderLast
    <3>5. emitted' = Cardinality(NoDecisions')
      BY <1>7, <1>8, <1>9, <2>4, <3>1, <3>2, <3>4
    <3>6. QED
      BY <2>1, <2>2, <2>4, <3>5 DEF Budget
  <2>5. QED
    BY <2>3, <2>4
<1>13. Finished'
  BY <1>1, <1>4, <1>8 DEF Finished
<1>14. QED
  BY <1>5, <1>10, <1>11, <1>12, <1>13 DEF LoopInv

LEMMA LoopInvInit == Init => LoopInv
<1>1. SUFFICES ASSUME Init
               PROVE  LoopInv
  OBVIOUS
<1>2. /\ Len(events) = 0 /\ Len(values) = 0 /\ Len(ran) = 0 /\ events = <<>> /\ values = <<>>
      /\ ran = <<>> /\ tool_calls = 0 /\ emitted = 0 /\ model_calls = 0
      /\ trace = None /\ stop_reason = None /\ arm \in Arms /\ armed = FALSE
  BY <1>1 DEF Init
<1>3. TypeInv
  <2>1. events \in Seq(IntentEvent \cup DecisionEvent \cup ResultEvent)
    BY <1>2
  <2>2. values \in Seq(LedgerValue)
    BY <1>2
  <2>3. ran \in Seq([tool : DOMAIN Manifests, data : Data \cup {None}, call : Nat])
    BY <1>2
  <2>4. QED
    BY <1>2, <2>1, <2>2, <2>3 DEF TypeInv
<1>4. Placed /\ Ledgered /\ Unenforced
  BY <1>2 DEF Placed, Ledgered, Unenforced, OneCallOneId, Recorded
<1>5. Runs = {} /\ NoDecisions = {}
  BY <1>2 DEF Runs, NoDecisions
<1>6. RunsAreRan /\ Budget
  BY <1>2, <1>5, FS_EmptySet, LoopAssumption DEF RunsAreRan, Budget
<1>7. Finished
  BY <1>2 DEF Finished
<1>8. QED
  BY <1>3, <1>4, <1>6, <1>7 DEF LoopInv

LEMMA LoopInvNext == LoopInv /\ [Next]_vars => LoopInv'
<1>1. SUFFICES ASSUME LoopInv, [Next]_vars
               PROVE  LoopInv'
  OBVIOUS
<1>2. /\ model_calls \in Nat /\ model_calls + 1 \in Nat /\ tool_calls \in Nat
      /\ tool_calls <= MaxToolCalls /\ MaxToolCalls \in Nat
  BY <1>1, LoopAssumption DEF LoopInv, TypeInv, Budget
<1>3. CASE OutOfSteps
  BY <1>1, <1>2, <1>3, StopPreserves DEF OutOfSteps
<1>4. CASE Finish
  BY <1>1, <1>2, <1>4, StopPreserves DEF Finish, Asked
<1>5. CASE OutOfCalls
  BY <1>1, <1>2, <1>5, StopPreserves DEF OutOfCalls, Asked
<1>6. CASE \E p \in Proposals : Call(p[1], p[2])
  <2>1. PICK p \in Proposals : Call(p[1], p[2])
    BY <1>6
  <2>2. p[2] \in Data \cup {None}
    BY LoopAssumption
  <2>3. CASE Denied(p[1], p[2])
    BY <1>1, <2>1, <2>2, <2>3, DeniedPreserves
  <2>4. CASE RanNow(p[1], p[2])
    BY <1>1, <2>1, <2>2, <2>4, RanPreserves
  <2>5. CASE Failed
    <3>1. /\ stop_reason = None /\ model_calls' = model_calls + 1
          /\ tool_calls < MaxToolCalls /\ tool_calls' = tool_calls + 1
          /\ arm' = arm /\ trace' = trace
      BY <2>1, CallIs
    <3>2. NothingRecorded /\ stop_reason' = "raised"
      BY <2>5, <3>1 DEF Failed, NothingRecorded
    <3>3. tool_calls' \in Nat /\ tool_calls <= tool_calls' /\ tool_calls' <= MaxToolCalls
      BY <1>2, <3>1
    <3>4. QED
      BY <1>1, <1>2, <3>1, <3>2, <3>3, RaisePreserves
  <2>6. QED
    BY <2>1, <2>3, <2>4, <2>5, CallIs
<1>7. CASE \E p \in Proposals : UnknownTool(p[1])
  <2>1. PICK p \in Proposals : UnknownTool(p[1])
    BY <1>7
  <2>2. /\ stop_reason = None /\ model_calls' = model_calls + 1 /\ stop_reason' = "raised"
        /\ NothingRecorded /\ trace' = trace /\ tool_calls' = tool_calls
    BY <2>1 DEF UnknownTool, Asked, NothingRecorded
  <2>3. tool_calls' \in Nat /\ tool_calls <= tool_calls' /\ tool_calls' <= MaxToolCalls
    BY <1>2, <2>2
  <2>4. QED
    BY <1>1, <1>2, <2>2, <2>3, RaisePreserves
<1>8. CASE UNCHANGED vars
  BY <1>1, <1>8 DEF vars, LoopInv, TypeInv, Placed, Ledgered, RunsAreRan, Budget, Unenforced,
     Finished, Runs, NoDecisions, governed, Recorded, FinalizeTrace, OneCallOneId
<1>9. QED
  BY <1>1, <1>3, <1>4, <1>5, <1>6, <1>7, <1>8 DEF Next

(* A finished trace is what ran: the calls a reader counts are the calls    *)
(* the host made, in order, in every arm; the loop's own count is the size  *)
(* of the trace, within its budgets; and the validator of uploads takes it  *)
(* -- for any agent, tools, kernel input and budgets (loop.py 173-285).     *)
THEOREM TraceIsAlwaysWhatRan == Spec => []TraceIsWhatRan
<1>1. Init => LoopInv
  BY LoopInvInit
<1>2. LoopInv /\ [Next]_vars => LoopInv'
  BY LoopInvNext
<1>3. LoopInv => TraceIsWhatRan
  BY FinishedIsWhatRan
<1>4. QED
  BY <1>1, <1>2, <1>3, PTL DEF Spec

----------------------------------------------------------------------------
(* What the governor was told, and what it decided *)

(* the untrusted outputs registered by the results before position i, and   *)
(* whether one of them armed the floor                                      *)
TaintIn(es, i) ==
    {FixtureResult(es[r].tool) : r \in {r \in 1 .. i - 1 :
        IsResult(es[r]) /\ es[r].tool \in Untrusted}}
FloorIn(es, i) == \E r \in 1 .. i - 1 : IsResult(es[r]) /\ es[r].tool \in Sensitive

(* the content of what a call's argument is bound to *)
DataIn(vs, bound) == IF "to" \in DOMAIN bound THEN vs[bound["to"]].hash ELSE None

Session ==
    /\ registered = TaintIn(events, Len(events) + 1)
    /\ armed = FloorIn(events, Len(events) + 1)

(* a decision is on the intent before it, and what the kernel said of it    *)
Decided ==
    \A i \in 1 .. Len(events) : IsDecision(events[i]) =>
        /\ i # 1 /\ IsIntent(events[i - 1]) /\ events[i - 1].call = events[i].call
        /\ events[i].decision =
                GateWithGovernor("pinned", enforcement, TaintIn(events, i), FloorIn(events, i),
                    events[i - 1].tool, events[i - 1].bound, DataIn(values, events[i - 1].bound))

Makes(vs, e, id) ==
    /\ e.makes = {id}
    /\ vs[id].labels = ResultLabels(e.tool) /\ vs[id].hash = FixtureResult(e.tool)
Resulted ==
    \A i \in 1 .. Len(events) : IsResult(events[i]) =>
        \E id \in 1 .. Len(values) : Makes(values, events[i], id)

(* every value was bound by a call or made by one *)
Introduces(e, id) ==
    \/ IsIntent(e) /\ "to" \in DOMAIN e.bound /\ e.bound["to"] = id
    \/ IsResult(e) /\ e.makes = {id}
Introduced ==
    \A id \in 1 .. Len(values) : \E i \in 1 .. Len(events) : Introduces(events[i], id)

(* an argument is derived from what the results before it brought           *)
DerivedFrom(es, vs, i, r) ==
    /\ IsResult(es[r]) /\ es[r].tool \in Untrusted
    /\ IsIntent(es[i]) /\ "to" \in DOMAIN es[i].bound
    /\ vs[es[i].bound["to"]].hash = FixtureResult(es[r].tool)
    => es[r].makes \subseteq vs[es[i].bound["to"]].from
Derived ==
    \A i, r \in 1 .. Len(events) : r < i => DerivedFrom(events, values, i, r)

SessionInv == Session /\ Decided /\ Resulted /\ Introduced /\ Derived

(* Only the events before a position count, one after the other.            *)
LEMMA TaintSame ==
    ASSUME NEW as, NEW bs, NEW i \in Nat, \A r \in 1 .. i - 1 : as[r] = bs[r]
    PROVE  TaintIn(as, i) = TaintIn(bs, i) /\ (FloorIn(as, i) <=> FloorIn(bs, i))
BY DEF TaintIn, FloorIn

LEMMA TaintNext ==
    ASSUME NEW es, NEW i \in Nat, i # 0
    PROVE  /\ TaintIn(es, i + 1) = TaintIn(es, i) \cup
                (IF IsResult(es[i]) /\ es[i].tool \in Untrusted THEN {FixtureResult(es[i].tool)}
                 ELSE {})
           /\ FloorIn(es, i + 1) <=>
                FloorIn(es, i) \/ (IsResult(es[i]) /\ es[i].tool \in Sensitive)
<1>1. (i + 1) - 1 = i /\ 1 .. i = (1 .. i - 1) \cup {i}
  OBVIOUS
<1>2. QED
  BY <1>1 DEF TaintIn, FloorIn

(* what a decided call does to the ledger and to the governor's session *)
Kept(tool, data, k) ==
    /\ \A i \in 1 .. Len(values) : values'[i] = values[i]
    /\ Len(values') = Len(WithArgument(data)) + (IF k = 3 THEN 1 ELSE 0)
    /\ IF data = None THEN Len(WithArgument(data)) = Len(values)
       ELSE /\ Len(WithArgument(data)) = Len(values) + 1
            /\ values'[Len(values) + 1].hash = data
            /\ values'[Len(values) + 1].from = SourcesOf(data)
    /\ k = 3 => values'[Len(WithArgument(data)) + 1] = MadeBy(tool, data)
    /\ registered' = registered \cup
            (IF k = 3 /\ tool \in Untrusted THEN {FixtureResult(tool)} ELSE {})
    /\ armed' \in BOOLEAN /\ (armed' <=> armed \/ (k = 3 /\ tool \in Sensitive))

LEMMA DeniedKeeps ==
    ASSUME LoopInv, NEW data \in Data \cup {None}, NEW tool, Denied(tool, data)
    PROVE  Kept(tool, data, 2)
<1>1. values \in Seq(LedgerValue) /\ Len(values) \in Nat /\ armed \in BOOLEAN
  BY DEF LoopInv, TypeInv
<1>2. values' = WithArgument(data) /\ registered' = registered /\ armed' = armed
  BY DEF Denied
<1>3. CASE data = None
  BY <1>1, <1>2, <1>3 DEF WithArgument, Kept
<1>4. CASE data # None
  <2>1. WithArgument(data) = Append(values, ArgumentValue(data))
    BY <1>4 DEF WithArgument
  <2>2. ArgumentValue(data).hash = data /\ ArgumentValue(data).from = SourcesOf(data)
    BY DEF ArgumentValue, Value
  <2>3. /\ Len(WithArgument(data)) = Len(values) + 1
        /\ \A i \in 1 .. Len(values) : WithArgument(data)[i] = values[i]
        /\ WithArgument(data)[Len(values) + 1] = ArgumentValue(data)
    BY <1>1, <2>1
  <2>4. QED
    BY <1>1, <1>2, <1>4, <2>2, <2>3 DEF Kept
<1>5. QED
  BY <1>3, <1>4

LEMMA RanKeeps ==
    ASSUME LoopInv, NEW data \in Data \cup {None}, NEW tool \in DOMAIN Manifests,
           RanNow(tool, data)
    PROVE  Kept(tool, data, 3)
<1>1. values \in Seq(LedgerValue) /\ Len(values) \in Nat
  BY DEF LoopInv, TypeInv
<1>2. /\ values' = Append(WithArgument(data), MadeBy(tool, data))
      /\ registered' = registered \cup (IF tool \in Untrusted THEN {FixtureResult(tool)} ELSE {})
      /\ armed' = (armed \/ tool \in Sensitive)
  BY DEF RanNow
<1>3. WithArgument(data) \in Seq(LedgerValue) /\ Len(WithArgument(data)) \in Nat
  BY ArgumentIsKept DEF LedgerOf
<1>4. /\ \A i \in 1 .. Len(WithArgument(data)) : values'[i] = WithArgument(data)[i]
      /\ values'[Len(WithArgument(data)) + 1] = MadeBy(tool, data)
      /\ Len(values') = Len(WithArgument(data)) + 1
  BY <1>2, <1>3
<1>5. armed' \in BOOLEAN /\ (armed' <=> armed \/ (3 = 3 /\ tool \in Sensitive))
  BY <1>2, Zenon
<1>6. registered' = registered \cup
            (IF 3 = 3 /\ tool \in Untrusted THEN {FixtureResult(tool)} ELSE {})
  BY <1>2
<1>7. CASE data = None
  <2>1. WithArgument(data) = values
    BY <1>7 DEF WithArgument
  <2>2. QED
    BY <1>1, <1>4, <1>5, <1>6, <1>7, <2>1 DEF Kept
<1>8. CASE data # None
  <2>1. WithArgument(data) = Append(values, ArgumentValue(data))
    BY <1>8 DEF WithArgument
  <2>2. ArgumentValue(data).hash = data /\ ArgumentValue(data).from = SourcesOf(data)
    BY DEF ArgumentValue, Value
  <2>3. /\ Len(WithArgument(data)) = Len(values) + 1
        /\ \A i \in 1 .. Len(values) : WithArgument(data)[i] = values[i]
        /\ WithArgument(data)[Len(values) + 1] = ArgumentValue(data)
    BY <1>1, <2>1
  <2>4. /\ \A i \in 1 .. Len(values) : values'[i] = values[i]
        /\ values'[Len(values) + 1].hash = data
        /\ values'[Len(values) + 1].from = SourcesOf(data)
    BY <1>1, <1>4, <2>2, <2>3
  <2>5. QED
    BY <1>4, <1>5, <1>6, <1>8, <2>3, <2>4 DEF Kept
<1>9. QED
  BY <1>7, <1>8

LEMMA SameTruth ==
    ASSUME NEW a \in BOOLEAN, NEW b \in BOOLEAN, a <=> b
    PROVE  a = b
OBVIOUS

(* A decided call is decided by what the results before it registered.      *)
LEMMA GrowthSession ==
    ASSUME LoopInv, SessionInv, NEW data \in Data \cup {None}, NEW tool \in DOMAIN Manifests,
           NEW k \in {2, 3}, Grown(tool, data, k), Kept(tool, data, k)
    PROVE  SessionInv'
<1> DEFINE n == Len(events)
           m == Len(values)
           w == Len(WithArgument(data))
<1>1. /\ n \in Nat /\ m \in Nat /\ w \in Nat /\ m <= w
      /\ Len(events') = n + k /\ arm' = arm /\ armed \in BOOLEAN
  <2>1. n \in Nat /\ m \in Nat /\ armed \in BOOLEAN
    BY DEF LoopInv, TypeInv
  <2>2. w \in Nat /\ m <= w
    BY ArgumentIsKept
  <2>3. Len(events') = n + k /\ arm' = arm
    BY DEF Grown
  <2>4. QED
    BY <2>1, <2>2, <2>3
<1>2. \A i \in 1 .. n + k : \/ i \in 1 .. n \/ i = n + 1 \/ i = n + 2 \/ (i = n + 3 /\ k = 3)
  BY <1>1
<1>3. /\ events'[n + 1] = IntentOf(tool, data) /\ events'[n + 2] = DecidedOn(tool, data)
      /\ k = 3 => events'[n + 3] = ResultOf(tool, data)
      /\ \A i \in 1 .. n : events'[i] = events[i]
  BY DEF Grown
<1>4. /\ \A i \in 1 .. m : values'[i] = values[i]
      /\ Len(values') = w + (IF k = 3 THEN 1 ELSE 0)
      /\ IF data = None THEN w = m
         ELSE /\ w = m + 1 /\ values'[m + 1].hash = data
              /\ values'[m + 1].from = SourcesOf(data)
      /\ k = 3 => values'[w + 1] = MadeBy(tool, data)
      /\ registered' = registered \cup
              (IF k = 3 /\ tool \in Untrusted THEN {FixtureResult(tool)} ELSE {})
      /\ armed' \in BOOLEAN /\ (armed' <=> armed \/ (k = 3 /\ tool \in Sensitive))
  BY DEF Kept
<1>5. /\ IsIntent(events'[n + 1]) /\ ~IsResult(events'[n + 1]) /\ ~IsDecision(events'[n + 1])
      /\ events'[n + 1].call = tool_calls + 1 /\ events'[n + 1].tool = tool
      /\ events'[n + 1].bound = BoundTo(data)
  BY <1>3 DEF IntentOf, IsIntent, IsDecision, IsResult
<1>6. /\ IsDecision(events'[n + 2]) /\ ~IsResult(events'[n + 2]) /\ ~IsIntent(events'[n + 2])
      /\ events'[n + 2].call = tool_calls + 1 /\ events'[n + 2].decision = DecisionOn(tool, data)
  BY <1>3 DEF DecidedOn, IsIntent, IsDecision, IsResult
<1>7. k = 3 => /\ IsResult(events'[n + 3]) /\ ~IsDecision(events'[n + 3])
               /\ events'[n + 3].tool = tool /\ events'[n + 3].makes = {w + 1}
  BY <1>3, MadeIsKept DEF ResultOf, IsDecision, IsResult
<1>8. registered = TaintIn(events, n + 1) /\ armed = FloorIn(events, n + 1)
  BY DEF SessionInv, Session
<1>9. BoundTo(data) = IF data = None THEN <<>> ELSE [arg \in {"to"} |-> m + 1]
  BY DEF BoundTo
<1>10. Len(values') \in Nat /\ m <= Len(values') /\ w <= Len(values')
  <2> HIDE DEF m, w
  <2>1. QED
    BY <1>1, <1>4
<1> HIDE DEF n, m, w
<1>11. \A i \in 1 .. n + 1 : /\ TaintIn(events', i) = TaintIn(events, i)
                             /\ FloorIn(events', i) = FloorIn(events, i)
  <2>1. TAKE i \in 1 .. n + 1
  <2>2. i \in Nat /\ \A r \in 1 .. i - 1 : events'[r] = events[r]
    BY <1>1, <1>3
  <2>3. TaintIn(events', i) = TaintIn(events, i) /\ (FloorIn(events', i) <=> FloorIn(events, i))
    BY <2>2, TaintSame
  <2>4. FloorIn(events', i) \in BOOLEAN /\ FloorIn(events, i) \in BOOLEAN
    BY DEF FloorIn
  <2>5. QED
    BY <2>3, <2>4, Zenon
<1>12. /\ TaintIn(events', n + 2) = registered /\ FloorIn(events', n + 2) = armed
       /\ TaintIn(events', n + 3) = registered /\ (FloorIn(events', n + 3) <=> armed)
  <2>1. /\ n + 1 \in Nat /\ n + 1 # 0 /\ (n + 1) + 1 = n + 2 /\ n + 1 \in 1 .. n + 1
        /\ n + 2 \in Nat /\ n + 2 # 0 /\ (n + 2) + 1 = n + 3
    BY <1>1
  <2>2. TaintIn(events', n + 1) = registered /\ FloorIn(events', n + 1) = armed
    BY <1>8, <1>11, <2>1
  <2>3. /\ TaintIn(events', n + 2) = registered
        /\ FloorIn(events', n + 2) <=> FloorIn(events', n + 1)
    BY <1>5, <2>1, <2>2, TaintNext
  <2>4. /\ TaintIn(events', n + 3) = registered
        /\ FloorIn(events', n + 3) <=> FloorIn(events', n + 2)
    BY <1>6, <2>1, <2>3, TaintNext
  <2>5. /\ FloorIn(events', n + 1) \in BOOLEAN /\ FloorIn(events', n + 2) \in BOOLEAN
        /\ FloorIn(events', n + 3) \in BOOLEAN
    BY DEF FloorIn
  <2>6. FloorIn(events', n + 2) = armed
    <3>1. FloorIn(events', n + 2) = FloorIn(events', n + 1)
      BY <2>3, <2>5, SameTruth
    <3>2. QED
      BY <2>2, <3>1
  <2>7. FloorIn(events', n + 3) <=> armed
    BY <2>4, <2>6, Zenon
  <2>8. QED
    BY <2>3, <2>4, <2>6, <2>7, Zenon
<1>13. Session'
  <2>1. registered' = TaintIn(events', Len(events') + 1)
    <3>1. CASE k = 2
      <4>1. Len(events') + 1 = n + 3
        BY <1>1, <3>1
      <4>2. QED
        BY <1>4, <1>12, <3>1, <4>1
    <3>2. CASE k = 3
      <4>1. Len(events') + 1 = (n + 3) + 1 /\ n + 3 \in Nat /\ n + 3 # 0
        BY <1>1, <3>2
      <4>2. TaintIn(events', (n + 3) + 1) = TaintIn(events', n + 3) \cup
                (IF IsResult(events'[n + 3]) /\ events'[n + 3].tool \in Untrusted
                 THEN {FixtureResult(events'[n + 3].tool)} ELSE {})
        BY <4>1, TaintNext
      <4>3. QED
        BY <1>4, <1>7, <1>12, <3>2, <4>1, <4>2
    <3>3. QED
      BY <3>1, <3>2
  <2>2. armed' <=> FloorIn(events', Len(events') + 1)
    <3>1. CASE k = 2
      <4>1. Len(events') + 1 = n + 3
        BY <1>1, <3>1
      <4>2. armed' <=> armed
        BY <1>4, <3>1
      <4>3. QED
        BY <1>12, <4>1, <4>2, Zenon
    <3>2. CASE k = 3
      <4>1. Len(events') + 1 = (n + 3) + 1 /\ n + 3 \in Nat /\ n + 3 # 0
        BY <1>1, <3>2
      <4>2. FloorIn(events', (n + 3) + 1) <=> FloorIn(events', n + 3) \/ tool \in Sensitive
        BY <1>7, <3>2, <4>1, TaintNext
      <4>3. armed' <=> armed \/ tool \in Sensitive
        BY <1>4, <3>2
      <4>4. QED
        BY <1>12, <4>1, <4>2, <4>3, Zenon
    <3>3. QED
      BY <3>1, <3>2
  <2>3. armed' \in BOOLEAN /\ FloorIn(events', Len(events') + 1) \in BOOLEAN
    BY <1>4 DEF FloorIn
  <2>4. armed' = FloorIn(events', Len(events') + 1)
    BY <2>2, <2>3, SameTruth
  <2>5. QED
    BY <2>1, <2>4 DEF Session
<1>14. Decided'
  <2>1. enforcement' = enforcement
    BY <1>1 DEF enforcement
  <2>2. ASSUME NEW i \in 1 .. n, IsDecision(events'[i])
        PROVE  /\ i # 1 /\ IsIntent(events'[i - 1]) /\ events'[i - 1].call = events'[i].call
               /\ events'[i].decision =
                    GateWithGovernor("pinned", enforcement, TaintIn(events', i), FloorIn(events', i),
                        events'[i - 1].tool, events'[i - 1].bound,
                        DataIn(values', events'[i - 1].bound))
    <3>1. events'[i] = events[i] /\ i \in 1 .. n + 1
      BY <1>1, <1>3
    <3>2. /\ i # 1 /\ IsIntent(events[i - 1]) /\ events[i - 1].call = events[i].call
          /\ events[i].decision =
                GateWithGovernor("pinned", enforcement, TaintIn(events, i), FloorIn(events, i),
                    events[i - 1].tool, events[i - 1].bound, DataIn(values, events[i - 1].bound))
      BY <2>2, <3>1 DEF SessionInv, Decided, n
    <3>3. i - 1 \in 1 .. n
      BY <1>1, <3>2
    <3>4. events'[i - 1] = events[i - 1]
      BY <1>3, <3>3
    <3>5. \A arg \in DOMAIN events[i - 1].bound : events[i - 1].bound[arg] \in 1 .. m
      BY <3>2, <3>3 DEF LoopInv, Ledgered, n, m
    <3>6. DataIn(values', events[i - 1].bound) = DataIn(values, events[i - 1].bound)
      BY <1>4, <3>5 DEF DataIn
    <3>7. TaintIn(events', i) = TaintIn(events, i) /\ FloorIn(events', i) = FloorIn(events, i)
      BY <1>11, <3>1
    <3>8. QED
      BY <3>1, <3>2, <3>4, <3>6, <3>7
  <2>3. /\ n + 2 # 1 /\ IsIntent(events'[(n + 2) - 1])
        /\ events'[(n + 2) - 1].call = events'[n + 2].call
        /\ events'[n + 2].decision =
              GateWithGovernor("pinned", enforcement, TaintIn(events', n + 2),
                  FloorIn(events', n + 2), events'[(n + 2) - 1].tool,
                  events'[(n + 2) - 1].bound, DataIn(values', events'[(n + 2) - 1].bound))
    <3>1. (n + 2) - 1 = n + 1 /\ n + 2 # 1
      BY <1>1
    <3>2. DataIn(values', BoundTo(data)) = data
      <4>1. CASE data = None
        BY <1>9, <4>1 DEF DataIn
      <4>2. CASE data # None
        BY <1>4, <1>9, <4>2 DEF DataIn
      <4>3. QED
        BY <4>1, <4>2
    <3>3. DecisionOn(tool, data) =
            GateWithGovernor("pinned", enforcement, registered, armed, tool, BoundTo(data), data)
      BY DEF DecisionOn
    <3>4. QED
      BY <1>5, <1>6, <1>12, <3>1, <3>2, <3>3
  <2>4. ASSUME NEW i \in 1 .. n + k, IsDecision(events'[i])
        PROVE  i \in 1 .. n \/ i = n + 2
    BY <1>2, <1>5, <1>7, <2>4
  <2>5. QED
    BY <1>1, <2>1, <2>2, <2>3, <2>4 DEF Decided
<1>15. Resulted'
  <2>1. SUFFICES ASSUME NEW i \in 1 .. n + k, IsResult(events'[i])
                 PROVE  \E id \in 1 .. Len(values') : Makes(values', events'[i], id)
    BY <1>1 DEF Resulted
  <2>2. CASE i \in 1 .. n
    <3>1. PICK id \in 1 .. m : Makes(values, events[i], id)
      BY <1>3, <2>1, <2>2 DEF SessionInv, Resulted, n, m
    <3>2. id \in 1 .. Len(values') /\ values'[id] = values[id]
      BY <1>1, <1>4, <1>10
    <3>3. QED
      BY <1>3, <2>2, <3>1, <3>2 DEF Makes
  <2>3. CASE i = n + 3 /\ k = 3
    <3>1. w + 1 \in 1 .. Len(values')
      BY <1>1, <1>4, <2>3
    <3>2. /\ MadeBy(tool, data).labels = ResultLabels(tool)
          /\ MadeBy(tool, data).hash = FixtureResult(tool)
      BY DEF MadeBy, Value
    <3>3. Makes(values', events'[i], w + 1)
      BY <1>4, <1>7, <2>3, <3>2 DEF Makes
    <3>4. QED
      BY <3>1, <3>3
  <2>4. QED
    BY <1>2, <1>5, <1>6, <2>1, <2>2, <2>3
<1>16. Introduced'
  <2>1. SUFFICES ASSUME NEW id \in 1 .. Len(values')
                 PROVE  \E i \in 1 .. n + k : Introduces(events'[i], id)
    BY <1>1 DEF Introduced
  <2>2. CASE id \in 1 .. m
    <3>1. PICK i \in 1 .. n : Introduces(events[i], id)
      BY <2>2 DEF SessionInv, Introduced, n, m
    <3>2. i \in 1 .. n + k /\ events'[i] = events[i]
      BY <1>1, <1>3
    <3>3. QED
      BY <3>1, <3>2
  <2>3. CASE id = m + 1 /\ data # None
    <3>1. Introduces(events'[n + 1], id)
      BY <1>5, <1>9, <2>3 DEF Introduces
    <3>2. n + 1 \in 1 .. n + k
      BY <1>1
    <3>3. QED
      BY <3>1, <3>2
  <2>4. CASE id = w + 1 /\ k = 3
    <3>1. Introduces(events'[n + 3], id)
      BY <1>7, <2>4 DEF Introduces
    <3>2. n + 3 \in 1 .. n + k
      BY <1>1, <2>4
    <3>3. QED
      BY <3>1, <3>2
  <2>5. id \in 1 .. m \/ (id = m + 1 /\ data # None) \/ (id = w + 1 /\ k = 3)
    <3>1. (data = None => w = m) /\ (data # None => w = m + 1)
      BY <1>4
    <3>2. (k = 3 => Len(values') = w + 1) /\ (k # 3 => Len(values') = w)
      BY <1>1, <1>4
    <3>3. QED
      BY <1>1, <1>10, <2>1, <3>1, <3>2
  <2>6. QED
    BY <2>2, <2>3, <2>4, <2>5
<1>17. Derived'
  <2>1. SUFFICES ASSUME NEW i \in 1 .. n + k, NEW r \in 1 .. n + k, r < i,
                        IsResult(events'[r]), events'[r].tool \in Untrusted,
                        IsIntent(events'[i]), "to" \in DOMAIN events'[i].bound,
                        values'[events'[i].bound["to"]].hash = FixtureResult(events'[r].tool)
                 PROVE  events'[r].makes \subseteq values'[events'[i].bound["to"]].from
    BY <1>1 DEF Derived, DerivedFrom
  <2>2. i \in 1 .. n \/ i = n + 1
    BY <1>2, <1>6, <1>7, <2>1 DEF IsIntent, IsResult
  <2>3. r \in 1 .. n
    BY <1>1, <2>1, <2>2
  <2>4. PICK id \in 1 .. m : Makes(values, events[r], id)
    BY <1>3, <2>1, <2>3 DEF SessionInv, Resulted, n, m
  <2>5. events'[r] = events[r]
    BY <1>3, <2>3
  <2>6. CASE i \in 1 .. n
    <3>1. events'[i] = events[i]
      BY <1>3, <2>6
    <3>2. events[i].bound["to"] \in 1 .. m
      BY <2>1, <2>6, <3>1 DEF LoopInv, Ledgered, n, m
    <3>3. values'[events[i].bound["to"]] = values[events[i].bound["to"]]
      BY <1>4, <3>2
    <3>4. DerivedFrom(events, values, i, r)
      BY <2>1, <2>3, <2>6 DEF SessionInv, Derived, n
    <3>5. QED
      BY <2>1, <2>5, <3>1, <3>3, <3>4 DEF DerivedFrom
  <2>7. CASE i = n + 1
    <3>1. /\ data # None /\ events'[i].bound["to"] = m + 1
          /\ values'[m + 1].hash = data /\ values'[m + 1].from = SourcesOf(data)
      BY <1>4, <1>5, <1>9, <2>1, <2>7
    <3>2. values[id].hash = data /\ "untrusted" \in values[id].labels
      BY <2>1, <2>4, <2>5, <3>1 DEF Makes, ResultLabels
    <3>3. id \in SourcesOf(data)
      BY <3>2 DEF SourcesOf, m
    <3>4. QED
      BY <2>4, <2>5, <3>1, <3>3 DEF Makes
  <2>8. QED
    BY <2>2, <2>6, <2>7
<1>18. QED
  BY <1>13, <1>14, <1>15, <1>16, <1>17 DEF SessionInv

LEMMA SessionInit == Init => SessionInv
<1>1. SUFFICES ASSUME Init
               PROVE  SessionInv
  OBVIOUS
<1>2. /\ Len(events) = 0 /\ Len(values) = 0 /\ registered = {} /\ armed = FALSE
  BY <1>1 DEF Init
<1>3. 1 .. Len(events) = {} /\ 1 .. Len(values) = {} /\ 1 .. (Len(events) + 1) - 1 = {}
  BY <1>2
<1>4. TaintIn(events, Len(events) + 1) = {} /\ ~FloorIn(events, Len(events) + 1)
  BY <1>3 DEF TaintIn, FloorIn
<1>5. Session
  <2>1. FloorIn(events, Len(events) + 1) \in BOOLEAN /\ armed \in BOOLEAN
    BY <1>2 DEF FloorIn
  <2>2. armed <=> FloorIn(events, Len(events) + 1)
    BY <1>2, <1>4, Zenon
  <2>3. armed = FloorIn(events, Len(events) + 1)
    BY <2>1, <2>2, SameTruth
  <2>4. QED
    BY <1>2, <1>4, <2>3 DEF Session
<1>6. QED
  BY <1>3, <1>5 DEF SessionInv, Decided, Resulted, Introduced, Derived

LEMMA SessionNext == LoopInv /\ SessionInv /\ [Next]_vars => SessionInv'
<1>1. SUFFICES ASSUME LoopInv, SessionInv, [Next]_vars
               PROVE  SessionInv'
  OBVIOUS
<1>2. CASE UNCHANGED <<arm, events, values, registered, armed>>
  BY <1>1, <1>2 DEF SessionInv, Session, Decided, Resulted, Introduced, Derived, enforcement
<1>3. CASE \E p \in Proposals : Call(p[1], p[2])
  <2>1. PICK p \in Proposals : Call(p[1], p[2])
    BY <1>3
  <2>2. p[2] \in Data \cup {None}
    BY LoopAssumption
  <2>3. /\ p[1] \in DOMAIN Manifests /\ arm' = arm
        /\ Denied(p[1], p[2]) \/ RanNow(p[1], p[2]) \/ Failed
    BY <2>1, CallIs
  <2>4. CASE Denied(p[1], p[2])
    <3>1. Grown(p[1], p[2], 2) /\ Kept(p[1], p[2], 2) /\ 2 \in {2, 3}
      BY <1>1, <2>1, <2>2, <2>4, DeniedGrows, DeniedKeeps
    <3>2. QED
      BY <1>1, <2>2, <2>3, <3>1, GrowthSession
  <2>5. CASE RanNow(p[1], p[2])
    <3>1. Grown(p[1], p[2], 3) /\ Kept(p[1], p[2], 3) /\ 3 \in {2, 3}
      BY <1>1, <2>1, <2>2, <2>3, <2>5, RanGrows, RanKeeps
    <3>2. QED
      BY <1>1, <2>2, <2>3, <3>1, GrowthSession
  <2>6. CASE Failed
    BY <1>2, <2>3, <2>6 DEF Failed
  <2>7. QED
    BY <2>3, <2>4, <2>5, <2>6
<1>4. CASE OutOfSteps \/ Finish \/ OutOfCalls \/ (\E p \in Proposals : UnknownTool(p[1]))
           \/ UNCHANGED vars
  BY <1>2, <1>4 DEF OutOfSteps, Finish, OutOfCalls, UnknownTool, Stop, vars
<1>5. QED
  BY <1>1, <1>3, <1>4 DEF Next

----------------------------------------------------------------------------
(* Replay, event by event *)

(* Replay is a pass over the events: what it has read of the first k is     *)
(* what ReadEvent makes of what it had read before.                         *)
LEMMA ReplayIsAPass ==
    ASSUME NEW t, Len(t.events) \in Nat, NEW kern, NEW enf
    PROVE  \E f : /\ f[0] = Start
                  /\ \A k \in 1 .. Len(t.events) : f[k] = ReadEvent(t, k, kern, enf, f[k - 1])
                  /\ ReplayState(t, kern, enf) = f[Len(t.events)]
<1> DEFINE Pass(f, m) == f = [n \in 0 .. m |-> IF n = 0 THEN Start
                                               ELSE ReadEvent(t, n, kern, enf, f[n - 1])]
           Passed == {m \in Nat : \E f : Pass(f, m)}
           N == Len(t.events)
<1>1. 0 \in Passed
  <2>1. Pass([n \in 0 .. 0 |-> Start], 0)
    OBVIOUS
  <2>2. QED
    BY <2>1
<1>2. \A m \in Passed : m + 1 \in Passed
  <2>1. SUFFICES ASSUME NEW m \in Nat, NEW f, Pass(f, m)
                 PROVE  \E g : Pass(g, m + 1)
    OBVIOUS
  <2> DEFINE g == [n \in 0 .. m + 1 |-> IF n = m + 1 THEN ReadEvent(t, n, kern, enf, f[m])
                                        ELSE f[n]]
  <2>2. \A n \in 0 .. m : g[n] = f[n]
    OBVIOUS
  <2>3. \A n \in 0 .. m : f[n] = IF n = 0 THEN Start ELSE ReadEvent(t, n, kern, enf, f[n - 1])
    BY <2>1
  <2>4. \A n \in 0 .. m + 1 :
            g[n] = IF n = 0 THEN Start ELSE ReadEvent(t, n, kern, enf, g[n - 1])
    <3>1. TAKE n \in 0 .. m + 1
    <3>2. CASE n = m + 1
      <4>1. n # 0 /\ n - 1 = m /\ m \in 0 .. m
        BY <3>2
      <4>2. g[n] = ReadEvent(t, n, kern, enf, f[m])
        BY <3>2
      <4>3. QED
        BY <2>2, <4>1, <4>2
    <3>3. CASE n \in 0 .. m
      <4>1. n # 0 => n - 1 \in 0 .. m
        BY <3>3
      <4>2. QED
        BY <2>2, <2>3, <3>3, <4>1
    <3>4. QED
      BY <3>2, <3>3
  <2>5. DOMAIN g = 0 .. m + 1 /\ g = [n \in 0 .. m + 1 |-> g[n]]
    OBVIOUS
  <2> HIDE DEF g
  <2>6. Pass(g, m + 1)
    BY <2>4, <2>5
  <2>7. QED
    BY <2>6
<1>3. Passed \in SUBSET Nat
  OBVIOUS
<1> HIDE DEF Passed
<1>4. Passed = Nat
  BY <1>1, <1>2, <1>3, Counting
<1>5. \E f : Pass(f, N)
  BY <1>4 DEF Passed
<1>6. Pass(CHOOSE f : Pass(f, N), N)
  BY <1>5
<1> DEFINE after == CHOOSE f : Pass(f, N)
<1>7. ReplayState(t, kern, enf) = after[N]
  BY DEF ReplayState
<1>8. \A n \in 0 .. N : after[n] = IF n = 0 THEN Start
                                   ELSE ReadEvent(t, n, kern, enf, after[n - 1])
  <2> HIDE DEF after
  <2>1. after = [n \in 0 .. N |-> IF n = 0 THEN Start
                                  ELSE ReadEvent(t, n, kern, enf, after[n - 1])]
    BY <1>6 DEF after
  <2>2. QED
    BY <2>1
<1> HIDE DEF after
<1>9. QED
  <2>1. after[0] = Start
    BY <1>8
  <2>2. \A k \in 1 .. N : after[k] = ReadEvent(t, k, kern, enf, after[k - 1])
    BY <1>8
  <2>3. QED
    BY <1>7, <2>1, <2>2

(* an event that turned on a value which was redacted *)
LostAt(i) ==
    \/ /\ IsResult(events[i])
       /\ \E id \in events[i].makes :
            "untrusted" \in values[id].labels /\ values[id].data = None
    \/ /\ IsDecision(events[i])
       /\ \E arg \in DOMAIN events[i - 1].bound : values[events[i - 1].bound[arg]].data = None

ReplayFields(st) ==
    /\ DOMAIN st = {"pending", "decided", "registered", "armed", "recomputed", "matched",
                    "malformed", "redacted"}
    /\ st.redacted \in BOOLEAN /\ st.armed \in BOOLEAN /\ st.matched \in BOOLEAN

(* what replay under a kernel has of the first k events *)
ReplayedTo(st, kern, k) ==
    /\ ReplayFields(st)
    /\ st.pending = IF k # 0 /\ IsIntent(events[k]) THEN {k} ELSE {}
    /\ \A call : call \in st.decided <=>
            \E j \in 1 .. k : IsDecision(events[j]) /\ events[j].call = call
    /\ st.malformed = FALSE
    /\ st.redacted <=> \E j \in 1 .. k : LostAt(j)
    /\ kern = "pinned" /\ ~st.redacted =>
            /\ st.registered = TaintIn(events, k + 1)
            /\ st.armed = FloorIn(events, k + 1)
            /\ st.matched = TRUE
    /\ (\A j \in 1 .. k : ~IsDecision(events[j])) => st.recomputed = <<>>

(* the ledger's entry under an id *)
LEMMA ValueIs ==
    ASSUME LoopInv, NEW id \in 1 .. Len(values)
    PROVE  ValueOf(Recorded, id) = values[id] /\ values[id] # None
<1>1. values[id] \in LedgerValue
  BY DEF LoopInv, TypeInv
<1>2. values[id] # None
  BY <1>1, AbsentIsNotInLedger
<1>3. \A i \in 1 .. Len(values) : values[i].id = id <=> i = id
  BY DEF LoopInv, Ledgered
<1>4. {i \in 1 .. Len(values) : values[i].id = id} = {id}
  BY <1>3
<1>5. (CHOOSE i \in {id} : \A j \in {id} : j <= i) = id
  OBVIOUS
<1>6. Recorded.values = values
  BY DEF Recorded
<1>7. QED
  BY <1>2, <1>4, <1>5, <1>6 DEF ValueOf

(* what comes before and after the events of a call *)
LEMMA EventsFollow ==
    ASSUME LoopInv, SessionInv, NEW k \in 1 .. Len(events)
    PROVE  /\ IsIntent(events[k]) => IsDecision(events[k + 1]) /\ k + 1 \in 1 .. Len(events)
           /\ IsDecision(events[k]) => k - 1 \in 1 .. Len(events) /\ IsIntent(events[k - 1])
           /\ ~IsDecision(events[k]) => k = 1 \/ ~IsIntent(events[k - 1])
           /\ IsResult(events[k]) => ~IsIntent(events[k]) /\ ~IsDecision(events[k])
           /\ IsIntent(events[k]) => ~IsResult(events[k]) /\ ~IsDecision(events[k])
           /\ IsDecision(events[k]) => ~IsResult(events[k]) /\ ~IsIntent(events[k])
           /\ IsIntent(events[k]) \/ IsDecision(events[k]) \/ IsResult(events[k])
<1>1. TypeInv /\ Placed /\ Decided /\ Len(events) \in Nat
  BY DEF LoopInv, SessionInv, TypeInv
<1>2. /\ IsResult(events[k]) => ~IsIntent(events[k]) /\ ~IsDecision(events[k])
      /\ IsIntent(events[k]) => ~IsResult(events[k]) /\ ~IsDecision(events[k])
      /\ IsDecision(events[k]) => ~IsResult(events[k]) /\ ~IsIntent(events[k])
  BY DEF IsResult, IsIntent, IsDecision
<1>3. IsIntent(events[k]) \/ IsDecision(events[k]) \/ IsResult(events[k])
  BY <1>1, EventsAre
<1>4. IsIntent(events[k]) => IsDecision(events[k + 1]) /\ k + 1 \in 1 .. Len(events)
  BY <1>1 DEF Placed
<1>5. IsDecision(events[k]) => k - 1 \in 1 .. Len(events) /\ IsIntent(events[k - 1])
  BY <1>1 DEF Decided
<1>6. ASSUME ~IsDecision(events[k]), k # 1
      PROVE  ~IsIntent(events[k - 1])
  <2>1. k - 1 \in 1 .. Len(events) /\ (k - 1) + 1 = k
    BY <1>1, <1>6
  <2>2. IsIntent(events[k - 1]) => IsDecision(events[(k - 1) + 1])
    BY <1>1, <2>1 DEF Placed
  <2>3. QED
    BY <1>6, <2>1, <2>2
<1>7. QED
  BY <1>2, <1>3, <1>4, <1>5, <1>6

(* A call that is asked for waits for its decision.                         *)
LEMMA IntentIsRead ==
    ASSUME LoopInv, SessionInv, NEW kern, NEW k \in 1 .. Len(events), IsIntent(events[k]),
           NEW st, ReplayedTo(st, kern, k - 1)
    PROVE  ReplayedTo(ReadEvent(Recorded, k, kern, enforcement, st), kern, k)
<1> DEFINE new == ReadEvent(Recorded, k, kern, enforcement, st)
<1>1. /\ ~IsResult(events[k]) /\ ~IsDecision(events[k])
      /\ k = 1 \/ ~IsIntent(events[k - 1])
  BY EventsFollow
<1>2. Recorded.events = events /\ k \in Nat /\ k # 0
  BY DEF Recorded
<1>3. new = [st EXCEPT !.pending = @ \cup {k}]
  BY <1>1, <1>2 DEF ReadEvent
<1>4. ReplayFields(st) /\ st.pending = {}
  BY <1>1 DEF ReplayedTo
<1> HIDE DEF new
<1>5. /\ ReplayFields(new) /\ new.pending = {k}
      /\ new.decided = st.decided /\ new.malformed = st.malformed
      /\ new.redacted = st.redacted /\ new.registered = st.registered
      /\ new.armed = st.armed /\ new.matched = st.matched /\ new.recomputed = st.recomputed
  BY <1>3, <1>4 DEF ReplayFields
<1>6. 1 .. k = (1 .. k - 1) \cup {k} /\ ~LostAt(k)
  BY <1>1, <1>2 DEF LostAt
<1>7. /\ TaintIn(events, k + 1) = TaintIn(events, k)
      /\ FloorIn(events, k + 1) = FloorIn(events, k)
  <2>1. /\ TaintIn(events, k + 1) = TaintIn(events, k)
        /\ FloorIn(events, k + 1) <=> FloorIn(events, k)
    BY <1>1, <1>2, TaintNext
  <2>2. FloorIn(events, k + 1) \in BOOLEAN /\ FloorIn(events, k) \in BOOLEAN
    BY DEF FloorIn
  <2>3. QED
    BY <2>1, <2>2, SameTruth
<1>8. (k - 1) + 1 = k
  BY <1>2
<1>9. QED
  BY <1>1, <1>2, <1>5, <1>6, <1>7, <1>8 DEF ReplayedTo, new

(* A result registers what it brought, or is noticed to have lost it.       *)
LEMMA ResultIsRead ==
    ASSUME LoopInv, SessionInv, Sensitive \subseteq Untrusted,
           NEW kern, NEW k \in 1 .. Len(events), IsResult(events[k]),
           NEW st, ReplayedTo(st, kern, k - 1)
    PROVE  ReplayedTo(ReadEvent(Recorded, k, kern, enforcement, st), kern, k)
<1> DEFINE new == ReadEvent(Recorded, k, kern, enforcement, st)
           tool == events[k].tool
           tainted == {id \in events[k].makes : ValueOf(Recorded, id) # None
                          /\ "untrusted" \in ValueOf(Recorded, id).labels}
           kept == {id \in tainted : ValueOf(Recorded, id).data # None}
<1>1. /\ ~IsIntent(events[k]) /\ ~IsDecision(events[k])
      /\ k = 1 \/ ~IsIntent(events[k - 1])
  BY EventsFollow
<1>2. Recorded.events = events /\ k \in Nat /\ k # 0
  BY DEF Recorded
<1>3. new = [st EXCEPT !.registered = @ \cup {ValueOf(Recorded, id).data : id \in kept},
                       !.armed = @ \/ (kept # {} /\ tool \in Sensitive),
                       !.redacted = @ \/ kept # tainted]
  BY <1>1, <1>2 DEF ReadEvent, ReadResult
<1>4. ReplayFields(st) /\ st.pending = {}
  BY <1>1 DEF ReplayedTo
<1>5. PICK id \in 1 .. Len(values) : Makes(values, events[k], id)
  BY DEF SessionInv, Resulted
<1>6. /\ events[k].makes = {id} /\ ValueOf(Recorded, id) = values[id] /\ values[id] # None
      /\ values[id].hash = FixtureResult(tool)
      /\ "untrusted" \in values[id].labels <=> tool \in Untrusted
      /\ "sensitive" \in values[id].labels <=> tool \in Sensitive
  BY <1>5, ValueIs DEF Makes, ResultLabels
<1>7. values[id].data = IF tool \in Sensitive THEN None ELSE FixtureResult(tool)
  BY <1>6 DEF LoopInv, Ledgered
<1>8. /\ tainted = IF tool \in Untrusted THEN {id} ELSE {}
      /\ kept = IF tool \in Untrusted /\ values[id].data # None THEN {id} ELSE {}
  BY <1>6
<1> DEFINE data == {ValueOf(Recorded, i).data : i \in kept}
           lost == kept # tainted
           arms == kept # {} /\ tool \in Sensitive
<1>9. LostAt(k) <=> lost
  BY <1>1, <1>6, <1>8 DEF LostAt
<1>10. ~lost => /\ data = IF tool \in Untrusted THEN {FixtureResult(tool)} ELSE {}
                /\ tool \notin Sensitive
  BY <1>6, <1>7, <1>8
<1> HIDE DEF new, tool, tainted, kept
<1>11. /\ DOMAIN new = DOMAIN st /\ new.pending = {}
       /\ new.decided = st.decided /\ new.malformed = st.malformed
       /\ new.matched = st.matched /\ new.recomputed = st.recomputed
       /\ new.registered = st.registered \cup data
       /\ new.armed = (st.armed \/ arms)
       /\ new.redacted = (st.redacted \/ lost)
  BY <1>3, <1>4 DEF ReplayFields
<1> HIDE DEF data, lost, arms
<1>12. /\ new.armed \in BOOLEAN /\ (new.armed <=> st.armed \/ arms)
       /\ new.redacted \in BOOLEAN /\ (new.redacted <=> st.redacted \/ lost)
  BY <1>4, <1>11, Zenon DEF ReplayFields
<1>13. ReplayFields(new)
  BY <1>4, <1>11, <1>12 DEF ReplayFields
<1>14. 1 .. k = (1 .. k - 1) \cup {k} /\ (k - 1) + 1 = k
  BY <1>2
<1>15. new.redacted <=> \E j \in 1 .. k : LostAt(j)
  <2>1. st.redacted <=> \E j \in 1 .. k - 1 : LostAt(j)
    BY DEF ReplayedTo
  <2>2. QED
    BY <1>9, <1>12, <1>14, <2>1
<1>16. ASSUME kern = "pinned", ~new.redacted
       PROVE  /\ new.registered = TaintIn(events, k + 1)
              /\ new.armed = FloorIn(events, k + 1) /\ new.matched = TRUE
  <2>1. ~st.redacted /\ ~lost
    BY <1>12, <1>16
  <2>2. /\ st.registered = TaintIn(events, k) /\ st.armed = FloorIn(events, k)
        /\ st.matched = TRUE
    BY <1>14, <1>16, <2>1 DEF ReplayedTo
  <2>3. /\ TaintIn(events, k + 1) = TaintIn(events, k) \cup
                (IF tool \in Untrusted THEN {FixtureResult(tool)} ELSE {})
        /\ FloorIn(events, k + 1) <=> FloorIn(events, k) \/ tool \in Sensitive
    BY <1>2, TaintNext DEF tool
  <2>4. new.registered = TaintIn(events, k + 1) /\ new.matched = TRUE
    BY <1>10, <1>11, <2>1, <2>2, <2>3
  <2>5. FloorIn(events, k + 1) <=> FloorIn(events, k)
    BY <1>10, <2>1, <2>3
  <2>6. ~arms
    BY <1>10, <2>1 DEF arms
  <2>7. FloorIn(events, k + 1) \in BOOLEAN
    BY DEF FloorIn
  <2>8. new.armed <=> FloorIn(events, k + 1)
    BY <1>12, <2>2, <2>5, <2>6, Zenon
  <2>9. new.armed = FloorIn(events, k + 1)
    BY <1>12, <2>7, <2>8, SameTruth
  <2>10. QED
    BY <2>4, <2>9
<1>17. QED
  BY <1>1, <1>2, <1>11, <1>13, <1>14, <1>15, <1>16 DEF ReplayedTo, new

(* A decision pairs with the intent before it.                              *)
LEMMA DecisionIsPaired ==
    ASSUME LoopInv, SessionInv, NEW kern, NEW k \in 1 .. Len(events), IsDecision(events[k]),
           NEW st, ReplayedTo(st, kern, k - 1)
    PROVE  MatchIntent(Recorded, k, st) = k - 1
<1>1. /\ k - 1 \in 1 .. Len(events) /\ IsIntent(events[k - 1])
      /\ events[k - 1].call = events[k].call
  BY EventsFollow DEF SessionInv, Decided
<1>2. Recorded.events = events /\ Len(events) \in Nat
  BY DEF Recorded, LoopInv, TypeInv
<1>3. \A i, j \in 1 .. Len(events) :
        i # j /\ events[i].type = events[j].type /\ events[i].type # "tool_result"
            => events[i].call # events[j].call
  <2>1. \A i, j \in 1 .. Len(events) :
          i # j /\ events[i].type = events[j].type /\ events[i].type # "tool_result"
              => events[i].call = None \/ events[i].call # events[j].call
    BY DEF LoopInv, Placed, OneCallOneId, Recorded
  <2>2. \A i \in 1 .. Len(events) : events[i].call # None
    BY EventsAre, AbsentIsNoValue DEF LoopInv
  <2>3. QED
    BY <2>1, <2>2
<1>4. events[k].call # None
  BY EventsAre, AbsentIsNoValue DEF LoopInv
<1>5. IntentCalled(Recorded, events[k].call, k) = {k - 1}
  <2>1. k - 1 \in 1 .. k
    BY <1>1, <1>2
  <2>2. \A j \in 1 .. k : IsIntent(events[j]) /\ events[j].call = events[k].call => j = k - 1
    BY <1>1, <1>2, <1>3 DEF IsIntent
  <2>3. QED
    BY <1>1, <1>2, <2>1, <2>2 DEF IntentCalled
<1>6. events[k].call \notin st.decided
  <2>1. \A j \in 1 .. k - 1 : IsDecision(events[j]) => events[j].call # events[k].call
    BY <1>2, <1>3 DEF IsDecision
  <2>2. QED
    BY <2>1 DEF ReplayedTo
<1>7. (CHOOSE j \in {k - 1} : \A i \in {k - 1} : i <= j) = k - 1
  BY <1>1, <1>2
<1>8. QED
  BY <1>2, <1>4, <1>5, <1>6, <1>7 DEF MatchIntent

(* whether the decision at k is made again, and what is read of it then or  *)
(* when a value its call is bound to was lost                               *)
Recomputes(st, kern, k) ==
    VerdictCore(GateWithGovernor(kern, enforcement, st.registered, st.armed, events[k - 1].tool,
                    events[k - 1].bound, DataIn(values, events[k - 1].bound)))
        = VerdictCore(events[k].decision)
DecisionRead(new, st, kern, k) ==
    /\ DOMAIN new = DOMAIN st /\ new.pending = {}
    /\ new.decided = st.decided \cup {events[k].call}
    /\ new.registered = st.registered /\ new.armed = st.armed
    /\ new.malformed = st.malformed
    /\ IF LostAt(k) THEN new.redacted = TRUE /\ new.matched = st.matched
       ELSE /\ new.redacted = st.redacted
            /\ new.matched = (st.matched /\ Recomputes(st, kern, k))

LEMMA DecisionFields ==
    ASSUME LoopInv, SessionInv, NEW kern, NEW k \in 1 .. Len(events), IsDecision(events[k]),
           NEW st, ReplayedTo(st, kern, k - 1)
    PROVE  DecisionRead(ReadEvent(Recorded, k, kern, enforcement, st), st, kern, k)
<1> DEFINE new == ReadEvent(Recorded, k, kern, enforcement, st)
           bound == events[k - 1].bound
           lost == \E arg \in DOMAIN bound : ValueOf(Recorded, bound[arg]) = None
                      \/ ValueOf(Recorded, bound[arg]).data = None
           data == IF "to" \in DOMAIN bound THEN ValueOf(Recorded, bound["to"]).data ELSE None
           again == GateWithGovernor(kern, enforcement, st.registered, st.armed,
                        events[k - 1].tool, bound, data)
           paired == [st EXCEPT
                !.pending = {j \in @ : j # k - 1 \/ events[j].node # events[k].node},
                !.decided = @ \cup ({events[k].call} \ {None})]
<1>1. k - 1 \in 1 .. Len(events) /\ IsIntent(events[k - 1]) /\ k - 1 # 0
  BY EventsFollow
<1>2. Recorded.events = events /\ Len(events) \in Nat
  BY DEF Recorded, LoopInv, TypeInv
<1>3. ~IsResult(events[k]) /\ ~IsIntent(events[k])
  BY EventsFollow
<1>4. MatchIntent(Recorded, k, st) = k - 1
  BY DecisionIsPaired
<1>5. new = ReadDecision(Recorded, k, kern, enforcement, st)
  BY <1>2, <1>3 DEF ReadEvent
<1>6. new = IF lost THEN [paired EXCEPT !.redacted = TRUE]
            ELSE [paired EXCEPT !.recomputed = Append(@, again),
                    !.matched = @ /\ VerdictCore(again) = VerdictCore(events[k].decision)]
  BY <1>1, <1>2, <1>4, <1>5 DEF ReadDecision
<1>7. \A arg \in DOMAIN bound : bound[arg] \in 1 .. Len(values)
  BY <1>1 DEF LoopInv, Ledgered
<1>8. \A arg \in DOMAIN bound : /\ ValueOf(Recorded, bound[arg]) = values[bound[arg]]
                                /\ ValueOf(Recorded, bound[arg]) # None
  BY <1>7, ValueIs
<1>9. lost <=> LostAt(k)
  BY <1>3, <1>8 DEF LostAt
<1>10. ~lost => data = DataIn(values, bound)
  <2>1. \A arg \in DOMAIN bound :
            values[bound[arg]].data # None => values[bound[arg]].hash = values[bound[arg]].data
    BY <1>7, ValuesAre DEF LoopInv
  <2>2. QED
    BY <1>8, <2>1 DEF DataIn
<1>11. events[k].call # None /\ events[k].node = "root" /\ events[k - 1].node = "root"
  BY <1>1, EventsAre, AbsentIsNoValue DEF LoopInv
<1>12. ReplayFields(st) /\ st.pending = {k - 1}
  BY <1>1 DEF ReplayedTo
<1> HIDE DEF new, lost, data, again
<1>13. /\ DOMAIN paired = DOMAIN st /\ paired.pending = {}
       /\ paired.decided = st.decided \cup {events[k].call}
       /\ paired.registered = st.registered /\ paired.armed = st.armed
       /\ paired.malformed = st.malformed /\ paired.redacted = st.redacted
       /\ paired.matched = st.matched
  BY <1>11, <1>12 DEF ReplayFields
<1> HIDE DEF paired
<1>14. CASE lost
  <2>1. new = [paired EXCEPT !.redacted = TRUE]
    BY <1>6, <1>14
  <2>2. /\ DOMAIN new = DOMAIN st /\ new.pending = {}
        /\ new.decided = st.decided \cup {events[k].call}
        /\ new.registered = st.registered /\ new.armed = st.armed
        /\ new.malformed = st.malformed /\ new.redacted = TRUE /\ new.matched = st.matched
    BY <1>12, <1>13, <2>1 DEF ReplayFields
  <2>3. QED
    BY <1>9, <1>14, <2>2 DEF new, DecisionRead
<1>15. CASE ~lost
  <2> DEFINE same == VerdictCore(again) = VerdictCore(events[k].decision)
  <2>1. new = [paired EXCEPT !.recomputed = Append(@, again), !.matched = @ /\ same]
    BY <1>6, <1>15
  <2> HIDE DEF same
  <2>2. /\ DOMAIN new = DOMAIN st /\ new.pending = {}
        /\ new.decided = st.decided \cup {events[k].call}
        /\ new.registered = st.registered /\ new.armed = st.armed
        /\ new.malformed = st.malformed /\ new.redacted = st.redacted
        /\ new.matched = (st.matched /\ same)
    BY <1>12, <1>13, <2>1 DEF ReplayFields
  <2>3. same = Recomputes(st, kern, k)
    BY <1>10, <1>15 DEF same, again, Recomputes
  <2>4. QED
    BY <1>9, <1>15, <2>2, <2>3 DEF new, DecisionRead
<1>16. QED
  BY <1>14, <1>15

(* A decision is recomputed as it was recorded, unless its call was bound   *)
(* to a value that is lost.                                                 *)
LEMMA DecisionIsRead ==
    ASSUME LoopInv, SessionInv, NEW kern, NEW k \in 1 .. Len(events), IsDecision(events[k]),
           NEW st, ReplayedTo(st, kern, k - 1)
    PROVE  ReplayedTo(ReadEvent(Recorded, k, kern, enforcement, st), kern, k)
<1> DEFINE new == ReadEvent(Recorded, k, kern, enforcement, st)
           same == Recomputes(st, kern, k)
<1>1. /\ DOMAIN new = DOMAIN st /\ new.pending = {}
      /\ new.decided = st.decided \cup {events[k].call}
      /\ new.registered = st.registered /\ new.armed = st.armed
      /\ new.malformed = st.malformed
      /\ IF LostAt(k) THEN new.redacted = TRUE /\ new.matched = st.matched
         ELSE new.redacted = st.redacted /\ new.matched = (st.matched /\ same)
  <2>1. DecisionRead(new, st, kern, k)
    BY DecisionFields
  <2> HIDE DEF new
  <2>2. QED
    BY <2>1 DEF DecisionRead
<1>2. ~IsIntent(events[k]) /\ ~IsResult(events[k]) /\ k \in Nat /\ k # 0
  BY EventsFollow
<1> HIDE DEF new, same
<1>3. ReplayFields(st)
  BY DEF ReplayedTo
<1>4. /\ new.redacted \in BOOLEAN /\ new.matched \in BOOLEAN
      /\ new.redacted <=> st.redacted \/ LostAt(k)
  <2>1. CASE LostAt(k)
    <3>1. new.redacted = TRUE /\ new.matched = st.matched
      BY <1>1, <2>1
    <3>2. QED
      BY <1>3, <2>1, <3>1 DEF ReplayFields
  <2>2. CASE ~LostAt(k)
    <3>1. new.redacted = st.redacted /\ new.matched = (st.matched /\ same)
      BY <1>1, <2>2
    <3>2. new.matched \in BOOLEAN
      BY <3>1, Zenon
    <3>3. QED
      BY <1>3, <2>2, <3>1, <3>2 DEF ReplayFields
  <2>3. QED
    BY <2>1, <2>2
<1>5. ReplayFields(new)
  BY <1>1, <1>3, <1>4 DEF ReplayFields
<1>6. 1 .. k = (1 .. k - 1) \cup {k} /\ (k - 1) + 1 = k
  BY <1>2
<1>7. new.redacted <=> \E j \in 1 .. k : LostAt(j)
  <2>1. st.redacted <=> \E j \in 1 .. k - 1 : LostAt(j)
    BY DEF ReplayedTo
  <2>2. QED
    BY <1>4, <1>6, <2>1
<1>8. \A call : call \in new.decided <=>
            \E j \in 1 .. k : IsDecision(events[j]) /\ events[j].call = call
  <2>1. \A call : call \in st.decided <=>
            \E j \in 1 .. k - 1 : IsDecision(events[j]) /\ events[j].call = call
    BY DEF ReplayedTo
  <2>2. QED
    BY <1>1, <1>6, <2>1
<1>9. ASSUME kern = "pinned", ~new.redacted
      PROVE  /\ new.registered = TaintIn(events, k + 1)
             /\ new.armed = FloorIn(events, k + 1) /\ new.matched = TRUE
  <2>1. ~st.redacted /\ ~LostAt(k)
    BY <1>4, <1>9
  <2>2. /\ st.registered = TaintIn(events, k) /\ st.armed = FloorIn(events, k)
        /\ st.matched = TRUE
    BY <1>6, <1>9, <2>1 DEF ReplayedTo
  <2>3. /\ TaintIn(events, k + 1) = TaintIn(events, k)
        /\ FloorIn(events, k + 1) = FloorIn(events, k)
    <3>1. /\ TaintIn(events, k + 1) = TaintIn(events, k)
          /\ FloorIn(events, k + 1) <=> FloorIn(events, k)
      BY <1>2, TaintNext
    <3>2. FloorIn(events, k + 1) \in BOOLEAN /\ FloorIn(events, k) \in BOOLEAN
      BY DEF FloorIn
    <3>3. QED
      BY <3>1, <3>2, SameTruth
  <2>4. events[k].decision =
            GateWithGovernor("pinned", enforcement, TaintIn(events, k), FloorIn(events, k),
                events[k - 1].tool, events[k - 1].bound, DataIn(values, events[k - 1].bound))
    BY DEF SessionInv, Decided
  <2>5. same
    BY <1>9, <2>2, <2>4 DEF same, Recomputes
  <2>6. new.matched = TRUE
    <3>1. new.matched = (st.matched /\ same)
      BY <1>1, <2>1
    <3>2. QED
      BY <2>2, <2>5, <3>1
  <2>7. QED
    BY <1>1, <2>2, <2>3, <2>6
<1>10. new.malformed = FALSE
  BY <1>1 DEF ReplayedTo
<1>11. ~(\A j \in 1 .. k : ~IsDecision(events[j]))
  BY <1>6
<1>12. QED
  BY <1>1, <1>2, <1>5, <1>7, <1>8, <1>9, <1>10, <1>11 DEF ReplayedTo, new

(* So is the trace up to any of its events.                                 *)
LEMMA ReplayReads ==
    ASSUME LoopInv, SessionInv, Sensitive \subseteq Untrusted, NEW kern
    PROVE  \E f : /\ f[0] = Start
                  /\ \A k \in 1 .. Len(events) :
                        f[k] = ReadEvent(Recorded, k, kern, enforcement, f[k - 1])
                  /\ \A k \in 0 .. Len(events) : ReplayedTo(f[k], kern, k)
                  /\ ReplayState(Recorded, kern, enforcement) = f[Len(events)]
<1>1. Recorded.events = events /\ Len(events) \in Nat
  BY DEF Recorded, LoopInv, TypeInv
<1>2. PICK f : /\ f[0] = Start
               /\ \A k \in 1 .. Len(events) :
                        f[k] = ReadEvent(Recorded, k, kern, enforcement, f[k - 1])
               /\ ReplayState(Recorded, kern, enforcement) = f[Len(events)]
  <2>1. Len(Recorded.events) \in Nat
    BY <1>1
  <2>2. \E f : /\ f[0] = Start
               /\ \A k \in 1 .. Len(Recorded.events) :
                        f[k] = ReadEvent(Recorded, k, kern, enforcement, f[k - 1])
               /\ ReplayState(Recorded, kern, enforcement) = f[Len(Recorded.events)]
    BY <2>1, ReplayIsAPass
  <2>3. QED
    BY <1>1, <2>2
<1> DEFINE Reached == {k \in Nat : k <= Len(events) => ReplayedTo(f[k], kern, k)}
<1>3. 0 \in Reached
  <2>1. ReplayFields(Start)
    BY DEF ReplayFields, Start
  <2>2. /\ Start.pending = {} /\ Start.decided = {} /\ Start.malformed = FALSE
        /\ Start.redacted = FALSE /\ Start.registered = {} /\ Start.armed = FALSE
        /\ Start.matched = TRUE /\ Start.recomputed = <<>>
    BY DEF Start
  <2>3. 1 .. 0 = {} /\ 1 .. (0 + 1) - 1 = {}
    OBVIOUS
  <2>4. TaintIn(events, 0 + 1) = {} /\ FloorIn(events, 0 + 1) = FALSE
    <3>1. ~FloorIn(events, 0 + 1) /\ FloorIn(events, 0 + 1) \in BOOLEAN
      BY <2>3 DEF FloorIn
    <3>2. QED
      BY <2>3, <3>1 DEF TaintIn
  <2>5. ReplayedTo(Start, kern, 0)
    BY <2>1, <2>2, <2>3, <2>4 DEF ReplayedTo
  <2>6. QED
    BY <1>2, <2>5
<1>4. \A k \in Reached : k + 1 \in Reached
  <2>1. SUFFICES ASSUME NEW k \in Nat, k + 1 <= Len(events), ReplayedTo(f[k], kern, k)
                 PROVE  ReplayedTo(f[k + 1], kern, k + 1)
    BY <1>1
  <2>2. k + 1 \in 1 .. Len(events) /\ (k + 1) - 1 = k
    BY <1>1, <2>1
  <2>3. f[k + 1] = ReadEvent(Recorded, k + 1, kern, enforcement, f[k])
    BY <1>2, <2>2
  <2>4. ReplayedTo(f[k], kern, (k + 1) - 1)
    BY <2>1, <2>2
  <2>5. IsIntent(events[k + 1]) \/ IsResult(events[k + 1]) \/ IsDecision(events[k + 1])
    BY <2>2, EventsFollow
  <2>6. ReplayedTo(ReadEvent(Recorded, k + 1, kern, enforcement, f[k]), kern, k + 1)
    BY <2>2, <2>4, <2>5, IntentIsRead, ResultIsRead, DecisionIsRead
  <2>7. QED
    BY <2>3, <2>6
<1>5. Reached \in SUBSET Nat
  OBVIOUS
<1> HIDE DEF Reached
<1>6. Reached = Nat
  BY <1>3, <1>4, <1>5, Counting
<1>7. \A k \in 0 .. Len(events) : ReplayedTo(f[k], kern, k)
  BY <1>1, <1>6 DEF Reached
<1>8. QED
  BY <1>2, <1>7

(* And so is the whole of it.                                               *)
LEMMA ReplayReadsAll ==
    ASSUME LoopInv, SessionInv, Sensitive \subseteq Untrusted, NEW kern
    PROVE  ReplayedTo(ReplayState(Recorded, kern, enforcement), kern, Len(events))
<1>1. PICK f : /\ \A k \in 0 .. Len(events) : ReplayedTo(f[k], kern, k)
               /\ ReplayState(Recorded, kern, enforcement) = f[Len(events)]
  BY ReplayReads
<1>2. Len(events) \in 0 .. Len(events)
  BY DEF LoopInv, TypeInv
<1>3. QED
  BY <1>1, <1>2

(* Nothing of a trace is missed: a value that was redacted was bound by a   *)
(* call or made by one, and its decision or its result tells.               *)
LEMMA LostIsNotWhole ==
    ASSUME LoopInv, SessionInv, Sensitive \subseteq Untrusted
    PROVE  (\E j \in 1 .. Len(events) : LostAt(j)) <=> ~IsWhole(Recorded)
<1>1. Recorded.values = values
  BY DEF Recorded
<1>2. ASSUME NEW j \in 1 .. Len(events), LostAt(j)
      PROVE  \E id \in 1 .. Len(values) : values[id].data = None
  <2>1. CASE IsResult(events[j])
    <3>1. PICK id \in 1 .. Len(values) : Makes(values, events[j], id)
      BY <2>1 DEF SessionInv, Resulted
    <3>2. events[j].makes = {id} /\ ~IsDecision(events[j])
      BY <2>1, <3>1, EventsFollow DEF Makes
    <3>3. QED
      BY <1>2, <3>2 DEF LostAt
  <2>2. CASE IsDecision(events[j])
    <3>1. j - 1 \in 1 .. Len(events) /\ IsIntent(events[j - 1]) /\ ~IsResult(events[j])
      BY <2>2, EventsFollow
    <3>2. \A arg \in DOMAIN events[j - 1].bound : events[j - 1].bound[arg] \in 1 .. Len(values)
      BY <3>1 DEF LoopInv, Ledgered
    <3>3. QED
      BY <1>2, <3>1, <3>2 DEF LostAt
  <2>3. QED
    BY <1>2, <2>1, <2>2 DEF LostAt
<1>3. ASSUME NEW id \in 1 .. Len(values), values[id].data = None
      PROVE  \E j \in 1 .. Len(events) : LostAt(j)
  <2>1. PICK i \in 1 .. Len(events) : Introduces(events[i], id)
    BY DEF SessionInv, Introduced
  <2>2. CASE IsIntent(events[i]) /\ "to" \in DOMAIN events[i].bound /\ events[i].bound["to"] = id
    <3>1. IsDecision(events[i + 1]) /\ i + 1 \in 1 .. Len(events) /\ (i + 1) - 1 = i
      BY <2>2, EventsFollow
    <3>2. LostAt(i + 1)
      BY <1>3, <2>2, <3>1 DEF LostAt
    <3>3. QED
      BY <3>1, <3>2
  <2>3. CASE IsResult(events[i]) /\ events[i].makes = {id}
    <3>1. PICK v \in 1 .. Len(values) : Makes(values, events[i], v)
      BY <2>3 DEF SessionInv, Resulted
    <3>2. v = id
      BY <2>3, <3>1 DEF Makes
    <3>3. "sensitive" \in values[id].labels
      BY <1>3, ValuesAre DEF LoopInv
    <3>4. "untrusted" \in values[id].labels
      BY <3>1, <3>2, <3>3 DEF Makes, ResultLabels
    <3>5. LostAt(i)
      BY <1>3, <2>3, <3>4 DEF LostAt
    <3>6. QED
      BY <3>5
  <2>4. QED
    BY <2>1, <2>2, <2>3 DEF Introduces
<1>4. IsWhole(Recorded) <=> \A id \in 1 .. Len(values) : values[id].data # None
  BY <1>1 DEF IsWhole
<1>5. QED
  BY <1>2, <1>3, <1>4

(* The status of a recorded trace under any kernel that is installed.       *)
LEMMA StatusTells ==
    ASSUME LoopInv, SessionInv, Sensitive \subseteq Untrusted, NEW kern, kern # "missing"
    PROVE  LET status == ReplayStatus(Recorded, kern, enforcement)
           IN  IF IsWhole(Recorded)
               THEN status \in {"match", "mismatch"} /\ (kern = "pinned" => status = "match")
               ELSE status = "redacted_input_unavailable"
<1> DEFINE st == ReplayState(Recorded, kern, enforcement)
<1>1. ReplayedTo(st, kern, Len(events))
  BY ReplayReadsAll
<1>2. ReplayStatus(Recorded, kern, enforcement) = StatusOf(st)
  BY DEF ReplayStatus
<1> HIDE DEF st
<1>3. Len(events) \in Nat
  BY DEF LoopInv, TypeInv
<1>4. ~(Len(events) # 0 /\ IsIntent(events[Len(events)]))
  <2>1. ASSUME Len(events) # 0, IsIntent(events[Len(events)])
        PROVE  FALSE
    <3>1. Len(events) \in 1 .. Len(events)
      BY <1>3, <2>1
    <3>2. Len(events) + 1 \in 1 .. Len(events)
      BY <2>1, <3>1, EventsFollow
    <3>3. QED
      BY <1>3, <3>2
  <2>2. QED
    BY <2>1
<1>5. /\ st.pending = {} /\ ~st.malformed /\ st.redacted \in BOOLEAN /\ st.matched \in BOOLEAN
      /\ st.redacted <=> ~IsWhole(Recorded)
      /\ kern = "pinned" /\ ~st.redacted => st.matched
  BY <1>1, <1>4, LostIsNotWhole DEF ReplayedTo, ReplayFields
<1>6. CASE st.redacted
  <2>1. StatusOf(st) = "redacted_input_unavailable"
    BY <1>5, <1>6 DEF StatusOf
  <2>2. QED
    BY <1>2, <1>5, <1>6, <2>1
<1>7. CASE ~st.redacted
  <2>1. StatusOf(st) = IF st.matched THEN "match" ELSE "mismatch"
    BY <1>5, <1>7 DEF StatusOf
  <2>2. QED
    BY <1>2, <1>5, <1>7, <2>1
<1>8. QED
  BY <1>5, <1>6, <1>7

(* Without a decision, nothing is recomputed.                               *)
LEMMA NothingRecomputed ==
    ASSUME LoopInv, SessionInv, Sensitive \subseteq Untrusted, NEW kern,
           Verdicts(Recorded) = <<>>
    PROVE  RecomputedVerdicts(Recorded, kern, enforcement) = <<>>
<1> DEFINE S == {i \in 1 .. Len(events) : IsDecision(events[i])}
           st == ReplayState(Recorded, kern, enforcement)
<1>1. Recorded.events = events /\ Len(events) \in Nat /\ S \in SUBSET (1 .. Len(events))
  BY DEF Recorded, LoopInv, TypeInv
<1>2. Cardinality(S) \in Nat /\ Enumerates(InOrder(S), Cardinality(S), S)
  BY <1>1, InOrderEnumerates
<1>3. Decisions(Recorded) = EventsAt(Recorded, S)
  BY <1>1 DEF Decisions
<1> HIDE DEF S
<1>4. Len(Decisions(Recorded)) = Cardinality(S)
  BY <1>2, <1>3 DEF EventsAt
<1>5. Cardinality(S) = 0
  <2>1. DOMAIN Verdicts(Recorded) = 1 .. Cardinality(S)
    BY <1>4 DEF Verdicts
  <2>2. 1 .. Cardinality(S) = {}
    BY <2>1
  <2>3. QED
    BY <1>2, <2>2
<1>6. S = {}
  BY <1>2, <1>5 DEF Enumerates
<1>7. st.recomputed = <<>>
  BY <1>6, ReplayReadsAll DEF ReplayedTo, S
<1>8. QED
  BY <1>7 DEF RecomputedVerdicts

----------------------------------------------------------------------------
(* Rereading *)

ReadWhenDone == Read => Done /\ kernel \in Kernels /\ held \in Changed(trace)
RereadingInv == LoopInv /\ SessionInv /\ ReadWhenDone

LEMMA RereadingInvHolds == RereadingSpec => []RereadingInv
<1>1. RereadingInit => RereadingInv
  <2>1. SUFFICES ASSUME RereadingInit
                 PROVE  RereadingInv
    OBVIOUS
  <2>2. Init /\ ~Read
    BY <2>1 DEF RereadingInit, Read
  <2>3. QED
    BY <2>2, LoopInvInit, SessionInit DEF RereadingInv, ReadWhenDone
<1>2. RereadingInv /\ [RereadingNext]_storedVars => RereadingInv'
  <2>1. SUFFICES ASSUME RereadingInv, [RereadingNext]_storedVars
                 PROVE  RereadingInv'
    OBVIOUS
  <2>2. LoopInv /\ SessionInv /\ ReadWhenDone /\ [Next]_vars
    BY <2>1 DEF RereadingInv, RereadingNext, ReadAgain, storedVars
  <2>3. LoopInv' /\ SessionInv'
    BY <2>2, LoopInvNext, SessionNext
  <2>4. ReadWhenDone'
    <3>1. CASE ReadAgain
      <4>1. Done /\ trace' = trace /\ kernel' \in Kernels /\ held' \in Changed(trace)
        BY <3>1 DEF ReadAgain, vars
      <4>2. QED
        BY <4>1 DEF ReadWhenDone, Done
    <3>2. CASE UNCHANGED <<held, kernel, trace>>
      BY <2>2, <3>2 DEF ReadWhenDone, Read, Done
    <3>3. CASE Next /\ UNCHANGED <<held, kernel>> /\ trace' # trace
      <4>1. stop_reason = None
        BY <3>3 DEF Next, OutOfSteps, Finish, OutOfCalls, Asked, Call, UnknownTool
      <4>2. ~Done
        BY <2>2, <4>1 DEF LoopInv, Finished, Done
      <4>3. ~Read
        BY <2>2, <4>2 DEF ReadWhenDone
      <4>4. QED
        BY <3>3, <4>3 DEF ReadWhenDone, Read
    <3>4. QED
      BY <2>1, <3>1, <3>2, <3>3 DEF RereadingNext, storedVars, vars
  <2>5. QED
    BY <2>3, <2>4 DEF RereadingInv
<1>3. QED
  BY <1>1, <1>2, PTL DEF RereadingSpec

(* what is read again of a governed trial is what the toolset recorded *)
LEMMA ReadIsRecorded ==
    ASSUME RereadingInv, Read, governed
    PROVE  /\ LoopInv /\ SessionInv /\ trace = Recorded
           /\ kernel \in Kernels /\ kernel # "missing" /\ held \in Changed(Recorded)
<1>1. LoopInv /\ SessionInv /\ Done /\ kernel \in Kernels /\ held \in Changed(trace)
  BY DEF RereadingInv, ReadWhenDone
<1>2. trace = FinalizeTrace
  BY <1>1 DEF LoopInv, Finished, Done
<1>3. QED
  BY <1>1, <1>2, KernelsAreInstalled DEF FinalizeTrace, Recorded

(* A governed trace left alone reproduces its decisions, and one that lost  *)
(* a value is reported so and never claimed to be exactly replayable -- for *)
(* any agent, tools and budgets, where a sensitive source is an untrusted   *)
(* one as well (replay.py 91-210, evidence.py 54-84).                       *)
THEOREM UntouchedReplays ==
  ASSUME Sensitive \subseteq Untrusted
  PROVE  RereadingSpec => []ReplayReproduces
<1>1. RereadingInv => ReplayReproduces
  <2>1. SUFFICES ASSUME RereadingInv, Read, governed, held = trace, kernel = "pinned"
                 PROVE  /\ HeldStatus = IF IsWhole(trace) THEN "match"
                                        ELSE "redacted_input_unavailable"
                        /\ ClaimKind(trace, kernel, enforcement) = "exactly_replayable"
                                <=> IsWhole(trace)
    BY DEF ReplayReproduces
  <2>2. LoopInv /\ SessionInv /\ trace = Recorded /\ kernel # "missing"
    BY <2>1, ReadIsRecorded
  <2> DEFINE status == ReplayStatus(trace, kernel, enforcement)
  <2>3. status = IF IsWhole(trace) THEN "match" ELSE "redacted_input_unavailable"
    BY <2>1, <2>2, StatusTells
  <2>4. HeldStatus = status
    BY <2>1 DEF HeldStatus
  <2>5. ClaimKind(trace, kernel, enforcement) =
            IF status \in {"malformed_trace", "redacted_input_unavailable"}
            THEN "not_exactly_replayable" ELSE "exactly_replayable"
    BY DEF ClaimKind
  <2> HIDE DEF status
  <2>6. QED
    BY <2>3, <2>4, <2>5
<1>2. QED
  BY <1>1, RereadingInvHolds, PTL

(* A pin that matches is of the very trace it was made of, with nothing     *)
(* lost, and of a kernel that decides its whole sequence; what else it      *)
(* reports has a cause -- whatever has become of the trace, under the same  *)
(* condition (regression.py 73-248).                                        *)
THEOREM PinsAlwaysTell ==
  ASSUME Sensitive \subseteq Untrusted
  PROVE  RereadingSpec => []PinTells
<1>1. RereadingInv => PinTells
  <2>1. SUFFICES ASSUME RereadingInv, Read, governed,
                        NEW expected \in {"ALLOW", "DENY"}, CanPin(trace, expected)
                 PROVE  IF Checked(expected).status = "matches_pinned_expected"
                        THEN /\ held = trace /\ IsWhole(trace)
                             /\ RecomputedVerdicts(trace, kernel, enforcement) = Verdicts(trace)
                        ELSE Causes(Pin(trace, expected), Checked(expected)) # {}
    BY DEF PinTells
  <2>2. LoopInv /\ SessionInv /\ trace = Recorded /\ kernel # "missing"
    BY <2>1, ReadIsRecorded
  <2> DEFINE pin == Pin(trace, expected)
             result == Checked(expected)
             replay == ReplayStatus(held, kernel, enforcement)
             actual == RecomputedVerdicts(held, kernel, enforcement)
  <2>3. pin.ref = trace /\ pin.sequence = IF Verdicts(trace) = <<>> THEN <<expected>>
                                          ELSE Verdicts(trace)
    BY DEF Pin
  <2>4. result = CheckPin(pin, held, kernel, enforcement)
    BY DEF Checked
  <2> HIDE DEF pin, result, replay, actual
  <2>5. CASE held = None \/ held # trace
    <3>1. result.status \in {"pinned_trace_missing", "pinned_trace_tampered"}
      BY <2>3, <2>4, <2>5 DEF CheckPin, Unchecked
    <3>2. Causes(pin, result) = {result.status}
      BY <3>1 DEF Causes
    <3>3. QED
      BY <3>1, <3>2 DEF pin, result
  <2>6. CASE held # None /\ held = trace
    <3>1. result = IF replay = "malformed_trace"
                   THEN [status |-> "pinned_trace_malformed", replay |-> replay, actual |-> <<>>]
                   ELSE [status |-> IF replay = "match" /\ actual = pin.sequence
                                    THEN "matches_pinned_expected"
                                    ELSE "differs_from_pinned_expected",
                         replay |-> replay, actual |-> actual]
      BY <2>2, <2>3, <2>4, <2>6 DEF CheckPin, replay, actual
    <3>2. IF IsWhole(trace) THEN replay \in {"match", "mismatch"}
          ELSE replay = "redacted_input_unavailable"
      BY <2>2, <2>6, StatusTells DEF replay
    <3>3. /\ result.status = IF replay = "match" /\ actual = pin.sequence
                             THEN "matches_pinned_expected" ELSE "differs_from_pinned_expected"
          /\ result.replay = replay /\ result.actual = actual
      BY <3>1, <3>2
    <3>4. CASE replay = "match" /\ actual = pin.sequence
      <4>1. IsWhole(trace)
        BY <3>2, <3>4
      <4>2. Verdicts(trace) # <<>>
        <5>1. SUFFICES ASSUME Verdicts(trace) = <<>>
                       PROVE  FALSE
          OBVIOUS
        <5>2. actual = <<>>
          BY <2>2, <2>6, <5>1, NothingRecomputed DEF actual
        <5>3. QED
          BY <2>3, <3>4, <5>1, <5>2
      <4>3. QED
        BY <2>3, <2>6, <3>3, <3>4, <4>1, <4>2 DEF actual, result
    <3>5. CASE ~(replay = "match" /\ actual = pin.sequence)
      <4>1. result.status = "differs_from_pinned_expected"
        BY <3>3, <3>5
      <4>2. Causes(pin, result) =
                (IF actual # pin.sequence THEN {"sequence"} ELSE {}) \cup ({replay} \ {None, "match"})
        BY <3>3, <4>1 DEF Causes
      <4>3. Causes(pin, result) # {}
        BY <3>2, <3>5, <4>2, AbsentIsNoStatus
      <4>4. QED
        BY <4>1, <4>3 DEF pin, result
    <3>6. QED
      BY <3>4, <3>5
  <2>7. QED
    BY <2>5, <2>6
<1>2. QED
  BY <1>1, RereadingInvHolds, PTL

----------------------------------------------------------------------------
(* Evidence *)

(* the trace as recorded, with its call_ids or without them *)
Like(e, x, named) ==
    /\ e.type = x.type /\ e.call = (IF named THEN x.call ELSE None)
    /\ IsIntent(x) => e.tool = x.tool /\ e.bound = x.bound
    /\ IsDecision(x) => e.decision = x.decision
    /\ IsResult(x) => e.tool = x.tool /\ e.makes = x.makes
Alike(t, named) ==
    /\ t.values = values /\ Len(t.events) = Len(events)
    /\ DOMAIN t.events = 1 .. Len(events)
    /\ \A i \in 1 .. Len(events) : Like(t.events[i], events[i], named)

Uncalled(e) == [e EXCEPT !.call = None]

LEMMA RecordedIsAlike ==
    ASSUME LoopInv
    PROVE  Alike(Recorded, TRUE)
<1>1. Recorded.events = events /\ Recorded.values = values
  BY DEF Recorded
<1>2. DOMAIN events = 1 .. Len(events)
  BY DEF LoopInv, TypeInv
<1>3. \A i \in 1 .. Len(events) : Like(events[i], events[i], TRUE)
  BY DEF Like
<1>4. QED
  BY <1>1, <1>2, <1>3 DEF Alike

LEMMA UncalledIsLike ==
    ASSUME TypeInv, NEW i \in 1 .. Len(events)
    PROVE  Like(Uncalled(events[i]), events[i], FALSE)
<1>1. events[i] \in IntentEvent \cup DecisionEvent \cup ResultEvent
  BY DEF TypeInv
<1>2. CASE events[i] \in IntentEvent
  BY <1>2 DEF Like, Uncalled, IntentEvent, IsIntent, IsDecision, IsResult
<1>3. CASE events[i] \in DecisionEvent
  BY <1>3 DEF Like, Uncalled, DecisionEvent, IsIntent, IsDecision, IsResult
<1>4. CASE events[i] \in ResultEvent
  BY <1>4 DEF Like, Uncalled, ResultEvent, IsIntent, IsDecision, IsResult
<1>5. QED
  BY <1>1, <1>2, <1>3, <1>4

LEMMA UnnamedIsAlike ==
    ASSUME LoopInv
    PROVE  Alike(Unnamed(Recorded), FALSE)
<1> DEFINE t == Unnamed(Recorded)
<1>1. TypeInv /\ Len(events) \in Nat
  BY DEF LoopInv, TypeInv
<1>2. t = [kernel |-> TRUE, values |-> values,
           events |-> [i \in 1 .. Len(events) |-> Uncalled(events[i])]]
  <2> DEFINE g == [i \in 1 .. Len(Recorded.events) |-> Uncalled(Recorded.events[i])]
  <2>1. t = [Recorded EXCEPT !.events = g]
    BY DEF Unnamed, Uncalled
  <2>2. g = [i \in 1 .. Len(events) |-> Uncalled(events[i])]
    BY DEF Recorded
  <2> HIDE DEF g, t
  <2>3. t = [kernel |-> TRUE, values |-> values, events |-> g]
    BY <2>1 DEF Recorded
  <2>4. QED
    BY <2>2, <2>3
<1> HIDE DEF t
<1>3. t.values = values /\ t.events = [i \in 1 .. Len(events) |-> Uncalled(events[i])]
  BY <1>2
<1>4. Len(t.events) = Len(events) /\ DOMAIN t.events = 1 .. Len(events)
  BY <1>1, <1>3
<1>5. \A i \in 1 .. Len(events) : t.events[i] = Uncalled(events[i])
  BY <1>3
<1>6. \A i \in 1 .. Len(events) : Like(t.events[i], events[i], FALSE)
  BY <1>1, <1>5, UncalledIsLike
<1>7. QED
  BY <1>3, <1>4, <1>6 DEF Alike, t

(* a set of positions has a first *)
LEMMA FirstOfIs ==
    ASSUME NEW S \in SUBSET Nat, S # {}
    PROVE  FirstOf(S) \in S /\ \A j \in S : FirstOf(S) <= j
<1>1. PICK x \in S : \A y \in S : <<y, x>> \notin OpToRel(<, Nat)
  BY WFMin, NatLessThanWellFounded, Zenon
<1>2. \A y \in S : ~(y < x)
  BY <1>1, Zenon DEF OpToRel
<1>3. \A y \in S : x <= y
  BY <1>2
<1>4. QED
  BY <1>3 DEF FirstOf

(* what is where in a trace that is alike *)
LEMMA AlikePositions ==
    ASSUME LoopInv, NEW t, NEW named \in BOOLEAN, Alike(t, named), NEW i \in 1 .. Len(t.events)
    PROVE  /\ i \in 1 .. Len(events)
           /\ IsIntent(t.events[i]) <=> IsIntent(events[i])
           /\ IsDecision(t.events[i]) <=> IsDecision(events[i])
           /\ IsResult(t.events[i]) <=> IsResult(events[i])
           /\ IsDecision(events[i]) => t.events[i].decision = events[i].decision
           /\ IsIntent(events[i]) => t.events[i].tool = events[i].tool
           /\ t.events[i].call = IF named THEN events[i].call ELSE None
BY DEF Alike, Like, IsIntent, IsDecision, IsResult

(* The decision an evidence case is about is one of the trace's.            *)
LEMMA TargetIs ==
    ASSUME LoopInv, SessionInv, NEW t, NEW named \in BOOLEAN, Alike(t, named),
           Verdicts(Recorded) # <<>>
    PROVE  /\ TargetDecision(t) \in 1 .. Len(events)
           /\ IsDecision(events[TargetDecision(t)])
           /\ TargetDecision(t) - 1 \in 1 .. Len(events)
           /\ IsIntent(events[TargetDecision(t) - 1])
<1> DEFINE S == {i \in 1 .. Len(events) : IsDecision(events[i])}
           T == {i \in 1 .. Len(t.events) : IsDecision(t.events[i])}
<1>1. Recorded.events = events /\ Len(events) \in Nat /\ Len(t.events) = Len(events)
  BY DEF Recorded, LoopInv, TypeInv, Alike
<1>2. S # {}
  <2>1. SUFFICES ASSUME S = {}
                 PROVE  Verdicts(Recorded) = <<>>
    OBVIOUS
  <2>2. Cardinality(S) = 0
    BY <2>1, FS_EmptySet
  <2>3. Decisions(Recorded) = [k \in 1 .. 0 |-> Recorded.events[InOrder(S)[k]]]
    BY <1>1, <2>2 DEF Decisions, EventsAt
  <2> HIDE DEF S
  <2>4. Len(Decisions(Recorded)) = 0
    BY <2>3
  <2>5. Verdicts(Recorded) = [k \in 1 .. 0 |-> Decisions(Recorded)[k].decision.verdict]
    BY <2>4 DEF Verdicts
  <2>6. QED
    BY <2>5
<1>3. T = S
  BY <1>1, AlikePositions
<1>4. FirstDenial(t) \subseteq T
  BY DEF FirstDenial
<1>5. T \in SUBSET Nat /\ FirstDenial(t) \in SUBSET Nat
  BY <1>1, <1>4
<1>6. TargetDecision(t) = IF FirstDenial(t) # {} THEN FirstOf(FirstDenial(t)) ELSE FirstOf(T)
  BY DEF TargetDecision
<1> HIDE DEF T
<1>7. TargetDecision(t) \in S
  <2>1. CASE FirstDenial(t) # {}
    BY <1>3, <1>4, <1>5, <1>6, <2>1, FirstOfIs
  <2>2. CASE FirstDenial(t) = {}
    BY <1>2, <1>3, <1>5, <1>6, <2>2, FirstOfIs
  <2>3. QED
    BY <2>1, <2>2
<1>8. QED
  BY <1>7, EventsFollow

(* The call that is named is the one the decision was made on, or none.     *)
LEMMA CallOfIs ==
    ASSUME LoopInv, SessionInv, NEW t, NEW named \in BOOLEAN, Alike(t, named),
           NEW i \in 1 .. Len(events), IsDecision(events[i])
    PROVE  CallOf(t, i) \in {None, t.events[i - 1].tool}
<1> DEFINE byId == IF t.events[i].call = None THEN {}
                   ELSE IntentCalled(t, t.events[i].call, Len(t.events))
           S == {j \in 1 .. Len(t.events) : IsIntent(t.events[j])}
<1>1. /\ Len(events) \in Nat /\ Len(t.events) = Len(events) /\ DOMAIN t.events = 1 .. Len(events)
      /\ TypeInv /\ Decided /\ OneCallOneId(Recorded) /\ Recorded.events = events
  BY DEF Recorded, LoopInv, SessionInv, TypeInv, Alike, Placed
<1>2. /\ i - 1 \in 1 .. Len(events) /\ IsIntent(events[i - 1])
      /\ events[i - 1].call = events[i].call
  BY <1>1, EventsFollow DEF Decided
<1>3. CASE byId # {}
  <2>1. /\ named /\ byId = IntentCalled(t, t.events[i].call, Len(t.events))
        /\ t.events[i].call = events[i].call
    BY <1>1, <1>3, AlikePositions
  <2>2. \A j \in byId : j \in 1 .. Len(events) /\ IsIntent(events[j])
                        /\ events[j].call = events[i].call
    BY <1>1, <2>1, AlikePositions DEF IntentCalled
  <2>3. \A j \in 1 .. Len(events) : IsIntent(events[j]) /\ events[j].call = events[i].call
                                    => j = i - 1
    <3>1. SUFFICES ASSUME NEW j \in 1 .. Len(events), IsIntent(events[j]),
                          events[j].call = events[i].call, j # i - 1
                   PROVE  FALSE
      OBVIOUS
    <3>2. events[j].type = events[i - 1].type /\ events[j].type # "tool_result"
      BY <1>2, <3>1 DEF IsIntent
    <3>3. events[j].call = None \/ events[j].call # events[i - 1].call
      BY <1>1, <1>2, <3>1, <3>2 DEF OneCallOneId
    <3>4. events[j].call \in Nat
      BY <1>1, EventsAre
    <3>5. QED
      BY <1>2, <3>1, <3>3, <3>4, AbsentIsNoValue
  <2> HIDE DEF byId
  <2>4. byId = {i - 1}
    BY <1>3, <2>2, <2>3
  <2>5. FirstOf(byId) = i - 1
    BY <1>2, <2>4 DEF FirstOf
  <2>6. CallOf(t, i) = t.events[FirstOf(byId)].tool
    BY <1>3 DEF CallOf, byId
  <2>7. QED
    BY <2>5, <2>6
<1>4. CASE byId = {} /\ Len(Intents(t)) = 1
  <2>1. CallOf(t, i) = Intents(t)[1].tool
    BY <1>4 DEF CallOf
  <2>2. S \in SUBSET (1 .. Len(t.events)) /\ Intents(t) = EventsAt(t, S)
    BY DEF Intents
  <2>3. i - 1 \in S
    BY <1>1, <1>2, AlikePositions
  <2> HIDE DEF S, byId
  <2>4. Cardinality(S) \in Nat /\ Enumerates(InOrder(S), Cardinality(S), S)
    BY <1>1, <2>2, InOrderEnumerates
  <2>5. Cardinality(S) = 1
    BY <1>4, <2>2, <2>4 DEF EventsAt
  <2>6. InOrder(S)[1] = i - 1
    BY <2>3, <2>4, <2>5 DEF Enumerates
  <2>7. Intents(t)[1] = t.events[i - 1]
    BY <2>2, <2>5, <2>6 DEF EventsAt
  <2>8. QED
    BY <2>1, <2>7
<1>5. CASE byId = {} /\ Len(Intents(t)) # 1
  BY <1>5 DEF CallOf
<1>6. QED
  BY <1>3, <1>4, <1>5

(* A call was contained exactly when one was not run.                       *)
LEMMA ContainedIsNotRun ==
    ASSUME LoopInv, SessionInv, NEW t, NEW named \in BOOLEAN, Alike(t, named)
    PROVE  ObservedContained(t) <=> Len(ran) < Len(Intents(t))
<1> DEFINE S == {i \in 1 .. Len(events) : IsIntent(events[i])}
<1>1. /\ Len(events) \in Nat /\ Len(t.events) = Len(events) /\ TypeInv /\ RunsAreRan
      /\ Cardinality(Runs) = Len(ran)
  BY DEF LoopInv, TypeInv, Alike, RunsAreRan
<1>2. {i \in 1 .. Len(t.events) : IsIntent(t.events[i])} = S
  BY <1>1, AlikePositions
<1>3. Intents(t) = EventsAt(t, S)
  BY <1>2 DEF Intents
<1>4. S \in SUBSET (1 .. Len(events)) /\ Runs \in SUBSET S
  BY DEF Runs
<1>5. \A i \in 1 .. Len(events) : IsDecision(events[i]) =>
            (ExecutedUnder(events[i].decision) <=> ~Contained(events[i].decision))
  <2>1. TAKE i \in 1 .. Len(events)
  <2>2. SUFFICES ASSUME IsDecision(events[i])
                 PROVE  ExecutedUnder(events[i].decision) <=> ~Contained(events[i].decision)
    OBVIOUS
  <2>3. events[i].decision.verdict \in {"ALLOW", "DENY"}
    BY <1>1, <2>2, EventsAre DEF DecisionEvent, Decision
  <2>4. QED
    BY <2>3 DEF ExecutedUnder, Contained
<1> HIDE DEF S
<1>6. IsFiniteSet(S) /\ Cardinality(S) \in Nat
  BY <1>1, <1>4, InOrderEnumerates
<1>7. /\ Cardinality(Runs) \in Nat /\ Cardinality(Runs) <= Cardinality(S)
      /\ Cardinality(S) = Cardinality(Runs) => S = Runs
  <2>1. Runs \in SUBSET (1 .. Len(events))
    BY <1>4
  <2>2. Cardinality(Runs) \in Nat
    BY <1>1, <2>1, InOrderEnumerates
  <2>3. QED
    BY <1>4, <1>6, <2>2, FS_Subset
<1>8. Len(Intents(t)) = Cardinality(S)
  BY <1>3, <1>6 DEF EventsAt
<1>9. ObservedContained(t) <=> S # Runs
  <2>1. ASSUME ObservedContained(t)
        PROVE  S # Runs
    <3>1. PICK i \in 1 .. Len(t.events) : IsDecision(t.events[i]) /\ Contained(t.events[i].decision)
      BY <2>1 DEF ObservedContained
    <3>2. i \in 1 .. Len(events) /\ IsDecision(events[i]) /\ Contained(events[i].decision)
      BY <3>1, AlikePositions
    <3>3. i - 1 \in 1 .. Len(events) /\ IsIntent(events[i - 1]) /\ (i - 1) + 1 = i
      BY <3>2, EventsFollow
    <3>4. i - 1 \in S /\ i - 1 \notin Runs
      BY <1>5, <3>2, <3>3 DEF S, Runs
    <3>5. QED
      BY <3>4
  <2>2. ASSUME S # Runs
        PROVE  ObservedContained(t)
    <3>1. PICK i \in S : i \notin Runs
      BY <1>4, <2>2
    <3>2. i \in 1 .. Len(events) /\ IsIntent(events[i])
      BY <3>1 DEF S
    <3>3. i + 1 \in 1 .. Len(events) /\ IsDecision(events[i + 1])
      BY <3>2, EventsFollow
    <3>4. ~ExecutedUnder(events[i + 1].decision)
      BY <3>1, <3>2 DEF Runs
    <3>5. Contained(events[i + 1].decision)
      BY <1>5, <3>3, <3>4
    <3>6. i + 1 \in 1 .. Len(t.events) /\ IsDecision(t.events[i + 1])
          /\ t.events[i + 1].decision = events[i + 1].decision
      BY <1>1, <3>3, AlikePositions
    <3>7. QED
      BY <3>5, <3>6 DEF ObservedContained
  <2>3. QED
    BY <2>1, <2>2
<1>10. QED
  BY <1>1, <1>7, <1>8, <1>9

(* The lineage of a decision grows from the value that drove it, and never  *)
(* loses one: it holds everything that value was derived from.              *)
LEMMA LineageHolds ==
    ASSUME NEW t, Len(t.values) \in Nat, NEW i, NEW ids,
           ids = {t.values[k].id : k \in 1 .. Len(t.values)},
           t.events[i].decision.driving \in ids
    PROVE  ids \cap ValueOf(t, t.events[i].decision.driving).from \subseteq Lineage(t, i)
<1> DEFINE d == t.events[i].decision.driving
           N == Len(t.values)
           Wider(S) == S \cup (ids \cap UNION {ValueOf(t, id).from : id \in S})
           Pass(f, m) == f = [n \in 0 .. m |-> IF n = 0 THEN {d} \cap ids ELSE Wider(f[n - 1])]
           Passed == {m \in Nat : \E f : Pass(f, m)}
<1>1. 0 \in Passed
  <2>1. Pass([n \in 0 .. 0 |-> {d} \cap ids], 0)
    OBVIOUS
  <2>2. QED
    BY <2>1
<1>2. \A m \in Passed : m + 1 \in Passed
  <2> HIDE DEF Pass
  <2>0. SUFFICES ASSUME NEW m \in Nat, \E f : Pass(f, m)
                 PROVE  \E g : Pass(g, m + 1)
    OBVIOUS
  <2>1. PICK f : Pass(f, m)
    BY <2>0
  <2> USE DEF Pass
  <2> HIDE DEF Wider, d
  <2> DEFINE g == [n \in 0 .. m + 1 |-> IF n = m + 1 THEN Wider(f[m]) ELSE f[n]]
  <2>2. \A n \in 0 .. m : g[n] = f[n]
    OBVIOUS
  <2>3. \A n \in 0 .. m : f[n] = IF n = 0 THEN {d} \cap ids ELSE Wider(f[n - 1])
    BY <2>1
  <2>4. \A n \in 0 .. m + 1 : g[n] = IF n = 0 THEN {d} \cap ids ELSE Wider(g[n - 1])
    <3>1. TAKE n \in 0 .. m + 1
    <3>2. CASE n = m + 1
      <4>1. n # 0 /\ n - 1 = m /\ m \in 0 .. m
        BY <3>2
      <4>2. g[n] = Wider(f[m])
        BY <3>2
      <4>3. QED
        BY <2>2, <4>1, <4>2
    <3>3. CASE n \in 0 .. m
      <4>1. g[n] = f[n]
        BY <2>2, <3>3
      <4>2. n # 0 => n - 1 \in 0 .. m
        BY <3>3
      <4>3. n # 0 => g[n - 1] = f[n - 1]
        BY <2>2, <4>2
      <4>4. f[n] = IF n = 0 THEN {d} \cap ids ELSE Wider(f[n - 1])
        BY <2>3, <3>3
      <4> HIDE DEF g
      <4>5. QED
        BY <4>1, <4>3, <4>4
    <3>4. QED
      BY <3>2, <3>3
  <2>5. DOMAIN g = 0 .. m + 1 /\ g = [n \in 0 .. m + 1 |-> g[n]]
    OBVIOUS
  <2> HIDE DEF g
  <2>6. Pass(g, m + 1)
    BY <2>4, <2>5
  <2>7. QED
    BY <2>6
<1>3. Passed \in SUBSET Nat
  OBVIOUS
<1> HIDE DEF Passed
<1>4. Passed = Nat
  BY <1>1, <1>2, <1>3, Counting
<1>5. \E f : Pass(f, N)
  BY <1>4 DEF Passed
<1>6. Pass(CHOOSE f : Pass(f, N), N)
  BY <1>5
<1> DEFINE grow == CHOOSE f : Pass(f, N)
<1>7. Lineage(t, i) = grow[N]
  BY DEF Lineage
<1>8. \A n \in 0 .. N : grow[n] = IF n = 0 THEN {d} \cap ids ELSE Wider(grow[n - 1])
  <2> HIDE DEF Wider, d
  <2>1. grow = [n \in 0 .. N |-> IF n = 0 THEN {d} \cap ids ELSE Wider(grow[n - 1])]
    BY <1>6
  <2> HIDE DEF grow
  <2>2. QED
    BY <2>1
<1> HIDE DEF grow, Pass
<1>9. grow[0] = {d} \cap ids
  <2> HIDE DEF Wider, d
  <2>1. 0 \in 0 .. N
    OBVIOUS
  <2> HIDE DEF N
  <2>2. QED
    BY <1>8, <2>1
<1>10. N # 0
  <2>1. d \in ids
    OBVIOUS
  <2>2. QED
    BY <2>1
<1>11. grow[1] = Wider(grow[0])
  <2> HIDE DEF Wider, d
  <2>1. 1 \in 0 .. N /\ 1 # 0 /\ 1 - 1 = 0
    BY <1>10
  <2> HIDE DEF N
  <2>2. grow[1] = Wider(grow[1 - 1])
    BY <1>8, <2>1
  <2>3. QED
    BY <2>1, <2>2
<1>12. ids \cap ValueOf(t, d).from \subseteq grow[1]
  <2>1. d \in grow[0]
    BY <1>9
  <2>2. QED
    BY <1>11, <2>1
<1>13. \A n \in 0 .. N : n # 0 => grow[1] \subseteq grow[n]
  <2> DEFINE K == {n \in Nat : n + 1 \in 0 .. N => grow[1] \subseteq grow[n + 1]}
  <2>1. 0 \in K
    OBVIOUS
  <2>2. \A n \in K : n + 1 \in K
    <3>1. SUFFICES ASSUME NEW n \in K, (n + 1) + 1 \in 0 .. N
                   PROVE  grow[1] \subseteq grow[(n + 1) + 1]
      OBVIOUS
    <3>2. n \in Nat /\ n + 1 \in 0 .. N /\ (n + 1) + 1 # 0 /\ ((n + 1) + 1) - 1 = n + 1
      BY <3>1
    <3>3. grow[1] \subseteq grow[n + 1]
      BY <3>2
    <3> HIDE DEF Wider, d, K
    <3>4. grow[(n + 1) + 1] = Wider(grow[n + 1])
      BY <1>8, <3>1, <3>2
    <3>5. grow[n + 1] \subseteq Wider(grow[n + 1])
      BY DEF Wider
    <3>6. QED
      BY <3>3, <3>4, <3>5
  <2>3. K \in SUBSET Nat
    OBVIOUS
  <2> HIDE DEF K
  <2>4. K = Nat
    BY <2>1, <2>2, <2>3, Counting
  <2>5. SUFFICES ASSUME NEW n \in 0 .. N, n # 0
                 PROVE  grow[1] \subseteq grow[n]
    OBVIOUS
  <2>6. n - 1 \in Nat /\ (n - 1) + 1 = n
    BY <2>5
  <2>7. n - 1 \in K
    BY <2>4, <2>6
  <2>8. QED
    BY <2>6, <2>7 DEF K
<1>14. N \in 0 .. N
  OBVIOUS
<1> HIDE DEF Wider, d, N
<1>15. grow[1] \subseteq grow[N]
  BY <1>10, <1>13, <1>14
<1>16. ids \cap ValueOf(t, d).from \subseteq Lineage(t, i)
  BY <1>7, <1>12, <1>15
<1>17. QED
  BY <1>16 DEF d

(* where nothing was redacted, no sensitive source was read                 *)
LEMMA WholeIsUnarmed ==
    ASSUME LoopInv, SessionInv, IsWhole(Recorded), NEW i \in 1 .. Len(events)
    PROVE  ~FloorIn(events, i)
<1>1. SUFFICES ASSUME NEW r \in 1 .. i - 1, IsResult(events[r]), events[r].tool \in Sensitive
               PROVE  FALSE
  BY DEF FloorIn
<1>2. Len(events) \in Nat /\ TypeInv /\ Ledgered /\ Resulted
  BY DEF LoopInv, SessionInv, TypeInv
<1>3. r \in 1 .. Len(events)
  BY <1>2
<1>4. PICK id \in 1 .. Len(values) : Makes(values, events[r], id)
  BY <1>1, <1>2, <1>3 DEF Resulted
<1>5. "sensitive" \in values[id].labels
  BY <1>1, <1>4 DEF Makes, ResultLabels
<1>6. values[id].data = None
  BY <1>2, <1>5 DEF Ledgered
<1>7. Recorded.values[id].data # None
  BY <1>4 DEF IsWhole, Recorded
<1>8. QED
  BY <1>6, <1>7 DEF Recorded

(* A call that was denied was bound to what an untrusted tool returned.     *)
LEMMA DeniedIsTainted ==
    ASSUME LoopInv, SessionInv, Egress \subseteq Driven, IsWhole(Recorded),
           NEW i \in 1 .. Len(events), IsDecision(events[i]), events[i].decision.verdict = "DENY"
    PROVE  /\ events[i].decision.driving \in 1 .. Len(values)
           /\ \E r \in 1 .. Len(events) :
                /\ IsResult(events[r]) /\ events[r].tool \in Untrusted
                /\ events[r].makes \subseteq values[events[i].decision.driving].from
<1> DEFINE x == events[i - 1]
           data == DataIn(values, x.bound)
<1>1. Len(events) \in Nat /\ TypeInv /\ Ledgered /\ Decided /\ Derived
  BY DEF LoopInv, SessionInv, TypeInv
<1>2. i - 1 \in 1 .. Len(events) /\ IsIntent(x) /\ ~IsResult(x)
  BY EventsFollow
<1>3. events[i].decision =
        GateWithGovernor("pinned", enforcement, TaintIn(events, i), FloorIn(events, i),
                         x.tool, x.bound, data)
  BY <1>1 DEF Decided
<1> HIDE DEF x, data
<1>4. Denies("pinned", TaintIn(events, i), FloorIn(events, i), x.tool, data)
  BY <1>3 DEF GateWithGovernor
<1>5. x.tool \in Egress /\ data \in TaintIn(events, i)
  BY <1>4, WholeIsUnarmed DEF Denies
<1>6. PICK r \in 1 .. i - 1 : /\ IsResult(events[r]) /\ events[r].tool \in Untrusted
                              /\ data = FixtureResult(events[r].tool)
  BY <1>5 DEF TaintIn
<1>7. r \in 1 .. Len(events) /\ r < i - 1
  <2>1. r # i - 1
    BY <1>2, <1>6 DEF x
  <2>2. QED
    BY <1>1, <2>1
<1>8. data # None
  <2>1. events[r] \in ResultEvent
    BY <1>1, <1>6, <1>7, EventsAre
  <2>2. events[r].tool \in DOMAIN Manifests
    BY <2>1 DEF ResultEvent
  <2>3. QED
    BY <1>6, <2>2, LoopAssumption DEF FixtureResult
<1>9. "to" \in DOMAIN x.bound /\ data = values[x.bound["to"]].hash
  BY <1>8 DEF data, DataIn
<1>10. events[i].decision.driving = x.bound["to"]
  BY <1>3, <1>5, <1>9 DEF GateWithGovernor
<1>11. x.bound["to"] \in 1 .. Len(values)
  BY <1>1, <1>2, <1>9 DEF Ledgered, x
<1>12. events[r].makes \subseteq values[x.bound["to"]].from
  <2>1. DerivedFrom(events, values, i - 1, r)
    BY <1>1, <1>2, <1>7 DEF Derived
  <2>2. QED
    BY <1>2, <1>6, <1>9, <2>1 DEF DerivedFrom, x
<1>13. QED
  BY <1>6, <1>7, <1>10, <1>11, <1>12

(* A denial leads back to what an untrusted tool returned.                  *)
LEMMA DenialIsTraced ==
    ASSUME LoopInv, SessionInv, Egress \subseteq Driven, IsWhole(Recorded),
           NEW t, NEW named \in BOOLEAN, Alike(t, named),
           NEW i \in 1 .. Len(events), IsDecision(events[i]), events[i].decision.verdict = "DENY"
    PROVE  \E r \in 1 .. Len(events) :
                /\ IsResult(events[r]) /\ events[r].tool \in Untrusted
                /\ events[r].makes \cap Lineage(t, i) # {}
<1> DEFINE d == events[i].decision.driving
           ids == {t.values[k].id : k \in 1 .. Len(t.values)}
<1>1. /\ t.values = values /\ Len(t.events) = Len(events)
      /\ TypeInv /\ Ledgered /\ Resulted /\ Len(values) \in Nat /\ Len(events) \in Nat
  BY DEF LoopInv, SessionInv, TypeInv, Alike
<1>2. d \in 1 .. Len(values)
  BY DeniedIsTainted
<1>3. PICK r \in 1 .. Len(events) : /\ IsResult(events[r]) /\ events[r].tool \in Untrusted
                                    /\ events[r].makes \subseteq values[d].from
  BY DeniedIsTainted
<1>4. PICK id \in 1 .. Len(values) : Makes(values, events[r], id)
  BY <1>1, <1>3 DEF Resulted
<1>5. events[r].makes = {id} /\ id \in values[d].from
  BY <1>3, <1>4 DEF Makes
<1>6. ids = 1 .. Len(values)
  <2>1. \A k \in 1 .. Len(t.values) : t.values[k].id = k
    BY <1>1 DEF Ledgered
  <2>2. QED
    BY <1>1, <2>1
<1>7. ValueOf(t, d) = values[d]
  <2>1. ValueOf(Recorded, d) = values[d]
    BY <1>2, ValueIs
  <2>2. Recorded.values = values
    BY DEF Recorded
  <2>3. QED
    BY <1>1, <2>1, <2>2 DEF ValueOf
<1>8. t.events[i].decision.driving = d
  BY <1>1, AlikePositions
<1> HIDE DEF d
<1>9. t.events[i].decision.driving \in ids
  BY <1>2, <1>6, <1>8
<1>10. Len(t.values) \in Nat
  BY <1>1
<1>11. ids \cap ValueOf(t, t.events[i].decision.driving).from \subseteq Lineage(t, i)
  BY <1>9, <1>10, LineageHolds
<1> HIDE DEF ids
<1>12. id \in Lineage(t, i)
  BY <1>4, <1>5, <1>6, <1>7, <1>8, <1>11
<1>13. QED
  BY <1>3, <1>5, <1>12

(* A case is about one call, of the recorded trace or of the same without   *)
(* its call_ids.                                                            *)
LEMMA AlikeIsOneCall ==
    ASSUME LoopInv, SessionInv, Egress \subseteq Driven,
           NEW t, NEW named \in BOOLEAN, Alike(t, named), Verdicts(Recorded) # <<>>
    PROVE  /\ Chain(t).tool \in {None, t.events[TargetDecision(t) - 1].tool}
           /\ FirstDenial(t) # {} => DenyClaim(t).tool = Chain(t).tool
           /\ ObservedContained(t) <=> Len(ran) < Len(Intents(t))
           /\ Chain(t).verdict.verdict = "DENY" /\ IsWhole(Recorded) =>
                \E e \in Range(Recorded.events) :
                    IsResult(e) /\ e.tool \in Untrusted /\ e.makes \cap Chain(t).provenance # {}
<1> DEFINE i == TargetDecision(t)
<1>1. i \in 1 .. Len(events) /\ IsDecision(events[i])
  BY TargetIs
<1>2. /\ Chain(t).verdict = t.events[i].decision /\ Chain(t).tool = CallOf(t, i)
      /\ Chain(t).provenance = Lineage(t, i)
  BY DEF Chain
<1>3. FirstDenial(t) # {} => DenyClaim(t).tool = CallOf(t, i)
  BY DEF DenyClaim, TargetDecision
<1> HIDE DEF i
<1>4. CallOf(t, i) \in {None, t.events[i - 1].tool}
  BY <1>1, CallOfIs
<1>5. t.events[i].decision = events[i].decision
  BY <1>1, AlikePositions DEF Alike
<1>6. ASSUME Chain(t).verdict.verdict = "DENY", IsWhole(Recorded)
      PROVE  \E e \in Range(Recorded.events) :
                IsResult(e) /\ e.tool \in Untrusted /\ e.makes \cap Chain(t).provenance # {}
  <2>1. events[i].decision.verdict = "DENY"
    BY <1>2, <1>5, <1>6
  <2>2. PICK r \in 1 .. Len(events) : /\ IsResult(events[r]) /\ events[r].tool \in Untrusted
                                      /\ events[r].makes \cap Lineage(t, i) # {}
    BY <1>1, <1>6, <2>1, DenialIsTraced
  <2>3. Recorded.events = events /\ DOMAIN events = 1 .. Len(events)
    BY DEF Recorded, LoopInv, TypeInv
  <2>4. events[r] \in Range(Recorded.events)
    BY <2>3 DEF Range
  <2>5. QED
    BY <1>2, <2>2, <2>4
<1>7. QED
  BY <1>2, <1>3, <1>4, <1>6, ContainedIsNotRun DEF i

(* An evidence case and a claim are about the call the decision was made    *)
(* on, and say that one was contained exactly when one was not run; and a   *)
(* denial for taint leads back to what an untrusted tool returned -- for    *)
(* any agent, tools and budgets, where a tool that exports declares the     *)
(* argument that drives it (evidence.py 182-256, claims.py 8-53).           *)
THEOREM ChainIsAlwaysOneCall ==
  ASSUME Egress \subseteq Driven
  PROVE  RereadingSpec => []ChainIsOneCall
<1>1. RereadingInv => ChainIsOneCall
  <2>1. SUFFICES ASSUME RereadingInv, Read, governed, held \in {trace, Unnamed(trace)},
                        Verdicts(trace) # <<>>
                 PROVE  /\ Chain(held).tool \in {None, held.events[TargetDecision(held) - 1].tool}
                        /\ FirstDenial(held) # {} => DenyClaim(held).tool = Chain(held).tool
                        /\ ObservedContained(held) <=> Len(ran) < Len(Intents(held))
                        /\ Chain(held).verdict.verdict = "DENY" /\ IsWhole(trace) =>
                             \E e \in Range(trace.events) :
                                IsResult(e) /\ e.tool \in Untrusted
                                /\ e.makes \cap Chain(held).provenance # {}
    BY DEF ChainIsOneCall
  <2>2. LoopInv /\ SessionInv /\ trace = Recorded
    BY <2>1, ReadIsRecorded
  <2>3. \E named \in BOOLEAN : Alike(held, named)
    BY <2>1, <2>2, RecordedIsAlike, UnnamedIsAlike
  <2>4. QED
    BY <2>1, <2>2, <2>3, AlikeIsOneCall
<1>2. QED
  BY <1>1, RereadingInvHolds, PTL

----------------------------------------------------------------------------
(* A trace that was changed *)

(* Every call that was carried out is one of those the host ran.            *)
LEMMA RunWasRan ==
    ASSUME LoopInv, NEW i \in Runs
    PROVE  \E k \in 1 .. Len(ran) : /\ ran[k].call = events[i].call
                                    /\ ran[k].tool = events[i].tool
<1>1. Len(events) \in Nat /\ Runs \in SUBSET (1 .. Len(events)) /\ RunsAreRan
  BY DEF LoopInv, TypeInv, Runs
<1>2. Enumerates(InOrder(Runs), Cardinality(Runs), Runs)
  BY <1>1, InOrderEnumerates
<1>3. PICK k \in 1 .. Cardinality(Runs) : InOrder(Runs)[k] = i
  BY <1>2 DEF Enumerates
<1>4. QED
  BY <1>1, <1>3 DEF RunsAreRan

(* t holds events of the recorded trace: some lost, repeated or moved       *)
Rearranged(t) ==
    /\ Len(t.events) \in Nat
    /\ \A k \in 1 .. Len(t.events) : \E j \in 1 .. Len(events) : t.events[k] = events[j]
    /\ Gated(t)

(* However events are rearranged, a call counts as executed only by the     *)
(* decision that was made on it.                                            *)
LEMMA RearrangedIsRan ==
    ASSUME LoopInv, NEW t, Rearranged(t), NEW i \in ExecutedCalls(t)
    PROVE  /\ t.events[i].call # None
           /\ \E k \in 1 .. Len(ran) : /\ ran[k].call = t.events[i].call
                                       /\ ran[k].tool = t.events[i].tool
<1> DEFINE byId == {j \in 1 .. Len(t.events) :
                        IsDecision(t.events[j]) /\ t.events[j].call = t.events[i].call}
           d == DecisionFor(t.events, i)
<1>1. /\ TypeInv /\ Placed /\ Len(t.events) \in Nat /\ Len(events) \in Nat
      /\ \A k \in 1 .. Len(t.events) : \E j \in 1 .. Len(events) : t.events[k] = events[j]
  BY DEF LoopInv, TypeInv, Rearranged
<1>2. /\ i \in 1 .. Len(t.events) /\ IsIntent(t.events[i])
      /\ d # None /\ ExecutedUnder(d)
  BY DEF ExecutedCalls, Executed, Rearranged
<1>3. PICK x \in 1 .. Len(events) : t.events[i] = events[x]
  BY <1>1, <1>2
<1>4. t.events[i].call # None /\ IsIntent(events[x])
  BY <1>1, <1>2, <1>3, EventsAre, AbsentIsNoValue
<1>5. byId # {} /\ d = t.events[FirstOf(byId)].decision
  BY <1>2, <1>4 DEF DecisionFor
<1>6. FirstOf(byId) \in byId
  <2>1. byId \in SUBSET Nat
    OBVIOUS
  <2> HIDE DEF byId
  <2>2. QED
    BY <1>5, <2>1, FirstOfIs
<1>7. PICK y \in 1 .. Len(events) : t.events[FirstOf(byId)] = events[y]
  BY <1>1, <1>6
<1>8. IsDecision(events[y]) /\ events[y].call = events[x].call /\ d = events[y].decision
  BY <1>3, <1>5, <1>6, <1>7
<1>9. /\ x + 1 \in 1 .. Len(events) /\ IsDecision(events[x + 1])
      /\ events[x + 1].call = events[x].call
  BY <1>1, <1>4 DEF Placed
<1>10. y = x + 1
  <2>1. events[y].call # None
    BY <1>1, EventsAre, AbsentIsNoValue
  <2>2. \A j, k \in 1 .. Len(events) :
            j # k /\ events[j].type = events[k].type /\ events[j].type # "tool_result"
                => events[j].call = None \/ events[j].call # events[k].call
    BY <1>1 DEF Placed, OneCallOneId, Recorded
  <2>3. events[y].type = "gate_decision" /\ events[x + 1].type = "gate_decision"
    BY <1>8, <1>9 DEF IsDecision
  <2>4. events[y].call = events[x + 1].call
    BY <1>8, <1>9
  <2> DEFINE z == x + 1
  <2>5. z \in 1 .. Len(events) /\ events[z].type = "gate_decision" /\ events[y].call = events[z].call
    BY <1>9, <2>3, <2>4
  <2> HIDE DEF z
  <2>6. y = z
    BY <2>1, <2>2, <2>3, <2>5
  <2>7. QED
    BY <2>6 DEF z
<1>11. x \in Runs
  BY <1>2, <1>4, <1>8, <1>10 DEF Runs
<1>12. QED
  BY <1>3, <1>4, <1>11, RunWasRan

(* Without call_ids, a call counts by the decision after it.                *)
LEMMA UnnamedIsRan ==
    ASSUME LoopInv
    PROVE  Cardinality(ExecutedCalls(Unnamed(Recorded))) = Len(ran)
<1> DEFINE t == Unnamed(Recorded)
<1>0. PICK named \in BOOLEAN : Alike(t, named) /\ ~named
  BY UnnamedIsAlike, Zenon
<1> HIDE DEF t
<1>1. TypeInv /\ Placed /\ Len(events) \in Nat /\ Cardinality(Runs) = Len(ran)
  BY DEF LoopInv, TypeInv, RunsAreRan
<1>2. Len(t.events) = Len(events)
  BY <1>0 DEF Alike
<1>3. \A i \in 1 .. Len(events) :
        /\ IsIntent(t.events[i]) <=> IsIntent(events[i])
        /\ IsDecision(t.events[i]) <=> IsDecision(events[i])
        /\ IsDecision(events[i]) => t.events[i].decision = events[i].decision
        /\ t.events[i].call = None
  BY <1>0, <1>2, AlikePositions
<1>4. ASSUME NEW i \in 1 .. Len(events), IsIntent(events[i])
      PROVE  /\ DecisionFor(t.events, i) = events[i + 1].decision
             /\ events[i + 1].decision # None
  <2> DEFINE later == {j \in i + 1 .. Len(t.events) :
                            IsDecision(t.events[j]) \/ IsIntent(t.events[j])}
  <2>1. i + 1 \in 1 .. Len(events) /\ IsDecision(events[i + 1])
    BY <1>1, <1>4 DEF Placed
  <2>2. i + 1 \in later /\ \A j \in later : i + 1 <= j
    BY <1>1, <1>2, <1>3, <2>1
  <2>3. later \in SUBSET Nat
    OBVIOUS
  <2> HIDE DEF later
  <2>4. FirstOf(later) = i + 1
    <3>1. FirstOf(later) \in later /\ \A j \in later : FirstOf(later) <= j
      BY <2>2, <2>3, FirstOfIs
    <3>2. FirstOf(later) \in Nat /\ FirstOf(later) <= i + 1 /\ i + 1 <= FirstOf(later)
      BY <2>2, <2>3, <3>1
    <3>3. QED
      BY <3>2
  <2>5. DecisionFor(t.events, i) = t.events[i + 1].decision
    BY <1>3, <2>1, <2>2, <2>4 DEF DecisionFor, later
  <2>6. events[i + 1].decision \in Decision
    BY <1>1, <2>1, EventsAre DEF DecisionEvent
  <2>7. QED
    BY <1>3, <2>1, <2>5, <2>6, AbsentIsNoValue
<1>5. \A i \in 1 .. Len(events) :
        Executed(t, i) <=> IsIntent(events[i]) /\ ExecutedUnder(events[i + 1].decision)
  BY <1>3, <1>4 DEF Executed
<1>6. ExecutedCalls(t) = Runs
  BY <1>2, <1>5 DEF ExecutedCalls, Runs
<1>7. QED
  BY <1>1, <1>6 DEF t

(* s holds members of es *)
PartsOf(s, es) ==
    Len(s) \in Nat /\ \A k \in 1 .. Len(s) : \E j \in 1 .. Len(es) : s[k] = es[j]

(* What is left of a sequence from a place on.                              *)
LEMMA RestIs ==
    ASSUME NEW S, NEW es \in Seq(S), NEW a \in 1 .. Len(es) + 1
    PROVE  LET rest == SubSeq(es, a, Len(es))
           IN  /\ rest \in Seq(S) /\ Len(rest) = Len(es) - a + 1
               /\ \A k \in 1 .. Len(es) - a + 1 : rest[k] = es[a + k - 1]
<1> DEFINE n == Len(es)
<1>1. n \in Nat /\ DOMAIN es = 1 .. n /\ a \in Int /\ n \in Int
  OBVIOUS
<1>2. \A k \in a .. n : es[k] \in S
  <2>1. \A k \in a .. n : k \in 1 .. n
    BY <1>1
  <2>2. QED
    BY <2>1
<1> HIDE DEF n
<1>3. /\ SubSeq(es, a, n) \in Seq(S)
      /\ Len(SubSeq(es, a, n)) = IF a <= n THEN n - a + 1 ELSE 0
      /\ \A k \in 1 .. n - a + 1 : SubSeq(es, a, n)[k] = es[a + k - 1]
  BY <1>1, <1>2, SubSeqProperties
<1>4. ~(a <= n) => n - a + 1 = 0
  BY <1>1 DEF n
<1>5. QED
  BY <1>3, <1>4 DEF n

(* Cutting, dropping, repeating or exchanging leaves members of a sequence. *)
LEMMA PartsStay ==
    ASSUME NEW S, NEW es \in Seq(S)
    PROVE  /\ PartsOf(es, es)
           /\ \A i \in 0 .. Len(es) - 1 : PartsOf(SubSeq(es, 1, i), es)
           /\ \A i \in 1 .. Len(es) : PartsOf(RemoveAt(es, i), es)
           /\ \A i \in 1 .. Len(es) : PartsOf(InsertAt(es, i, es[i]), es)
           /\ \A i \in 1 .. Len(es) - 1 : PartsOf(Swapped(es, i), es)
<1> DEFINE n == Len(es)
<1>1. n \in Nat /\ DOMAIN es = 1 .. n
  OBVIOUS
<1>2. PartsOf(es, es)
  BY DEF PartsOf
<1>3. ASSUME NEW i \in 0 .. n - 1
      PROVE  PartsOf(SubSeq(es, 1, i), es)
  <2>1. Len(SubSeq(es, 1, i)) = i /\ \A k \in 1 .. i : SubSeq(es, 1, i)[k] = es[k]
    BY <1>1
  <2>2. \A k \in 1 .. i : k \in 1 .. n
    BY <1>1
  <2>3. QED
    BY <1>1, <2>1, <2>2 DEF PartsOf
<1>4. ASSUME NEW i \in 1 .. n
      PROVE  PartsOf(RemoveAt(es, i), es) /\ PartsOf(InsertAt(es, i, es[i]), es)
  <2> DEFINE a == SubSeq(es, 1, i - 1)
             b == SubSeq(es, i + 1, n)
             c == SubSeq(es, i, n)
  <2>1. /\ a \in Seq(S) /\ Len(a) = i - 1 /\ \A k \in 1 .. i - 1 : a[k] = es[k]
    BY <1>1
  <2>2. /\ b \in Seq(S) /\ Len(b) = n - i /\ \A k \in 1 .. n - i : b[k] = es[i + k]
    <3> DEFINE z == i + 1
    <3>1. /\ z \in 1 .. n + 1 /\ n - z + 1 = n - i
          /\ \A k \in 1 .. n - i : z + k - 1 = i + k
      BY <1>1
    <3>2. b = SubSeq(es, z, n)
      OBVIOUS
    <3> HIDE DEF z, b
    <3>3. /\ b \in Seq(S) /\ Len(b) = n - z + 1
          /\ \A k \in 1 .. n - z + 1 : b[k] = es[z + k - 1]
      BY <3>1, <3>2, RestIs
    <3> HIDE DEF n
    <3>4. QED
      BY <3>1, <3>3
  <2>3. /\ c \in Seq(S) /\ Len(c) = n - i + 1 /\ \A k \in 1 .. n - i + 1 : c[k] = es[i + k - 1]
    <3>1. i \in 1 .. n + 1
      BY <1>1
    <3>2. QED
      BY <3>1, RestIs
  <2>4. RemoveAt(es, i) = a \o b /\ InsertAt(es, i, es[i]) = (a \o <<es[i]>>) \o c
    BY DEF RemoveAt, InsertAt
  <2> HIDE DEF a, b, c
  <2>5. PartsOf(a \o b, es)
    <3>0. Len(a \o b) = Len(a) + Len(b)
      BY <2>1, <2>2, ConcatProperties
    <3>1. Len(a \o b) = n - 1
      BY <1>1, <2>1, <2>2, <3>0
    <3>2. \A k \in 1 .. n - 1 : (a \o b)[k] = IF k <= i - 1 THEN es[k] ELSE es[k + 1]
      <4>1. TAKE k \in 1 .. n - 1
      <4>2. CASE k <= i - 1
        BY <1>1, <2>1, <2>2, <4>2
      <4>3. CASE ~(k <= i - 1)
        <5>1. (a \o b)[k] = b[k - (i - 1)] /\ k - (i - 1) \in 1 .. n - i
          BY <1>1, <2>1, <2>2, <4>3
        <5>2. i + (k - (i - 1)) = k + 1
          BY <1>1
        <5>3. QED
          BY <2>2, <4>3, <5>1, <5>2
      <4>4. QED
        BY <4>2, <4>3
    <3>3. \A k \in 1 .. n - 1 : k \in 1 .. n /\ k + 1 \in 1 .. n
      BY <1>1
    <3>4. n - 1 \in Nat
      BY <1>1
    <3>5. QED
      BY <3>1, <3>2, <3>3, <3>4 DEF PartsOf
  <2>6. PartsOf((a \o <<es[i]>>) \o c, es)
    <3> DEFINE d == a \o <<es[i]>>
    <3>1. /\ d \in Seq(S) /\ Len(d) = i /\ \A k \in 1 .. i : d[k] = es[k]
      BY <1>1, <2>1
    <3>9. (a \o <<es[i]>>) \o c = d \o c
      OBVIOUS
    <3> HIDE DEF d
    <3>0. Len(d \o c) = Len(d) + Len(c)
      BY <2>3, <3>1, ConcatProperties
    <3>2. Len(d \o c) = n + 1
      BY <1>1, <2>3, <3>0, <3>1
    <3>3. \A k \in 1 .. n + 1 : (d \o c)[k] = IF k <= i THEN es[k] ELSE es[k - 1]
      <4>1. TAKE k \in 1 .. n + 1
      <4>2. CASE k <= i
        BY <1>1, <2>3, <3>1, <4>2
      <4>3. CASE ~(k <= i)
        <5>1. (d \o c)[k] = c[k - i] /\ k - i \in 1 .. n - i + 1
          BY <1>1, <2>3, <3>1, <4>3
        <5>2. i + (k - i) - 1 = k - 1
          BY <1>1
        <5>3. QED
          BY <2>3, <4>3, <5>1, <5>2
      <4>4. QED
        BY <4>2, <4>3
    <3>4. \A k \in 1 .. n + 1 : IF k <= i THEN k \in 1 .. n ELSE k - 1 \in 1 .. n
      BY <1>1
    <3>5. n + 1 \in Nat
      BY <1>1
    <3>6. PartsOf(d \o c, es)
      BY <3>2, <3>3, <3>4, <3>5 DEF PartsOf
    <3>7. QED
      BY <3>6, <3>9
  <2>7. QED
    BY <2>4, <2>5, <2>6
<1>5. ASSUME NEW i \in 1 .. n - 1
      PROVE  PartsOf(Swapped(es, i), es)
  <2>1. i \in 1 .. n /\ i + 1 \in 1 .. n /\ i # i + 1
    BY <1>1
  <2>2. /\ Swapped(es, i) \in Seq(S) /\ Len(Swapped(es, i)) = n
        /\ \A k \in 1 .. n : Swapped(es, i)[k] = IF k = i THEN es[i + 1]
                                              ELSE IF k = i + 1 THEN es[i] ELSE es[k]
    BY <1>1, <2>1 DEF Swapped
  <2>3. QED
    BY <1>1, <2>1, <2>2 DEF PartsOf
<1>6. QED
  BY <1>2, <1>3, <1>4, <1>5

(* only the decision at i is another, and it differs in what replay compares *)
DecisionChanged(t, i) ==
    /\ t.values = values /\ Len(t.events) = Len(events)
    /\ \A k \in 1 .. Len(events) : k # i => t.events[k] = events[k]
    /\ IsDecision(t.events[i]) /\ t.events[i].call = events[i].call
    /\ t.events[i].node = events[i].node
    /\ VerdictCore(t.events[i].decision) # VerdictCore(events[i].decision)

LEMMA OneDecisionChanged ==
    ASSUME LoopInv, NEW i \in 1 .. Len(events), IsDecision(events[i]), NEW t, NEW d,
           t.values = values, t.events = [events EXCEPT ![i] = [@ EXCEPT !.decision = d]],
           VerdictCore(d) # VerdictCore(events[i].decision)
    PROVE  DecisionChanged(t, i)
<1> DEFINE e == [events[i] EXCEPT !.decision = d]
<1>1. events[i] \in DecisionEvent /\ Len(events) \in Nat /\ DOMAIN events = 1 .. Len(events)
  BY EventsAre DEF LoopInv, TypeInv
<1>2. /\ e.type = events[i].type /\ e.call = events[i].call /\ e.node = events[i].node
      /\ e.decision = d
  BY <1>1 DEF DecisionEvent
<1> HIDE DEF e
<1>3. t.events = [events EXCEPT ![i] = e]
  BY DEF e
<1>4. /\ Len(t.events) = Len(events) /\ t.events[i] = e
      /\ \A k \in 1 .. Len(events) : k # i => t.events[k] = events[k]
  BY <1>1, <1>3 DEF LoopInv, TypeInv
<1>5. QED
  BY <1>2, <1>4 DEF DecisionChanged, IsDecision

(* what was done to the trace, as far as its calls go *)
LEMMA ChangedIs ==
    ASSUME LoopInv, NEW t \in Changed(Recorded)
    PROVE  \/ Rearranged(t)
           \/ t = Unnamed(Recorded)
           \/ \E i \in 1 .. Len(events) : IsDecision(events[i]) /\ DecisionChanged(t, i)
<1> DEFINE n == Len(events)
           Taken(i) == [Recorded EXCEPT !.events = SubSeq(@, 1, i)]
           Removed(i) == [Recorded EXCEPT !.events = RemoveAt(@, i)]
           Repeated(i) == [Recorded EXCEPT !.events = InsertAt(@, i, @[i])]
           Exchanged(i) == [Recorded EXCEPT !.events = Swapped(@, i)]
           Flipped(i) == [Recorded EXCEPT !.events[i].decision.verdict = Flip(@)]
           Loosened(i) == [Recorded EXCEPT !.events[i].decision.enforced = ~@]
           Lost(i) == [Recorded EXCEPT !.values[i].data = None]
<1>1. /\ Recorded.events = events /\ Recorded.values = values /\ Recorded.kernel = TRUE
      /\ Recorded = [kernel |-> TRUE, events |-> events, values |-> values]
  BY DEF Recorded
<1>2. n \in Nat /\ DOMAIN events = 1 .. n
      /\ events \in Seq(IntentEvent \cup DecisionEvent \cup ResultEvent)
  BY DEF LoopInv, TypeInv
<1>3. \/ t \in {Recorded, Unnamed(Recorded)}
      \/ t \in {Taken(i) : i \in 0 .. n - 1} \/ t \in {Removed(i) : i \in 1 .. n}
      \/ t \in {Repeated(i) : i \in 1 .. n} \/ t \in {Exchanged(i) : i \in 1 .. n - 1}
      \/ t \in {Flipped(i) : i \in {j \in 1 .. n : IsDecision(events[j])}}
      \/ t \in {Loosened(i) : i \in {j \in 1 .. n : IsDecision(events[j])}}
      \/ t \in {Lost(i) : i \in 1 .. Len(values)}
  <2>1. t \in Changed(Recorded)
    OBVIOUS
  <2>2. QED
    BY <1>1, <2>1, Zenon DEF Changed
<1>4. /\ \A i : Taken(i).events = SubSeq(events, 1, i) /\ Taken(i).kernel = TRUE
      /\ \A i : Removed(i).events = RemoveAt(events, i) /\ Removed(i).kernel = TRUE
      /\ \A i : Repeated(i).events = InsertAt(events, i, events[i]) /\ Repeated(i).kernel = TRUE
      /\ \A i : Exchanged(i).events = Swapped(events, i) /\ Exchanged(i).kernel = TRUE
      /\ \A i : Lost(i).events = events /\ Lost(i).kernel = TRUE
  BY <1>1
<1>5. /\ \A i : /\ Flipped(i).values = values
                /\ Flipped(i).events = [events EXCEPT ![i].decision.verdict = Flip(@)]
      /\ \A i : /\ Loosened(i).values = values
                /\ Loosened(i).events = [events EXCEPT ![i].decision.enforced = ~@]
  BY <1>1
<1> HIDE DEF Taken, Removed, Repeated, Exchanged, Flipped, Loosened, Lost
<1>6. PartsOf(t.events, events) /\ t.kernel = TRUE => Rearranged(t)
  BY DEF PartsOf, Rearranged, Gated
<1>7. CASE t = Recorded \/ t \in {Lost(i) : i \in 1 .. Len(values)}
  <2>1. t.events = events /\ t.kernel = TRUE
    BY <1>1, <1>4, <1>7
  <2>2. QED
    BY <1>2, <1>6, <2>1, PartsStay
<1>8. CASE t \in {Taken(i) : i \in 0 .. n - 1}
  <2>1. PICK i \in 0 .. n - 1 : t = Taken(i)
    BY <1>8
  <2>2. t.events = SubSeq(events, 1, i) /\ t.kernel = TRUE
    BY <1>4, <2>1
  <2>3. QED
    BY <1>2, <1>6, <2>2, PartsStay
<1>9. CASE t \in {Removed(i) : i \in 1 .. n}
  <2>1. PICK i \in 1 .. n : t = Removed(i)
    BY <1>9
  <2>2. t.events = RemoveAt(events, i) /\ t.kernel = TRUE
    BY <1>4, <2>1
  <2>3. QED
    BY <1>2, <1>6, <2>2, PartsStay
<1>10. CASE t \in {Repeated(i) : i \in 1 .. n}
  <2>1. PICK i \in 1 .. n : t = Repeated(i)
    BY <1>10
  <2>2. t.events = InsertAt(events, i, events[i]) /\ t.kernel = TRUE
    BY <1>4, <2>1
  <2>3. QED
    BY <1>2, <1>6, <2>2, PartsStay
<1>11. CASE t \in {Exchanged(i) : i \in 1 .. n - 1}
  <2>1. PICK i \in 1 .. n - 1 : t = Exchanged(i)
    BY <1>11
  <2>2. t.events = Swapped(events, i) /\ t.kernel = TRUE
    BY <1>4, <2>1
  <2>3. QED
    BY <1>2, <1>6, <2>2, PartsStay
<1>12. ASSUME NEW i \in 1 .. n, IsDecision(events[i])
       PROVE  t = Flipped(i) \/ t = Loosened(i) => DecisionChanged(t, i)
  <2> DEFINE d == events[i].decision
  <2>1. events[i] \in DecisionEvent /\ d \in Decision
    <3>1. events[i] \in DecisionEvent
      BY <1>12, EventsAre DEF LoopInv
    <3>2. QED
      BY <3>1 DEF DecisionEvent
  <2>2. CASE t = Flipped(i)
    <3> DEFINE f == [d EXCEPT !.verdict = Flip(@)]
    <3>1. t.values = values /\ t.events = [events EXCEPT ![i] = [@ EXCEPT !.decision = f]]
      BY <1>5, <2>2
    <3>2. f.verdict # d.verdict
      BY <2>1 DEF Decision, Flip
    <3> HIDE DEF f, d
    <3>3. VerdictCore(f).verdict = f.verdict /\ VerdictCore(d).verdict = d.verdict
      BY DEF VerdictCore
    <3>4. VerdictCore(f) # VerdictCore(d)
      BY <3>2, <3>3
    <3>5. QED
      BY <1>12, <3>1, <3>4, OneDecisionChanged DEF d
  <2>3. CASE t = Loosened(i)
    <3> DEFINE f == [d EXCEPT !.enforced = ~@]
    <3>1. t.values = values /\ t.events = [events EXCEPT ![i] = [@ EXCEPT !.decision = f]]
      BY <1>5, <2>3
    <3>2. WasEnforced(f) # WasEnforced(d)
      <4>1. d.enforced \in BOOLEAN /\ f.enforced = ~d.enforced
        BY <2>1 DEF Decision
      <4> HIDE DEF f, d
      <4>2. QED
        BY <4>1 DEF WasEnforced
    <3> HIDE DEF f, d
    <3>3. VerdictCore(f).enforced = WasEnforced(f) /\ VerdictCore(d).enforced = WasEnforced(d)
      BY DEF VerdictCore
    <3>4. VerdictCore(f) # VerdictCore(d)
      BY <3>2, <3>3, Zenon
    <3>5. QED
      BY <1>12, <3>1, <3>4, OneDecisionChanged DEF d
  <2>4. QED
    BY <2>2, <2>3
<1>13. QED
  BY <1>3, <1>7, <1>8, <1>9, <1>10, <1>11, <1>12

(* a decision that names its call pairs with the last intent of that name *)
Paired(known, call, decided) ==
    IF known = {} \/ call \in decided THEN 0 ELSE CHOOSE j \in known : \A l \in known : l <= j

LEMMA NamedIsPaired ==
    ASSUME NEW t, NEW k, NEW st, t.events[k].call # None
    PROVE  MatchIntent(t, k, st)
             = Paired(IntentCalled(t, t.events[k].call, k), t.events[k].call, st.decided)
BY Zenon DEF MatchIntent, Paired

(* what is made of the values a call is bound to *)
ValueLost(t, bound) ==
    \E arg \in DOMAIN bound : ValueOf(t, bound[arg]) = None \/ ValueOf(t, bound[arg]).data = None
ArgumentData(t, bound) == IF "to" \in DOMAIN bound THEN ValueOf(t, bound["to"]).data ELSE None
Again(t, at, kern, enf, st) ==
    GateWithGovernor(kern, enf, st.registered, st.armed, t.events[at].tool, t.events[at].bound,
                     ArgumentData(t, t.events[at].bound))
PairedWith(t, k, at, st) ==
    [st EXCEPT !.pending = {j \in @ : j # at \/ t.events[j].node # t.events[k].node},
               !.decided = @ \cup ({t.events[k].call} \ {None})]
ReadMatched(t, k, at, kern, enf, st) ==
    IF at = 0 THEN [st EXCEPT !.malformed = TRUE]
    ELSE IF ValueLost(t, t.events[at].bound) THEN [PairedWith(t, k, at, st) EXCEPT !.redacted = TRUE]
    ELSE [PairedWith(t, k, at, st) EXCEPT
            !.recomputed = Append(@, Again(t, at, kern, enf, st)),
            !.matched = @ /\ VerdictCore(Again(t, at, kern, enf, st))
                                = VerdictCore(t.events[k].decision)]

LEMMA DecisionIsMatched ==
    ASSUME NEW t, NEW k, NEW kern, NEW enf, NEW st, IsDecision(t.events[k])
    PROVE  ReadEvent(t, k, kern, enf, st)
             = ReadMatched(t, k, MatchIntent(t, k, st), kern, enf, st)
<1>1. ~IsResult(t.events[k]) /\ ~IsIntent(t.events[k])
  BY DEF IsDecision, IsResult, IsIntent
<1>2. ReadEvent(t, k, kern, enf, st) = ReadDecision(t, k, kern, enf, st)
  BY <1>1 DEF ReadEvent
<1>3. ReadDecision(t, k, kern, enf, st) = ReadMatched(t, k, MatchIntent(t, k, st), kern, enf, st)
  BY Zenon DEF ReadDecision, ReadMatched, ValueLost, ArgumentData, Again, PairedWith
<1>4. QED
  BY <1>2, <1>3

(* Every event but the changed decision is read as before.                  *)
LEMMA OthersAreRead ==
    ASSUME LoopInv, SessionInv, NEW i \in 1 .. Len(events), IsDecision(events[i]),
           NEW t, DecisionChanged(t, i), NEW kern,
           NEW k \in 1 .. Len(events), NEW st, ReplayedTo(st, kern, k - 1)
    PROVE  /\ IsDecision(events[k]) => MatchIntent(t, k, st) = k - 1
           /\ k # i => ReadEvent(t, k, kern, enforcement, st)
                            = ReadEvent(Recorded, k, kern, enforcement, st)
<1>1. /\ Recorded.events = events /\ Recorded.values = values /\ t.values = values
      /\ Len(t.events) = Len(events) /\ Len(events) \in Nat
      /\ \A j \in 1 .. Len(events) : j # i => t.events[j] = events[j]
  BY DEF Recorded, DecisionChanged, LoopInv, TypeInv
<1>2. \A j \in 1 .. Len(events) : /\ IsIntent(t.events[j]) <=> IsIntent(events[j])
                                  /\ t.events[j].call = events[j].call
                                  /\ t.events[j].node = events[j].node
  <2>1. TAKE j \in 1 .. Len(events)
  <2>2. ~IsIntent(t.events[i]) /\ ~IsIntent(events[i])
    BY DEF DecisionChanged, IsDecision, IsIntent
  <2>3. QED
    BY <1>1, <2>2 DEF DecisionChanged
<1>3. \A id : ValueOf(t, id) = ValueOf(Recorded, id)
  BY <1>1 DEF ValueOf
<1>4. \A id : IntentCalled(t, id, k) = IntentCalled(Recorded, id, k)
  <2>1. \A j \in 1 .. k : j \in 1 .. Len(events)
    BY <1>1
  <2>2. QED
    BY <1>1, <1>2, <2>1 DEF IntentCalled
<1>5. ASSUME IsDecision(events[k])
      PROVE  MatchIntent(t, k, st) = k - 1 /\ MatchIntent(Recorded, k, st) = k - 1
  <2>1. MatchIntent(Recorded, k, st) = k - 1
    BY <1>5, DecisionIsPaired
  <2>2. events[k].call # None
    BY EventsAre, AbsentIsNoValue DEF LoopInv
  <2>3. t.events[k].call = events[k].call
    BY <1>2
  <2>4. MatchIntent(t, k, st) = MatchIntent(Recorded, k, st)
    <3>1. MatchIntent(t, k, st)
            = Paired(IntentCalled(t, t.events[k].call, k), t.events[k].call, st.decided)
      BY <2>2, <2>3, NamedIsPaired
    <3>2. MatchIntent(Recorded, k, st)
            = Paired(IntentCalled(Recorded, events[k].call, k), events[k].call, st.decided)
      BY <1>1, <2>2, NamedIsPaired
    <3>3. QED
      BY <1>4, <2>3, <3>1, <3>2
  <2>5. QED
    BY <2>1, <2>4
<1>6. ASSUME k # i
      PROVE  ReadEvent(t, k, kern, enforcement, st) = ReadEvent(Recorded, k, kern, enforcement, st)
  <2>1. t.events[k] = events[k]
    BY <1>1, <1>6
  <2>2. CASE IsResult(events[k])
    <3> DEFINE T(u) == {id \in events[k].makes : ValueOf(u, id) # None
                            /\ "untrusted" \in ValueOf(u, id).labels}
               K(u) == {id \in T(u) : ValueOf(u, id).data # None}
               D(u) == {ValueOf(u, id).data : id \in K(u)}
               R(data, kept, tainted) ==
                    [st EXCEPT !.registered = @ \cup data,
                               !.armed = @ \/ (kept # {} /\ events[k].tool \in Sensitive),
                               !.redacted = @ \/ kept # tainted]
    <3>3. T(t) = T(Recorded)
      BY <1>3
    <3>4. K(t) = K(Recorded)
      BY <1>3, <3>3
    <3>5. D(t) = D(Recorded)
      BY <1>3, <3>4
    <3>6. /\ ReadResult(t, k, st) = R(D(t), K(t), T(t))
          /\ ReadResult(Recorded, k, st) = R(D(Recorded), K(Recorded), T(Recorded))
      BY <1>1, <2>1, Zenon DEF ReadResult
    <3> HIDE DEF T, K, D, R
    <3>1. ReadResult(t, k, st) = ReadResult(Recorded, k, st)
      BY <3>3, <3>4, <3>5, <3>6
    <3>2. QED
      BY <1>1, <2>1, <2>2, <3>1, EventsFollow DEF ReadEvent
  <2>3. CASE IsIntent(events[k])
    BY <1>1, <2>1, <2>3, EventsFollow DEF ReadEvent
  <2>4. CASE IsDecision(events[k])
    <3>1. k - 1 \in 1 .. Len(events) /\ IsIntent(events[k - 1]) /\ k - 1 # i
      <4>1. k - 1 \in 1 .. Len(events) /\ IsIntent(events[k - 1])
        BY <2>4, EventsFollow
      <4>2. QED
        BY <4>1 DEF IsIntent, IsDecision
    <3>2. t.events[k - 1] = events[k - 1]
      BY <1>1, <3>1
    <3>3. IsDecision(t.events[k]) /\ IsDecision(Recorded.events[k])
      BY <1>1, <2>1, <2>4
    <3>4. /\ ReadEvent(t, k, kern, enforcement, st)
                = ReadMatched(t, k, k - 1, kern, enforcement, st)
          /\ ReadEvent(Recorded, k, kern, enforcement, st)
                = ReadMatched(Recorded, k, k - 1, kern, enforcement, st)
      BY <1>5, <2>4, <3>3, DecisionIsMatched
    <3>5. /\ ValueLost(t, events[k - 1].bound) <=> ValueLost(Recorded, events[k - 1].bound)
          /\ ArgumentData(t, events[k - 1].bound) = ArgumentData(Recorded, events[k - 1].bound)
      BY <1>3 DEF ValueLost, ArgumentData
    <3>6. Again(t, k - 1, kern, enforcement, st) = Again(Recorded, k - 1, kern, enforcement, st)
      BY <1>1, <3>2, <3>5 DEF Again
    <3>7. PairedWith(t, k, k - 1, st) = PairedWith(Recorded, k, k - 1, st)
      <4>1. \A j : j # k - 1 \/ t.events[j].node # t.events[k].node
                    <=> j # k - 1 \/ events[j].node # events[k].node
        BY <2>1, <3>2
      <4>2. {j \in st.pending : j # k - 1 \/ t.events[j].node # t.events[k].node}
              = {j \in st.pending : j # k - 1 \/ events[j].node # events[k].node}
        BY <4>1
      <4>3. QED
        BY <1>1, <2>1, <4>2 DEF PairedWith
    <3>8. ReadMatched(t, k, k - 1, kern, enforcement, st)
            = ReadMatched(Recorded, k, k - 1, kern, enforcement, st)
      BY <1>1, <2>1, <3>2, <3>5, <3>6, <3>7 DEF ReadMatched
    <3>9. QED
      BY <3>4, <3>8
  <2>5. QED
    BY <2>2, <2>3, <2>4, EventsFollow
<1>7. QED
  BY <1>5, <1>6

(* what is read so far cannot end as a match *)
Refuted(st) == ReplayFields(st) /\ (st.redacted \/ ~st.matched)

(* The changed decision is not what is recomputed, when anything is.        *)
LEMMA ChangeIsRead ==
    ASSUME LoopInv, SessionInv, Sensitive \subseteq Untrusted,
           NEW i \in 1 .. Len(events), IsDecision(events[i]),
           NEW t, DecisionChanged(t, i), NEW st, ReplayedTo(st, "pinned", i - 1)
    PROVE  Refuted(ReadEvent(t, i, "pinned", enforcement, st))
<1> DEFINE new == ReadEvent(t, i, "pinned", enforcement, st)
           old == ReadEvent(Recorded, i, "pinned", enforcement, st)
           lost == ValueLost(Recorded, events[i - 1].bound)
           again == Again(Recorded, i - 1, "pinned", enforcement, st)
           paired == PairedWith(Recorded, i, i - 1, st)
           pairedToo == PairedWith(t, i, i - 1, st)
           same == VerdictCore(again) = VerdictCore(events[i].decision)
           sameToo == VerdictCore(again) = VerdictCore(t.events[i].decision)
<1>1. i - 1 \in 1 .. Len(events) /\ IsIntent(events[i - 1]) /\ i - 1 # 0 /\ i - 1 # i
  BY EventsFollow
<1>2. /\ Recorded.events = events /\ t.events[i - 1] = events[i - 1] /\ t.values = values
      /\ Recorded.values = values /\ IsDecision(t.events[i])
      /\ VerdictCore(t.events[i].decision) # VerdictCore(events[i].decision)
  BY <1>1 DEF Recorded, DecisionChanged
<1>3. \A id : ValueOf(t, id) = ValueOf(Recorded, id)
  BY <1>2 DEF ValueOf
<1>4. MatchIntent(Recorded, i, st) = i - 1 /\ MatchIntent(t, i, st) = i - 1
  BY DecisionIsPaired, OthersAreRead
<1>5. /\ new = ReadMatched(t, i, i - 1, "pinned", enforcement, st)
      /\ old = ReadMatched(Recorded, i, i - 1, "pinned", enforcement, st)
  BY <1>2, <1>4, DecisionIsMatched
<1>6. old = IF lost THEN [paired EXCEPT !.redacted = TRUE]
            ELSE [paired EXCEPT !.recomputed = Append(@, again), !.matched = @ /\ same]
  BY <1>1, <1>2, <1>5, Zenon DEF ReadMatched
<1>7. new = IF lost THEN [pairedToo EXCEPT !.redacted = TRUE]
            ELSE [pairedToo EXCEPT !.recomputed = Append(@, again), !.matched = @ /\ sameToo]
  <2>1. /\ ValueLost(t, events[i - 1].bound) <=> lost
        /\ ArgumentData(t, events[i - 1].bound) = ArgumentData(Recorded, events[i - 1].bound)
    BY <1>3 DEF ValueLost, ArgumentData
  <2>2. Again(t, i - 1, "pinned", enforcement, st) = again
    BY <1>2, <2>1 DEF Again
  <2> HIDE DEF lost, again
  <2>3. QED
    BY <1>1, <1>2, <1>5, <2>1, <2>2 DEF ReadMatched
<1>8. ReplayFields(st)
  BY DEF ReplayedTo
<1>9. /\ ReplayFields(paired) /\ ReplayFields(pairedToo)
      /\ paired.redacted = st.redacted /\ paired.matched = st.matched
      /\ pairedToo.redacted = st.redacted /\ pairedToo.matched = st.matched
  BY <1>8 DEF ReplayFields, PairedWith
<1>10. same => ~sameToo
  BY <1>2
<1>11. ReplayedTo(old, "pinned", i)
  BY DecisionIsRead
<1> HIDE DEF new, old, lost, again, paired, pairedToo, same, sameToo
<1>12. CASE lost
  <2>1. new = [pairedToo EXCEPT !.redacted = TRUE]
    BY <1>7, <1>12
  <2>2. QED
    BY <1>9, <2>1 DEF Refuted, ReplayFields, new
<1>13. CASE ~lost
  <2>1. /\ DOMAIN new = DOMAIN pairedToo /\ new.redacted = st.redacted
        /\ new.armed = pairedToo.armed /\ new.matched = (st.matched /\ sameToo)
    <3>1. new = [pairedToo EXCEPT !.recomputed = Append(@, again), !.matched = @ /\ sameToo]
      BY <1>7, <1>13
    <3>2. QED
      BY <1>9, <3>1 DEF ReplayFields
  <2>2. /\ old.redacted = st.redacted /\ old.matched = (st.matched /\ same)
    <3>1. old = [paired EXCEPT !.recomputed = Append(@, again), !.matched = @ /\ same]
      BY <1>6, <1>13
    <3>2. QED
      BY <1>9, <3>1 DEF ReplayFields
  <2>3. new.matched \in BOOLEAN /\ (new.matched <=> st.matched /\ sameToo)
    BY <2>1, Zenon
  <2>4. ReplayFields(new)
    BY <1>8, <1>9, <2>1, <2>3 DEF ReplayFields
  <2>5. ~st.redacted => same
    <3>1. ~st.redacted => old.matched = TRUE
      BY <1>11, <2>2 DEF ReplayedTo
    <3>2. QED
      BY <2>2, <3>1, Zenon
  <2>6. QED
    BY <1>10, <2>1, <2>3, <2>4, <2>5 DEF Refuted, new
<1>14. QED
  BY <1>12, <1>13

(* What is refuted stays refuted, whatever is read.                         *)
LEMMA StaysRefuted ==
    ASSUME NEW t, NEW k, NEW kern, NEW enf, NEW st, Refuted(st),
           IsResult(t.events[k]) \/ IsIntent(t.events[k]) \/ IsDecision(t.events[k])
    PROVE  Refuted(ReadEvent(t, k, kern, enf, st))
<1> DEFINE new == ReadEvent(t, k, kern, enf, st)
<1>1. ReplayFields(st) /\ (st.redacted \/ ~st.matched)
  BY DEF Refuted
<1>2. CASE IsResult(t.events[k])
  <2> DEFINE tainted == {id \in t.events[k].makes : ValueOf(t, id) # None
                            /\ "untrusted" \in ValueOf(t, id).labels}
             kept == {id \in tainted : ValueOf(t, id).data # None}
             data == {ValueOf(t, id).data : id \in kept}
             lost == kept # tainted
             arms == kept # {} /\ t.events[k].tool \in Sensitive
  <2>1. new = [st EXCEPT !.registered = @ \cup data, !.armed = @ \/ arms, !.redacted = @ \/ lost]
    <3>0. ~IsIntent(t.events[k]) /\ ~IsDecision(t.events[k])
      BY <1>2 DEF IsIntent, IsDecision, IsResult
    <3>1. new = ReadResult(t, k, st)
      BY <1>2, <3>0 DEF ReadEvent
    <3>2. QED
      BY <3>1, Zenon DEF ReadResult
  <2> HIDE DEF new, tainted, kept, data, lost, arms
  <2>2. /\ DOMAIN new = DOMAIN st /\ new.matched = st.matched
        /\ new.armed = (st.armed \/ arms) /\ new.redacted = (st.redacted \/ lost)
    BY <1>1, <2>1 DEF ReplayFields
  <2>3. /\ new.armed \in BOOLEAN /\ new.redacted \in BOOLEAN
        /\ new.redacted <=> st.redacted \/ lost
    BY <2>2, Zenon
  <2>4. QED
    BY <1>1, <2>2, <2>3 DEF Refuted, ReplayFields, new
<1>3. CASE IsIntent(t.events[k])
  <2>0. ~IsResult(t.events[k]) /\ ~IsDecision(t.events[k])
    BY <1>3 DEF IsIntent, IsResult, IsDecision
  <2>1. new = [st EXCEPT !.pending = @ \cup {k}]
    BY <1>3, <2>0 DEF ReadEvent
  <2>2. QED
    BY <1>1, <2>1 DEF Refuted, ReplayFields
<1>4. CASE IsDecision(t.events[k])
  <2> DEFINE at == MatchIntent(t, k, st)
             lost == ValueLost(t, t.events[at].bound)
             again == Again(t, at, kern, enf, st)
             paired == PairedWith(t, k, at, st)
             same == VerdictCore(again) = VerdictCore(t.events[k].decision)
  <2>1. new = ReadMatched(t, k, at, kern, enf, st)
    BY <1>4, DecisionIsMatched
  <2>2. new = IF at = 0 THEN [st EXCEPT !.malformed = TRUE]
              ELSE IF lost THEN [paired EXCEPT !.redacted = TRUE]
              ELSE [paired EXCEPT !.recomputed = Append(@, again), !.matched = @ /\ same]
    BY <2>1, Zenon DEF ReadMatched
  <2>3. /\ DOMAIN paired = DOMAIN st /\ paired.redacted = st.redacted
        /\ paired.matched = st.matched /\ paired.armed = st.armed
    BY <1>1 DEF ReplayFields, PairedWith
  <2> HIDE DEF new, at, lost, again, paired, same
  <2>4. CASE new = [st EXCEPT !.malformed = TRUE]
    BY <1>1, <2>4 DEF Refuted, ReplayFields, new
  <2>5. CASE new = [paired EXCEPT !.redacted = TRUE]
    BY <1>1, <2>3, <2>5 DEF Refuted, ReplayFields, new
  <2>6. CASE new = [paired EXCEPT !.recomputed = Append(@, again), !.matched = @ /\ same]
    <3>1. /\ DOMAIN new = DOMAIN st /\ new.redacted = st.redacted
          /\ new.armed = st.armed /\ new.matched = (st.matched /\ same)
      BY <1>1, <2>3, <2>6 DEF ReplayFields
    <3>2. new.matched \in BOOLEAN /\ (new.matched => st.matched)
      BY <3>1, Zenon
    <3>3. QED
      BY <1>1, <3>1, <3>2 DEF Refuted, ReplayFields, new
  <2>7. QED
    BY <2>2, <2>4, <2>5, <2>6
<1>5. QED
  BY <1>2, <1>3, <1>4

(* So a trace whose decision was changed never replays as a match.          *)
LEMMA ChangedIsNoMatch ==
    ASSUME LoopInv, SessionInv, Sensitive \subseteq Untrusted,
           NEW i \in 1 .. Len(events), IsDecision(events[i]), NEW t, DecisionChanged(t, i)
    PROVE  ReplayStatus(t, "pinned", enforcement) # "match"
<1>1. Len(t.events) = Len(events) /\ Len(events) \in Nat
  BY DEF DecisionChanged, LoopInv, TypeInv
<1>2. PICK f : /\ f[0] = Start
               /\ \A k \in 1 .. Len(events) :
                        f[k] = ReadEvent(Recorded, k, "pinned", enforcement, f[k - 1])
               /\ \A k \in 0 .. Len(events) : ReplayedTo(f[k], "pinned", k)
  BY ReplayReads
<1>3. PICK g : /\ g[0] = Start
               /\ \A k \in 1 .. Len(events) :
                        g[k] = ReadEvent(t, k, "pinned", enforcement, g[k - 1])
               /\ ReplayState(t, "pinned", enforcement) = g[Len(events)]
  <2>0. Len(t.events) \in Nat
    BY <1>1
  <2>1. \E g : /\ g[0] = Start
               /\ \A k \in 1 .. Len(t.events) :
                        g[k] = ReadEvent(t, k, "pinned", enforcement, g[k - 1])
               /\ ReplayState(t, "pinned", enforcement) = g[Len(t.events)]
    BY ONLY <2>0, ReplayIsAPass
  <2>2. QED
    BY <1>1, <2>1
<1> DEFINE Reached == {k \in Nat : k <= Len(events) =>
                            IF k < i THEN g[k] = f[k] ELSE Refuted(g[k])}
<1>4. 0 \in Reached
  BY <1>2, <1>3
<1>5. \A k \in Reached : k + 1 \in Reached
  <2>1. SUFFICES ASSUME NEW m \in Nat, m + 1 <= Len(events),
                        IF m < i THEN g[m] = f[m] ELSE Refuted(g[m])
                 PROVE  IF m + 1 < i THEN g[m + 1] = f[m + 1] ELSE Refuted(g[m + 1])
    BY <1>1
  <2> DEFINE k == m + 1
  <2>2. k \in 1 .. Len(events) /\ k - 1 = m /\ m \in 0 .. Len(events)
    BY <1>1, <2>1
  <2>3. /\ g[k] = ReadEvent(t, k, "pinned", enforcement, g[m])
        /\ f[k] = ReadEvent(Recorded, k, "pinned", enforcement, f[m])
        /\ ReplayedTo(f[m], "pinned", k - 1)
    BY <1>2, <1>3, <2>2
  <2> HIDE DEF k
  <2>4. CASE k < i
    <3>1. k # i /\ m < i
      BY <2>2, <2>4
    <3>2. g[m] = f[m]
      BY <2>1, <3>1
    <3>3. QED
      BY <2>2, <2>3, <2>4, <3>1, <3>2, OthersAreRead DEF k
  <2>5. CASE k = i
    <3>1. m < i /\ ~(k < i)
      BY <2>2, <2>5
    <3>2. g[m] = f[m]
      BY <2>1, <3>1
    <3>3. Refuted(g[k])
      BY <2>3, <2>5, <3>2, ChangeIsRead
    <3>4. QED
      BY <3>1, <3>3 DEF k
  <2>6. CASE i < k
    <3>1. ~(m < i) /\ ~(k < i)
      BY <2>2, <2>6
    <3>2. Refuted(g[m])
      BY <2>1, <3>1
    <3>3. t.events[k] = events[k]
      BY <2>2, <2>6 DEF DecisionChanged
    <3>4. IsResult(t.events[k]) \/ IsIntent(t.events[k]) \/ IsDecision(t.events[k])
      BY <2>2, <3>3, EventsFollow
    <3>5. Refuted(g[k])
      BY <2>3, <3>2, <3>4, StaysRefuted
    <3>6. QED
      BY <3>1, <3>5 DEF k
  <2>7. k \in Nat /\ i \in Nat
    BY <2>2
  <2>8. QED
    BY <2>4, <2>5, <2>6, <2>7
<1>6. Reached \in SUBSET Nat
  OBVIOUS
<1> HIDE DEF Reached
<1>7. Reached = Nat
  BY <1>4, <1>5, <1>6, Counting
<1>8. Refuted(g[Len(events)])
  <2>1. ~(Len(events) < i)
    BY <1>1
  <2>2. QED
    BY <1>1, <1>7, <2>1 DEF Reached
<1> DEFINE st == g[Len(events)]
<1>9. ReplayStatus(t, "pinned", enforcement) = StatusOf(st)
  BY <1>3 DEF ReplayStatus
<1>10. st.redacted \/ ~st.matched
  BY <1>8 DEF Refuted
<1> HIDE DEF st
<1>11. StatusOf(st) # "match"
  <2>1. CASE st.malformed \/ st.pending # {}
    BY <2>1 DEF StatusOf
  <2>2. CASE ~(st.malformed \/ st.pending # {})
    <3>1. StatusOf(st) = IF st.redacted THEN "redacted_input_unavailable"
                         ELSE IF st.matched THEN "match" ELSE "mismatch"
      BY <2>2 DEF StatusOf
    <3>2. QED
      BY <1>10, <3>1
  <2>3. QED
    BY <2>1, <2>2
<1>12. QED
  BY <1>9, <1>11

(* A trace that replays as a match counts no call as executed that the host *)
(* did not run, whichever of its events were cut off, lost, repeated,       *)
(* exchanged or renamed, and whichever verdict was turned -- for any agent, *)
(* tools and budgets, where a sensitive source is an untrusted one as well  *)
(* (replay.py 91-210, predicates.py executed_tool_calls).                   *)
THEOREM AMatchIsAlwaysWhatRan ==
  ASSUME Sensitive \subseteq Untrusted
  PROVE  RereadingSpec => []MatchMeansRan
<1>1. RereadingInv => MatchMeansRan
  <2>1. SUFFICES ASSUME RereadingInv, Read, governed, kernel = "pinned", HeldStatus = "match",
                        NEW i \in ExecutedCalls(held)
                 PROVE  IF held.events[i].call = None
                        THEN Cardinality(ExecutedCalls(held)) = Len(ran)
                        ELSE \E k \in 1 .. Len(ran) : /\ ran[k].call = held.events[i].call
                                                      /\ ran[k].tool = held.events[i].tool
    BY DEF MatchMeansRan
  <2>2. LoopInv /\ SessionInv /\ held \in Changed(Recorded)
    BY <2>1, ReadIsRecorded
  <2>3. CASE Rearranged(held)
    BY <2>1, <2>2, <2>3, RearrangedIsRan
  <2>4. CASE held = Unnamed(Recorded)
    <3>1. PICK named \in BOOLEAN : Alike(held, named) /\ ~named
      BY <2>2, <2>4, UnnamedIsAlike, Zenon
    <3>2. i \in 1 .. Len(held.events)
      BY <2>1 DEF ExecutedCalls
    <3>3. held.events[i].call = None
      BY <2>2, <3>1, <3>2, AlikePositions
    <3>4. QED
      BY <2>2, <2>4, <3>3, UnnamedIsRan
  <2>5. CASE \E j \in 1 .. Len(events) : IsDecision(events[j]) /\ DecisionChanged(held, j)
    <3>1. ReplayStatus(held, "pinned", enforcement) # "match"
      BY <2>2, <2>5, ChangedIsNoMatch
    <3>2. QED
      BY <2>1, <3>1 DEF HeldStatus
  <2>6. QED
    BY <2>2, <2>3, <2>4, <2>5, ChangedIs
<1>2. QED
  BY <1>1, RereadingInvHolds, PTL

=============================================================================
