----------------------- MODULE PublicationStore_proofs -----------------------
(***************************************************************************)
(* Theorems about PublicationStore, for every set of publications,         *)
(* lineages, signers, attestations and keys.  The strengthening relates    *)
(* what is on disk to what memory holds, so that a restart can be followed *)
(* back to the process before it.                                          *)
(***************************************************************************)
EXTENDS PublicationStore, TLAPS

USE DEF Bodies, Files

Whole(r) ==
    /\ Bodies \subseteq disk[r].files
    /\ "tombstone" \notin disk[r].files
    /\ Author[r] # Unsigned => "receipt" \in disk[r].files

\* Something was promised about it: an acceptance, or an attestation accepted.
Reached(r) == issued[r] # {} \/ disk[r].log # {}

\* Every retirement is durable, and no directory is entombed without one.
Durable ==
    /\ ltombs \subseteq registry
    /\ \A r \in Records : "tombstone" \in disk[r].files => LineageOf[r] \in ltombs

CachedIsWhole == \A r \in cached : Whole(r) /\ Verifiable(r, known)

\* What was reached stays whole until its evidence is retired, and stays in
\* memory while this process can verify it: publish never writes over it.
StaysWhole  == \A r \in Records : Reached(r) /\ LineageOf[r] \notin registry => Whole(r)
StaysCached ==
    \A r \in Records :
        Reached(r) /\ LineageOf[r] \notin ltombs /\ Verifiable(r, known) => r \in cached

StoreInv ==
    /\ TypeOK
    /\ Durable
    /\ CachedIsWhole
    /\ StaysWhole
    /\ StaysCached

\* Memory holds the acceptance that is on disk.
AcceptanceInv ==
    /\ AcceptanceKept
    /\ \A r \in cached : mem[r].acceptance = disk[r].acceptance

OncePerAttester(log) == \A a, b \in log : a.by = b.by => a = b

LogInv ==
    \A r \in Records :
        /\ OncePerAttester(disk[r].log)
        /\ OncePerAttester(mem[r].log)
        /\ \A a \in mem[r].log : a.signed => a.by \in known

AlwaysVerifiable(a) == a.signed => \A ring \in KeyRings : a.by \in ring

\* Memory holds every entry of the log that any process can verify.
LogInMemory ==
    \A r \in cached : \A a \in disk[r].log : AlwaysVerifiable(a) => a \in mem[r].log

KeyIdsDiffer == \A k, l \in ServerKeys : KeyId[k] = KeyId[l] => k = l
-----------------------------------------------------------------------------
\* Type correctness.

LEMMA AfterTyped ==
  ASSUME NEW r \in Records, NEW writes,
         disk \in [Records -> Directories], serverKey \in ServerKeys
  PROVE  After(r, writes) \in Directories
  BY DEF After, Directories

LEMMA SweptTyped ==
  ASSUME NEW d \in Directories
  PROVE  Swept(d) \in Directories
  BY DEF Swept, Directories

LEMMA BlankTyped == Blank \in Entries /\ EmptyDirectory \in Directories
  BY DEF Blank, Entries, EmptyDirectory, Directories

LEMMA TypeInit == Init => TypeOK
  BY BlankTyped, StoreAssumption DEF Init, TypeOK

LEMMA TypePublish ==
  ASSUME TypeOK, NEW r \in Records, Publish(r) \/ PublishFails(r) \/ ReadAcceptance(r)
  PROVE  TypeOK'
  <1> USE DEF TypeOK, diskVars, memVars, configVars
  <1>1. CASE Publish(r)
    <2>1. After(r, AllWrites(r)) \in Directories
      BY AfterTyped
    <2>2. [acceptance |-> serverKey, log |-> {}] \in Entries
      BY DEF Entries
    <2> QED BY <1>1, <2>1, <2>2 DEF Publish
  <1>2. CASE PublishFails(r)
    <2>1. \A writes : After(r, writes) \in Directories
      BY AfterTyped
    <2> QED BY <1>2, <2>1 DEF PublishFails
  <1>3. CASE ReadAcceptance(r)
    <2>1. AcceptanceOf(r) \in ServerKeys
      BY DEF AcceptanceOf, Entries
    <2> QED BY <1>3, <2>1 DEF ReadAcceptance
  <1> QED BY <1>1, <1>2, <1>3

LEMMA TypeTakedown ==
  ASSUME TypeOK, NEW r \in Records,
         Takedown(r) \/ TakedownAgain(r) \/ TakedownUnregistered(r) \/ TakedownStops(r)
  PROVE  TypeOK'
  <1> USE DEF TypeOK, diskVars, memVars, configVars
  <1>1. LineageOf[r] \in Lineages
    BY StoreAssumption
  <1>2. \A s \in Records : Swept(disk[s]) \in Directories
    BY SweptTyped
  <1>3. Siblings(r) \subseteq Records
    BY DEF Siblings
  <1>4. CASE Takedown(r)
    BY <1>1, <1>2, <1>3, <1>4, BlankTyped DEF Takedown
  <1>5. CASE TakedownAgain(r)
    BY <1>5 DEF TakedownAgain
  <1>6. CASE TakedownUnregistered(r)
    BY <1>1, <1>6 DEF TakedownUnregistered
  <1>7. CASE TakedownStops(r)
    <2>1. PICK t \in Siblings(r), done \in SUBSET Siblings(r) : SweepStopsAt(t, done)
      BY <1>7 DEF TakedownStops
    <2>2. PICK left \in Leftovers, tombstone \in {{}, {"tombstone"}} :
            disk' = [s \in Records |->
                CASE s = t      -> [disk[s] EXCEPT !.files =
                                       (@ \ (Bodies \ left)) \cup tombstone]
                  [] s \in done -> Swept(disk[s])
                  [] OTHER      -> disk[s]]
      BY <2>1 DEF SweepStopsAt
    <2>3. disk' \in [Records -> Directories]
      <3>1. \A s \in Records :
              [disk[s] EXCEPT !.files = (@ \ (Bodies \ left)) \cup tombstone] \in Directories
        BY DEF Directories
      <3> HIDE DEF Bodies
      <3> QED BY <1>2, <2>2, <3>1
    <2>4. mem' \in [Records -> Entries] /\ cached' \subseteq Records /\ tombs' \subseteq Records
      BY <1>3, <2>1, BlankTyped DEF SweepStopsAt
    <2> QED BY <1>1, <1>7, <2>3, <2>4 DEF TakedownStops
  <1> QED BY <1>4, <1>5, <1>6, <1>7

LEMMA TypeAttest ==
  ASSUME TypeOK, NEW r \in Records, NEW a \in Attestations, AddAttestation(r, a)
  PROVE  TypeOK'
  <1> USE DEF TypeOK, configVars
  <1>1. Extended(mem[r].log, a) \in SUBSET Attestations
    BY DEF Extended, Entries
  <1>2. mem' \in [Records -> Entries]
    BY <1>1 DEF AddAttestation, Entries
  <1>3. disk' \in [Records -> Directories]
    BY <1>1 DEF AddAttestation, Directories
  <1> QED BY <1>2, <1>3 DEF AddAttestation

LEMMA TypeRestart ==
  ASSUME TypeOK, NEW ring \in KeyRings, NEW key \in ServerKeys, Restart(ring, key)
  PROVE  TypeOK'
  <1> USE DEF TypeOK, diskVars
  <1>1. \A r \in Records : [acceptance |-> RestoredAcceptance(r, key),
                            log |-> Rebuilt(disk[r].log, ring)] \in Entries
    BY DEF RestoredAcceptance, Rebuilt, Directories, Entries
  <1>2. mem' \in [Records -> Entries]
    BY <1>1, BlankTyped DEF Restart
  <1>3. ltombs' \subseteq Lineages
    BY StoreAssumption DEF Restart
  <1> QED BY <1>2, <1>3 DEF Restart

LEMMA TypeStep ==
  ASSUME TypeOK, [Next]_vars
  PROVE  TypeOK'
  <1>1. CASE UNCHANGED vars
    BY <1>1 DEF vars, diskVars, memVars, configVars, TypeOK
  <1> QED BY <1>1, TypePublish, TypeTakedown, TypeAttest, TypeRestart DEF Next, Request

\* Memory, disk and configuration keep their shape.
THEOREM TypeCorrect == Spec => []TypeOK
  <1> QED BY TypeInit, TypeStep, PTL DEF Spec
-----------------------------------------------------------------------------
\* What a takedown does, whether it completes or stops in its sweep: only the
\* publications of its lineage leave memory or change on disk, and no log or
\* acceptance does.
TakedownEffect(r) ==
    /\ r \in cached
    /\ registry' = registry \cup {LineageOf[r]}
    /\ ltombs' = ltombs \cup {LineageOf[r]}
    /\ tombs' \subseteq tombs \cup Siblings(r)
    /\ cached' \subseteq cached
    /\ \A s \in cached : LineageOf[s] # LineageOf[r] => s \in cached'
    /\ \A s \in Records :
          /\ LineageOf[s] # LineageOf[r] => disk'[s] = disk[s]
          /\ disk'[s].log = disk[s].log
          /\ disk'[s].acceptance = disk[s].acceptance
          /\ disk'[s].files \subseteq disk[s].files \cup {"tombstone"}
          /\ mem'[s] = mem[s] \/ (mem'[s] = Blank /\ s \notin cached')
          /\ s \in cached' => disk'[s] = disk[s]
    /\ UNCHANGED <<known, serverKey, issued>>

LEMMA SweptFacts ==
  ASSUME NEW d \in Directories
  PROVE  /\ Swept(d).log = d.log
         /\ Swept(d).acceptance = d.acceptance
         /\ Swept(d).files \subseteq d.files \cup {"tombstone"}
  BY DEF Swept, Directories

LEMMA TakedownHasEffect ==
  ASSUME TypeOK, NEW r \in Records, Takedown(r) \/ TakedownStops(r)
  PROVE  TakedownEffect(r)
  <1>1. \A s \in Siblings(r) : s \in Records /\ LineageOf[s] = LineageOf[r]
    BY DEF Siblings, TypeOK
  <1>2. \A s \in Records :
          /\ Swept(disk[s]).log = disk[s].log
          /\ Swept(disk[s]).acceptance = disk[s].acceptance
          /\ Swept(disk[s]).files \subseteq disk[s].files \cup {"tombstone"}
    BY SweptFacts DEF TypeOK
  <1>3. CASE Takedown(r)
    <2>1. \A s \in Records :
            disk'[s] = IF s \in Siblings(r) THEN Swept(disk[s]) ELSE disk[s]
      BY <1>3 DEF Takedown
    <2>2. \A s \in Records :
            mem'[s] = IF s \in Siblings(r) THEN Blank ELSE mem[s]
      BY <1>3 DEF Takedown
    <2> QED BY <1>1, <1>2, <1>3, <2>1, <2>2
            DEF Takedown, TakedownEffect, configVars, TypeOK, Siblings
  <1>4. CASE TakedownStops(r)
    <2>1. PICK t \in Siblings(r), done \in SUBSET Siblings(r) :
            t \notin done /\ SweepStopsAt(t, done)
      BY <1>4 DEF TakedownStops
    <2>2. PICK left \in Leftovers, tombstone \in {{}, {"tombstone"}} :
            disk' = [s \in Records |->
                CASE s = t      -> [disk[s] EXCEPT !.files =
                                       (@ \ (Bodies \ left)) \cup tombstone]
                  [] s \in done -> Swept(disk[s])
                  [] OTHER      -> disk[s]]
      BY <2>1 DEF SweepStopsAt
    <2> HIDE DEF Bodies
    <2>3. /\ disk'[t] = [disk[t] EXCEPT !.files = (@ \ (Bodies \ left)) \cup tombstone]
          /\ disk'[t].log = disk[t].log
          /\ disk'[t].acceptance = disk[t].acceptance
          /\ disk'[t].files \subseteq disk[t].files \cup {"tombstone"}
      <3>1. t \in Records /\ disk[t] \in Directories
        BY <1>1 DEF TypeOK
      <3>2. disk'[t] = [disk[t] EXCEPT !.files = (@ \ (Bodies \ left)) \cup tombstone]
        BY <2>1, <2>2, <3>1
      <3> QED BY <3>1, <3>2 DEF Directories
    <2>4. \A s \in Records : s # t =>
            disk'[s] = IF s \in done THEN Swept(disk[s]) ELSE disk[s]
      BY <2>2
    <2>5. \A s \in Records :
            /\ disk'[s].log = disk[s].log
            /\ disk'[s].acceptance = disk[s].acceptance
            /\ disk'[s].files \subseteq disk[s].files \cup {"tombstone"}
            /\ s \notin done \cup {t} => disk'[s] = disk[s]
      BY <1>2, <2>3, <2>4
    <2>6. /\ cached' = cached \ (done \cup {t})
          /\ \A s \in Records : mem'[s] = IF s \in done \cup {t} THEN Blank ELSE mem[s]
          /\ tombs' \subseteq tombs \cup Siblings(r)
      BY <2>1 DEF SweepStopsAt
    <2> QED BY <1>1, <1>4, <2>5, <2>6 DEF TakedownStops, TakedownEffect, configVars, TypeOK
  <1> QED BY <1>3, <1>4

\* What the writes of a publish leave on disk.
LEMMA AfterFacts ==
  ASSUME TypeOK, NEW r \in Records, NEW writes \in Written(r) \cup {AllWrites(r)}
  PROVE  /\ disk[r].files \subseteq After(r, writes).files
         /\ "tombstone" \in After(r, writes).files => "tombstone" \in disk[r].files
         /\ After(r, writes).acceptance \in {disk[r].acceptance, serverKey}
         /\ After(r, writes).log \in {disk[r].log, {}}
  BY DEF After, Written, AllWrites
-----------------------------------------------------------------------------
\* The invariant, one lemma per group of operations.

LEMMA StoreInvInit == Init => StoreInv
  BY TypeInit DEF Init, StoreInv, Durable, CachedIsWhole, StaysWhole, StaysCached,
     Reached, EmptyDirectory

LEMMA StoreInvPublish ==
  ASSUME StoreInv, NEW r \in Records, Publish(r) \/ PublishFails(r)
  PROVE  StoreInv'
  <1> USE DEF StoreInv, Durable, CachedIsWhole, StaysWhole, StaysCached,
          Reached, Whole, Verifiable, Admissible
  <1>1. TypeOK'
    BY TypePublish
  <1>2. PICK writes \in Written(r) \cup {AllWrites(r)} :
          disk' = [disk EXCEPT ![r] = After(r, writes)]
    BY DEF Publish, PublishFails
  <1>3. /\ disk'[r] = After(r, writes)
        /\ \A s \in Records \ {r} : disk'[s] = disk[s]
    BY <1>2 DEF TypeOK
  <1>4. /\ r \notin cached /\ LineageOf[r] \notin ltombs
        /\ Author[r] = Unsigned \/ Author[r] \in known
        /\ UNCHANGED <<registry, ltombs, tombs, known>>
    BY DEF Publish, PublishFails, memVars, configVars
  <1>5. ~Reached(r) /\ "tombstone" \notin disk[r].files
    BY <1>4
  <1>6. "tombstone" \notin disk'[r].files
    BY <1>3, <1>5, AfterFacts
  <1>7. Durable'
    BY <1>3, <1>4, <1>6
  <1>8. CASE Publish(r)
    <2>1. disk'[r] = After(r, AllWrites(r))
      BY <1>8 DEF Publish, TypeOK
    <2>2. Bodies \subseteq disk'[r].files /\ (Author[r] # Unsigned => "receipt" \in disk'[r].files)
      BY <2>1 DEF After, AllWrites
    <2>3. /\ cached' = cached \cup {r}
          /\ \A s \in Records \ {r} : issued'[s] = issued[s]
      BY <1>8 DEF Publish, TypeOK
    <2>4. CachedIsWhole' /\ StaysWhole' /\ StaysCached'
      <3> HIDE DEF Bodies
      <3> QED BY <1>3, <1>4, <1>6, <2>2, <2>3 DEF TypeOK
    <2> QED BY <1>1, <1>7, <2>4
  <1>9. CASE PublishFails(r)
    <2>1. cached' = cached /\ issued' = issued
      BY <1>9 DEF PublishFails, memVars
    <2>2. ~Reached(r)'
      BY <1>3, <1>5, <2>1, AfterFacts
    <2>3. CachedIsWhole' /\ StaysWhole' /\ StaysCached'
      <3> HIDE DEF Bodies
      <3> QED BY <1>3, <1>4, <2>1, <2>2 DEF TypeOK
    <2> QED BY <1>1, <1>7, <2>3
  <1> QED BY <1>8, <1>9

LEMMA StoreInvRead ==
  ASSUME StoreInv, NEW r \in Records, ReadAcceptance(r)
  PROVE  StoreInv'
  <1>1. TypeOK'
    BY TypePublish DEF StoreInv
  <1>2. /\ r \in cached
        /\ \A s \in Records \ {r} : issued'[s] = issued[s]
        /\ UNCHANGED <<disk, registry, cached, ltombs, known>>
    BY DEF ReadAcceptance, Served, diskVars, memVars, configVars, StoreInv, TypeOK
  <1> QED BY <1>1, <1>2 DEF StoreInv, Durable, CachedIsWhole, StaysWhole, StaysCached,
          Reached, Whole, Verifiable

LEMMA StoreInvTakedown ==
  ASSUME StoreInv, NEW r \in Records,
         Takedown(r) \/ TakedownAgain(r) \/ TakedownUnregistered(r) \/ TakedownStops(r)
  PROVE  StoreInv'
  <1> USE DEF StoreInv, Durable, CachedIsWhole, StaysWhole, StaysCached,
          Reached, Whole, Verifiable
  <1>1. TypeOK'
    BY TypeTakedown
  <1>2. CASE TakedownAgain(r) \/ TakedownUnregistered(r)
    <2>1. /\ registry \subseteq registry'
          /\ UNCHANGED <<disk, cached, ltombs, known, issued>>
      BY <1>2 DEF TakedownAgain, TakedownUnregistered, diskVars, memVars, configVars
    <2> QED BY <1>1, <2>1
  <1>3. CASE Takedown(r) \/ TakedownStops(r)
    <2>1. TakedownEffect(r)
      BY <1>3, TakedownHasEffect
    <2> HIDE DEF Bodies
    <2>2. Durable'
      BY <2>1 DEF TakedownEffect
    <2>3. CachedIsWhole'
      BY <2>1 DEF TakedownEffect, TypeOK
    <2>4. StaysWhole'
      BY <2>1 DEF TakedownEffect
    <2>5. StaysCached'
      BY <2>1 DEF TakedownEffect
    <2> QED BY <1>1, <2>2, <2>3, <2>4, <2>5
  <1> QED BY <1>2, <1>3

LEMMA StoreInvAttest ==
  ASSUME StoreInv, NEW r \in Records, NEW a \in Attestations, AddAttestation(r, a)
  PROVE  StoreInv'
  <1>1. TypeOK'
    BY TypeAttest DEF StoreInv
  <1>2. /\ r \in cached
        /\ \A s \in Records : disk'[s].files = disk[s].files
        /\ \A s \in Records \ {r} : disk'[s].log = disk[s].log
        /\ UNCHANGED <<registry, cached, ltombs, known, issued>>
    BY DEF AddAttestation, Served, configVars, StoreInv, TypeOK, Directories
  <1> QED BY <1>1, <1>2 DEF StoreInv, Durable, CachedIsWhole, StaysWhole, StaysCached,
          Reached, Whole, Verifiable, TypeOK

LEMMA StoreInvRestart ==
  ASSUME StoreInv, NEW ring \in KeyRings, NEW key \in ServerKeys, Restart(ring, key)
  PROVE  StoreInv'
  <1> USE DEF StoreInv, Durable, CachedIsWhole, StaysWhole, StaysCached,
          Reached, Whole, Verifiable
  <1>1. TypeOK'
    BY TypeRestart
  <1>2. UNCHANGED <<disk, registry, issued>> /\ known' = ring
    BY DEF Restart, diskVars
  <1>3. /\ registry \subseteq ltombs'
        /\ \A r \in Records : "tombstone" \in disk[r].files => LineageOf[r] \in ltombs'
        /\ \A l \in ltombs' : \/ l \in registry
                              \/ \E r \in Records : /\ "tombstone" \in disk[r].files
                                                    /\ l = LineageOf[r]
    BY DEF Restart
  <1>4. Durable'
    BY <1>2, <1>3
  <1>5. cached' = {r \in Records : Loadable(r, ring) /\ LineageOf[r] \notin ltombs'}
    BY DEF Restart
  <1>6. CachedIsWhole' /\ StaysWhole' /\ StaysCached'
    <2> HIDE DEF Bodies
    <2> QED BY <1>2, <1>3, <1>5 DEF Loadable
  <1> QED BY <1>1, <1>4, <1>6

LEMMA StoreInvStep ==
  ASSUME StoreInv, [Next]_vars
  PROVE  StoreInv'
  <1>1. CASE UNCHANGED vars
    BY <1>1, TypeStep DEF vars, diskVars, memVars, configVars, StoreInv, Durable,
       CachedIsWhole, StaysWhole, StaysCached, Reached, Whole, Verifiable
  <1> QED BY <1>1, StoreInvPublish, StoreInvRead, StoreInvTakedown, StoreInvAttest,
          StoreInvRestart DEF Next, Request

LEMMA StoreInvariant == Spec => []StoreInv
  <1> QED BY StoreInvInit, StoreInvStep, PTL DEF Spec

\* What is served is on disk, whole and verifiable: a restart does not lose it.
THEOREM ServedIsLoadable == Spec => []ServedSurvives
  <1>1. StoreInv => ServedSurvives
    BY DEF StoreInv, CachedIsWhole, Whole, ServedSurvives, Served, Loadable
  <1> QED BY <1>1, StoreInvariant, PTL
-----------------------------------------------------------------------------
\* The refinement: readers see a Catalog.

LEMMA CatalogInitial == Init => Readers!CatalogInit
  BY DEF Init, Readers!CatalogInit, Served

LEMMA CatalogStep ==
  ASSUME StoreInv, [Next]_vars
  PROVE  [Readers!CatalogNext]_(Readers!catalogVars)
  <1> DEFINE shown == {r \in Records : Served(r)}
  <1> USE DEF Served
  <1> SUFFICES \/ \E r \in Records : \/ /\ LineageOf[r] \notin ltombs
                                        /\ shown' = shown \cup {r}
                                        /\ ltombs' = ltombs
                                     \/ /\ r \in shown
                                        /\ ltombs' = ltombs \cup {LineageOf[r]}
                                        /\ shown' = {s \in shown : LineageOf[s] # LineageOf[r]}
               \/ /\ ltombs' \in SUBSET Lineages
                  /\ ltombs \subseteq ltombs'
                  /\ shown' \in SUBSET {r \in Records : LineageOf[r] \notin ltombs'}
               \/ shown' = shown /\ ltombs' = ltombs
    BY DEF Readers!CatalogNext, Readers!Publish, Readers!Takedown, Readers!Reload,
           Readers!catalogVars
  <1>1. ASSUME NEW r \in Records, Publish(r)
        PROVE  LineageOf[r] \notin ltombs /\ shown' = shown \cup {r} /\ ltombs' = ltombs
    BY <1>1 DEF Publish, Admissible
  <1>2. ASSUME NEW r \in Records, Takedown(r) \/ TakedownStops(r)
        PROVE  /\ ltombs' \in SUBSET Lineages
               /\ ltombs \subseteq ltombs'
               /\ shown' \in SUBSET {s \in Records : LineageOf[s] \notin ltombs'}
    <2>1. TakedownEffect(r)
      BY <1>2, TakedownHasEffect DEF StoreInv
    <2> QED BY <2>1, StoreAssumption DEF TakedownEffect, StoreInv, TypeOK
  <1>3. ASSUME NEW r \in Records,
               PublishFails(r) \/ ReadAcceptance(r) \/ TakedownAgain(r)
               \/ TakedownUnregistered(r) \/ \E a \in Attestations : AddAttestation(r, a)
        PROVE  shown' = shown /\ ltombs' = ltombs
    BY <1>3 DEF PublishFails, ReadAcceptance, TakedownAgain, TakedownUnregistered,
       AddAttestation, memVars
  <1>4. ASSUME NEW ring \in KeyRings, NEW key \in ServerKeys, Restart(ring, key)
        PROVE  /\ ltombs' \in SUBSET Lineages
               /\ ltombs \subseteq ltombs'
               /\ shown' \in SUBSET {r \in Records : LineageOf[r] \notin ltombs'}
    BY <1>4, StoreAssumption DEF Restart, StoreInv, TypeOK, Durable
  <1>5. CASE UNCHANGED vars
    BY <1>5 DEF vars, memVars
  <1> QED BY <1>1, <1>2, <1>3, <1>4, <1>5 DEF Next, Request

\* The store implements Catalog: evidence that was taken down is gone at once under
\* every publication of it, and no restart, failure or publish brings it back.
THEOREM StoreImplementsCatalog == Spec => ImplementsCatalog
  <1> QED BY CatalogInitial, CatalogStep, StoreInvariant, PTL
          DEF Spec, ImplementsCatalog, Readers!CatalogSpec
-----------------------------------------------------------------------------
\* Acceptances.

LEMMA AcceptanceInit == Init => AcceptanceInv
  BY DEF Init, AcceptanceInv, AcceptanceKept, EmptyDirectory

LEMMA AcceptanceStep ==
  ASSUME KeyIdsDiffer, StoreInv, AcceptanceInv, [Next]_vars
  PROVE  AcceptanceInv'
  <1> USE DEF AcceptanceInv, AcceptanceKept
  <1>1. ASSUME NEW r \in Records, Publish(r) \/ PublishFails(r)
        PROVE  AcceptanceInv'
    <2>1. issued[r] = {} /\ r \notin cached
      BY <1>1 DEF Publish, PublishFails, Admissible, StoreInv, StaysCached, Reached
    <2>2. \A s \in Records \ {r} : disk'[s] = disk[s] /\ issued'[s] = issued[s] /\ mem'[s] = mem[s]
      BY <1>1 DEF Publish, PublishFails, memVars, StoreInv, TypeOK
    <2>3. CASE Publish(r)
      <3>1. /\ disk'[r].acceptance = serverKey
            /\ issued'[r] = {serverKey}
            /\ mem'[r].acceptance = serverKey
            /\ cached' = cached \cup {r}
        BY <2>1, <2>3 DEF Publish, After, AllWrites, StoreInv, TypeOK
      <3> QED BY <2>2, <3>1 DEF StoreInv, TypeOK
    <2>4. CASE PublishFails(r)
      BY <2>1, <2>2, <2>4 DEF PublishFails, memVars, StoreInv, TypeOK
    <2> QED BY <1>1, <2>3, <2>4
  <1>2. ASSUME NEW r \in Records, ReadAcceptance(r)
        PROVE  AcceptanceInv'
    <2>1. r \in cached /\ UNCHANGED <<disk, cached, mem>>
      BY <1>2 DEF ReadAcceptance, Served, diskVars, memVars
    <2>2. issued' = [issued EXCEPT ![r] = @ \cup {AcceptanceOf(r)}]
      BY <1>2 DEF ReadAcceptance
    <2>3. disk[r].acceptance # None => AcceptanceOf(r) = disk[r].acceptance
      BY <2>1 DEF AcceptanceOf
    <2> QED BY <2>1, <2>2, <2>3 DEF StoreInv, TypeOK
  <1>3. ASSUME NEW r \in Records, Takedown(r) \/ TakedownStops(r)
        PROVE  AcceptanceInv'
    <2>1. TakedownEffect(r)
      BY <1>3, TakedownHasEffect DEF StoreInv
    <2> QED BY <2>1 DEF TakedownEffect, StoreInv, TypeOK
  <1>4. ASSUME NEW r \in Records, TakedownAgain(r) \/ TakedownUnregistered(r)
        PROVE  AcceptanceInv'
    BY <1>4 DEF TakedownAgain, TakedownUnregistered, diskVars, memVars
  <1>5. ASSUME NEW r \in Records, NEW a \in Attestations, AddAttestation(r, a)
        PROVE  AcceptanceInv'
    <2>1. /\ \A s \in Records : disk'[s].acceptance = disk[s].acceptance
          /\ \A s \in Records : mem'[s].acceptance = mem[s].acceptance
          /\ UNCHANGED <<cached, issued>>
      BY <1>5 DEF AddAttestation, StoreInv, TypeOK, Directories, Entries
    <2> QED BY <2>1 DEF StoreInv, TypeOK
  <1>6. ASSUME NEW ring \in KeyRings, NEW key \in ServerKeys, Restart(ring, key)
        PROVE  AcceptanceInv'
    <2>1. UNCHANGED <<disk, issued>>
      BY <1>6 DEF Restart, diskVars
    <2>2. \A r \in Records : RestoredAcceptance(r, key) = disk[r].acceptance
      BY DEF RestoredAcceptance, KeyIdsDiffer, StoreInv, TypeOK, Directories
    <2>3. \A r \in cached' : r \in Records /\ mem'[r].acceptance = disk[r].acceptance
      BY <1>6, <2>2 DEF Restart
    <2> QED BY <2>1, <2>3
  <1>7. CASE UNCHANGED vars
    BY <1>7 DEF vars, diskVars, memVars
  <1> QED BY <1>1, <1>2, <1>3, <1>4, <1>5, <1>6, <1>7 DEF Next, Request

\* Where every server key has an id of its own, an acceptance that reached the disk
\* is the only one ever handed out for its publication.
THEOREM AcceptancePersists ==
  ASSUME KeyIdsDiffer
  PROVE  Spec => []AcceptanceKept
  <1>1. AcceptanceInv => AcceptanceKept
    BY DEF AcceptanceInv
  <1>2. StoreInv /\ AcceptanceInv /\ [Next]_vars => AcceptanceInv'
    BY AcceptanceStep
  <1> QED BY <1>1, <1>2, AcceptanceInit, StoreInvariant, PTL DEF Spec
-----------------------------------------------------------------------------
\* The attestation log.

LEMMA ExtendedFacts ==
  ASSUME NEW log, NEW a, OncePerAttester(log)
  PROVE  /\ OncePerAttester(Extended(log, a))
         /\ log \subseteq Extended(log, a)
         /\ \A b \in Extended(log, a) : b \in log \/ (b = a /\ \A c \in log : c.by # a.by)
  BY DEF Extended, OncePerAttester

LEMMA LogInit == Init => LogInv /\ LogInMemory
  BY DEF Init, LogInv, LogInMemory, OncePerAttester, EmptyDirectory, Blank

LEMMA LogStep ==
  ASSUME StoreInv, LogInv, LogInMemory, [Next]_vars
  PROVE  /\ LogInv' /\ LogInMemory'
         /\ \A r \in Records : \A a \in disk[r].log :
               AlwaysVerifiable(a) => a \in disk'[r].log
  <1> DEFINE Kept == \A r \in Records : \A a \in disk[r].log :
                        AlwaysVerifiable(a) => a \in disk'[r].log
  <1> USE DEF LogInv, LogInMemory
  <1>1. ASSUME NEW r \in Records, Publish(r) \/ PublishFails(r)
        PROVE  LogInv' /\ LogInMemory' /\ Kept
    <2>1. disk[r].log = {} /\ r \notin cached
      BY <1>1 DEF Publish, PublishFails, Admissible, StoreInv, StaysCached, Reached
    <2>2. \A s \in Records \ {r} : disk'[s] = disk[s] /\ mem'[s] = mem[s]
      BY <1>1 DEF Publish, PublishFails, memVars, StoreInv, TypeOK
    <2>3. disk'[r].log = {}
      <3>1. PICK writes \in Written(r) \cup {AllWrites(r)} :
              disk' = [disk EXCEPT ![r] = After(r, writes)]
        BY <1>1 DEF Publish, PublishFails
      <3> QED BY <2>1, <3>1 DEF After, StoreInv, TypeOK
    <2>4. mem'[r].log \in {mem[r].log, {}} /\ cached' \subseteq cached \cup {r}
      BY <1>1 DEF Publish, PublishFails, memVars, StoreInv, TypeOK
    <2>5. known' = known
      BY <1>1 DEF Publish, PublishFails, configVars
    <2> QED BY <2>1, <2>2, <2>3, <2>4, <2>5 DEF OncePerAttester, StoreInv, TypeOK
  <1>2. ASSUME NEW r \in Records, Takedown(r) \/ TakedownStops(r)
        PROVE  LogInv' /\ LogInMemory' /\ Kept
    <2>1. TakedownEffect(r)
      BY <1>2, TakedownHasEffect DEF StoreInv
    <2>2. Blank.log = {}
      BY DEF Blank
    <2> QED BY <2>1, <2>2 DEF TakedownEffect, OncePerAttester, StoreInv, TypeOK
  <1>3. ASSUME NEW r \in Records,
               ReadAcceptance(r) \/ TakedownAgain(r) \/ TakedownUnregistered(r)
        PROVE  LogInv' /\ LogInMemory' /\ Kept
    BY <1>3 DEF ReadAcceptance, TakedownAgain, TakedownUnregistered, diskVars, memVars,
       configVars
  <1>4. ASSUME NEW r \in Records, NEW a \in Attestations, AddAttestation(r, a)
        PROVE  LogInv' /\ LogInMemory' /\ Kept
    <2> DEFINE new == Extended(mem[r].log, a)
    <2>1. /\ OncePerAttester(new)
          /\ mem[r].log \subseteq new
          /\ \A b \in new : b.signed => b.by \in known
      BY <1>4, ExtendedFacts DEF AddAttestation
    <2>2. /\ mem'[r].log = new
          /\ \A s \in Records \ {r} : mem'[s] = mem[s] /\ disk'[s] = disk[s]
          /\ disk'[r].log \in {new, disk[r].log}
          /\ r \in cached /\ UNCHANGED <<cached, known>>
      BY <1>4 DEF AddAttestation, Served, configVars, StoreInv, TypeOK, Directories, Entries
    <2> HIDE DEF new
    <2> QED BY <2>1, <2>2 DEF StoreInv, TypeOK
  <1>5. ASSUME NEW ring \in KeyRings, NEW key \in ServerKeys, Restart(ring, key)
        PROVE  LogInv' /\ LogInMemory' /\ Kept
    <2>1. disk' = disk /\ known' = ring
      BY <1>5 DEF Restart, diskVars
    <2>2. \A r \in Records :
            mem'[r].log = IF r \in cached' THEN Rebuilt(disk[r].log, ring) ELSE {}
      BY <1>5 DEF Restart, Blank
    <2>3. cached' \subseteq Records
      BY <1>5 DEF Restart
    <2>4. \A r \in Records : /\ mem'[r].log \subseteq disk[r].log
                             /\ \A a \in mem'[r].log : a.signed => a.by \in ring
      BY <2>2 DEF Rebuilt
    <2>5. LogInv'
      BY <2>1, <2>4 DEF OncePerAttester
    <2>6. LogInMemory'
      BY <2>1, <2>2, <2>3 DEF Rebuilt, AlwaysVerifiable
    <2> QED BY <2>1, <2>5, <2>6
  <1>6. CASE UNCHANGED vars
    BY <1>6 DEF vars, diskVars, memVars, configVars
  <1> QED BY <1>1, <1>2, <1>3, <1>4, <1>5, <1>6 DEF Next, Request

LEMMA LogInvariant == Spec => [](LogInv /\ LogInMemory)
  <1> QED BY LogInit, LogStep, StoreInvariant, PTL DEF Spec

\* A reproduction counts once per attester, and signed only under a known key.
THEOREM ReproductionsAreEarned == Spec => []ReproductionsEarned
  <1>1. StoreInv /\ LogInv => ReproductionsEarned
    BY DEF LogInv, ReproductionsEarned, OncePerAttester
  <1> QED BY <1>1, StoreInvariant, LogInvariant, PTL

\* The log is append-only for what every configuration can verify.
THEOREM LogIsKept == Spec => LogKept
  <1>1. StoreInv /\ LogInv /\ LogInMemory /\ [Next]_vars =>
          [\A r \in Records : \A a \in disk[r].log :
              (a.signed => \A ring \in KeyRings : a.by \in ring) => a \in disk'[r].log]_vars
    BY LogStep DEF AlwaysVerifiable
  <1> QED BY <1>1, StoreInvariant, LogInvariant, PTL DEF Spec, LogKept
=============================================================================
