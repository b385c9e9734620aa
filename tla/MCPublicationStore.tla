-------------------------- MODULE MCPublicationStore --------------------------
(* PublicationStore for TLC: two publications of one experiment, the second   *)
(* signed by an author whose key the next process may not know.               *)
EXTENDS PublicationStore

CONSTANTS alice, bob, experiment, first, second, k1, k2

OneExperiment == [r \in Records |-> experiment]

AliceSignedSecond == [r \in Records |-> IF r = second THEN alice ELSE Unsigned]

\* An attester who posts signed and unsigned, and one who never signs.
AliceTwiceAndBob == {[by |-> alice, signed |-> TRUE],
                     [by |-> alice, signed |-> FALSE],
                     [by |-> bob,   signed |-> FALSE]}

WithAndWithoutAlice == {{alice}, {}}

\* Every key has an id of its own.
OwnKeyId == [k \in ServerKeys |-> k]
=============================================================================
