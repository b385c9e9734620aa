SPECIFICATION Spec
CONSTANTS
    alice = alice
    bob = bob
    experiment = experiment
    first = first
    second = second
    k1 = k1
    k2 = k2
    Records = {first, second}
    Lineages = {experiment}
    LineageOf <- OneExperiment
    Signers = {alice, bob}
    Unsigned = Unsigned
    Author <- AliceSignedSecond
    Attestations <- AliceTwiceAndBob
    KeyRings <- WithAndWithoutAlice
    ServerKeys = {k1, k2}
    KeyId <- OwnKeyId
    None = None
INVARIANT ServedSurvives
INVARIANT AcceptanceKept
INVARIANT ReproductionsEarned
PROPERTY LogKept
PROPERTY ImplementsCatalog
