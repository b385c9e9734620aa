SPECIFICATION InvestigationSpec
CONSTANTS
    None = None
    Proposals <- BankProposals
    Manifests <- BankManifests
    Data <- BankData
    Fixtures <- BankFixtures
    Injected <- Attacker
    Arms = {"on", "off", "ungoverned"}
    Egress = {"send", "wire"}
    Untrusted = {"inbox", "secret"}
    Sensitive = {"secret"}
    Driven = {"send", "wire"}
    MaxSteps = 7
    MaxToolCalls = 3
    Candidates <- BankScenarios
    Kernels = {"pinned", "lax", "strict"}
INVARIANTS
    TraceIsWhatRan
    ScoresWhatRan
    ReplayReproduces
    MatchMeansRan
    PinTells
    ChainIsOneCall
CHECK_DEADLOCK FALSE
