SPECIFICATION FairSpec
CONSTANTS
    Default = Default
    Tenants = {w1, w2}
    Orgs = {acme}
    Guests = {g1, g2, g3}
    Tokens = {k1, k2}
    Plans = {free, pro}
    Free = free
    Tiers = {free, pro, community}
    Unlimited = Unlimited
    Trial = Trial
    Custom = Custom
    Sessions = {s1}
    Billed = {acme}
    Threads = {t1, t2}
    MaxGuests = 1
    Traffics <- Mixes
    None = None
INVARIANT PlansFollow
INVARIANT RegistryIsCurrent
INVARIANT GuestsHold
PROPERTY SpentGrantsNothing
PROPERTY PaymentLands
PROPERTY CapacityReturns
