-------------------------- MODULE Workspaces_proofs --------------------------
(***************************************************************************)
(* Theorems about Workspaces, for every set of workspaces, credentials,    *)
(* checkouts, plans, tiers and handler threads.  What a request carries    *)
(* from one lock region to the next is in todo, so that most invariants    *)
(* relate the registry to what requests have still to do.                  *)
(***************************************************************************)
EXTENDS Workspaces, FiniteSetTheorems, TLAPS

-----------------------------------------------------------------------------
\* Type correctness.

LEMMA ThenTyped ==
  ASSUME TypeOK, NEW t \in Threads, NEW q \in Seq(Regions), Then(t, q)
  PROVE  todo' \in [Threads -> Seq(Regions)]
  BY DEF Then, TypeOK

LEMMA AheadTyped ==
  ASSUME TypeOK, NEW t \in Threads, ~Idle(t)
  PROVE  Ahead(t) \in Regions /\ Tail(todo[t]) \in Seq(Regions)
  BY DEF Idle, Ahead, TypeOK

LEMMA OnwardTyped ==
  ASSUME TypeOK, NEW t \in Threads, ~Idle(t), Onward(t)
  PROVE  todo' \in [Threads -> Seq(Regions)]
  BY AheadTyped, ThenTyped DEF Onward

LEMMA BilledTyped == Billed \subseteq Ids /\ Orgs \subseteq Ids /\ Guests \subseteq Ids
  BY WorkspaceAssumption DEF Ids

LEMMA EntriesTyped ==
  /\ \A p \in Plans \cup {Unlimited, Trial, Custom}, b \in Plans \cup {Trial},
        s \in {"active", "lapsed"} : Entry(p, b, s) \in Entries
  /\ \A p \in Plans \cup {Trial}, s \in {"active", "lapsed"} : Applied(p, s) \in Entries
  /\ Offered \subseteq Entries
  /\ Provisioned \in Entries
  BY WorkspaceAssumption DEF Entry, Entries, Applied, Offered, Provisioned

LEMMA RegionsTyped ==
  /\ \A w \in Ids, p \in Plans \cup {Trial}, s \in {"active", "lapsed"},
        c \in Sessions \cup {None} : ApplyPlan(w, p, s, c) \in Regions
  /\ \A c \in Sessions : Settle(c) \in Regions
  /\ \A w \in Tenants, e \in Offered : [op |-> "add", ws |-> w, entry |-> e] \in Regions
  /\ \A o \in {"count", "create"} : [op |-> o] \in Regions
  /\ \A o \in {"use", "connect", "bind"}, g \in Guests : [op |-> o, ws |-> g] \in Regions
  BY DEF ApplyPlan, Settle, Regions

LEMMA AtTyped ==
  ASSUME TypeOK, NEW t \in Threads
  PROVE  /\ At(t, "apply") => /\ Ahead(t).ws \in Ids /\ Ahead(t).plan \in Plans \cup {Trial}
                              /\ Ahead(t).status \in {"active", "lapsed"}
                              /\ Ahead(t).session \in Sessions \cup {None}
         /\ At(t, "settle") => Ahead(t).session \in Sessions
         /\ At(t, "add") => Ahead(t).ws \in Tenants /\ Ahead(t).entry \in Offered
         /\ At(t, "use") \/ At(t, "connect") \/ At(t, "bind") => Ahead(t).ws \in Guests
  BY AheadTyped DEF At, Regions

LEMMA DefaultTyped == OnlyDefault \in [Ids -> Entries \cup {None}]
  <1>1. Entry(Unlimited, Free, "active") \in Entries
    BY EntriesTyped, WorkspaceAssumption
  <1> QED BY <1>1 DEF OnlyDefault

LEMMA TypeInit == Init => TypeOK
  <1>1. <<>> \in Seq(Regions)
    OBVIOUS
  <1> QED BY <1>1, DefaultTyped DEF Init, TypeOK

\* Requests about plans only queue regions, or open a checkout.
LEMMA TypeBilling ==
  ASSUME TypeOK, NEW t \in Threads, PlanRequest(t)
  PROVE  TypeOK'
  <1> USE DEF registryVars, billingVars, guestVars
  <1>1. ASSUME NEW w \in Ids, NEW plan \in Plans, Grant(t, w, plan) PROVE TypeOK'
    <2>1. <<ApplyPlan(w, plan, "active", None)>> \in Seq(Regions)
      BY RegionsTyped
    <2>2. todo' \in [Threads -> Seq(Regions)]
      BY <1>1, <2>1, ThenTyped DEF Grant
    <2> QED BY <1>1, <2>2 DEF Grant, TypeOK
  <1>2. ASSUME NEW w \in Ids, NEW plan \in Plans, NEW s \in Sessions, 
               OpenCheckout(t, w, plan, s)
        PROVE TypeOK'
    BY <1>2 DEF OpenCheckout, TypeOK
  <1>3. ASSUME NEW s \in Sessions, checkouts[s] # None
        PROVE  checkouts[s].ws \in Ids /\ checkouts[s].plan \in Plans
    BY <1>3 DEF TypeOK
  <1>4. ASSUME NEW s \in Sessions, PaymentSucceeded(t, s) PROVE TypeOK'
    <2>1. <<ApplyPlan(checkouts[s].ws, checkouts[s].plan, "active", s), Settle(s)>>
            \in Seq(Regions)
      BY <1>3, <1>4, RegionsTyped DEF PaymentSucceeded, Pending
    <2>2. todo' \in [Threads -> Seq(Regions)]
      BY <1>4, <2>1, ThenTyped DEF PaymentSucceeded
    <2> QED BY <1>4, <2>2 DEF PaymentSucceeded, TypeOK
  <1>5. ASSUME NEW s \in Sessions, PaymentFailed(t, s) PROVE TypeOK'
    <2>1. <<Settle(s), ApplyPlan(checkouts[s].ws, checkouts[s].plan, "lapsed", None)>>
            \in Seq(Regions)
      BY <1>3, <1>5, RegionsTyped DEF PaymentFailed, Pending
    <2>2. todo' \in [Threads -> Seq(Regions)]
      BY <1>5, <2>1, ThenTyped DEF PaymentFailed
    <2> QED BY <1>5, <2>2 DEF PaymentFailed, TypeOK
  <1>6. ASSUME NEW w \in Ids, Lapse(t, w) PROVE TypeOK'
    <2>1. byId[w].bought \in Plans \cup {Trial}
      BY <1>6 DEF Lapse, TypeOK, Entries
    <2>2. <<ApplyPlan(w, byId[w].bought, "lapsed", None)>> \in Seq(Regions)
      BY <2>1, RegionsTyped
    <2>3. todo' \in [Threads -> Seq(Regions)]
      BY <1>6, <2>2, ThenTyped DEF Lapse
    <2> QED BY <1>6, <2>3 DEF Lapse, TypeOK
  <1> QED BY <1>1, <1>2, <1>4, <1>5, <1>6, BilledTyped DEF PlanRequest

LEMMA NewIdTyped ==
  ASSUME NEW existing \in SUBSET Tenants, existing # Tenants
  PROVE  NewId(existing) \in Tenants \ existing
  BY DEF NewId

LEMMA TypeTenants ==
  ASSUME TypeOK, NEW t \in Threads,
         TenantRequest(t) \/ \E k \in Tokens : Add(t, k) \/ AddFails(t, k)
  PROVE  TypeOK'
  <1> USE DEF registryVars, billingVars, guestVars
  <1>1. ASSUME NEW e \in Offered, ListTenants(t, e) PROVE TypeOK'
    <2> DEFINE existing == {v \in Tenants : byId[v] # None}
    <2>1. NewId(existing) \in Tenants
      BY <1>1, NewIdTyped DEF ListTenants
    <2>2. <<[op |-> "add", ws |-> NewId(existing), entry |-> e]>> \in Seq(Regions)
      BY <2>1, RegionsTyped
    <2>3. todo' \in [Threads -> Seq(Regions)]
      BY <1>1, <2>2, ThenTyped DEF ListTenants
    <2> QED BY <1>1, <2>3 DEF ListTenants, TypeOK
  <1>2. \A v \in Ids : Own(v) \in Bindings /\ Member(v) \in Bindings
    BY DEF Own, Member, Bindings
  <1>3. ASSUME NEW k \in Tokens, Add(t, k) PROVE TypeOK'
    <2>1. Ahead(t).ws \in Ids /\ Ahead(t).entry \in Entries
      BY <1>3, AtTyped, EntriesTyped DEF Add, Ids
    <2>2. todo' \in [Threads -> Seq(Regions)]
      BY <1>3, OnwardTyped DEF Add, At
    <2> QED BY <1>2, <1>3, <2>1, <2>2 DEF Add, TypeOK
  <1>4. ASSUME NEW k \in Tokens, AddFails(t, k) PROVE TypeOK'
    <2>1. Ahead(t).ws \in Ids /\ Ahead(t).entry \in Entries
      BY <1>4, AtTyped, EntriesTyped DEF AddFails, Ids
    <2>2. <<>> \in Seq(Regions)
      OBVIOUS
    <2>3. todo' \in [Threads -> Seq(Regions)]
      BY <1>4, <2>2, ThenTyped DEF AddFails
    <2> QED BY <1>2, <1>4, <2>1, <2>3 DEF AddFails, TypeOK
  <1>5. ASSUME NEW w \in Ids, NEW k \in Tokens, AddMember(t, w, k) PROVE TypeOK'
    BY <1>2, <1>5 DEF AddMember, TypeOK
  <1>6. ASSUME NEW w \in Ids, NEW k \in Tokens, RemoveMember(t, w, k) PROVE TypeOK'
    BY <1>2, <1>6 DEF RemoveMember, TypeOK
  <1> QED BY <1>1, <1>3, <1>4, <1>5, <1>6 DEF TenantRequest

LEMMA TypeLogin ==
  ASSUME TypeOK, NEW t \in Threads, IdentityRequest(t)
  PROVE  TypeOK'
  <1> USE DEF registryVars, billingVars, guestVars
  <1>1. Orgs \subseteq Ids /\ Provisioned \in Entries
    BY EntriesTyped, BilledTyped
  <1>2. ASSUME NEW o \in Orgs, NEW tier \in Tiers, Login(t, o, tier) PROVE TypeOK'
    <2>1. <<ApplyPlan(o, PlanOfTier(tier), "active", None)>> \in Seq(Regions)
      BY <1>1, RegionsTyped, WorkspaceAssumption DEF PlanOfTier
    <2>2. todo' \in [Threads -> Seq(Regions)]
      BY <1>2, <2>1, ThenTyped DEF Login, TypeOK
    <2> QED BY <1>1, <1>2, <2>2 DEF Login, TypeOK
  <1>3. ASSUME NEW o \in Orgs, LoginFails(t, o) PROVE TypeOK'
    BY <1>1, <1>3 DEF LoginFails, TypeOK
  <1> QED BY <1>2, <1>3 DEF IdentityRequest

LEMMA TypeApply ==
  ASSUME TypeOK, NEW t \in Threads, Apply(t) \/ ApplyFails(t) \/ SettleCheckout(t)
  PROVE  TypeOK'
  <1> USE DEF registryVars, billingVars, guestVars
  <1>1. At(t, "apply") => Applied(Ahead(t).plan, Ahead(t).status) \in Entries
    BY AtTyped, EntriesTyped
  <1>2. CASE Apply(t)
    <2>1. todo' \in [Threads -> Seq(Regions)]
      BY <1>2, OnwardTyped DEF Apply, At
    <2>2. At(t, "apply")
      BY <1>2 DEF Apply
    <2>3. landed' \subseteq Sessions
      BY <1>2, <2>2, AtTyped DEF Apply, TypeOK
    <2>4. byId' \in [Ids -> Entries \cup {None}] /\ rows' \in [Ids -> Entries \cup {None}]
      BY <1>1, <1>2, <2>2 DEF Apply, TypeOK
    <2> QED BY <1>2, <2>1, <2>3, <2>4 DEF Apply, TypeOK
  <1>3. CASE ApplyFails(t)
    <2>1. <<>> \in Seq(Regions)
      OBVIOUS
    <2>2. todo' \in [Threads -> Seq(Regions)]
      BY <1>3, <2>1, ThenTyped DEF ApplyFails
    <2> QED BY <1>1, <1>3, <2>2, AtTyped DEF ApplyFails, TypeOK
  <1>4. CASE SettleCheckout(t)
    <2>1. todo' \in [Threads -> Seq(Regions)]
      BY <1>4, OnwardTyped DEF SettleCheckout, At
    <2> QED BY <1>4, <2>1, AtTyped DEF SettleCheckout, TypeOK
  <1> QED BY <1>2, <1>3, <1>4

LEMMA EvictTyped ==
  ASSUME TypeOK, NEW gs \in SUBSET Guests, EvictGuests(gs)
  PROVE  /\ byId' \in [Ids -> Entries \cup {None}]
         /\ stores' \in [Guests -> {"none", "memory", "durable"}]
         /\ expiry' \in [Guests -> {"none", "live", "expired"}]
  BY DEF EvictGuests, TypeOK

LEMMA TypeGuests ==
  ASSUME TypeOK, NEW t \in Threads,
         \/ Visit(t) \/ CountGuests(t)
         \/ \E g \in Guests : CreateGuest(t, g)
         \/ UseStores(t) \/ ConnectRuntime(t) \/ BindKey(t)
  PROVE  TypeOK'
  <1> USE DEF registryVars, billingVars, guestVars
  <1>0. Guests \subseteq Ids /\ <<>> \in Seq(Regions)
    BY BilledTyped
  <1>1. CASE GuestSession(t)
    <2>1. Expired \in SUBSET Guests
      BY DEF Expired
    <2>2. <<[op |-> "count"], [op |-> "create"]>> \in Seq(Regions)
      BY RegionsTyped
    <2>3. todo' \in [Threads -> Seq(Regions)]
      BY <1>1, <2>2, ThenTyped DEF GuestSession
    <2>4. tokens' \in [Tokens -> Bindings \cup {None}]
      BY <1>1 DEF GuestSession, Unbound, TypeOK
    <2> QED BY <1>1, <2>1, <2>3, <2>4, EvictTyped DEF GuestSession, TypeOK
  <1>2. CASE CountGuests(t)
    <2>1. todo' \in [Threads -> Seq(Regions)]
      BY <1>0, <1>2, OnwardTyped, ThenTyped DEF CountGuests, At
    <2> QED BY <1>2, <2>1 DEF CountGuests, TypeOK
  <1>3. ASSUME NEW g \in Guests, CreateGuest(t, g) PROVE TypeOK'
    <2>1. todo' \in [Threads -> Seq(Regions)]
      BY <1>3, OnwardTyped DEF CreateGuest, At
    <2>2. Entry(Trial, Trial, "active") \in Entries
      BY EntriesTyped
    <2> QED BY <1>0, <1>3, <2>1, <2>2 DEF CreateGuest, TypeOK
  <1>5. ASSUME NEW g \in Guests, GuestRequest(t, g) PROVE TypeOK'
    <2>1. /\ <<[op |-> "use", ws |-> g]>> \in Seq(Regions)
          /\ <<[op |-> "connect", ws |-> g], [op |-> "use", ws |-> g],
               [op |-> "bind", ws |-> g]>> \in Seq(Regions)
      BY RegionsTyped
    <2>2. todo' \in [Threads -> Seq(Regions)]
      BY <1>5, <2>1, ThenTyped DEF GuestRequest
    <2> QED BY <1>5, <2>2 DEF GuestRequest, TypeOK
  <1>6. ASSUME NEW g \in Guests, GuestRefused(t, g) PROVE TypeOK'
    <2>1. {g} \in SUBSET Guests
      OBVIOUS
    <2> QED BY <1>6, <2>1, EvictTyped DEF GuestRefused, TypeOK
  <1>7. ASSUME NEW g \in Guests, RuntimeRequest(t, g) PROVE TypeOK'
    <2>1. <<[op |-> "use", ws |-> g]>> \in Seq(Regions)
      BY RegionsTyped
    <2>2. todo' \in [Threads -> Seq(Regions)]
      BY <1>7, <2>1, ThenTyped DEF RuntimeRequest
    <2> QED BY <1>7, <2>2 DEF RuntimeRequest, TypeOK
  <1>8. CASE UseStores(t)
    <2>1. todo' \in [Threads -> Seq(Regions)]
      BY <1>8, OnwardTyped DEF UseStores, At
    <2> QED BY <1>8, <2>1, AtTyped DEF UseStores, TypeOK
  <1>9. CASE ConnectRuntime(t)
    <2>1. todo' \in [Threads -> Seq(Regions)]
      BY <1>0, <1>9, OnwardTyped, ThenTyped DEF ConnectRuntime, At
    <2> QED BY <1>9, <2>1 DEF ConnectRuntime, TypeOK
  <1>10. CASE BindKey(t)
    <2>1. todo' \in [Threads -> Seq(Regions)]
      BY <1>10, OnwardTyped DEF BindKey, At
    <2> QED BY <1>10, <2>1, AtTyped DEF BindKey, TypeOK
  <1> QED BY <1>1, <1>2, <1>3, <1>5, <1>6, <1>7, <1>8, <1>9, <1>10 DEF Visit

LEMMA TypeRestart == TypeOK /\ Restart => TypeOK'
  <1> SUFFICES ASSUME TypeOK, Restart PROVE TypeOK'
    OBVIOUS
  <1>1. Entry(Unlimited, Free, "active") \in Entries
    BY EntriesTyped, WorkspaceAssumption
  <1>2. todo' \in [Threads -> Seq(Regions)]
    <2>1. <<>> \in Seq(Regions)
      OBVIOUS
    <2> QED BY <2>1 DEF Restart
  <1> QED BY <1>1, <1>2 DEF Restart, TypeOK

LEMMA TypeStep == TypeOK /\ [Next]_vars => TypeOK'
  <1> SUFFICES ASSUME TypeOK, [Next]_vars PROVE TypeOK'
    OBVIOUS
  <1>1. ASSUME NEW g \in Guests, Expire(g) PROVE TypeOK'
    BY <1>1 DEF Expire, TypeOK, registryVars, billingVars
  <1>2. ASSUME NEW s \in Sessions, NEW outcome \in {"paid", "failed"}, Charged(s, outcome)
        PROVE  TypeOK'
    BY <1>2 DEF Charged, TypeOK, registryVars, guestVars
  <1>3. CASE UNCHANGED vars
    BY <1>3 DEF vars, registryVars, billingVars, guestVars, TypeOK
  <1> QED BY <1>1, <1>2, <1>3, TypeBilling, TypeTenants, TypeLogin, TypeApply, TypeGuests,
             TypeRestart DEF Next, Arrive, Continue

\* The variables stay within their types, for every deployment.
THEOREM TypeCorrect == Spec => []TypeOK
  BY TypeInit, TypeStep, PTL DEF Spec

-----------------------------------------------------------------------------
\* What the registry may hold after a step.

\* Requests that leave the registry alone.
LEMMA RegistryUntouched ==
  ASSUME NEW t \in Threads,
         \/ PlanRequest(t) \/ SettleCheckout(t) \/ CountGuests(t)
         \/ UseStores(t) \/ ConnectRuntime(t) \/ BindKey(t)
         \/ \E e \in Offered : ListTenants(t, e)
         \/ \E g \in Guests : GuestRequest(t, g) \/ RuntimeRequest(t, g)
  PROVE  UNCHANGED registryVars
  <1>1. PlanRequest(t) => UNCHANGED registryVars
    BY DEF PlanRequest, Grant, OpenCheckout, PaymentSucceeded, PaymentFailed, Lapse
  <1> QED BY <1>1 DEF SettleCheckout, CountGuests, UseStores, ConnectRuntime, BindKey,
                      ListTenants, GuestRequest, RuntimeRequest

Outside == {None, Provisioned, Entry(Trial, Trial, "active"), Entry(Unlimited, Free, "active")}
                \cup Offered
                \cup {Applied(p, s) : p \in Plans \cup {Trial}, s \in {"active", "lapsed"}}
Sources(w) == {byId[w], rows[w]} \cup Outside

LEMMA RegistrySources ==
  ASSUME TypeOK, [Next]_vars, NEW w \in Ids
  PROVE  byId'[w] \in Sources(w) /\ rows'[w] \in Sources(w)
  <1> USE DEF TypeOK
  <1>0. UNCHANGED registryVars => byId'[w] \in Sources(w) /\ rows'[w] \in Sources(w)
    BY DEF registryVars, Sources
  <1>1. ASSUME NEW t \in Threads, Apply(t) \/ ApplyFails(t)
        PROVE  byId'[w] \in Sources(w) /\ rows'[w] \in Sources(w)
    <2>1. At(t, "apply")
      BY <1>1 DEF Apply, ApplyFails
    <2>2. Applied(Ahead(t).plan, Ahead(t).status) \in Outside
      <3>1. Ahead(t).plan \in Plans \cup {Trial} /\ Ahead(t).status \in {"active", "lapsed"}
        BY <2>1, AtTyped
      <3> HIDE DEF TypeOK
      <3> QED BY <3>1 DEF Outside
    <2>3. CASE Apply(t)
      BY <1>0, <2>2, <2>3 DEF Apply, Sources
    <2>4. CASE ApplyFails(t)
      BY <2>2, <2>4 DEF ApplyFails, Sources
    <2> QED BY <1>1, <2>3, <2>4
  <1>2. ASSUME NEW t \in Threads, NEW k \in Tokens, Add(t, k) \/ AddFails(t, k)
        PROVE  byId'[w] \in Sources(w) /\ rows'[w] \in Sources(w)
    <2>1. Ahead(t).entry \in Outside
      BY <1>2, AtTyped DEF Add, AddFails, Outside
    <2>2. CASE Add(t, k)
      BY <2>1, <2>2 DEF Add, Sources
    <2>3. CASE AddFails(t, k)
      BY <2>1, <2>3 DEF AddFails, Sources
    <2> QED BY <1>2, <2>2, <2>3
  <1>3. ASSUME NEW t \in Threads, IdentityRequest(t)
        PROVE  byId'[w] \in Sources(w) /\ rows'[w] \in Sources(w)
    <2>1. Provisioned \in Outside
      BY DEF Outside
    <2>2. ASSUME NEW o \in Orgs, LoginFails(t, o)
          PROVE  byId'[w] \in Sources(w) /\ rows'[w] \in Sources(w)
      BY <2>1, <2>2 DEF LoginFails, Sources
    <2>3. ASSUME NEW o \in Orgs, NEW tier \in Tiers, Login(t, o, tier)
          PROVE  byId'[w] \in Sources(w) /\ rows'[w] \in Sources(w)
      <3>1. CASE byId[o] = None
        BY <2>1, <2>3, <3>1 DEF Login, Sources
      <3>2. CASE byId[o] # None
        BY <2>3, <3>2 DEF Login, Sources
      <3> QED BY <3>1, <3>2
    <2> QED BY <1>3, <2>2, <2>3 DEF IdentityRequest
  <1>4. ASSUME NEW t \in Threads, TenantRequest(t)
        PROVE  byId'[w] \in Sources(w) /\ rows'[w] \in Sources(w)
    <2>1. UNCHANGED <<byId, rows>>
      BY <1>4 DEF TenantRequest, ListTenants, AddMember, RemoveMember, registryVars
    <2> QED BY <2>1 DEF Sources
  <1>5. ASSUME NEW gs, EvictGuests(gs), UNCHANGED rows
        PROVE  byId'[w] \in Sources(w) /\ rows'[w] \in Sources(w)
    BY <1>5 DEF EvictGuests, Sources, Outside
  <1>6. ASSUME NEW t \in Threads, Visit(t)
        PROVE  byId'[w] \in Sources(w) /\ rows'[w] \in Sources(w)
    BY <1>0, <1>5, <1>6, RegistryUntouched DEF Visit, GuestSession, GuestRefused
  <1>7. ASSUME NEW t \in Threads, NEW g \in Guests, CreateGuest(t, g)
        PROVE  byId'[w] \in Sources(w) /\ rows'[w] \in Sources(w)
    BY <1>7 DEF CreateGuest, Sources, Outside
  <1>8. CASE Restart
    BY <1>8 DEF Restart, Sources, Outside
  <1>9. ASSUME NEW g \in Guests, Expire(g) PROVE UNCHANGED registryVars
    BY <1>9 DEF Expire
  <1>10. ASSUME NEW s \in Sessions, NEW outcome \in {"paid", "failed"}, Charged(s, outcome)
         PROVE  UNCHANGED registryVars
    BY <1>10 DEF Charged
  <1>11. CASE UNCHANGED vars
    BY <1>0, <1>11 DEF vars
  <1> QED BY <1>0, <1>1, <1>2, <1>3, <1>4, <1>6, <1>7, <1>8, <1>9, <1>10, <1>11,
             RegistryUntouched DEF Next, Arrive, Continue

LEMMA OutsideIsFree == \A e \in Outside \ {None} : e.status = "lapsed" => e.plan = Free
  BY DEF Outside, Provisioned, Offered, Applied, Entry

LEMMA LapsedInit == Init => LapsedIsFree
  BY DEF Init, LapsedIsFree, OnlyDefault, Entry

LEMMA LapsedStep == TypeOK /\ LapsedIsFree /\ [Next]_vars => LapsedIsFree'
  BY RegistrySources, OutsideIsFree DEF LapsedIsFree, Sources

\* A subscription that lapsed carries the free plan, whatever raced with it
\* and whenever the process started again.
THEOREM LapseLosesThePlan == Spec => []LapsedIsFree
  BY TypeCorrect, LapsedInit, LapsedStep, PTL DEF Spec

-----------------------------------------------------------------------------
\* Memory and rows.

LEMMA CurrentInit == Init => RegistryIsCurrent
  BY DEF Init, RegistryIsCurrent

LEMMA CurrentKept == RegistryIsCurrent /\ UNCHANGED registryVars => RegistryIsCurrent'
  BY DEF RegistryIsCurrent, registryVars

LEMMA CurrentPlans ==
  ASSUME TypeOK, RegistryIsCurrent, NEW t \in Threads, Apply(t) \/ ApplyFails(t)
  PROVE  RegistryIsCurrent'
  <1>1. Ahead(t).ws \in Ids /\ Ahead(t).ws \notin Tokens
    BY AtTyped, WorkspaceAssumption DEF Apply, ApplyFails
  <1>2. byId \in [Ids -> Entries \cup {None}] /\ rows \in [Ids -> Entries \cup {None}]
    BY DEF TypeOK
  <1>3. CASE Apply(t) /\ byId[Ahead(t).ws] # None
    <2>1. ASSUME NEW w \in Ids \ (Guests \cup unsaved')
          PROVE  rows'[w] = byId'[w]
      BY <1>1, <1>2, <1>3, <2>1 DEF Apply, RegistryIsCurrent
    <2>2. ASSUME NEW k \in Tokens \ unsaved'
          PROVE  tokenRows'[k] = tokens'[k] \/ OfGuest(tokenRows'[k])
      BY <1>1, <1>3, <2>2 DEF Apply, RegistryIsCurrent
    <2> QED BY <2>1, <2>2 DEF RegistryIsCurrent
  <1>4. CASE Apply(t) /\ byId[Ahead(t).ws] = None
    BY <1>4, CurrentKept DEF Apply
  <1>5. CASE ApplyFails(t)
    BY <1>1, <1>2, <1>5 DEF ApplyFails, RegistryIsCurrent
  <1> QED BY <1>3, <1>4, <1>5

LEMMA CurrentTenants ==
  ASSUME TypeOK, RegistryIsCurrent, NEW t \in Threads,
         TenantRequest(t) \/ \E k \in Tokens : Add(t, k) \/ AddFails(t, k)
  PROVE  RegistryIsCurrent'
  <1>1. /\ byId \in [Ids -> Entries \cup {None}] /\ rows \in [Ids -> Entries \cup {None}]
        /\ tokens \in [Tokens -> Bindings \cup {None}]
        /\ tokenRows \in [Tokens -> Bindings \cup {None}]
    BY DEF TypeOK
  <1>2. Ids \cap Tokens = {}
    BY WorkspaceAssumption
  <1>3. At(t, "add") => Ahead(t).ws \in Ids
    BY AtTyped DEF Ids
  <1>4. ASSUME NEW k \in Tokens, Add(t, k) PROVE RegistryIsCurrent'
    <2>1. ASSUME NEW w \in Ids \ (Guests \cup unsaved') PROVE rows'[w] = byId'[w]
      BY <1>1, <1>2, <1>3, <1>4, <2>1 DEF Add, RegistryIsCurrent
    <2>2. ASSUME NEW l \in Tokens \ unsaved' PROVE tokenRows'[l] = tokens'[l] \/ OfGuest(tokenRows'[l])
      BY <1>1, <1>2, <1>3, <1>4, <2>2 DEF Add, RegistryIsCurrent
    <2> QED BY <2>1, <2>2 DEF RegistryIsCurrent
  <1>5. ASSUME NEW k \in Tokens, AddFails(t, k) PROVE RegistryIsCurrent'
    <2>1. ASSUME NEW w \in Ids \ (Guests \cup unsaved') PROVE rows'[w] = byId'[w]
      BY <1>1, <1>2, <1>3, <1>5, <2>1 DEF AddFails, RegistryIsCurrent
    <2>2. ASSUME NEW l \in Tokens \ unsaved' PROVE tokenRows'[l] = tokens'[l] \/ OfGuest(tokenRows'[l])
      BY <1>1, <1>2, <1>3, <1>5, <2>2 DEF AddFails, RegistryIsCurrent
    <2> QED BY <2>1, <2>2 DEF RegistryIsCurrent
  <1>6. ASSUME NEW w \in Ids, NEW k \in Tokens, AddMember(t, w, k) PROVE RegistryIsCurrent'
    <2>1. ASSUME NEW v \in Ids \ (Guests \cup unsaved') PROVE rows'[v] = byId'[v]
      BY <1>2, <1>6, <2>1 DEF AddMember, RegistryIsCurrent
    <2>2. ASSUME NEW l \in Tokens \ unsaved' PROVE tokenRows'[l] = tokens'[l] \/ OfGuest(tokenRows'[l])
      BY <1>1, <1>6, <2>2 DEF AddMember, RegistryIsCurrent
    <2> QED BY <2>1, <2>2 DEF RegistryIsCurrent
  <1>7. ASSUME NEW w \in Ids, NEW k \in Tokens, RemoveMember(t, w, k)
        PROVE  RegistryIsCurrent'
    <2>1. ASSUME NEW v \in Ids \ (Guests \cup unsaved') PROVE rows'[v] = byId'[v]
      BY <1>2, <1>7, <2>1 DEF RemoveMember, RegistryIsCurrent
    <2>2. ASSUME NEW l \in Tokens \ unsaved' PROVE tokenRows'[l] = tokens'[l] \/ OfGuest(tokenRows'[l])
      BY <1>1, <1>7, <2>2 DEF RemoveMember, RegistryIsCurrent
    <2> QED BY <2>1, <2>2 DEF RegistryIsCurrent
  <1> QED BY <1>4, <1>5, <1>6, <1>7, RegistryUntouched, CurrentKept DEF TenantRequest

LEMMA CurrentLogin ==
  ASSUME TypeOK, RegistryIsCurrent, NEW t \in Threads, IdentityRequest(t)
  PROVE  RegistryIsCurrent'
  <1>1. byId \in [Ids -> Entries \cup {None}] /\ rows \in [Ids -> Entries \cup {None}]
    BY DEF TypeOK
  <1>2. Orgs \cap Tokens = {}
    BY BilledTyped, WorkspaceAssumption
  <1>3. ASSUME NEW o \in Orgs, LoginFails(t, o) PROVE RegistryIsCurrent'
    BY <1>1, <1>2, <1>3 DEF LoginFails, RegistryIsCurrent
  <1>4. ASSUME NEW o \in Orgs, NEW tier \in Tiers, Login(t, o, tier) PROVE RegistryIsCurrent'
    <2>1. CASE byId[o] = None
      BY <1>1, <1>2, <1>4, <2>1 DEF Login, RegistryIsCurrent
    <2>2. CASE byId[o] # None
      BY <1>4, <2>2, CurrentKept DEF Login, registryVars
    <2> QED BY <2>1, <2>2
  <1> QED BY <1>3, <1>4 DEF IdentityRequest

LEMMA CurrentVisit ==
  ASSUME TypeOK, RegistryIsCurrent, NEW t \in Threads,
         Visit(t) \/ \E g \in Guests : CreateGuest(t, g)
  PROVE  RegistryIsCurrent'
  <1>1. byId \in [Ids -> Entries \cup {None}]
    BY DEF TypeOK
  <1>2. ASSUME NEW gs \in SUBSET Guests, EvictGuests(gs)
        PROVE  \A w \in Ids \ Guests : byId'[w] = byId[w]
    BY <1>2 DEF EvictGuests
  <1>3. CASE GuestSession(t)
    <2>1. ASSUME NEW w \in Ids \ (Guests \cup unsaved') PROVE rows'[w] = byId'[w]
      BY <1>2, <1>3, <2>1 DEF GuestSession, Expired, RegistryIsCurrent
    <2>2. ASSUME NEW k \in Tokens \ unsaved'
          PROVE  tokenRows'[k] = tokens'[k] \/ OfGuest(tokenRows'[k])
      <3>1. \/ tokens'[k] = tokens[k]
            \/ tokens[k] # None /\ tokens[k].ws \in Guests
        BY <1>3, <2>2 DEF GuestSession, Unbound, Expired
      <3>2. tokenRows[k] = tokens[k] \/ OfGuest(tokenRows[k])
        BY <1>3, <2>2 DEF GuestSession, RegistryIsCurrent
      <3>3. tokenRows'[k] = tokenRows[k]
        BY <1>3 DEF GuestSession
      <3> QED BY <3>1, <3>2, <3>3 DEF OfGuest
    <2> QED BY <2>1, <2>2 DEF RegistryIsCurrent
  <1>4. ASSUME NEW g \in Guests, GuestRefused(t, g) PROVE RegistryIsCurrent'
    <2>1. {g} \in SUBSET Guests
      OBVIOUS
    <2>2. \A w \in Ids \ Guests : byId'[w] = byId[w]
      BY <1>2, <1>4, <2>1 DEF GuestRefused
    <2> QED BY <1>4, <2>2 DEF GuestRefused, RegistryIsCurrent, OfGuest
  <1>5. ASSUME NEW g \in Guests, CreateGuest(t, g) PROVE RegistryIsCurrent'
    BY <1>1, <1>5 DEF CreateGuest, RegistryIsCurrent, OfGuest
  <1> QED BY <1>3, <1>4, <1>5, RegistryUntouched, CurrentKept DEF Visit

LEMMA CurrentStep == TypeOK /\ RegistryIsCurrent /\ [Next]_vars => RegistryIsCurrent'
  <1> SUFFICES ASSUME TypeOK, RegistryIsCurrent, [Next]_vars PROVE RegistryIsCurrent'
    OBVIOUS
  <1>1. CASE Restart
    BY <1>1 DEF Restart, RegistryIsCurrent
  <1>2. ASSUME NEW g \in Guests, Expire(g) PROVE UNCHANGED registryVars
    BY <1>2 DEF Expire
  <1>3. ASSUME NEW s \in Sessions, NEW outcome \in {"paid", "failed"}, Charged(s, outcome)
        PROVE  UNCHANGED registryVars
    BY <1>3 DEF Charged
  <1>4. CASE UNCHANGED vars
    BY <1>4, CurrentKept DEF vars
  <1> QED BY <1>1, <1>2, <1>3, <1>4, CurrentKept, CurrentPlans, CurrentTenants, CurrentLogin,
             CurrentVisit, RegistryUntouched DEF Next, Arrive, Continue

\* What a request was answered for is in the rows a restart reads.
THEOREM RegistrySurvives == Spec => []RegistryIsCurrent
  BY TypeCorrect, CurrentInit, CurrentStep, PTL DEF Spec

-----------------------------------------------------------------------------
\* What a step does to the regions requests have still to enter.

Queue(t) == {todo[t][i] : i \in DOMAIN todo[t]}

LEMMA ThenQueue ==
  ASSUME TypeOK, NEW t \in Threads, NEW q \in Seq(Regions), Then(t, q)
  PROVE  todo'[t] = q /\ \A u \in Threads \ {t} : todo'[u] = todo[u]
  BY DEF Then, TypeOK

LEMMA OnwardQueue ==
  ASSUME TypeOK, NEW t \in Threads, ~Idle(t), Onward(t)
  PROVE  /\ \A u \in Threads \ {t} : todo'[u] = todo[u]
         /\ Queue(t)' \subseteq Queue(t)
         /\ Queue(t) \subseteq Queue(t)' \cup {Ahead(t)}
  <1>1. todo'[t] = Tail(todo[t]) /\ \A u \in Threads \ {t} : todo'[u] = todo[u]
    BY AheadTyped, ThenQueue DEF Onward
  <1>2. todo[t] \in Seq(Regions) /\ todo[t] # <<>>
    BY DEF TypeOK, Idle
  <1>3. /\ Len(Tail(todo[t])) = Len(todo[t]) - 1
        /\ \A i \in 1..Len(todo[t]) - 1 : Tail(todo[t])[i] = todo[t][i + 1]
        /\ DOMAIN Tail(todo[t]) = 1..Len(todo[t]) - 1
    BY <1>2
  <1>4. Queue(t)' \subseteq Queue(t)
    BY <1>1, <1>2, <1>3 DEF Queue
  <1>5. ASSUME NEW j \in DOMAIN todo[t], j # 1
        PROVE  todo[t][j] \in Queue(t)'
    <2>1. j - 1 \in 1..Len(todo[t]) - 1 /\ j = (j - 1) + 1
      BY <1>2, <1>5
    <2>2. Tail(todo[t])[j - 1] = todo[t][j]
      BY <1>3, <2>1
    <2> QED BY <1>1, <1>3, <2>1, <2>2 DEF Queue
  <1>6. Ahead(t) = todo[t][1]
    BY <1>2 DEF Ahead
  <1> QED BY <1>1, <1>4, <1>5, <1>6 DEF Queue

LEMMA InQueue ==
  /\ \A t \in Threads : \A s : Holds(t, s)
        <=> \E r \in Queue(t) : r.op = "apply" /\ r.session = s
  /\ \A t \in Threads : \A o : Applies(t, o)
        <=> \E r \in Queue(t) : r.op = "apply" /\ r.ws = o
  BY DEF Holds, Applies, Queue

\* A request that continues enters one region and does what it says, or ends.
LEMMA ContinueQueue ==
  ASSUME TypeOK, NEW t \in Threads, Continue(t)
  PROVE  /\ ~Idle(t)
         /\ \A u \in Threads \ {t} : todo'[u] = todo[u]
         /\ Queue(t)' \subseteq Queue(t)
  <1>1. ~Idle(t) /\ (Onward(t) \/ Then(t, <<>>))
    BY DEF Continue, Apply, ApplyFails, SettleCheckout, Add, AddFails, CountGuests,
           CreateGuest, UseStores, ConnectRuntime, BindKey, At
  <1>2. CASE Onward(t)
    BY <1>1, <1>2, OnwardQueue
  <1>3. CASE Then(t, <<>>)
    <2>1. <<>> \in Seq(Regions)
      OBVIOUS
    <2>2. todo'[t] = <<>> /\ \A u \in Threads \ {t} : todo'[u] = todo[u]
      BY <1>3, <2>1, ThenQueue
    <2> QED BY <1>1, <2>2 DEF Queue
  <1> QED BY <1>1, <1>2, <1>3

\* A request that arrives brings its own regions.
LEMMA ArriveQueue ==
  ASSUME TypeOK, NEW t \in Threads, Arrive(t)
  PROVE  Idle(t) /\ \A u \in Threads \ {t} : todo'[u] = todo[u]
  <1>1. Idle(t)
    BY DEF Arrive, PlanRequest, TenantRequest, IdentityRequest, Visit, Asked, Grant,
           OpenCheckout, PaymentSucceeded, PaymentFailed, Lapse, ListTenants, AddMember,
           RemoveMember, Login, LoginFails, GuestSession, GuestRequest, GuestRefused,
           RuntimeRequest
  <1>2. \A q : Then(t, q) => \A u \in Threads \ {t} : todo'[u] = todo[u]
    BY DEF Then, TypeOK
  <1>3. PlanRequest(t) => UNCHANGED todo \/ \E q : Then(t, q)
    BY DEF PlanRequest, Grant, OpenCheckout, PaymentSucceeded, PaymentFailed, Lapse
  <1>4. TenantRequest(t) => UNCHANGED todo \/ \E q : Then(t, q)
    BY DEF TenantRequest, ListTenants, AddMember, RemoveMember
  <1>5. IdentityRequest(t) => UNCHANGED todo \/ \E q : Then(t, q)
    BY DEF IdentityRequest, Login, LoginFails
  <1>6. Visit(t) => UNCHANGED todo \/ \E q : Then(t, q)
    BY DEF Visit, GuestSession, GuestRequest, GuestRefused, RuntimeRequest
  <1> QED BY <1>1, <1>2, <1>3, <1>4, <1>5, <1>6 DEF Arrive

\* Only a delivery that found its checkout pending brings a grant for it.
LEMMA ArriveGrants ==
  ASSUME TypeOK, NEW t \in Threads, Arrive(t), NEW s \in Sessions, Holds(t, s)'
  PROVE  Pending(s)
  <1>0. None # s /\ <<>> \in Seq(Regions)
    BY WorkspaceAssumption
  <1>1. ~Holds(t, s) /\ (UNCHANGED todo => ~Holds(t, s)')
    BY ArriveQueue DEF Idle, Holds
  <1>2. ASSUME NEW q \in Seq(Regions), Then(t, q),
               \A i \in DOMAIN q : q[i].op = "apply" => q[i].session # s
        PROVE  FALSE
    BY <1>2, ThenQueue DEF Holds
  <1>3. ASSUME NEW w \in Ids, NEW p \in Plans \cup {Trial}, NEW st \in {"active", "lapsed"},
               NEW c \in Sessions \cup {None}, c # s
        PROVE  ~Then(t, <<ApplyPlan(w, p, st, c)>>)
    <2> DEFINE q == <<ApplyPlan(w, p, st, c)>>
    <2>1. q \in Seq(Regions)
      BY RegionsTyped
    <2>2. \A i \in DOMAIN q : q[i].op = "apply" => q[i].session # s
      BY <1>3 DEF ApplyPlan
    <2> HIDE DEF q
    <2>3. ~Then(t, q)
      BY <1>2, <2>1, <2>2
    <2> QED BY <2>3 DEF q
  <1>4. CASE PlanRequest(t)
    <2>1. ASSUME NEW w \in Billed, NEW p \in Plans, Grant(t, w, p) PROVE FALSE
      BY <1>0, <1>3, <2>1, BilledTyped DEF Grant
    <2>2. ASSUME NEW w \in Billed, NEW p \in Plans, NEW c \in Sessions, OpenCheckout(t, w, p, c)
          PROVE  FALSE
      BY <1>1, <2>2 DEF OpenCheckout
    <2>3. ASSUME NEW c \in Sessions, Pending(c)
          PROVE  checkouts[c].ws \in Ids /\ checkouts[c].plan \in Plans
      BY <2>3 DEF Pending, TypeOK
    <2>4. ASSUME NEW c \in Sessions, PaymentSucceeded(t, c) PROVE c = s /\ Pending(s)
      <3>1. SUFFICES ASSUME c # s PROVE FALSE
        BY <2>4 DEF PaymentSucceeded
      <3> DEFINE q == <<ApplyPlan(checkouts[c].ws, checkouts[c].plan, "active", c), Settle(c)>>
      <3>2. q \in Seq(Regions)
        BY <2>3, <2>4, RegionsTyped DEF PaymentSucceeded
      <3>3. \A i \in DOMAIN q : q[i].op = "apply" => q[i].session # s
        BY <3>1 DEF ApplyPlan, Settle
      <3> QED BY <1>2, <2>4, <3>2, <3>3 DEF PaymentSucceeded
    <2>5. ASSUME NEW c \in Sessions, PaymentFailed(t, c) PROVE FALSE
      <3> DEFINE q == <<Settle(c), ApplyPlan(checkouts[c].ws, checkouts[c].plan, "lapsed", None)>>
      <3>1. q \in Seq(Regions)
        BY <2>3, <2>5, RegionsTyped DEF PaymentFailed
      <3>2. \A i \in DOMAIN q : q[i].op = "apply" => q[i].session # s
        BY <1>0 DEF ApplyPlan, Settle
      <3> QED BY <1>2, <2>5, <3>1, <3>2 DEF PaymentFailed
    <2>6. ASSUME NEW w \in Billed, Lapse(t, w) PROVE FALSE
      <3>1. byId[w].bought \in Plans \cup {Trial}
        BY <2>6, BilledTyped DEF Lapse, TypeOK, Entries
      <3> QED BY <1>0, <1>3, <2>6, <3>1, BilledTyped DEF Lapse
    <2> QED BY <1>4, <2>1, <2>2, <2>4, <2>5, <2>6 DEF PlanRequest
  <1>5. CASE TenantRequest(t)
    <2>1. ASSUME NEW e \in Offered, ListTenants(t, e) PROVE FALSE
      <3> DEFINE q == <<[op |-> "add", ws |-> NewId({w \in Tenants : byId[w] # None}),
                         entry |-> e]>>
      <3>1. q \in Seq(Regions)
        BY <2>1, NewIdTyped, RegionsTyped DEF ListTenants
      <3>2. \A i \in DOMAIN q : q[i].op = "apply" => q[i].session # s
        OBVIOUS
      <3>3. Then(t, q)
        BY <2>1 DEF ListTenants
      <3> HIDE DEF q
      <3> QED BY <1>2, <3>1, <3>2, <3>3
    <2> QED BY <1>1, <1>5, <2>1 DEF TenantRequest, AddMember, RemoveMember
  <1>6. CASE IdentityRequest(t)
    <2>1. ASSUME NEW o \in Orgs, NEW tier \in Tiers, Login(t, o, tier) PROVE FALSE
      <3>1. PlanOfTier(tier) \in Plans
        BY WorkspaceAssumption DEF PlanOfTier
      <3> QED BY <1>0, <1>1, <1>3, <2>1, <3>1, BilledTyped DEF Login
    <2> QED BY <1>1, <1>6, <2>1 DEF IdentityRequest, LoginFails
  <1>7. CASE Visit(t)
    <2>1. ASSUME GuestSession(t) PROVE FALSE
      <3> DEFINE q == <<[op |-> "count"], [op |-> "create"]>>
      <3>1. q \in Seq(Regions)
        BY RegionsTyped
      <3>2. \A i \in DOMAIN q : q[i].op = "apply" => q[i].session # s
        OBVIOUS
      <3>3. Then(t, q)
        BY <2>1 DEF GuestSession
      <3> HIDE DEF q
      <3> QED BY <1>2, <3>1, <3>2, <3>3
    <2>2. ASSUME NEW g \in Guests PROVE ~Then(t, <<[op |-> "use", ws |-> g]>>)
      <3> DEFINE q == <<[op |-> "use", ws |-> g]>>
      <3>1. q \in Seq(Regions)
        BY RegionsTyped
      <3>2. \A i \in DOMAIN q : q[i].op = "apply" => q[i].session # s
        OBVIOUS
      <3> HIDE DEF q
      <3>3. ~Then(t, q)
        BY <1>2, <3>1, <3>2
      <3> QED BY <3>3 DEF q
    <2>3. ASSUME NEW g \in Guests
          PROVE  ~Then(t, <<[op |-> "connect", ws |-> g], [op |-> "use", ws |-> g],
                            [op |-> "bind", ws |-> g]>>)
      <3> DEFINE q == <<[op |-> "connect", ws |-> g], [op |-> "use", ws |-> g],
                [op |-> "bind", ws |-> g]>>
      <3>1. q \in Seq(Regions)
        BY RegionsTyped
      <3>2. \A i \in DOMAIN q : q[i].op = "apply" => q[i].session # s
        OBVIOUS
      <3> HIDE DEF q
      <3>3. ~Then(t, q)
        BY <1>2, <3>1, <3>2
      <3> QED BY <3>3 DEF q
    <2> QED BY <1>1, <1>7, <2>1, <2>2, <2>3
            DEF Visit, GuestRequest, GuestRefused, RuntimeRequest
  <1> QED BY <1>4, <1>5, <1>6, <1>7 DEF Arrive

LEMMA SpentStep == TypeOK /\ [Next]_vars => \A s \in Sessions : Spent(s) => ~Held(s)'
  <1> SUFFICES ASSUME TypeOK, [Next]_vars, NEW s \in Sessions, ~Pending(s), ~Held(s),
                      NEW u \in Threads, Holds(u, s)'
               PROVE  FALSE
    BY DEF Spent, Held
  <1>1. ~Holds(u, s)
    BY DEF Held
  <1>2. UNCHANGED todo => FALSE
    BY <1>1 DEF Holds
  <1>3. ASSUME NEW t \in Threads, Arrive(t) PROVE FALSE
    BY <1>1, <1>3, ArriveQueue, ArriveGrants DEF Holds
  <1>4. ASSUME NEW t \in Threads, Continue(t) PROVE FALSE
    <2>1. Queue(u)' \subseteq Queue(u)
      BY <1>4, ContinueQueue DEF Queue
    <2>2. \E r \in Queue(u)' : r.op = "apply" /\ r.session = s
      BY DEF Holds, Queue
    <2> QED BY <1>1, <2>1, <2>2, InQueue
  <1>5. CASE Restart
    BY <1>5 DEF Restart, Holds
  <1> QED BY <1>2, <1>3, <1>4, <1>5 DEF Next, Expire, Charged, vars

\* However often a payment is delivered, and whenever the process restarts, a
\* checkout that was settled before the delivery began grants nothing.
THEOREM ReplaysGrantNothing == Spec => SpentGrantsNothing
  BY TypeCorrect, SpentStep, PTL DEF Spec, SpentGrantsNothing
-----------------------------------------------------------------------------
\* Guest sessions and their stores.

LEMMA EphemeralStep == TypeOK /\ LiveGuestIsEphemeral /\ [Next]_vars => LiveGuestIsEphemeral'
  <1> SUFFICES ASSUME TypeOK, LiveGuestIsEphemeral, [Next]_vars,
                      NEW h \in Guests, expiry'[h] # "none"
               PROVE  stores'[h] = "memory"
    BY DEF LiveGuestIsEphemeral, Live
  <1>1. expiry[h] # "none" => stores[h] = "memory"
    BY DEF LiveGuestIsEphemeral, Live
  <1>2. UNCHANGED <<expiry, stores>> => stores'[h] = "memory"
    BY <1>1
  <1>3. ASSUME NEW gs \in SUBSET Guests, EvictGuests(gs) PROVE stores'[h] = "memory"
    BY <1>1, <1>3 DEF EvictGuests
  <1>4. ASSUME NEW t \in Threads, Arrive(t) PROVE stores'[h] = "memory"
    <2>1. PlanRequest(t) => UNCHANGED guestVars
      BY DEF PlanRequest, Grant, OpenCheckout, PaymentSucceeded, PaymentFailed, Lapse
    <2>2. TenantRequest(t) => UNCHANGED guestVars
      BY DEF TenantRequest, ListTenants, AddMember, RemoveMember
    <2>3. IdentityRequest(t) => UNCHANGED guestVars
      BY DEF IdentityRequest, Login, LoginFails
    <2>4. CASE GuestSession(t)
      BY <1>3, <2>4 DEF GuestSession, Expired
    <2>5. ASSUME NEW g \in Guests, GuestRefused(t, g) PROVE stores'[h] = "memory"
      <3>1. {g} \in SUBSET Guests /\ EvictGuests({g})
        BY <2>5 DEF GuestRefused
      <3> QED BY <1>3, <3>1
    <2>6. \A g \in Guests : GuestRequest(t, g) \/ RuntimeRequest(t, g) => UNCHANGED guestVars
      BY DEF GuestRequest, RuntimeRequest
    <2> QED BY <1>2, <1>4, <2>1, <2>2, <2>3, <2>4, <2>5, <2>6 DEF Arrive, Visit, guestVars
  <1>5. ASSUME NEW t \in Threads, Continue(t) PROVE stores'[h] = "memory"
    <2>1. ASSUME NEW g \in Guests, CreateGuest(t, g) PROVE stores'[h] = "memory"
      BY <1>1, <2>1 DEF CreateGuest, TypeOK
    <2>2. CASE UseStores(t)
      BY <1>1, <2>2 DEF UseStores, TypeOK
    <2>3. \/ UNCHANGED <<expiry, stores>> \/ UseStores(t) \/ \E g \in Guests : CreateGuest(t, g)
      BY <1>5 DEF Continue, Apply, ApplyFails, SettleCheckout, Add, AddFails, CountGuests,
                  ConnectRuntime, BindKey, guestVars
    <2> QED BY <1>2, <2>1, <2>2, <2>3
  <1>6. ASSUME NEW g \in Guests, Expire(g) PROVE stores'[h] = "memory"
    BY <1>1, <1>6 DEF Expire, TypeOK
  <1>7. ASSUME NEW s \in Sessions, NEW outcome \in {"paid", "failed"}, Charged(s, outcome)
        PROVE  stores'[h] = "memory"
    BY <1>2, <1>7 DEF Charged, guestVars
  <1>8. CASE Restart
    BY <1>8 DEF Restart
  <1>9. CASE UNCHANGED vars
    BY <1>2, <1>9 DEF vars, guestVars
  <1> QED BY <1>4, <1>5, <1>6, <1>7, <1>8, <1>9 DEF Next

\* Nothing a guest does while the session lives reaches the database, in
\* whatever order requests, expiries and evictions interleave.
THEOREM GuestsLeaveNoRows == Spec => []LiveGuestIsEphemeral
  <1>1. Init => LiveGuestIsEphemeral
    BY DEF Init, LiveGuestIsEphemeral, Live
  <1> QED BY <1>1, TypeCorrect, EphemeralStep, PTL DEF Spec
-----------------------------------------------------------------------------
\* The requests there are: one that creates a guest session does it last, after
\* it counted; one that applies a plan applies one, and else settles a checkout.

Shaped(q) ==
    /\ \A i \in DOMAIN q : q[i].op = "create" =>
           i = Len(q) /\ \A j \in DOMAIN q : j < i => q[j].op = "count"
    /\ \A i, j \in DOMAIN q : q[i].op = "apply" =>
           q[j].op \in {"apply", "settle"} /\ (q[j].op = "apply" => i = j)
AllShaped == \A t \in Threads : Shaped(todo[t])

\* What a request may bring: a request never creates without counting.
Brought(q) == Shaped(q) /\ (q # <<>> => q[1].op # "create")

LEMMA ShapedTail ==
  ASSUME NEW q \in Seq(Regions), q # <<>>, Shaped(q)
  PROVE  Shaped(Tail(q))
  <1>1. /\ Tail(q) \in Seq(Regions) /\ Len(q) \in Nat /\ Len(Tail(q)) = Len(q) - 1
        /\ \A i \in DOMAIN Tail(q) : i \in Nat /\ i + 1 \in DOMAIN q /\ Tail(q)[i] = q[i + 1]
    OBVIOUS
  <1>2. ASSUME NEW i \in DOMAIN Tail(q), Tail(q)[i].op = "create"
        PROVE  i = Len(Tail(q)) /\ \A j \in DOMAIN Tail(q) : j < i => Tail(q)[j].op = "count"
    BY <1>1, <1>2 DEF Shaped
  <1>3. ASSUME NEW i \in DOMAIN Tail(q), NEW j \in DOMAIN Tail(q), Tail(q)[i].op = "apply"
        PROVE  /\ Tail(q)[j].op \in {"apply", "settle"}
               /\ Tail(q)[j].op = "apply" => i = j
    BY <1>1, <1>3 DEF Shaped
  <1> QED BY <1>2, <1>3 DEF Shaped

LEMMA PlansBrought ==
  ASSUME TypeOK, NEW t \in Threads, PlanRequest(t) \/ IdentityRequest(t)
  PROVE  UNCHANGED todo \/ Brought(todo'[t])
  <1>1. ASSUME NEW w, NEW p, NEW st, NEW c, Then(t, <<ApplyPlan(w, p, st, c)>>)
        PROVE  Brought(todo'[t])
    <2>1. todo'[t] = <<ApplyPlan(w, p, st, c)>>
      BY <1>1 DEF Then, TypeOK
    <2> QED BY <2>1 DEF Brought, Shaped, ApplyPlan
  <1>2. ASSUME NEW s \in Sessions, PaymentSucceeded(t, s) PROVE Brought(todo'[t])
    <2>1. todo'[t] = <<ApplyPlan(checkouts[s].ws, checkouts[s].plan, "active", s), Settle(s)>>
      BY <1>2 DEF PaymentSucceeded, Then, TypeOK
    <2> QED BY <2>1 DEF Brought, Shaped, ApplyPlan, Settle
  <1>3. ASSUME NEW s \in Sessions, PaymentFailed(t, s) PROVE Brought(todo'[t])
    <2>1. todo'[t] = <<Settle(s), ApplyPlan(checkouts[s].ws, checkouts[s].plan, "lapsed", None)>>
      BY <1>3 DEF PaymentFailed, Then, TypeOK
    <2> QED BY <2>1 DEF Brought, Shaped, ApplyPlan, Settle
  <1> QED BY <1>1, <1>2, <1>3
          DEF PlanRequest, IdentityRequest, Grant, OpenCheckout, Lapse, Login, LoginFails

LEMMA OthersBrought ==
  ASSUME TypeOK, NEW t \in Threads, TenantRequest(t) \/ Visit(t)
  PROVE  UNCHANGED todo \/ Brought(todo'[t])
  <1>1. ASSUME NEW e \in Offered, ListTenants(t, e) PROVE Brought(todo'[t])
    <2>1. todo'[t] = <<[op |-> "add", ws |-> NewId({w \in Tenants : byId[w] # None}),
                        entry |-> e]>>
      BY <1>1 DEF ListTenants, Then, TypeOK
    <2> QED BY <2>1 DEF Brought, Shaped
  <1>2. ASSUME GuestSession(t) PROVE Brought(todo'[t])
    <2>1. todo'[t] = <<[op |-> "count"], [op |-> "create"]>>
      BY <1>2 DEF GuestSession, Then, TypeOK
    <2> QED BY <2>1 DEF Brought, Shaped
  <1>3. ASSUME NEW g \in Guests, Then(t, <<[op |-> "use", ws |-> g]>>)
        PROVE  Brought(todo'[t])
    <2>1. todo'[t] = <<[op |-> "use", ws |-> g]>>
      BY <1>3 DEF Then, TypeOK
    <2> QED BY <2>1 DEF Brought, Shaped
  <1>4. ASSUME NEW g \in Guests, Then(t, <<[op |-> "connect", ws |-> g],
                                           [op |-> "use", ws |-> g],
                                           [op |-> "bind", ws |-> g]>>)
        PROVE  Brought(todo'[t])
    <2>1. todo'[t] = <<[op |-> "connect", ws |-> g], [op |-> "use", ws |-> g],
                       [op |-> "bind", ws |-> g]>>
      BY <1>4 DEF Then, TypeOK
    <2> QED BY <2>1 DEF Brought, Shaped
  <1> QED BY <1>1, <1>2, <1>3, <1>4
          DEF TenantRequest, Visit, AddMember, RemoveMember, GuestRequest, GuestRefused,
              RuntimeRequest

LEMMA ShapeStep == TypeOK /\ AllShaped /\ [Next]_vars => AllShaped'
  <1> SUFFICES ASSUME TypeOK, AllShaped, [Next]_vars, NEW u \in Threads
               PROVE  Shaped(todo'[u])
    BY DEF AllShaped
  <1>1. Shaped(todo[u]) /\ Shaped(<<>>)
    BY DEF AllShaped, Shaped
  <1>2. ASSUME NEW t \in Threads, Arrive(t) PROVE Shaped(todo'[u])
    BY <1>1, <1>2, ArriveQueue, PlansBrought, OthersBrought DEF Arrive, Brought
  <1>3. ASSUME NEW t \in Threads, Continue(t) PROVE Shaped(todo'[u])
    <2>1. ~Idle(t) /\ (Onward(t) \/ Then(t, <<>>)) /\ (u # t => todo'[u] = todo[u])
      BY <1>3, ContinueQueue DEF Continue, Apply, ApplyFails, SettleCheckout, Add, AddFails,
         CountGuests, CreateGuest, UseStores, ConnectRuntime, BindKey
    <2>2. todo[u] \in Seq(Regions) /\ (u = t => todo'[u] = Tail(todo[u]) \/ todo'[u] = <<>>)
      BY <2>1 DEF Onward, Then, TypeOK
    <2> QED BY <1>1, <2>1, <2>2, ShapedTail DEF Idle
  <1>4. CASE Restart
    BY <1>1, <1>4 DEF Restart
  <1>5. UNCHANGED todo => Shaped(todo'[u])
    BY <1>1
  <1> QED BY <1>2, <1>3, <1>4, <1>5 DEF Next, Expire, Charged, vars

-----------------------------------------------------------------------------
\* The plan a workspace is provisioned with.

LEMMA UnlimitedStep ==
  TypeOK /\ AllShaped /\ UnlimitedIsInterrupted /\ [Next]_vars => UnlimitedIsInterrupted'
  <1> SUFFICES ASSUME TypeOK, AllShaped, UnlimitedIsInterrupted, [Next]_vars,
                      NEW o \in Orgs, o \notin interrupted',
                      byId'[o] # None, byId'[o].plan = Unlimited
               PROVE  \E t \in Threads : Applies(t, o)'
    BY DEF UnlimitedIsInterrupted
  <1>0. o \in Ids /\ o \notin Tenants \cup Guests \cup {Default}
    BY WorkspaceAssumption DEF Ids
  <1>1. ASSUME byId'[o] = byId[o], o \notin interrupted PROVE \E t \in Threads : Applies(t, o)
    BY <1>1 DEF UnlimitedIsInterrupted
  <1>2. ASSUME NEW t \in Threads, Arrive(t) PROVE \E u \in Threads : Applies(u, o)'
    <2>1. Idle(t) /\ \A u \in Threads \ {t} : todo'[u] = todo[u]
      BY <1>2, ArriveQueue
    <2>2. \A u \in Threads : Applies(u, o) => Applies(u, o)'
      BY <2>1 DEF Applies, Idle
    <2>3. CASE byId'[o] = byId[o] /\ interrupted' = interrupted
      BY <1>1, <2>2, <2>3
    <2>4. ASSUME NEW gs \in SUBSET Guests, EvictGuests(gs) PROVE byId'[o] = byId[o]
      BY <1>0, <2>4 DEF EvictGuests
    <2>5. ASSUME NEW p \in Orgs, NEW tier \in Tiers, Login(t, p, tier)
          PROVE  \E u \in Threads : Applies(u, o)'
      <3>1. CASE byId'[o] = byId[o]
        <4>1. interrupted' = interrupted
          BY <2>5 DEF Login
        <4> QED BY <2>3, <3>1, <4>1
      <3>2. CASE byId'[o] # byId[o]
        <4>1. p = o /\ byId[o] = None
          BY <1>0, <2>5, <3>2 DEF Login, TypeOK
        <4>2. todo'[t] = <<ApplyPlan(o, PlanOfTier(tier), "active", None)>>
          BY <2>5, <4>1 DEF Login, Then, TypeOK
        <4> QED BY <4>2 DEF Applies, ApplyPlan
      <3> QED BY <3>1, <3>2
    <2>6. ASSUME NEW p \in Orgs, LoginFails(t, p) PROVE byId'[o] = byId[o] /\ o \notin interrupted
      BY <2>6 DEF LoginFails, TypeOK
    <2>7. CASE PlanRequest(t)
      BY <2>3, <2>7 DEF PlanRequest, Grant, OpenCheckout, PaymentSucceeded, PaymentFailed,
                        Lapse, registryVars
    <2>8. CASE TenantRequest(t)
      BY <2>3, <2>8 DEF TenantRequest, ListTenants, AddMember, RemoveMember, registryVars
    <2>9. CASE IdentityRequest(t)
      BY <1>1, <2>2, <2>5, <2>6, <2>9 DEF IdentityRequest
    <2>10. CASE Visit(t)
      <3>1. CASE GuestSession(t)
        BY <2>3, <2>4, <3>1 DEF GuestSession, Expired
      <3>2. ASSUME NEW g \in Guests, GuestRefused(t, g) PROVE byId'[o] = byId[o]
        <4>1. {g} \in SUBSET Guests /\ EvictGuests({g})
          BY <3>2 DEF GuestRefused
        <4> QED BY <2>4, <4>1
      <3> QED BY <2>3, <2>10, <3>1, <3>2
              DEF Visit, GuestRequest, GuestRefused, RuntimeRequest, registryVars
    <2> QED BY <1>2, <2>7, <2>8, <2>9, <2>10 DEF Arrive
  <1>3. ASSUME NEW t \in Threads, Continue(t) PROVE \E u \in Threads : Applies(u, o)'
    <2>1. \A u \in Threads \ {t} : todo'[u] = todo[u]
      BY <1>3, ContinueQueue
    <2>2. todo[t] \in Seq(Regions) /\ Shaped(todo[t])
      BY DEF TypeOK, AllShaped
    <2>3. CASE Apply(t)
      <3>1. Ahead(t).ws \in Ids
        BY <2>3, AtTyped DEF Apply
      <3>2. Applied(Ahead(t).plan, Ahead(t).status).plan # Unlimited
        BY WorkspaceAssumption DEF Applied, Entry
      <3>3. byId'[o] = byId[o]
        BY <1>0, <2>3, <3>1, <3>2 DEF Apply, TypeOK, registryVars
      <3>4. byId[o] # None /\ (Ahead(t).ws = o => byId'[o] = Applied(Ahead(t).plan, Ahead(t).status))
        BY <1>0, <2>3, <3>3 DEF Apply, TypeOK
      <3>5. Ahead(t).ws # o
        BY <3>2, <3>4
      <3>6. o \notin interrupted
        BY <2>3, <3>5 DEF Apply, registryVars
      <3>7. PICK u \in Threads : Applies(u, o)
        BY <1>1, <3>3, <3>6
      <3>8. ~Idle(t) /\ Onward(t)
        BY <2>3 DEF Apply, At
      <3>9. Applies(t, o) => Applies(t, o)'
        <4>1. SUFFICES ASSUME NEW r \in Queue(t), r.op = "apply", r.ws = o
                       PROVE  \E q \in Queue(t)' : q.op = "apply" /\ q.ws = o
          BY DEF Applies, Queue
        <4>2. r \in Queue(t)'
          BY <3>5, <3>8, <4>1, OnwardQueue
        <4> QED BY <4>1, <4>2
      <3> QED BY <2>1, <3>7, <3>9 DEF Applies
    <2>4. CASE ~Apply(t)
      <3>1. interrupted' = interrupted
        BY <1>3, <2>4 DEF Continue, ApplyFails, SettleCheckout, Add, AddFails, CountGuests,
           CreateGuest, UseStores, ConnectRuntime, BindKey, registryVars
      <3>2. byId'[o] = byId[o]
        <4>1. CASE ApplyFails(t)
          <5>1. Ahead(t).ws \in Ids
            BY <4>1, AtTyped DEF ApplyFails
          <5>2. Applied(Ahead(t).plan, Ahead(t).status).plan # Unlimited
            BY WorkspaceAssumption DEF Applied, Entry
          <5> QED BY <1>0, <4>1, <5>1, <5>2 DEF ApplyFails, TypeOK
        <4>2. ASSUME NEW k \in Tokens, Add(t, k) \/ AddFails(t, k) PROVE byId'[o] = byId[o]
          <5>1. Ahead(t).ws \in Tenants
            BY <4>2, AtTyped DEF Add, AddFails
          <5> QED BY <1>0, <4>2, <5>1 DEF Add, AddFails, TypeOK
        <4>3. ASSUME NEW g \in Guests, CreateGuest(t, g) PROVE byId'[o] = byId[o]
          BY <1>0, <4>3 DEF CreateGuest, TypeOK
        <4> QED BY <1>3, <2>4, <4>1, <4>2, <4>3
                DEF Continue, SettleCheckout, CountGuests, UseStores, ConnectRuntime, BindKey,
                    registryVars
      <3>3. PICK u \in Threads : Applies(u, o)
        BY <1>1, <3>1, <3>2
      <3>4. CASE u # t
        BY <2>1, <3>3, <3>4 DEF Applies
      <3>5. CASE u = t
        <4>1. PICK i \in DOMAIN todo[t] : todo[t][i].op = "apply" /\ todo[t][i].ws = o
          BY <3>3, <3>5 DEF Applies
        <4>2. todo[t] # <<>> /\ 1 \in DOMAIN todo[t] /\ Ahead(t) = todo[t][1]
          BY <2>2, <4>1 DEF Ahead
        <4>3. Ahead(t).op \in {"apply", "settle"}
          BY <2>2, <4>1, <4>2 DEF Shaped
        <4>4. ApplyFails(t) \/ SettleCheckout(t)
          BY <1>3, <2>4, <4>3 DEF Continue, Add, AddFails, CountGuests, CreateGuest, UseStores,
             ConnectRuntime, BindKey, At
        <4>5. CASE SettleCheckout(t)
          <5>1. Ahead(t).op = "settle" /\ ~Idle(t) /\ Onward(t)
            BY <4>5 DEF SettleCheckout, At
          <5>2. todo[t][i] \in Queue(t) /\ todo[t][i] # Ahead(t)
            BY <4>1, <5>1 DEF Queue
          <5>3. todo[t][i] \in Queue(t)'
            BY <5>1, <5>2, OnwardQueue
          <5> QED BY <4>1, <5>3 DEF Applies, Queue
        <4>6. CASE ApplyFails(t)
          <5>1. Ahead(t).op = "apply" /\ byId'[Ahead(t).ws] = Applied(Ahead(t).plan, Ahead(t).status)
            BY <4>6, AtTyped DEF ApplyFails, At, TypeOK
          <5>2. i = 1
            BY <2>2, <4>1, <4>2, <5>1 DEF Shaped
          <5>3. Applied(Ahead(t).plan, Ahead(t).status).plan # Unlimited
            BY WorkspaceAssumption DEF Applied, Entry
          <5> QED BY <4>1, <4>2, <5>1, <5>2, <5>3
        <4> QED BY <4>4, <4>5, <4>6
      <3> QED BY <3>4, <3>5
    <2> QED BY <2>3, <2>4
  <1>4. CASE Restart
    <2>1. byId'[o] = rows[o] /\ interrupted' = {p \in Orgs : rows[p] # None /\ rows[p].plan = Unlimited}
      BY <1>0, <1>4 DEF Restart, TypeOK
    <2> QED BY <2>1
  <1>5. CASE UNCHANGED <<byId, interrupted, todo>>
    BY <1>1, <1>5 DEF Applies
  <1> QED BY <1>2, <1>3, <1>4, <1>5 DEF Next, Expire, Charged, vars, registryVars

\* No organisation keeps the unlimited plan its workspace is made with, unless
\* the login that made it was cut short.
THEOREM TiersFailClosed == Spec => []UnlimitedIsInterrupted
  <1>1. Init => AllShaped
    BY DEF Init, AllShaped, Shaped
  <1>2. Init => UnlimitedIsInterrupted
    BY WorkspaceAssumption DEF Init, UnlimitedIsInterrupted, OnlyDefault, Ids
  <1> QED BY <1>1, <1>2, TypeCorrect, ShapeStep, UnlimitedStep, PTL DEF Spec
-----------------------------------------------------------------------------
\* The ceiling on guest sessions: those that live, and those that requests are
\* past counting for.

Creating == {t \in Threads : At(t, "create")}
Room == Cardinality(Live) + Cardinality(Creating) < MaxGuests + Cardinality(Threads)

LEMMA SizesTyped ==
  /\ IsFiniteSet(Live) /\ Cardinality(Live) \in Nat
  /\ IsFiniteSet(Creating) /\ Cardinality(Creating) \in Nat
  /\ Cardinality(Creating) <= Cardinality(Threads) /\ Cardinality(Threads) \in Nat \ {0}
  <1>1. Live \in SUBSET Guests /\ Creating \in SUBSET Threads
    BY DEF Live, Creating
  <1> QED BY <1>1, WorkspaceAssumption, FS_Subset, FS_CardinalityType, FS_EmptySet

LEMMA SizesTypedNext ==
  /\ IsFiniteSet(Live') /\ Cardinality(Live') \in Nat
  /\ IsFiniteSet(Creating') /\ Cardinality(Creating') \in Nat
  /\ Cardinality(Creating') <= Cardinality(Threads)
  <1>1. Live' \in SUBSET Guests /\ Creating' \in SUBSET Threads
    BY DEF Live, Creating
  <1> QED BY <1>1, WorkspaceAssumption, FS_Subset, FS_CardinalityType

\* A request is past counting only because it counted.
LEMMA CreatingStep ==
  ASSUME TypeOK, AllShaped, [Next]_vars, ~\E t \in Threads : CountGuests(t)
  PROVE  Creating' \subseteq Creating
  <1> SUFFICES ASSUME NEW u \in Threads, At(u, "create")' PROVE At(u, "create")
    BY DEF Creating
  <1>1. todo'[u] = todo[u] => At(u, "create")
    BY DEF At, Idle, Ahead
  <1>2. ASSUME NEW t \in Threads, Arrive(t) PROVE At(u, "create")
    <2>1. Brought(todo'[u]) => FALSE
      BY DEF Brought, At, Idle, Ahead
    <2> QED BY <1>1, <1>2, <2>1, ArriveQueue, PlansBrought, OthersBrought DEF Arrive
  <1>3. ASSUME NEW t \in Threads, Continue(t), u = t PROVE At(u, "create")
    <2>1. ~Idle(t) /\ (Onward(t) \/ Then(t, <<>>)) /\ ~At(t, "count")
      BY <1>3 DEF Continue, Apply, ApplyFails, SettleCheckout, Add, AddFails, CountGuests,
         CreateGuest, UseStores, ConnectRuntime, BindKey, At
    <2>2. todo'[t] = Tail(todo[t]) /\ Tail(todo[t]) # <<>>
      BY <1>3, <2>1 DEF Onward, Then, TypeOK, At, Idle
    <2>3. todo[t] \in Seq(Regions) /\ Shaped(todo[t]) /\ todo[t] # <<>>
      BY <2>1 DEF TypeOK, AllShaped, Idle
    <2>4. Len(todo[t]) \in Nat /\ 1 \in DOMAIN todo[t] /\ 2 \in DOMAIN todo[t]
          /\ Head(Tail(todo[t])) = todo[t][2] /\ Head(todo[t]) = todo[t][1]
      BY <2>2, <2>3
    <2>5. todo[t][2].op = "create"
      BY <1>3, <2>2, <2>4 DEF At, Ahead
    <2>6. todo[t][1].op = "count"
      BY <2>3, <2>4, <2>5 DEF Shaped
    <2> QED BY <2>1, <2>4, <2>6 DEF At, Ahead
  <1>4. ASSUME NEW t \in Threads, Continue(t), u # t PROVE At(u, "create")
    BY <1>1, <1>4, ContinueQueue
  <1>5. CASE Restart
    BY <1>5 DEF Restart, At, Idle
  <1> QED BY <1>1, <1>2, <1>3, <1>4, <1>5 DEF Next, Expire, Charged, vars

\* A session lives only because a request created it.
LEMMA LiveStep ==
  ASSUME TypeOK, [Next]_vars, ~\E t \in Threads, g \in Guests : CreateGuest(t, g)
  PROVE  Live' \subseteq Live
  <1> SUFFICES ASSUME NEW h \in Guests, expiry'[h] # "none" PROVE expiry[h] # "none"
    BY DEF Live
  <1>1. ASSUME NEW gs \in SUBSET Guests, EvictGuests(gs) PROVE expiry[h] # "none"
    BY <1>1 DEF EvictGuests
  <1>2. ASSUME NEW t \in Threads, Arrive(t) PROVE expiry[h] # "none"
    <2>1. PlanRequest(t) \/ TenantRequest(t) \/ IdentityRequest(t) => UNCHANGED expiry
      BY DEF PlanRequest, Grant, OpenCheckout, PaymentSucceeded, PaymentFailed, Lapse,
             TenantRequest, ListTenants, AddMember, RemoveMember, IdentityRequest, Login,
             LoginFails, guestVars
    <2>2. CASE GuestSession(t)
      BY <1>1, <2>2 DEF GuestSession, Expired
    <2>3. ASSUME NEW g \in Guests, GuestRefused(t, g) PROVE expiry[h] # "none"
      <3>1. {g} \in SUBSET Guests /\ EvictGuests({g})
        BY <2>3 DEF GuestRefused
      <3> QED BY <1>1, <3>1
    <2>4. \A g \in Guests : GuestRequest(t, g) \/ RuntimeRequest(t, g) => UNCHANGED expiry
      BY DEF GuestRequest, RuntimeRequest, guestVars
    <2> QED BY <1>2, <2>1, <2>2, <2>3, <2>4 DEF Arrive, Visit
  <1>3. ASSUME NEW t \in Threads, Continue(t) PROVE UNCHANGED expiry
    BY <1>3 DEF Continue, Apply, ApplyFails, SettleCheckout, Add, AddFails, CountGuests,
       UseStores, ConnectRuntime, BindKey, guestVars
  <1>4. ASSUME NEW g \in Guests, Expire(g) PROVE expiry[h] # "none"
    BY <1>4 DEF Expire, TypeOK
  <1>5. CASE Restart
    BY <1>5 DEF Restart
  <1> QED BY <1>2, <1>3, <1>4, <1>5 DEF Next, Charged, vars, guestVars

LEMMA RoomStep == TypeOK /\ AllShaped /\ Room /\ [Next]_vars => Room'
  <1> SUFFICES ASSUME TypeOK, AllShaped, Room, [Next]_vars PROVE Room'
    OBVIOUS
  <1>0. MaxGuests \in Nat
    BY WorkspaceAssumption
  <1>1. ASSUME NEW t \in Threads, CountGuests(t) PROVE Room'
    <2>1. Live' = Live
      BY <1>1 DEF CountGuests, guestVars, Live
    <2>2. CASE Cardinality(Live) < MaxGuests
      BY <1>0, <2>1, <2>2, SizesTyped, SizesTypedNext DEF Room
    <2>3. CASE ~(Cardinality(Live) < MaxGuests)
      <3>1. Then(t, <<>>)
        BY <1>0, <1>1, <2>3, SizesTyped DEF CountGuests
      <3>2. Creating' \in SUBSET Creating
        BY <3>1 DEF Creating, At, Idle, Ahead, Then, TypeOK
      <3>3. Cardinality(Creating') <= Cardinality(Creating)
        BY <3>2, SizesTyped, FS_Subset
      <3> QED BY <1>0, <2>1, <3>3, SizesTyped, SizesTypedNext DEF Room
    <2> QED BY <2>2, <2>3
  <1>2. ASSUME NEW t \in Threads, NEW g \in Guests, CreateGuest(t, g) PROVE Room'
    <2>1. Live' = Live \cup {g}
      BY <1>2 DEF CreateGuest, Live, TypeOK
    <2>2. Cardinality(Live') <= Cardinality(Live) + 1
      <3>1. Cardinality(Live \cup {g}) \in {Cardinality(Live), Cardinality(Live) + 1}
        BY SizesTyped, FS_AddElement
      <3> QED BY <2>1, <3>1, SizesTyped
    <2>3. todo[t] \in Seq(Regions) /\ Shaped(todo[t]) /\ todo[t] # <<>>
          /\ todo[t][1].op = "create" /\ todo' = [todo EXCEPT ![t] = Tail(todo[t])]
      BY <1>2 DEF CreateGuest, At, Idle, Ahead, TypeOK, AllShaped, Onward, Then
    <2>4. Len(todo[t]) = 1
      <3>1. 1 \in DOMAIN todo[t]
        BY <2>3
      <3> QED BY <2>3, <3>1 DEF Shaped
    <2>5. Tail(todo[t]) = <<>>
      <3>1. SUFFICES ASSUME Tail(todo[t]) # <<>> PROVE FALSE
        OBVIOUS
      <3>2. Len(todo[t]) \in Nat /\ 2 \in DOMAIN todo[t]
        BY <2>3, <3>1
      <3> QED BY <2>3, <2>4, <3>2
    <2>6. todo'[t] = <<>> /\ \A u \in Threads \ {t} : todo'[u] = todo[u]
      BY <2>3, <2>5 DEF TypeOK
    <2>7. Creating' = Creating \ {t}
      <3>1. ~At(t, "create")'
        BY <2>6 DEF At, Idle
      <3>2. \A u \in Threads \ {t} : At(u, "create")' <=> At(u, "create")
        BY <2>6 DEF At, Idle, Ahead
      <3> QED BY <3>1, <3>2 DEF Creating
    <2>8. t \in Creating
      BY <1>2 DEF Creating, CreateGuest
    <2>9. Cardinality(Creating') = Cardinality(Creating) - 1
      BY <2>7, <2>8, SizesTyped, FS_RemoveElement
    <2> QED BY <1>0, <2>2, <2>9, SizesTyped, SizesTypedNext DEF Room
  <1>3. CASE ~(\E t \in Threads : CountGuests(t))
             /\ ~(\E t \in Threads, g \in Guests : CreateGuest(t, g))
    <2>1. Live' \in SUBSET Live /\ Creating' \in SUBSET Creating
      BY <1>3, CreatingStep, LiveStep
    <2>2. Cardinality(Live') <= Cardinality(Live) /\ Cardinality(Creating') <= Cardinality(Creating)
      BY <2>1, SizesTyped, FS_Subset
    <2> QED BY <1>0, <2>2, SizesTyped, SizesTypedNext DEF Room
  <1> QED BY <1>1, <1>2, <1>3

\* The ceiling is exceeded by fewer sessions than there are requests at once.
THEOREM CeilingHolds == Spec => []GuestsBounded
  <1>1. Init => AllShaped
    BY DEF Init, AllShaped, Shaped
  <1>2. Init => Room
    <2>1. Init => Live = {} /\ Creating = {}
      BY DEF Init, Live, Creating, At, Idle
    <2> QED BY <2>1, SizesTyped, FS_EmptySet, WorkspaceAssumption DEF Room
  <1>3. Room => GuestsBounded
    BY SizesTyped, WorkspaceAssumption DEF Room, GuestsBounded
  <1> QED BY <1>1, <1>2, <1>3, TypeCorrect, ShapeStep, RoomStep, PTL DEF Spec

\* Paid features follow payment, for any tenants, plans, tiers and threads.
THEOREM PaidFollowsPayment == Spec => []PlansFollow
  <1>1. LapsedIsFree /\ UnlimitedIsInterrupted => PlansFollow
    BY DEF PlansFollow
  <1> QED BY <1>1, LapseLosesThePlan, TiersFailClosed, PTL

\* Guests stay bounded and in memory, for any number of threads and any ceiling.
THEOREM GuestsStayBounded == Spec => []GuestsHold
  <1>1. GuestsBounded /\ LiveGuestIsEphemeral => GuestsHold
    BY DEF GuestsHold
  <1> QED BY <1>1, CeilingHolds, GuestsLeaveNoRows, PTL
=============================================================================
