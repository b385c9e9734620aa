------------------------------ MODULE Workspaces ------------------------------
(***************************************************************************)
(* lab_server/workspaces.py: the tenant registry, its plans and purchases, *)
(* and guest sessions, with the routes of lab_server/runtime_jobs.py that  *)
(* drive it.                                                               *)
(*                                                                         *)
(* Every method of Workspaces is one lock region, and every route is       *)
(* several of them: a handler thread keeps in `todo` the regions its       *)
(* request has still to enter, with what it read before.  With a database  *)
(* each change is written through under the lock, after it was made in     *)
(* memory; a write the database refuses ends the request and leaves the    *)
(* change in memory.                                                       *)
(***************************************************************************)
EXTENDS Naturals, Sequences, FiniteSets

CONSTANTS
    Default,      \* the operator's own workspace
    Tenants,      \* the ids new_id can give
    Orgs,         \* the organisations of the identity service
    Guests,       \* the ids of guest sessions
    Tokens,       \* the credentials the server mints
    Plans, Free,  \* the catalog, and its fallback
    Tiers,        \* the tiers a login token may carry
    Unlimited, Trial, Custom, \* the plans outside the catalog
    Sessions,     \* checkout sessions
    Billed,       \* the workspaces whose plan is bought, granted or lapses
    Threads,      \* the handler threads
    MaxGuests,    \* MAX_LIVE_GUESTS
    Traffics,     \* the mixes of requests that are looked at
    None

Ids == {Default} \cup Tenants \cup Orgs \cup Guests

ASSUME WorkspaceAssumption ==
    /\ Free \in Plans
    /\ {Unlimited, Trial, Custom} \cap Plans = {}
    /\ None \notin Ids \cup Sessions
    /\ Ids \cap Tokens = {}
    /\ Billed \subseteq Ids
    /\ Default \notin Tenants \cup Orgs \cup Guests
    /\ Guests \cap (Tenants \cup Orgs) = {} /\ Tenants \cap Orgs = {}
    /\ IsFiniteSet(Guests) /\ IsFiniteSet(Threads) /\ Threads # {}
    /\ MaxGuests \in Nat \ {0}

VARIABLES
    byId, rows,         \* the workspaces, in memory and in lab_workspaces
    tokens, tokenRows,  \* whose credential a token is, here and in lab_members
    checkouts,          \* _checkouts: in memory only
    charge,             \* what the payment provider made of a checkout
    expiry,             \* _guest_expiry, and whether the moment has passed
    stores,             \* the stores of each guest session
    keys, keyRows,      \* the sessions with a runtime's ingest key
    todo,               \* the lock regions each request has still to enter
    traffic,
    unsaved,            \* history: what the database refused last
    interrupted,        \* history: the orgs whose provisioning was cut short
    landed              \* history: the checkouts whose plan reached the rows

registryVars == <<byId, rows, tokens, tokenRows, unsaved, interrupted>>
billingVars  == <<checkouts, charge, landed>>
guestVars    == <<expiry, stores, keys, keyRows>>
vars == <<registryVars, billingVars, guestVars, todo, traffic>>

Entries == [plan: Plans \cup {Unlimited, Trial, Custom},
            bought: Plans \cup {Trial}, status: {"active", "lapsed"}]
Entry(plan, bought, status) ==
    [plan |-> plan, bought |-> bought, status |-> status]

\* What a tenant may be created with: a plan of the catalog, or one spelled out.
Offered == {Entry(p, p, "active") : p \in Plans} \cup {Entry(Custom, Free, "active")}

\* Whose a token is: the workspace's own, or a member's.
Bindings == [ws: Ids, kind: {"workspace", "member"}]

\* What is left of a request: lock regions, with what it carries to them.
Regions ==
    [op: {"apply"}, ws: Ids, plan: Plans \cup {Trial}, status: {"active", "lapsed"},
     session: Sessions \cup {None}]
        \cup [op: {"settle"}, session: Sessions]
        \cup [op: {"add"}, ws: Tenants, entry: Offered]
        \cup [op: {"count", "create"}]
        \cup [op: {"use", "connect", "bind"}, ws: Guests]

ApplyPlan(w, plan, status, s) ==
    [op |-> "apply", ws |-> w, plan |-> plan, status |-> status, session |-> s]
Settle(s) == [op |-> "settle", session |-> s]

Idle(t)    == todo[t] = <<>>
Ahead(t)   == Head(todo[t])
At(t, op)  == ~Idle(t) /\ Ahead(t).op = op
Then(t, regions) == todo' = [todo EXCEPT ![t] = regions]
Onward(t)  == Then(t, Tail(todo[t]))
Asked(t, kind) == Idle(t) /\ kind \in traffic

Live == {g \in Guests : expiry[g] # "none"}

\* Nothing remembers a guest session of this id.
Fresh(g) ==
    /\ byId[g] = None /\ rows[g] = None /\ stores[g] = "none"
    /\ g \notin keys \cup keyRows
    /\ \A t \in Threads : \A i \in DOMAIN todo[t] :
           todo[t][i].op \in {"apply", "use", "connect", "bind"} => todo[t][i].ws # g
    /\ \A s \in Sessions : checkouts[s] # None => checkouts[s].ws # g
    /\ \A k \in Tokens : tokens[k] # None => tokens[k].ws # g

OnlyDefault ==
    [w \in Ids |-> IF w = Default THEN Entry(Unlimited, Free, "active") ELSE None]

Init ==
    /\ byId = OnlyDefault /\ rows = OnlyDefault
    /\ tokens = [k \in Tokens |-> None] /\ tokenRows = tokens
    /\ checkouts = [s \in Sessions |-> None]
    /\ charge = [s \in Sessions |-> "none"]
    /\ expiry = [g \in Guests |-> "none"]
    /\ stores = [g \in Guests |-> "none"]
    /\ keys = {} /\ keyRows = {}
    /\ todo = [t \in Threads |-> <<>>]
    /\ traffic \in Traffics
    /\ unsaved = {} /\ interrupted = {} /\ landed = {}

-----------------------------------------------------------------------------
(* Plans and purchases.                                                     *)

\* Mutant of Applied: the status is recorded and not looked at.
AppliedAnyway(plan, status) ==
    Entry(IF plan \in Plans THEN plan ELSE Free, plan, status)

\* What apply_plan makes of a workspace: a subscription that is not active
\* remembers what was bought and falls back to free.
Applied(plan, status) ==
    Entry(IF status = "active" /\ plan \in Plans THEN plan ELSE Free, plan, status)

\* Mutant of Apply: the plan is set in memory and not saved.
ApplyUnsaved(t) ==
    /\ At(t, "apply")
    /\ byId[Ahead(t).ws] # None
    /\ byId' = [byId EXCEPT ![Ahead(t).ws] = Applied(Ahead(t).plan, Ahead(t).status)]
    /\ Onward(t)
    /\ UNCHANGED <<rows, tokens, tokenRows, unsaved, interrupted, billingVars,
                   guestVars, traffic>>

Apply(t) ==
    /\ At(t, "apply")
    /\ LET s == Ahead(t) IN
       IF byId[s.ws] = None
       THEN UNCHANGED <<registryVars, landed>>
       ELSE /\ byId' = [byId EXCEPT ![s.ws] = Applied(s.plan, s.status)]
            /\ rows' = [rows EXCEPT ![s.ws] = Applied(s.plan, s.status)]
            /\ unsaved' = unsaved \ {s.ws}
            /\ interrupted' = interrupted \ {s.ws}
            /\ landed' = IF s.status = "active" THEN landed \cup ({s.session} \ {None})
                                                ELSE landed
            /\ UNCHANGED <<tokens, tokenRows>>
    /\ Onward(t)
    /\ UNCHANGED <<checkouts, charge, guestVars, traffic>>

ApplyFails(t) ==
    /\ At(t, "apply")
    /\ LET s == Ahead(t) IN
       /\ byId[s.ws] # None
       /\ byId' = [byId EXCEPT ![s.ws] = Applied(s.plan, s.status)]
       /\ unsaved' = unsaved \cup {s.ws}
    /\ Then(t, <<>>)
    /\ UNCHANGED <<rows, tokens, tokenRows, interrupted, billingVars, guestVars, traffic>>

\* A manual grant by the operator.
Grant(t, w, plan) ==
    /\ Asked(t, "billing")
    /\ Then(t, <<ApplyPlan(w, plan, "active", None)>>)
    /\ UNCHANGED <<registryVars, billingVars, guestVars, traffic>>

OpenCheckout(t, w, plan, s) ==
    /\ Asked(t, "billing")
    /\ byId[w] # None
    /\ charge[s] = "none" /\ checkouts[s] = None
    /\ checkouts' = [checkouts EXCEPT ![s] = [ws |-> w, plan |-> plan, status |-> "pending"]]
    /\ charge' = [charge EXCEPT ![s] = "open"]
    /\ UNCHANGED <<registryVars, landed, guestVars, todo, traffic>>

\* The provider charges the customer; a failed charge closes the checkout.
Charged(s, outcome) ==
    /\ charge[s] = "open"
    /\ charge' = [charge EXCEPT ![s] = outcome]
    /\ UNCHANGED <<registryVars, checkouts, landed, guestVars, todo, traffic>>

Pending(s) == checkouts[s] # None /\ checkouts[s].status = "pending"

\* Mutants of PaymentSucceeded: any known checkout is accepted, and the
\* checkout is settled before the plan is applied.
PaymentSucceededAgain(t, s) ==
    /\ Asked(t, "billing")
    /\ charge[s] = "paid" /\ checkouts[s] # None
    /\ Then(t, <<ApplyPlan(checkouts[s].ws, checkouts[s].plan, "active", s), Settle(s)>>)
    /\ UNCHANGED <<registryVars, billingVars, guestVars, traffic>>

SettledFirst(t, s) ==
    /\ Asked(t, "billing")
    /\ charge[s] = "paid" /\ Pending(s)
    /\ Then(t, <<Settle(s), ApplyPlan(checkouts[s].ws, checkouts[s].plan, "active", s)>>)
    /\ UNCHANGED <<registryVars, billingVars, guestVars, traffic>>

\* The provider tells, at least once, what became of a charge.  The webhook
\* reads the checkout, and acts on what it read in later regions.
PaymentSucceeded(t, s) ==
    /\ Asked(t, "billing")
    /\ charge[s] = "paid"
    /\ Pending(s)
    /\ Then(t, <<ApplyPlan(checkouts[s].ws, checkouts[s].plan, "active", s), Settle(s)>>)
    /\ UNCHANGED <<registryVars, billingVars, guestVars, traffic>>

PaymentFailed(t, s) ==
    /\ Asked(t, "billing")
    /\ charge[s] = "failed"
    /\ Pending(s)
    /\ Then(t, <<Settle(s), ApplyPlan(checkouts[s].ws, checkouts[s].plan, "lapsed", None)>>)
    /\ UNCHANGED <<registryVars, billingVars, guestVars, traffic>>

\* A renewal fails or a subscription is canceled: addressed to the workspace.
Lapse(t, w) ==
    /\ Asked(t, "billing")
    /\ byId[w] # None
    /\ Then(t, <<ApplyPlan(w, byId[w].bought, "lapsed", None)>>)
    /\ UNCHANGED <<registryVars, billingVars, guestVars, traffic>>

SettleCheckout(t) ==
    /\ At(t, "settle")
    /\ LET s == Ahead(t).session IN
       checkouts' = IF checkouts[s] = None THEN checkouts
                    ELSE [checkouts EXCEPT ![s].status = "settled"]
    /\ Onward(t)
    /\ UNCHANGED <<registryVars, charge, landed, guestVars, traffic>>

-----------------------------------------------------------------------------
(* Tenants, from the operator and from the identity service.                *)

\* new_id: deterministic, given the ids in use.
NewId(existing) == CHOOSE w \in Tenants : w \notin existing

\* POST /workspaces lists the tenants in one region and adds one in another.
ListTenants(t, entry) ==
    /\ Asked(t, "tenants")
    /\ LET existing == {w \in Tenants : byId[w] # None} IN
       /\ existing # Tenants
       /\ Then(t, <<[op |-> "add", ws |-> NewId(existing), entry |-> entry]>>)
    /\ UNCHANGED <<registryVars, billingVars, guestVars, traffic>>

Minted(k) == tokens[k] = None /\ tokenRows[k] = None
Own(w)    == [ws |-> w, kind |-> "workspace"]
Member(w) == [ws |-> w, kind |-> "member"]

Add(t, k) ==
    /\ At(t, "add") /\ Minted(k)
    /\ LET s == Ahead(t) IN
       /\ byId' = [byId EXCEPT ![s.ws] = s.entry]
       /\ rows' = [rows EXCEPT ![s.ws] = s.entry]
       /\ tokens' = [tokens EXCEPT ![k] = Own(s.ws)]
       /\ tokenRows' = [tokenRows EXCEPT ![k] = Own(s.ws)]
       /\ unsaved' = unsaved \ {s.ws, k}
    /\ Onward(t)
    /\ UNCHANGED <<interrupted, billingVars, guestVars, traffic>>

\* The row is refused, or the row is written and the credential is refused.
AddFails(t, k) ==
    /\ At(t, "add") /\ Minted(k)
    /\ LET s == Ahead(t) IN
       /\ byId' = [byId EXCEPT ![s.ws] = s.entry]
       /\ tokens' = [tokens EXCEPT ![k] = Own(s.ws)]
       /\ \/ /\ rows' = rows
             /\ unsaved' = unsaved \cup {s.ws, k}
          \/ /\ rows' = [rows EXCEPT ![s.ws] = s.entry]
             /\ unsaved' = (unsaved \ {s.ws}) \cup {k}
    /\ Then(t, <<>>)
    /\ UNCHANGED <<tokenRows, interrupted, billingVars, guestVars, traffic>>

\* Members refer to the row of their workspace: a guest session has none.
AddMember(t, w, k) ==
    /\ Asked(t, "members")
    /\ byId[w] # None /\ Minted(k)
    /\ tokens' = [tokens EXCEPT ![k] = Member(w)]
    /\ \/ /\ rows[w] # None
          /\ tokenRows' = [tokenRows EXCEPT ![k] = Member(w)]
          /\ unsaved' = unsaved \ {k}
       \/ /\ tokenRows' = tokenRows
          /\ unsaved' = unsaved \cup {k}
    /\ UNCHANGED <<byId, rows, interrupted, billingVars, guestVars, todo, traffic>>

RemoveMember(t, w, k) ==
    /\ Asked(t, "members")
    /\ tokens[k] = Member(w)
    /\ tokens' = [tokens EXCEPT ![k] = None]
    /\ \/ /\ tokenRows' = [tokenRows EXCEPT ![k] = None]
          /\ unsaved' = unsaved \ {k}
       \/ /\ tokenRows' = tokenRows
          /\ unsaved' = unsaved \cup {k}
    /\ UNCHANGED <<byId, rows, interrupted, billingVars, guestVars, todo, traffic>>

\* A login provisions the workspace of its organisation, and puts it on the
\* plan of its tier when the tier is not the plan it remembers as bought.
Provisioned == Entry(Unlimited, Free, "active")
PlanOfTier(tier) == IF tier \in Plans THEN tier ELSE Free
Remembered(o) == IF byId[o] = None THEN Free ELSE byId[o].bought

Login(t, o, tier) ==
    /\ Asked(t, "identity")
    /\ IF byId[o] = None
       THEN /\ byId' = [byId EXCEPT ![o] = Provisioned]
            /\ rows' = [rows EXCEPT ![o] = Provisioned]
            /\ unsaved' = unsaved \ {o}
       ELSE UNCHANGED <<byId, rows, unsaved>>
    /\ IF byId[o] = None \/ Remembered(o) # tier
       THEN Then(t, <<ApplyPlan(o, PlanOfTier(tier), "active", None)>>)
       ELSE UNCHANGED todo
    /\ UNCHANGED <<tokens, tokenRows, interrupted, billingVars, guestVars, traffic>>

LoginFails(t, o) ==
    /\ Asked(t, "identity")
    /\ byId[o] = None
    /\ byId' = [byId EXCEPT ![o] = Provisioned]
    /\ unsaved' = unsaved \cup {o}
    /\ interrupted' = interrupted \cup {o}
    /\ UNCHANGED <<rows, tokens, tokenRows, billingVars, guestVars, todo, traffic>>

-----------------------------------------------------------------------------
(* Guest sessions.                                                          *)

EvictGuests(gs) ==
    /\ byId' = [w \in Ids |-> IF w \in gs THEN None ELSE byId[w]]
    /\ stores' = [g \in Guests |-> IF g \in gs THEN "none" ELSE stores[g]]
    /\ expiry' = [g \in Guests |-> IF g \in gs THEN "none" ELSE expiry[g]]

\* sweep_guests drops the sessions that ended, with every token bound to them.
Expired == {g \in Guests : expiry[g] = "expired"}
Unbound(gs) == [k \in Tokens |->
    IF tokens[k] # None /\ tokens[k].ws \in gs THEN None ELSE tokens[k]]

\* Mutant of GuestSession: nothing is swept.
GuestSessionUnswept(t) ==
    /\ Asked(t, "guests")
    /\ Then(t, <<[op |-> "count"], [op |-> "create"]>>)
    /\ UNCHANGED <<registryVars, billingVars, guestVars, traffic>>

\* create_guest sweeps, then counts, then creates.
GuestSession(t) ==
    /\ Asked(t, "guests")
    /\ EvictGuests(Expired)
    /\ tokens' = Unbound(Expired)
    /\ Then(t, <<[op |-> "count"], [op |-> "create"]>>)
    /\ UNCHANGED <<rows, tokenRows, unsaved, interrupted, billingVars, keys, keyRows, traffic>>

\* Mutant of CountGuests: one more than the ceiling.
CountGuestsOver(t) ==
    /\ At(t, "count")
    /\ IF Cardinality(Live) > MaxGuests THEN Then(t, <<>>) ELSE Onward(t)
    /\ UNCHANGED <<registryVars, billingVars, guestVars, traffic>>

CountGuests(t) ==
    /\ At(t, "count")
    /\ IF Cardinality(Live) >= MaxGuests THEN Then(t, <<>>) ELSE Onward(t)
    /\ UNCHANGED <<registryVars, billingVars, guestVars, traffic>>

CreateGuest(t, g) ==
    /\ At(t, "create") /\ Fresh(g)
    /\ byId' = [byId EXCEPT ![g] = Entry(Trial, Trial, "active")]
    /\ stores' = [stores EXCEPT ![g] = "memory"]
    /\ expiry' = [expiry EXCEPT ![g] = "live"]
    /\ Onward(t)
    /\ UNCHANGED <<rows, tokens, tokenRows, unsaved, interrupted, billingVars,
                   keys, keyRows, traffic>>

Expire(g) ==
    /\ expiry[g] = "live"
    /\ expiry' = [expiry EXCEPT ![g] = "expired"]
    /\ UNCHANGED <<registryVars, billingVars, stores, keys, keyRows, todo, traffic>>

\* A request with a guest's token either uses the stores of the session, or
\* connects a hosted runtime, whose key is bound to the session.
GuestRequest(t, g) ==
    /\ Asked(t, "guests")
    /\ expiry[g] = "live"
    /\ \/ Then(t, <<[op |-> "use", ws |-> g]>>)
       \/ Then(t, <<[op |-> "connect", ws |-> g], [op |-> "use", ws |-> g],
                    [op |-> "bind", ws |-> g]>>)
    /\ UNCHANGED <<registryVars, billingVars, guestVars, traffic>>

\* A session that ended is dropped when its own token is presented.
GuestRefused(t, g) ==
    /\ Asked(t, "guests")
    /\ expiry[g] = "expired"
    /\ EvictGuests({g})
    /\ UNCHANGED <<rows, tokens, tokenRows, unsaved, interrupted, billingVars,
                   keys, keyRows, todo, traffic>>

RuntimeRequest(t, g) ==
    /\ Asked(t, "guests")
    /\ g \in keys
    /\ Then(t, <<[op |-> "use", ws |-> g]>>)
    /\ UNCHANGED <<registryVars, billingVars, guestVars, traffic>>

\* The stores of a workspace are made on first use: rows of the database,
\* unless they were made with the session.
UseStores(t) ==
    /\ At(t, "use")
    /\ stores' = [stores EXCEPT ![Ahead(t).ws] = IF @ = "none" THEN "durable" ELSE @]
    /\ Onward(t)
    /\ UNCHANGED <<registryVars, billingVars, expiry, keys, keyRows, traffic>>

ConnectRuntime(t) ==
    /\ At(t, "connect")
    /\ IF byId[Ahead(t).ws] = None THEN Then(t, <<>>) ELSE Onward(t)
    /\ UNCHANGED <<registryVars, billingVars, guestVars, traffic>>

BindKey(t) ==
    /\ At(t, "bind")
    /\ keys' = keys \cup {Ahead(t).ws}
    /\ \/ keyRows' = keyRows \cup {Ahead(t).ws}
       \/ keyRows' = keyRows
    /\ Onward(t)
    /\ UNCHANGED <<registryVars, billingVars, expiry, stores, traffic>>

-----------------------------------------------------------------------------
\* A process starts: the registry is loaded and the operator's workspace added
\* again.  Checkouts, guest sessions and requests are gone.
Restart ==
    /\ byId' = [rows EXCEPT ![Default] = Entry(Unlimited, Free, "active")]
    /\ rows' = byId'
    /\ tokens' = tokenRows
    /\ checkouts' = [s \in Sessions |-> None]
    /\ expiry' = [g \in Guests |-> "none"]
    /\ stores' = [g \in Guests |-> "none"]
    /\ keys' = keyRows
    /\ todo' = [t \in Threads |-> <<>>]
    /\ unsaved' = {}
    /\ interrupted' = {o \in Orgs : rows[o] # None /\ rows[o].plan = Unlimited}
    /\ UNCHANGED <<tokenRows, charge, landed, keyRows, traffic>>

PlanRequest(t) ==
    \/ \E w \in Billed, plan \in Plans : Grant(t, w, plan)
    \/ \E w \in Billed, plan \in Plans, s \in Sessions : OpenCheckout(t, w, plan, s)
    \/ \E s \in Sessions : PaymentSucceeded(t, s) \/ PaymentFailed(t, s)
    \/ \E w \in Billed : Lapse(t, w)

TenantRequest(t) ==
    \/ \E entry \in Offered : ListTenants(t, entry)
    \/ \E w \in Ids, k \in Tokens : AddMember(t, w, k) \/ RemoveMember(t, w, k)

IdentityRequest(t) ==
    \E o \in Orgs : LoginFails(t, o) \/ \E tier \in Tiers : Login(t, o, tier)

Visit(t) ==
    \/ GuestSession(t)
    \/ \E g \in Guests : GuestRequest(t, g) \/ GuestRefused(t, g) \/ RuntimeRequest(t, g)

\* A request arrives and enters its first region.
Arrive(t) == PlanRequest(t) \/ TenantRequest(t) \/ IdentityRequest(t) \/ Visit(t)

\* A request enters its next region.
Continue(t) ==
    \/ Apply(t) \/ ApplyFails(t) \/ SettleCheckout(t)
    \/ \E k \in Tokens : Add(t, k) \/ AddFails(t, k)
    \/ CountGuests(t)
    \/ \E g \in Guests : CreateGuest(t, g)
    \/ UseStores(t) \/ ConnectRuntime(t) \/ BindKey(t)

Next ==
    \/ \E t \in Threads : Arrive(t) \/ Continue(t)
    \/ \E g \in Guests : Expire(g)
    \/ \E s \in Sessions, outcome \in {"paid", "failed"} : Charged(s, outcome)
    \/ Restart

Spec == Init /\ [][Next]_vars

GrantBought(t, s) == At(t, "apply") /\ Ahead(t).session = s /\ Apply(t)

\* Handler threads run; the database does not refuse a purchase for ever; time
\* passes; the provider repeats what was paid until it is accepted, and
\* visitors keep asking.  Strong fairness where a request needs a thread: the
\* server starts one for each request, Threads is a bound of the model.
FairSpec ==
    /\ Spec
    /\ \A t \in Threads : WF_vars(Continue(t))
    /\ \A g \in Guests : WF_vars(Expire(g))
    /\ \A s \in Sessions : /\ SF_vars(\E t \in Threads : PaymentSucceeded(t, s))
                           /\ SF_vars(\E t \in Threads : GrantBought(t, s))
    /\ SF_vars(\E t \in Threads : GuestSession(t))

-----------------------------------------------------------------------------
TypeOK ==
    /\ byId \in [Ids -> Entries \cup {None}] /\ rows \in [Ids -> Entries \cup {None}]
    /\ tokens \in [Tokens -> Bindings \cup {None}]
    /\ tokenRows \in [Tokens -> Bindings \cup {None}]
    /\ checkouts \in [Sessions -> [ws: Ids, plan: Plans, status: {"pending", "settled"}]
                                      \cup {None}]
    /\ charge \in [Sessions -> {"none", "open", "paid", "failed"}]
    /\ expiry \in [Guests -> {"none", "live", "expired"}]
    /\ stores \in [Guests -> {"none", "memory", "durable"}]
    /\ keys \subseteq Guests /\ keyRows \subseteq keys
    /\ todo \in [Threads -> Seq(Regions)]
    /\ traffic \in Traffics
    /\ unsaved \subseteq Ids \cup Tokens /\ interrupted \subseteq Orgs
    /\ landed \subseteq Sessions

\* A subscription that is not active carries the free plan, in memory and in
\* the row a restart reads, whatever deliveries, logins and grants race
\* (apply_plan; workspaces.py:317-319, "a lapsed payment loses paid features").
LapsedIsFree ==
    \A w \in Ids : \A e \in {byId[w], rows[w]} \ {None} :
        e.status = "lapsed" => e.plan = Free

\* What a request was answered for survives a restart: memory and the row
\* differ only where the database refused the last change (write-through under
\* the lock in apply_plan, add, add_member, remove_member, ensure_org_workspace).
\* Guest sessions are not kept.
OfGuest(binding) == binding # None /\ binding.ws \in Guests
RegistryIsCurrent ==
    /\ \A w \in Ids \ (Guests \cup unsaved) : rows[w] = byId[w]
    /\ \A k \in Tokens \ unsaved : tokenRows[k] = tokens[k] \/ OfGuest(tokenRows[k])

\* An organisation has the unlimited plan its workspace is made with only while
\* the login that made it is on its way to apply_plan, or was cut short
\* (ensure_org_workspace: "an unknown tier fails closed to free").
Applies(t, o) == \E i \in DOMAIN todo[t] : todo[t][i].op = "apply" /\ todo[t][i].ws = o
UnlimitedIsInterrupted ==
    \A o \in Orgs \ interrupted :
        byId[o] # None /\ byId[o].plan = Unlimited => \E t \in Threads : Applies(t, o)

\* Paid features follow payment, whichever way a plan was obtained: none is kept
\* after a lapse, and none is left over from the making of a workspace.
PlansFollow == LapsedIsFree /\ UnlimitedIsInterrupted

\* A checkout that is spent, and that no request still holds as pending, never
\* grants anything again, however often its payment is delivered and however
\* the process restarts (the webhook's 409 and 404).
Holds(t, s) ==
    \E i \in DOMAIN todo[t] : todo[t][i].op = "apply" /\ todo[t][i].session = s
Held(s)  == \E t \in Threads : Holds(t, s)
Spent(s) == charge[s] # "none" /\ ~Pending(s) /\ ~Held(s)
SpentGrantsNothing == [][\A s \in Sessions : Spent(s) => ~Held(s)']_vars

\* The ceiling on guest sessions is exceeded by no more than the requests that
\* counted before any of them created (create_guest).
GuestsBounded == Cardinality(Live) < MaxGuests + Cardinality(Threads)

\* While a guest session lives, what it stores is in memory only (create_guest
\* makes its stores with it; stores would make durable ones).
LiveGuestIsEphemeral == \A g \in Live : stores[g] = "memory"

\* Guests cost the platform a bounded number of in-memory workspaces and nothing
\* on the disk while they live.
GuestsHold == GuestsBounded /\ LiveGuestIsEphemeral

\* A payment the provider repeats is granted and the grant is written, unless a
\* restart loses the checkout (webhook: apply_plan first, settle_checkout last).
PaymentLands ==
    \A s \in Sessions : (charge[s] = "paid" /\ checkouts[s] # None)
                            ~> (s \in landed \/ checkouts[s] = None)

\* A full house is temporary: as long as visitors ask, ended sessions are swept
\* and a slot opens (sweep_guests inside create_guest; the 429 says "shortly").
CapacityReturns == []<>(Cardinality(Live) < MaxGuests)
=============================================================================
