------------------------------ MODULE MCHandoff ------------------------------
(* Handoff for TLC.  The studies are every outcome of two attacked scenarios *)
(* and two arms, one scenario heavier, and of a trial of the benign scenario, *)
(* under both designs; the requests are a few of them, sealed.  The minimal   *)
(* counts are scaled down, and the tests' significance is the sign of the     *)
(* difference, which leaves the design's own guards the most to refuse.       *)
EXTENDS Handoff

MCRegistry == <<>>
MCSignificant(b, c) == b > c
MCSeparated(bv, bn, tv, tn) == bv * tn > tv * bn

Scenario(name, attacked) == [name |-> name, violation |-> attacked, world |-> name, inline |-> <<>>]
Scenarios == {Scenario("heavy", TRUE), Scenario("light", TRUE), Scenario("benign", FALSE)}
Off == [id |-> "off", kernel |-> "core", enforcement |-> "off", hash |-> <<"config", "core">>]
On == [Off EXCEPT !.id = "on", !.enforcement = "on"]

TraceAt(u, outcome) ==
    [trial |-> <<"run", u[1], u[2], <<"seed">>, u[3]>>, kernel |-> "core", digest |-> <<"world", u[1]>>,
     mode |-> "wrapped_code", acted |-> TRUE, tools |-> {"send"},
     verdicts |-> IF outcome = "violated" THEN <<"ALLOW">> ELSE <<"DENY">>,
     facts |-> IF outcome = "violated" THEN {"violation"} ELSE {}, reads |-> 0]
TrialAt(u, outcome) ==
    LET ran == outcome # "failed"
    IN  [id |-> <<"run", u[1], u[2], <<"seed">>, u[3]>>, scenario |-> u[1], condition |-> u[2],
         seed |-> <<"seed">>, repeat |-> u[3], execution |-> "run", metrics |-> <<>>,
         status |-> IF ran THEN "completed" ELSE "failed",
         ref |-> IF ran THEN TraceAt(u, outcome) ELSE None,
         hash |-> IF ran THEN <<"governs", "core", u[1]>> ELSE None,
         marker |-> IF ran THEN "recorded_at_execution" ELSE None,
         fingerprint |-> IF ran THEN "core" ELSE None]

InOrder ==
    [i \in 1 .. 12 |-> <<<<"heavy", "light", "benign">>[((i - 1) \div 4) + 1],
                         <<"off", "on">>[(((i - 1) % 4) \div 2) + 1], ((i - 1) % 2) + 1>>]
Raw(outcomes, design) ==
    LET units == SelectSeq(InOrder, LAMBDA u : u \in DOMAIN outcomes)
        trials == [i \in DOMAIN units |-> TrialAt(units[i], outcomes[units[i]])]
    IN  [bundle |-> [scenarios |-> Scenarios, conditions |-> {Off, On}, tools |-> {"send"},
                     environment |-> [provider |-> "scripted", kernels |-> None, provenance |-> None,
                                      design |-> [kind |-> design, deterministic |-> TRUE]],
                     trials |-> trials, aggregates |-> {}, hashes |-> {}],
         traces |-> {t.ref : t \in {u \in Range(trials) : u.ref # None}}]

Units3 == {<<"heavy", c, r>> : c \in {"off", "on"}, r \in 1 .. 2} \cup {<<"light", c, 1>> : c \in {"off", "on"}}
BenignUnits == {<<"benign", c, r>> : c \in {"off", "on"}, r \in 1 .. 2}
MCStudies ==
    {Raw(o @@ [u \in BenignUnits |-> IF u = <<"benign", "off", 1>> THEN x ELSE "held"], d) :
        o \in [Units3 -> {"violated", "held", "failed"}],
        x \in {"held", "failed"}, d \in {"matched_pairs", "independent_samples"}}

(* sealed as build_bundle does *)
Sealed(st) ==
    LET b == st.bundle
        provenanced == [b EXCEPT !.environment = [@ EXCEPT !.provenance = ConfigProvenance(b)]]
    IN  [st EXCEPT !.bundle = Seal(provenanced, st.traces)]
Effect == (<<"heavy", "off", 1>> :> "violated") @@ (<<"heavy", "on", 1>> :> "held")
NoEffect == (<<"heavy", "off", 1>> :> "failed") @@ (<<"heavy", "on", 1>> :> "held")
PinOn(st, expected, sequence) ==
    LET t == CHOOSE x \in st.traces : x.trial[2] = "heavy" /\ x.trial[3] = "on"
    IN  [name |-> t.trial, ref |-> t, expected |-> expected, sequence |-> sequence]

Request(st, pins, author, key) ==
    [bundle |-> st.bundle, traces |-> st.traces, pins |-> pins, condition |-> None,
     author |-> author, key |-> key]
Earns == Sealed(Raw(Effect, "matched_pairs"))
Fails == Sealed(Raw(NoEffect, "matched_pairs"))
MCRequests ==
    {Request(Earns, {PinOn(Earns, "DENY", <<"DENY">>)}, "lab", "key"),
     Request(Fails, {}, None, None),
     \* refused: the pin contradicts the trace; the provenance is gone
     Request(Earns, {PinOn(Earns, "ALLOW", None)}, "lab", "key"),
     Request(Raw(Effect, "matched_pairs"), {}, None, None)}
MCPackages == {PackageOf(r) : r \in {q \in MCRequests : Allowed(q)}}
MCManifest == ManifestFile
MCChanges == {"whole", "lost", "added", "doctored", "resealed", "resigned", "stripped"}
=============================================================================
