----------------------------- MODULE MCWorkspaces -----------------------------
(* Workspaces for TLC. Requests that share no state are not mixed: each       *)
(* behaviour has one of these kinds of traffic.                               *)
EXTENDS Workspaces

Mixes == {{"tenants", "members"}, {"identity", "billing"}, {"guests"}}
=============================================================================
