---------------------------- MODULE DashboardsMC ----------------------------
EXTENDS Dashboards

CONSTANTS d1, d2, r1, r2, v1, v2

(* A search for the older donation, and one for a receiver.                 *)
MCSearches == {{1}, {r1}}
Symmetry == Permutations(Volunteers) \cup Permutations(Donors)
=============================================================================
