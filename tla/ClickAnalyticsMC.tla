-------------------------- MODULE ClickAnalyticsMC --------------------------
(* ClickAnalytics for TLC: lookups and countries are interchangeable. *)
EXTENDS ClickAnalytics, TLC

Symmetry == Permutations(Lookups) \cup Permutations(Countries)
=============================================================================
