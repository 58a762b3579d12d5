---------------------------- MODULE MCSiteCache ----------------------------
(* Two sites, two workers and two lockfiles, all interchangeable.          *)
EXTENDS SiteCache, TLC

CONSTANTS s1, s2, w1, w2, l1, l2

Symmetry == Permutations(Sites) \cup Permutations(Workers) \cup Permutations(Lockfiles)
=============================================================================
