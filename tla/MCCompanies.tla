---------------------------- MODULE MCCompanies ----------------------------
(* Companies on small instances.                                           *)
EXTENDS Companies, TLC
CONSTANTS l1, l2, c1, d, g, t1, t2
Interchangeable == Permutations(Clerks)
=============================================================================
