---------------------------- MODULE MCMarketing ----------------------------
(* Bounds for Marketing.                                                    *)
EXTENDS Marketing, TLC

CONSTANTS c1, e1, e2

Interchangeable == Permutations(Emails)
=============================================================================
