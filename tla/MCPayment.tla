----------------------------- MODULE MCPayment -----------------------------
(* Small instances of Payment for TLC.                                     *)
EXTENDS Payment, TLC

\* Copies are interchangeable: no definition tells one from another.
CopySymmetry == Permutations(Copies)
=============================================================================
