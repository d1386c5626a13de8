---------------------------- MODULE MCOrderSaga ----------------------------
(* Small instances of OrderSaga for TLC.                                   *)
EXTENDS OrderSaga, TLC

\* Slots are interchangeable: no definition tells one from another.
SlotSymmetry == Permutations(Workers) \cup Permutations(Payers)

OneUnit == [o \in Orders |-> 1]
=============================================================================
