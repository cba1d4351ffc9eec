--------------------------- MODULE MCCreditLedger ---------------------------
(* Instances of CreditLedger for TLC. *)
EXTENDS CreditLedger

MCAdjustments == {<<1, -1>>}
MCNoAdjustments == {}

WorkerSymmetry == Permutations(Workers)

=============================================================================
