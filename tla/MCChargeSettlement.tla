------------------------ MODULE MCChargeSettlement ------------------------
(***************************************************************************)
(* Instances of ChargeSettlement for TLC: two payments for one challenge,  *)
(* one that must be in a ledger before the challenge expires and one that  *)
(* may outlive it.                                                         *)
(***************************************************************************)
EXTENDS ChargeSettlement, TLC

CONSTANTS t1, t2

MCPayments == {t1, t2}
MCLastLedger == (t1 :> 2) @@ (t2 :> 3)

Symmetry == Permutations(Deliveries)
=============================================================================
