-------------------------- MODULE MCFundingJournal --------------------------
(***************************************************************************)
(* An instance of FundingJournal for TLC: two invocations with different   *)
(* targets, one of them with a cap that the higher quote exceeds.          *)
(***************************************************************************)
EXTENDS FundingJournal, TLC

CONSTANTS small, large

MCTarget == (small :> 1) @@ (large :> 2)
MCCap == (small :> 2) @@ (large :> 3)
=============================================================================
