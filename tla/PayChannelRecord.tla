-------------------------- MODULE PayChannelRecord --------------------------
(***************************************************************************)
(* The durable record a facilitator keeps for one XRPL payment channel and *)
(* the four pure mutations its store applies to it (paychannel_store.py),  *)
(* with the high-water decision they rest on (core paychannel.py).  Both   *)
(* store implementations run a mutation atomically: the in-memory one      *)
(* under a lock, the Redis one as a WATCH / MULTI compare-and-set.         *)
(*                                                                         *)
(* Drops amounts are naturals.  A claim signature is abstracted to the     *)
(* cumulative amount it signs for this channel.  Identity fields are       *)
(* constant and left out, and so are timestamps: the code clamps them to   *)
(* be monotone and only the idle test of the worker reads one.             *)
(***************************************************************************)
EXTENDS Integers

\* The stored signature of a record that retains no genuine claim: "" on a
\* fresh record, the placeholder "00" on one imported from the ledger.
NoSignature == -1

\* The funding argument of advance is optional.
NoFunding == 0

Record == [funded     : Nat,
           cumulative : Nat,
           signature  : Int,
           redeemed   : Nat,
           finalized  : BOOLEAN]

\* The store holds nothing under the channel's key.  A stored record always
\* has a positive funded amount, so the two cannot be confused.
NoRecord == [funded     |-> 0,
             cumulative |-> 0,
             signature  |-> NoSignature,
             redeemed   |-> 0,
             finalized  |-> FALSE]

Exists(rec) == rec.funded > 0

\* A record as open creates it: funded by the transaction, nothing claimed.
FreshRecord(funded) == [NoRecord EXCEPT !.funded = funded]

\* Mutant: what the ledger paid out before the import is not claimed.
ImportedRecordUnclaimed(amount, balance) ==
    [NoRecord EXCEPT !.funded = amount, !.redeemed = balance]

\* A record as the ledger import creates it: what the ledger already paid out
\* counts as claimed and redeemed, under the placeholder signature.
ImportedRecord(amount, balance) ==
    [NoRecord EXCEPT !.funded     = amount,
                     !.cumulative = balance,
                     !.redeemed   = balance]

(***************************************************************************)
(* The accounting a stored record must satisfy: PayChannelRecord refuses   *)
(* to be constructed otherwise.                                            *)
(***************************************************************************)
ValidAccounting(rec) ==
    /\ rec.funded > 0
    /\ rec.redeemed <= rec.cumulative
    /\ rec.cumulative <= rec.funded

-----------------------------------------------------------------------------
\* Mutant: an equal cumulative amount advances the mark.
HighWaterAcceptsReplay(previous, cumulative, requested) ==
    IF cumulative < previous THEN "regressed" ELSE "advanced"

\* Mutant: any growth covers any price.
HighWaterAcceptsShort(previous, cumulative, requested) ==
    IF cumulative = previous THEN "replay"
    ELSE IF cumulative < previous THEN "regressed"
    ELSE "advanced"

(***************************************************************************)
(* The cumulative-voucher transition.                                      *)
(***************************************************************************)
HighWater(previous, cumulative, requested) ==
    IF cumulative = previous THEN "replay"
    ELSE IF cumulative < previous THEN "regressed"
    ELSE IF requested > 0 /\ cumulative < previous + requested THEN "short"
    ELSE "advanced"

AdoptedFunding(rec, funded) ==
    IF funded = NoFunding THEN rec.funded ELSE funded

\* Mutant: a finalized session still accepts claims.
AdvanceStatusIgnoresFinalized(rec, cumulative, requested, funded) ==
    IF ~Exists(rec) THEN "CHANNEL_NOT_FOUND"
    ELSE IF AdoptedFunding(rec, funded) < rec.funded THEN "FUNDING_REGRESSION"
    ELSE IF cumulative > AdoptedFunding(rec, funded) THEN "CHANNEL_EXHAUSTED"
    ELSE HighWater(rec.cumulative, cumulative, requested)

AdvanceStatus(rec, cumulative, requested, funded) ==
    IF ~Exists(rec) THEN "CHANNEL_NOT_FOUND"
    ELSE IF rec.finalized THEN "CHANNEL_FINALIZED"
    ELSE IF AdoptedFunding(rec, funded) < rec.funded THEN "FUNDING_REGRESSION"
    ELSE IF cumulative > AdoptedFunding(rec, funded) THEN "CHANNEL_EXHAUSTED"
    ELSE HighWater(rec.cumulative, cumulative, requested)

\* What advance leaves in the store.  A refused claim still records a larger
\* validated funding; an error saves nothing.
Advanced(rec, cumulative, requested, signature, funded) ==
    LET status == AdvanceStatus(rec, cumulative, requested, funded)
    IN  IF status = "advanced"
        THEN [rec EXCEPT !.funded     = AdoptedFunding(rec, funded),
                         !.cumulative = cumulative,
                         !.signature  = signature]
        ELSE IF status \in {"replay", "regressed", "short"}
        THEN [rec EXCEPT !.funded = AdoptedFunding(rec, funded)]
        ELSE rec

\* A replay of the very claim the record retains, which close may resume.
ExactReplay(rec, cumulative, requested, signature, funded) ==
    /\ AdvanceStatus(rec, cumulative, requested, funded) = "replay"
    /\ rec.signature = signature

-----------------------------------------------------------------------------
\* Mutant: redemptions may be booked in any order.
CanRedeemBackwards(rec, amount) == Exists(rec) /\ amount <= rec.cumulative

\* Mutant: the whole of what was claimed may not be redeemed.
CanRedeemPart(rec, amount) ==
    Exists(rec) /\ rec.redeemed <= amount /\ amount < rec.cumulative

(***************************************************************************)
(* mark_redeemed: never above the high-water mark, never backwards; equal  *)
(* is accepted and writes nothing.  It does not look at finalized.         *)
(***************************************************************************)
CanRedeem(rec, amount) ==
    /\ Exists(rec)
    /\ rec.redeemed <= amount
    /\ amount <= rec.cumulative

Redeemed(rec, amount) ==
    IF CanRedeem(rec, amount) THEN [rec EXCEPT !.redeemed = amount] ELSE rec

\* Mutant: finalize is unconditional.
CanFinalizeAny(rec, expected) == Exists(rec)

(***************************************************************************)
(* finalize: compare-and-set on the cumulative amount the caller expects.  *)
(* Every caller passes one.  It does not look at redeemed.                 *)
(***************************************************************************)
CanFinalize(rec, expected) ==
    /\ Exists(rec)
    /\ rec.cumulative = expected

Finalized(rec, expected) ==
    IF CanFinalize(rec, expected) THEN [rec EXCEPT !.finalized = TRUE] ELSE rec
=============================================================================
