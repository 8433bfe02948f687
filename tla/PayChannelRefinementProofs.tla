--------------------- MODULE PayChannelRefinementProofs ---------------------
(***************************************************************************)
(* The payment channel never goes back, and implements the metered channel *)
(* a seller is promised.                                                   *)
(***************************************************************************)
EXTENDS PayChannelServiceProofs

\* What the ledger has paid of the channel on record.
Collected == IF Exists(record) THEN ledger.balance ELSE 0

\* No step takes anything back.
Forward ==
    /\ record.funded <= record'.funded
    /\ record.cumulative <= record'.cumulative
    /\ record.redeemed <= record'.redeemed
    /\ record.finalized => /\ record'.finalized
                           /\ record'.cumulative = record.cumulative

\* A step that the seller does not notice.
Unnoticed ==
    /\ record'.cumulative = record.cumulative
    /\ charged' = charged
    /\ Collected' = Collected
    /\ record'.finalized = record.finalized

\* Such a step stutters, or is a step of the metered channel.
LEMMA MeteredForms ==
    /\ Unnoticed => UNCHANGED Metered!mvars
    /\ Metered!TakeOver \/ Metered!Sell \/ Metered!Collect \/ Metered!Close => Metered!MNext
BY DEF Unnoticed, Collected, Metered!mvars, Metered!MNext

\* A step that leaves the record, the ledger's balance and the charges alone.
LEMMA QuietForward ==
    ASSUME Inv, UNCHANGED <<record, charged>>, ledger'.balance = ledger.balance
    PROVE  Forward /\ Unnoticed
BY DEF Inv, Typed, SharedTyped, Record, Forward, Unnoticed, Collected

\* Creating the record takes the channel over as it is on the ledger.
LEMMA CreateForward ==
    ASSUME Inv, NEW r \in Requests, OpenRecord(r) \/ Create(r)
    PROVE  Forward /\ (Unnoticed \/ Metered!TakeOver)
<1>1. /\ record \in Record /\ local[r].snap \in Record /\ LocalOK(r) /\ CredOK(r)
      /\ ledger.balance \in Nat
  BY DEF Inv, Typed, SharedTyped, ProcsTyped, Local, Procs
<1>2. CASE Exists(record)
  <2>1. UNCHANGED <<record, charged, ledger>>
    BY <1>2 DEF OpenRecord, Create
  <2> QED
    BY <2>1, QuietForward
<1>3. CASE ~Exists(record)
  <2>1. record = NoRecord /\ base = 0 /\ charged = 0
    BY <1>3 DEF Inv, Books, RecordOK
  <2>2. /\ record.funded = 0 /\ record.cumulative = 0 /\ record.redeemed = 0
        /\ record.finalized = FALSE
    BY <2>1 DEF NoRecord
  <2>3. UNCHANGED <<charged, ledger>>
    BY DEF OpenRecord, Create
  <2>4. /\ Exists(record')
        /\ record'.funded \in Nat /\ record'.redeemed \in Nat
        /\ record'.finalized = FALSE
        /\ record'.cumulative = ledger.balance
    <3>1. CASE OpenRecord(r)
      <4>1. record' = FreshRecord(OpenFunding) /\ ledger.balance = 0
        BY <1>1, <1>3, <3>1 DEF OpenRecord, CredOK, Inv, Books, LedgerOK
      <4>2. /\ FreshRecord(OpenFunding) \in Record /\ ValidAccounting(FreshRecord(OpenFunding))
            /\ FreshRecord(OpenFunding).cumulative = 0 /\ ~FreshRecord(OpenFunding).finalized
        BY AmountsAssumption, NewRecords
      <4> QED
        BY <4>1, <4>2 DEF Record, Exists, ValidAccounting
    <3>2. CASE Create(r)
      <4>1. /\ record' = local[r].snap /\ local[r].snap.cumulative = ledger.balance
            /\ ValidAccounting(local[r].snap) /\ ~local[r].snap.finalized
        BY <1>1, <1>3, <3>2 DEF Create, LocalOK
      <4> QED
        BY <1>1, <4>1 DEF Record, Exists, ValidAccounting
    <3> QED
      BY <3>1, <3>2
  <2>5. Forward
    BY <1>1, <2>2, <2>4 DEF Forward
  <2>6. Collected = 0 /\ Collected' = ledger.balance
    BY <1>3, <2>3, <2>4 DEF Collected
  <2>7. CASE ledger.balance = 0
    BY <2>2, <2>3, <2>4, <2>5, <2>6, <2>7 DEF Unnoticed
  <2>8. CASE ledger.balance > 0
    <3>1. Metered!TakeOver
      BY <1>3, <2>1, <2>2, <2>3, <2>4, <2>8 DEF Metered!TakeOver
    <3> QED
      BY <2>5, <3>1
  <2> QED
    BY <1>1, <2>7, <2>8
<1> QED
  BY <1>2, <1>3

\* Accepting a claim sells against the growth of the high-water mark.
LEMMA AdvanceForward ==
    ASSUME Inv, NEW r \in Requests, AdvanceRecord(r)
    PROVE  Forward /\ (Unnoticed \/ Metered!Sell)
<1> DEFINE c      == Cred(r)
           price  == Price[c.challenge]
           status == AdvanceStatus(record, c.amount, price, local[r].funding)
<1>1. /\ c.amount \in Nat /\ c.signature \in Int /\ price \in Nat
      /\ local[r].funding \in Nat
      /\ record \in Record /\ charged \in Nat
  <2>1. SharedTyped /\ ProcsTyped /\ r \in Procs
    BY DEF Inv, Typed, Procs
  <2>2. c \in Credential
    BY <2>1 DEF ProcsTyped, AdvanceRecord, Steps
  <2>3. c.amount \in Nat /\ c.signature \in Int /\ price \in Nat
    BY <2>2, CredentialType
  <2>4. local[r].funding \in Nat /\ record \in Record /\ charged \in Nat
    BY <2>1 DEF SharedTyped, ProcsTyped, Local
  <2> QED
    BY <2>3, <2>4
<1>2. /\ ledger' = ledger
      /\ charged' = IF status = "advanced" THEN charged + price ELSE charged
      /\ record' = Advanced(record, c.amount, price, c.signature, local[r].funding)
  BY DEF AdvanceRecord
<1>0. record' \in Record
  BY TypedHandle DEF Inv, Typed, SharedTyped, Handle
<1>3. /\ record'.redeemed = record.redeemed
      /\ record'.finalized = record.finalized
      /\ record.funded <= record'.funded
      /\ ~Exists(record) => status # "advanced" /\ record' = record
      /\ status = "advanced" =>
            /\ ~record.finalized
            /\ record'.cumulative = c.amount
            /\ record.cumulative < c.amount
            /\ record.cumulative + price <= c.amount
      /\ status # "advanced" => record'.cumulative = record.cumulative
  BY <1>1, <1>2, AdvancedFacts
<1> HIDE DEF status, price, c
<1>4. Forward
  BY <1>0, <1>1, <1>3 DEF Forward, Record
<1>5. Collected' = Collected
  BY <1>0, <1>1, <1>2, <1>3 DEF Collected, Exists, Record
<1>6. CASE status # "advanced"
  BY <1>2, <1>3, <1>4, <1>5, <1>6 DEF Unnoticed
<1>7. CASE status = "advanced"
  <2>1. /\ record'.cumulative > record.cumulative
        /\ charged' - charged \in 0 .. record'.cumulative - record.cumulative
        /\ ~record.finalized /\ record'.finalized = record.finalized
    BY <1>0, <1>1, <1>2, <1>3, <1>7 DEF Record
  <2>2. Metered!Sell
    BY <1>5, <2>1 DEF Metered!Sell, Collected
  <2> QED
    BY <1>4, <2>2
<1> QED
  BY <1>6, <1>7

\* Booking a redemption is not noticed by the seller.
LEMMA MarkForward ==
    ASSUME Inv, NEW p \in Procs, MarkRedeemed(p)
    PROVE  Forward /\ Unnoticed
<1> DEFINE amount == local[p].snap.cumulative
<1>1. record \in Record /\ amount \in Nat
  BY DEF Inv, Typed, SharedTyped, ProcsTyped, Local, Record
<1>2. UNCHANGED <<ledger, charged>>
  BY DEF MarkRedeemed
<1>3. CASE CanRedeem(record, amount)
  <2>1. record' = Redeemed(record, amount)
    BY <1>3 DEF MarkRedeemed
  <2>2. /\ record'.funded = record.funded /\ record'.cumulative = record.cumulative
        /\ record'.finalized = record.finalized
        /\ record'.redeemed = amount /\ record.redeemed <= amount
    BY <1>1, <1>3, <2>1, RedeemedFacts
  <2> QED
    BY <1>1, <1>2, <2>2 DEF Forward, Unnoticed, Collected, Exists, Record
<1>4. CASE ~CanRedeem(record, amount)
  BY <1>2, <1>4, QuietForward DEF MarkRedeemed
<1> QED
  BY <1>3, <1>4

\* Finalizing closes the metered channel once.
LEMMA FinalizeForward ==
    ASSUME Inv, Inv', NEW p \in Procs, Finalize(p)
    PROVE  Forward /\ (Unnoticed \/ Metered!Close)
<1>1. /\ record \in Record /\ record' \in Record /\ ledger.balance \in Nat
  BY DEF Inv, Typed, SharedTyped
<1>2. UNCHANGED <<ledger, charged>> /\ record' = Finalized(record, Expected(p))
  BY DEF Finalize
<1>3. /\ record'.funded = record.funded /\ record'.cumulative = record.cumulative
      /\ record'.redeemed = record.redeemed
      /\ record.finalized => record'.finalized
      /\ record'.finalized /\ ~record.finalized => Exists(record)
  BY <1>1, <1>2, FinalizedFacts
<1>4. Forward /\ Collected' = Collected
  BY <1>1, <1>2, <1>3 DEF Forward, Collected, Exists, Record
<1>5. CASE record'.finalized = record.finalized
  BY <1>2, <1>3, <1>4, <1>5 DEF Unnoticed
<1>6. CASE record'.finalized # record.finalized
  <2>1. record.finalized = FALSE /\ record'.finalized = TRUE /\ Exists(record)
    BY <1>1, <1>3, <1>6 DEF Record
  <2>2. HasSettler => record.redeemed = record.cumulative
    BY <1>3, <2>1 DEF Inv, FinalizedIsRedeemed
  <2>3. record.redeemed <= ledger.balance /\ ledger.balance <= record.cumulative
    BY <2>1 DEF Inv, Books, BooksMatchLedger
  <2>4. HasSettler => Collected = record.cumulative
    BY <1>1, <2>1, <2>2, <2>3 DEF Collected, Record
  <2>5. Metered!Close
    BY <1>2, <1>3, <1>4, <2>1, <2>4 DEF Metered!Close, Collected
  <2> QED
    BY <1>4, <2>5
<1> QED
  BY <1>5, <1>6

\* A validated claim collects.
LEMMA ValidateForward ==
    ASSUME Inv, NEW claim \in mempool, ValidateClaim(claim)
    PROVE  Forward /\ Metered!Collect
<1>1. /\ Exists(record) /\ record \in Record
      /\ claim.amount <= record.cumulative
      /\ ledger.balance < claim.amount
      /\ ledger.balance \in Nat /\ claim.amount \in Nat
  BY DEF Inv, Typed, SharedTyped, ClaimsOK, ValidateClaim, ClaimPays, Claim
<1>2. ledger'.balance = claim.amount /\ UNCHANGED <<record, charged>>
  BY DEF ValidateClaim, Inv, Typed, SharedTyped
<1>3. Forward
  BY <1>1, <1>2 DEF Forward, Record
<1>4. Collected = ledger.balance /\ Collected' = claim.amount
  BY <1>1, <1>2 DEF Collected
<1>5. Metered!Collect
  BY <1>1, <1>2, <1>4 DEF Metered!Collect, Collected
<1> QED
  BY <1>3, <1>5

\* Every step of the service goes forward.
LEMMA StepForward ==
    ASSUME Inv, [Next]_vars
    PROVE  Forward /\ (Unnoticed \/ Metered!MNext)
<1>1. Inv'
  BY StepInv
<1>2. CASE UNCHANGED vars \/ ExpireLease
  BY <1>2, QuietForward DEF vars, ExpireLease
<1>3. CASE Ledger
  <2>1. CASE \E claim \in mempool : ValidateClaim(claim)
    BY <2>1, ValidateForward, MeteredForms
  <2>2. CASE \E claim \in mempool : RefuseClaim(claim) \/ DropClaim(claim)
    BY <2>2, QuietForward DEF RefuseClaim, DropClaim
  <2>3. CASE ValidateOpen \/ FailOpen \/ Fund \/ RunDown
    <3>1. ledger'.balance = ledger.balance
      BY <2>3 DEF ValidateOpen, FailOpen, Fund, RunDown, Absent, Inv, Typed, SharedTyped
    <3> QED
      BY <2>3, <3>1, QuietForward DEF ValidateOpen, FailOpen, Fund, RunDown
  <2> QED
    BY <1>3, <2>1, <2>2, <2>3 DEF Ledger
<1>4. ASSUME NEW r \in Requests, Arrive(r) \/ Handle(r)
      PROVE  Forward /\ (Unnoticed \/ Metered!MNext)
  <2>1. CASE OpenRecord(r) \/ Create(r)
    BY <2>1, CreateForward, MeteredForms
  <2>2. CASE AdvanceRecord(r)
    BY <2>2, AdvanceForward, MeteredForms
  <2>3. CASE Arrive(r) \/ SubmitOpen(r) \/ PollOpen(r) \/ Lookup(r) \/ Import(r) \/ Verify(r)
             \/ ClaimChallenge(r) \/ Reload(r) \/ Abandon(r)
    <3>1. UNCHANGED <<record, charged, ledger>>
      BY <2>3 DEF Arrive, SubmitOpen, PollOpen, Lookup, Import, Verify, ClaimChallenge, Reload, Abandon
    <3> QED
      BY <3>1, QuietForward
  <2> QED
    BY <1>4, <2>1, <2>2, <2>3 DEF Handle
<1>5. ASSUME NEW w \in Workers, Scan(w)
      PROVE  Forward /\ Unnoticed
  BY <1>5, QuietForward DEF Scan
<1>6. ASSUME NEW p \in Procs, Settle(p) \/ Fault(p)
      PROVE  Forward /\ (Unnoticed \/ Metered!MNext)
  <2>1. CASE MarkRedeemed(p)
    BY <2>1, MarkForward
  <2>2. CASE Finalize(p)
    BY <1>1, <2>2, FinalizeForward, MeteredForms
  <2>3. CASE ClaimLease(p) \/ SubmitClaim(p) \/ AwaitClaim(p) \/ ReleaseLease(p) \/ Fault(p)
    <3>1. UNCHANGED <<record, charged, ledger>>
      BY <2>3 DEF ClaimLease, SubmitClaim, AwaitClaim, ReleaseLease, Fault, SettleFails,
                  LoseContact, Crash
    <3> QED
      BY <3>1, QuietForward
  <2> QED
    BY <1>6, <2>1, <2>2, <2>3 DEF Settle
<1> QED
  BY <1>2, <1>3, <1>4, <1>5, <1>6 DEF Next

(***************************************************************************)
(* No mutation of the store, in any order, takes back an accepted,         *)
(* redeemed or funded drop, or reopens a finalized session.                *)
(***************************************************************************)
THEOREM NothingTakenBack == Spec => OnlyForward
<1>1. Inv /\ [Next]_vars =>
        [/\ record.funded <= record'.funded
         /\ record.cumulative <= record'.cumulative
         /\ record.redeemed <= record'.redeemed
         /\ record.finalized => /\ record'.finalized
                                /\ record'.cumulative = record.cumulative]_vars
  BY StepForward DEF Forward
<1> QED
  BY <1>1, SpecInv, PTL DEF Spec, OnlyForward

(***************************************************************************)
(* Handlers, workers, store and ledger together implement the metered      *)
(* channel: a claim accepted by advance sells no more than it authorises,  *)
(* and finalize closes a session that is fully collected.                  *)
(***************************************************************************)
THEOREM MeteredImplemented == Spec => ImplementsMetered
<1>1. Init => Metered!MInit
  <2>1. NoRecord.cumulative = 0 /\ NoRecord.finalized = FALSE /\ ~Exists(NoRecord)
    BY DEF NoRecord, Exists
  <2> QED
    BY <2>1 DEF Init, Metered!MInit
<1>2. Inv /\ [Next]_vars => [Metered!MNext]_(Metered!mvars)
  BY StepForward, MeteredForms
<1> QED
  BY <1>1, <1>2, SpecInv, PTL DEF Spec, ImplementsMetered, Metered!MSpec
=============================================================================
