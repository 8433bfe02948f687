------------------------- MODULE PayChannelService -------------------------
(***************************************************************************)
(* One XRPL payment channel served by a facilitator: session credentials   *)
(* verified concurrently by any number of replicas (paychannel_service.py),*)
(* the redemption workers (paychannel_worker.py), the shared Redis state   *)
(* (channel record, redemption lease, challenge markers) and the ledger    *)
(* that is written by opens and claims and read by every verification.     *)
(*                                                                         *)
(* A request is one delivery of a credential, so a retry is another        *)
(* request.  Each step of a handler or a worker is what runs between two   *)
(* awaits; everything may interleave at the awaits.  All shared state is   *)
(* keyed by channel and channels share nothing, so one channel is modelled.*)
(* Checks on the envelope that depend on the credential alone (binding,    *)
(* expiry, decoding) leave no trace when they fail: requests here pass     *)
(* them.  The claim signature may be bad, since it is checked late.        *)
(***************************************************************************)
EXTENDS PayChannelRecord, FiniteSets

CONSTANTS
    Requests,         \* deliveries of session credentials
    Workers,          \* redemption workers, one per replica
    Challenges,       \* challenge identifiers issued by the seller
    OpenChallenges,   \* those of them issued without a channel, for an open
    Price,            \* Price[c]: the request amount bound into challenge c
    Amounts,          \* cumulative amounts a payer may sign
    PriorBalances,    \* what a channel opened outside MPP may have paid before
    OpenFunding,      \* Amount of the payer's PaymentChannelCreate
    MaxFunding,       \* bound on out-of-band PaymentChannelFund
    HasSettler,       \* a recipient signer is configured
    LeaseOutlivesSettlement,  \* no lease expires under an unresolved claim
    MaxFaults,        \* bound on crashes, lost responses and dropped claims
    None              \* no lease holder, no claimant

Procs == Requests \cup Workers

ASSUME ProcsAssumption ==
    /\ Requests \cap Workers = {}
    /\ None \notin Procs
    /\ HasSettler \in BOOLEAN
    /\ LeaseOutlivesSettlement \in BOOLEAN
    /\ Workers # {} => HasSettler   \* redemption requires a recipient signer

ASSUME AmountsAssumption ==
    /\ OpenChallenges \subseteq Challenges
    /\ Price \in [Challenges -> Nat]
    /\ Amounts \subseteq Nat
    /\ PriorBalances \subseteq Nat
    /\ OpenFunding \in Nat \ {0}
    /\ MaxFunding \in Nat
    /\ MaxFaults \in Nat

\* A signature that does not verify for the amount it is sent with.
BadSignature == -2

Credential == [action    : {"open", "voucher", "close"},
               challenge : Challenges,
               amount    : Amounts,
               signature : Amounts \cup {BadSignature}]

VARIABLES
    record,   \* the durable channel record
    lease,    \* holder of the redemption lease, or None
    claimed,  \* claimed[c]: the request that claimed challenge c, or None
    ledger,   \* the channel's ledger entry
    openTx,   \* fate of the payer's PaymentChannelCreate
    mempool,  \* PaymentChannelClaims submitted and not yet resolved
    pc,       \* where each request and worker is
    local,    \* the local variables of each request and worker
    base,     \* history: the cumulative amount the record was created with
    charged,  \* history: sum of the prices accepted against the record
    grants,   \* history: which deliveries were granted, on which challenge
    faults    \* number of faults so far

vars == <<record, lease, claimed, ledger, openTx, mempool, pc, local,
          base, charged, grants, faults>>

-----------------------------------------------------------------------------
(***************************************************************************)
(* Local state.  A coroutine's variables die with it.                      *)
(***************************************************************************)
Fresh == [cred    |-> None,       \* the credential delivered to a request
          snap    |-> NoRecord,   \* the record as last read
          funding |-> NoFunding,  \* validated funding read from the ledger
          holds   |-> FALSE,      \* lease_id is not None
          idle    |-> FALSE,      \* the worker found the session idle
          outcome |-> "none"]     \* what the ledger did with its claim

Local == [cred    : Credential \cup {None},
          snap    : Record,
          funding : Nat,
          holds   : BOOLEAN,
          idle    : BOOLEAN,
          outcome : {"none", "success", "failure"}]

Terminal == {"granted", "refused", "pending", "crashed"}

Steps == {"submitOpen", "pollOpen", "record", "lookup", "import", "create",
          "verify", "claim", "advance", "lease", "reload", "settle", "await",
          "mark", "abandon", "release", "finalize"}

Cred(p) == local[p].cred

Goto(p, step) == pc' = [pc EXCEPT ![p] = step]

\* The handler returns or raises; a worker goes on to its next record.
Leave(p, result) ==
    /\ Goto(p, IF p \in Workers THEN "idle" ELSE result)
    /\ local' = [local EXCEPT ![p] = Fresh]

\* A handler that returns a result authorizes its challenge; otherwise it
\* raises.
Answer(p, granted) ==
    /\ Leave(p, IF granted THEN "granted" ELSE "refused")
    /\ grants' = IF granted /\ p \in Requests
                 THEN grants \cup {[request   |-> p,
                                    challenge |-> Cred(p).challenge]}
                 ELSE grants

Absent == [status |-> "absent", amount |-> 0, balance |-> 0]

Init ==
    /\ record = NoRecord
    /\ lease = None
    /\ claimed = [c \in Challenges |-> None]
    /\ \/ ledger = Absent
       \/ \E paid \in PriorBalances :   \* opened, perhaps used, outside MPP
            /\ paid < OpenFunding
            /\ ledger = [status |-> "open", amount |-> OpenFunding, balance |-> paid]
    /\ openTx = "none"
    /\ mempool = {}
    /\ pc = [p \in Procs |-> "idle"]
    /\ local = [p \in Procs |-> Fresh]
    /\ base = 0
    /\ charged = 0
    /\ grants = {}
    /\ faults = 0

-----------------------------------------------------------------------------
(***************************************************************************)
(* The ledger.  A claim pays the recipient the difference between its      *)
(* amount and the channel's balance; XRPL refuses one that asks for        *)
(* nothing new, for more than the channel holds, or carries a signature    *)
(* for another amount.  The payer may add funds and may close the channel: *)
(* "closing" is the time inside the settlement margin before its           *)
(* expiration, "gone" the time after it is deleted.                        *)
(***************************************************************************)
Claim == [owner : Procs \cup {None}, amount : Nat, signature : Int]

ClaimPays(claim) ==
    /\ ledger.status \in {"open", "closing"}
    /\ claim.signature = claim.amount
    /\ ledger.balance < claim.amount
    /\ claim.amount <= ledger.amount

\* The submitter, if it still waits, sees what became of its claim.
Report(claim, result) ==
    local' = IF claim.owner = None THEN local
             ELSE [local EXCEPT ![claim.owner].outcome = result]

ValidateClaim(claim) ==
    /\ ClaimPays(claim)
    /\ mempool' = mempool \ {claim}
    /\ ledger' = [ledger EXCEPT !.balance = claim.amount]
    /\ Report(claim, "success")
    /\ UNCHANGED <<record, lease, claimed, openTx, pc, base, charged, grants, faults>>

RefuseClaim(claim) ==
    /\ ~ClaimPays(claim)
    /\ mempool' = mempool \ {claim}
    /\ Report(claim, "failure")
    /\ UNCHANGED <<record, lease, claimed, ledger, openTx, pc, base, charged, grants, faults>>

\* The claim never makes it into a ledger before its LastLedgerSequence.
DropClaim(claim) ==
    /\ faults < MaxFaults
    /\ faults' = faults + 1
    /\ mempool' = mempool \ {claim}
    /\ Report(claim, "failure")
    /\ UNCHANGED <<record, lease, claimed, ledger, openTx, pc, base, charged, grants>>

ValidateOpen ==
    /\ openTx = "pending"
    /\ ledger = Absent
    /\ openTx' = "validated"
    /\ ledger' = [status |-> "open", amount |-> OpenFunding, balance |-> 0]
    /\ UNCHANGED <<record, lease, claimed, mempool, pc, local, base, charged, grants, faults>>

FailOpen ==
    /\ openTx = "pending"
    /\ openTx' = "failed"
    /\ UNCHANGED <<record, lease, claimed, ledger, mempool, pc, local, base, charged, grants, faults>>

Fund ==
    /\ ledger.status = "open"
    /\ ledger.amount < MaxFunding
    /\ ledger' = [ledger EXCEPT !.amount = @ + 1]
    /\ UNCHANGED <<record, lease, claimed, openTx, mempool, pc, local, base, charged, grants, faults>>

RunDown ==
    /\ \/ /\ ledger.status = "open"
          /\ ledger' = [ledger EXCEPT !.status = "closing"]
       \/ /\ ledger.status = "closing"
          /\ ledger' = [ledger EXCEPT !.status = "gone"]
    /\ UNCHANGED <<record, lease, claimed, openTx, mempool, pc, local, base, charged, grants, faults>>

Ledger ==
    \/ \E claim \in mempool :
        ValidateClaim(claim) \/ RefuseClaim(claim) \/ DropClaim(claim)
    \/ ValidateOpen
    \/ FailOpen
    \/ Fund
    \/ RunDown

-----------------------------------------------------------------------------
(***************************************************************************)
(* A credential arrives.                                                   *)
(***************************************************************************)
Arrive(r) ==
    /\ pc[r] = "idle"
    /\ \E c \in Credential :
        /\ c.signature \in {c.amount, BadSignature}
        /\ (c.action = "open") <=> (c.challenge \in OpenChallenges)
        /\ local' = [local EXCEPT ![r].cred = c]
        /\ \/ /\ c.action # "open"
              /\ Goto(r, "lookup")
           \/ /\ c.action = "open"
              /\ Price[c.challenge] <= c.amount
              /\ c.amount <= OpenFunding
              /\ Goto(r, "submitOpen")
    /\ UNCHANGED <<record, lease, claimed, ledger, openTx, mempool, base, charged, grants, faults>>

\* Mutant: the claim signature is not verified.
SignedUnverified(c) == TRUE

\* The claim signature is the payer's, for this amount.
Signed(c) == c.signature = c.amount

(***************************************************************************)
(* open: submit the PaymentChannelCreate and wait for its validation.      *)
(* Resubmitting a transaction that is already queued or validated is       *)
(* accepted.  A submission whose response is lost, like a poll that times  *)
(* out, ends in SettlementPending.                                         *)
(***************************************************************************)
SubmitOpen(r) ==
    /\ pc[r] = "submitOpen"
    /\ \/ /\ openTx' = IF openTx = "none" THEN "pending" ELSE openTx
          /\ \/ Goto(r, "pollOpen") /\ UNCHANGED local
             \/ Leave(r, "pending")
       \/ openTx' = openTx /\ Leave(r, "pending")
       \/ openTx' = openTx /\ Leave(r, "refused")
    /\ UNCHANGED <<record, lease, claimed, ledger, mempool, base, charged, grants, faults>>

PollOpen(r) ==
    /\ pc[r] = "pollOpen"
    /\ \/ /\ openTx = "validated"
          /\ IF Cred(r).amount = 0 \/ Signed(Cred(r))
             THEN Goto(r, "claim") /\ UNCHANGED local
             ELSE Leave(r, "refused")
       \/ openTx = "failed" /\ Leave(r, "refused")
       \/ Leave(r, "pending")
    /\ UNCHANGED <<record, lease, claimed, ledger, openTx, mempool, base, charged, grants, faults>>

\* The record is created unless it exists.  The get, the create and the get
\* after a conflict are one step: a record never disappears, and the last of
\* them decides.
OpenRecord(r) ==
    /\ pc[r] = "record"
    /\ LET created == ~Exists(record)
           current == IF created THEN FreshRecord(OpenFunding) ELSE record
       IN  /\ record' = current
           /\ IF current.funded = OpenFunding /\ Cred(r).amount > 0
              THEN Goto(r, "advance") /\ UNCHANGED <<local, grants>>
              ELSE Answer(r, current.funded = OpenFunding /\ created)
    /\ UNCHANGED <<lease, claimed, ledger, openTx, mempool, base, charged, faults>>

(***************************************************************************)
(* voucher and close: find the record, or import it from the ledger.       *)
(***************************************************************************)
\* The checks on a record before the ledger is asked.
Examine(r, rec) ==
    IF rec.finalized \/ ~Signed(Cred(r))
    THEN Leave(r, "refused")
    ELSE /\ Goto(r, "verify")
         /\ local' = [local EXCEPT ![r].snap = rec]

Lookup(r) ==
    /\ pc[r] = "lookup"
    /\ IF Exists(record) THEN Examine(r, record)
       ELSE Goto(r, "import") /\ UNCHANGED local
    /\ UNCHANGED <<record, lease, claimed, ledger, openTx, mempool, base, charged, grants, faults>>

Import(r) ==
    /\ pc[r] = "import"
    /\ IF ledger.status = "open"
       THEN /\ Goto(r, "create")
            /\ local' = [local EXCEPT ![r].snap =
                            ImportedRecord(ledger.amount, ledger.balance)]
       ELSE Leave(r, "refused")
    /\ UNCHANGED <<record, lease, claimed, ledger, openTx, mempool, base, charged, grants, faults>>

Create(r) ==
    /\ pc[r] = "create"
    /\ record' = IF Exists(record) THEN record ELSE local[r].snap
    /\ base' = IF Exists(record) THEN base ELSE local[r].snap.cumulative
    /\ Examine(r, record')
    /\ UNCHANGED <<lease, claimed, ledger, openTx, mempool, charged, grants, faults>>

\* Ledger verification: the claim lies between the balance and the funding
\* of a channel that is not about to expire.
Verify(r) ==
    /\ pc[r] = "verify"
    /\ IF /\ ledger.status = "open"
          /\ Cred(r).amount \in ledger.balance .. ledger.amount
       THEN /\ Goto(r, "claim")
            /\ local' = [local EXCEPT ![r].funding = ledger.amount]
       ELSE Leave(r, "refused")
    /\ UNCHANGED <<record, lease, claimed, ledger, openTx, mempool, base, charged, grants, faults>>

\* Mutant: a challenge may be claimed again.
UnclaimedAlways(c) == TRUE

\* The SET NX on the challenge's marker succeeds.
Unclaimed(c) == claimed[c] = None

(***************************************************************************)
(* The challenge is claimed after every proof, before the record changes.  *)
(***************************************************************************)
ClaimChallenge(r) ==
    /\ pc[r] = "claim"
    /\ LET c == Cred(r).challenge
       IN  IF Unclaimed(c)
           THEN /\ claimed' = [claimed EXCEPT ![c] = r]
                /\ Goto(r, IF Cred(r).action = "open" THEN "record" ELSE "advance")
                /\ UNCHANGED local
           ELSE claimed' = claimed /\ Leave(r, "refused")
    /\ UNCHANGED <<record, lease, ledger, openTx, mempool, base, charged, grants, faults>>

(***************************************************************************)
(* The high-water mark advances.  A voucher or an open is answered; a      *)
(* close, advanced or resumed, goes on to settle what is not redeemed.     *)
(***************************************************************************)
AdvanceRecord(r) ==
    /\ pc[r] = "advance"
    /\ LET c        == Cred(r)
           price    == Price[c.challenge]
           status   == AdvanceStatus(record, c.amount, price, local[r].funding)
           resumed  == /\ c.action = "close"
                       /\ ExactReplay(record, c.amount, price, c.signature, local[r].funding)
           accepted == status = "advanced" \/ resumed
       IN  /\ record' = Advanced(record, c.amount, price, c.signature, local[r].funding)
           /\ charged' = IF status = "advanced" THEN charged + price ELSE charged
           /\ IF accepted /\ c.action = "close"
              THEN /\ Goto(r, IF HasSettler /\ record'.redeemed < record'.cumulative
                              THEN "lease" ELSE "finalize")
                   /\ local' = [local EXCEPT ![r].snap = record']
                   /\ UNCHANGED grants
              ELSE Answer(r, accepted)
    /\ UNCHANGED <<lease, claimed, ledger, openTx, mempool, base, faults>>
-----------------------------------------------------------------------------
(***************************************************************************)
(* Settlement, shared by close and the worker.  The lease is a Redis key   *)
(* with an expiry, released by compare-and-delete on the holder's own id.  *)
(***************************************************************************)
ClaimLease(p) ==
    /\ pc[p] = "lease"
    /\ IF lease = None
       THEN /\ lease' = p
            /\ local' = [local EXCEPT ![p].holds = TRUE]
            /\ Goto(p, IF p \in Workers THEN "settle" ELSE "reload")
       ELSE /\ lease' = lease
            /\ IF p \in Workers THEN Leave(p, "leased elsewhere")
               ELSE Goto(p, "reload") /\ UNCHANGED local
    /\ UNCHANGED <<record, claimed, ledger, openTx, mempool, base, charged, grants, faults>>

\* Close reads the record again under the lease.  A changed high-water mark
\* ends the close (and gives the lease back); without the lease an
\* outstanding claim is somebody else's to settle.
Reload(r) ==
    /\ pc[r] = "reload"
    /\ LET snap    == local[r].snap
           holds   == local[r].holds
           changed == \/ record.cumulative # snap.cumulative
                      \/ record.signature # snap.signature
           unpaid  == record.redeemed < record.cumulative
       IN  \/ /\ changed
              /\ IF holds THEN Goto(r, "abandon") /\ UNCHANGED local
                 ELSE Leave(r, "refused")
           \/ ~changed /\ unpaid /\ ~holds /\ Leave(r, "pending")
           \/ /\ ~changed /\ (unpaid => holds)
              /\ local' = [local EXCEPT ![r].snap = record]
              /\ Goto(r, IF unpaid THEN "settle"
                         ELSE IF holds THEN "release" ELSE "finalize")
    /\ UNCHANGED <<record, lease, claimed, ledger, openTx, mempool, base, charged, grants, faults>>

Abandon(r) ==
    /\ pc[r] = "abandon"
    /\ lease' = IF lease = r THEN None ELSE lease
    /\ Leave(r, "refused")
    /\ UNCHANGED <<record, claimed, ledger, openTx, mempool, base, charged, grants, faults>>

\* The claim is built from the record as the process last read it.
SubmitClaim(p) ==
    /\ pc[p] = "settle"
    /\ mempool' = mempool \cup {[owner     |-> p,
                                 amount    |-> local[p].snap.cumulative,
                                 signature |-> local[p].snap.signature]}
    /\ Goto(p, "await")
    /\ UNCHANGED <<record, lease, claimed, ledger, openTx, local, base, charged, grants, faults>>

\* Autofill, the fee limit or the signer fails before anything is submitted.
\* The lease stays, here as after every other failure.
SettleFails(p) ==
    /\ pc[p] = "settle"
    /\ faults < MaxFaults
    /\ faults' = faults + 1
    /\ Leave(p, "refused")
    /\ UNCHANGED <<record, lease, claimed, ledger, openTx, mempool, base, charged, grants>>

\* Mutant: a claim that failed counts as redeemed.
AwaitClaimUnchecked(p) ==
    /\ pc[p] = "await"
    /\ local[p].outcome # "none"
    /\ Goto(p, "mark")
    /\ UNCHANGED <<record, lease, claimed, ledger, openTx, mempool, local, base, charged, grants, faults>>

AwaitClaim(p) ==
    /\ pc[p] = "await"
    /\ \/ local[p].outcome = "success" /\ Goto(p, "mark") /\ UNCHANGED local
       \/ local[p].outcome = "failure" /\ Leave(p, "refused")
    /\ UNCHANGED <<record, lease, claimed, ledger, openTx, mempool, base, charged, grants, faults>>

\* Nobody waits any more for the claims p submitted.
Orphan(p) ==
    mempool' = {IF claim.owner = p THEN [claim EXCEPT !.owner = None] ELSE claim :
                    claim \in mempool}

\* Mutant: an ambiguous failure gives the lease back.
LoseContactReleases(p) ==
    /\ pc[p] = "await"
    /\ faults < MaxFaults
    /\ faults' = faults + 1
    /\ lease' = IF lease = p THEN None ELSE lease
    /\ Orphan(p)
    /\ Leave(p, "refused")
    /\ UNCHANGED <<record, claimed, ledger, openTx, base, charged, grants>>

\* The connection fails while the process waits: the claim may still be
\* pending, or have been validated already.
LoseContact(p) ==
    /\ pc[p] = "await"
    /\ faults < MaxFaults
    /\ faults' = faults + 1
    /\ Orphan(p)
    /\ Leave(p, "refused")
    /\ UNCHANGED <<record, lease, claimed, ledger, openTx, base, charged, grants>>

MarkRedeemed(p) ==
    /\ pc[p] = "mark"
    /\ LET amount == local[p].snap.cumulative
       IN  IF CanRedeem(record, amount)
           THEN /\ record' = Redeemed(record, amount)
                /\ Goto(p, IF local[p].idle THEN "finalize" ELSE "release")
                /\ UNCHANGED local
           ELSE record' = record /\ Leave(p, "refused")
    /\ UNCHANGED <<lease, claimed, ledger, openTx, mempool, base, charged, grants, faults>>

ReleaseLease(p) ==
    /\ pc[p] = "release"
    /\ lease' = IF lease = p THEN None ELSE lease
    /\ IF p \in Workers THEN Leave(p, "released")
       ELSE Goto(p, "finalize") /\ UNCHANGED local
    /\ UNCHANGED <<record, claimed, ledger, openTx, mempool, base, charged, grants, faults>>

\* The cumulative amount a finalization is conditional on.
Expected(p) == IF p \in Workers THEN local[p].snap.cumulative ELSE Cred(p).amount

Finalize(p) ==
    /\ pc[p] = "finalize"
    /\ record' = Finalized(record, Expected(p))
    /\ IF p \in Workers /\ local[p].holds /\ CanFinalize(record, Expected(p))
       THEN Goto(p, "release") /\ UNCHANGED <<local, grants>>
       ELSE Answer(p, CanFinalize(record, Expected(p)))
    /\ UNCHANGED <<lease, claimed, ledger, openTx, mempool, base, charged, faults>>

(***************************************************************************)
(* The worker sweeps the records it scanned.  Whether the session is idle  *)
(* depends on the clock; a finalized one never is.                         *)
(***************************************************************************)
Scan(w) ==
    /\ pc[w] = "idle"
    /\ Exists(record)
    /\ \E idle \in BOOLEAN :
        /\ idle => ~record.finalized
        /\ idle \/ record.redeemed < record.cumulative
        /\ local' = [local EXCEPT ![w].snap = record, ![w].idle = idle]
        /\ Goto(w, IF record.redeemed < record.cumulative THEN "lease" ELSE "finalize")
    /\ UNCHANGED <<record, lease, claimed, ledger, openTx, mempool, base, charged, grants, faults>>

(***************************************************************************)
(* The lease expires.  Under LeaseOutlivesSettlement its duration covers   *)
(* the holder's whole settlement and the life of what it submitted.        *)
(***************************************************************************)
Settling(p) ==
    /\ pc[p] \in {"reload", "settle", "await", "mark", "abandon", "release", "finalize"}
    /\ local[p].holds

ExpireLease ==
    /\ lease # None
    /\ LeaseOutlivesSettlement => /\ mempool = {}
                                  /\ ~Settling(lease)
    /\ lease' = None
    /\ UNCHANGED <<record, claimed, ledger, openTx, mempool, pc, local, base, charged, grants, faults>>

\* The process dies; Redis and the ledger keep what they have.
Crash(p) ==
    /\ pc[p] \in Steps
    /\ faults < MaxFaults
    /\ faults' = faults + 1
    /\ Orphan(p)
    /\ Leave(p, "crashed")
    /\ UNCHANGED <<record, lease, claimed, ledger, openTx, base, charged, grants>>

-----------------------------------------------------------------------------
Handle(r) ==
    \/ SubmitOpen(r) \/ PollOpen(r) \/ OpenRecord(r)
    \/ Lookup(r) \/ Import(r) \/ Create(r) \/ Verify(r)
    \/ ClaimChallenge(r) \/ AdvanceRecord(r) \/ Reload(r) \/ Abandon(r)

Settle(p) ==
    \/ ClaimLease(p) \/ SubmitClaim(p) \/ AwaitClaim(p) \/ MarkRedeemed(p)
    \/ ReleaseLease(p) \/ Finalize(p)

Fault(p) == SettleFails(p) \/ LoseContact(p) \/ Crash(p)

Next ==
    \/ Ledger
    \/ ExpireLease
    \/ \E r \in Requests : Arrive(r) \/ Handle(r)
    \/ \E w \in Workers : Scan(w)
    \/ \E p \in Procs : Settle(p) \/ Fault(p)

Spec == Init /\ [][Next]_vars

(***************************************************************************)
(* Fairness: every coroutine is scheduled, workers sweep for ever, Redis   *)
(* expires keys, and the ledger resolves the claims submitted to it.       *)
(* Nothing obliges a payer to send credentials or faults to occur.         *)
(***************************************************************************)
ResolveClaims == \E claim \in mempool : ValidateClaim(claim) \/ RefuseClaim(claim)

Fairness ==
    /\ WF_vars(ResolveClaims)
    /\ WF_vars(ExpireLease)
    /\ \A r \in Requests : WF_vars(Handle(r))
    /\ \A p \in Procs : WF_vars(Settle(p))
    /\ \A w \in Workers : WF_vars(Scan(w))

FairSpec == Spec /\ Fairness

-----------------------------------------------------------------------------
TypeOK ==
    /\ record \in Record
    /\ Exists(record) => ValidAccounting(record)
    /\ lease \in Procs \cup {None}
    /\ claimed \in [Challenges -> Requests \cup {None}]
    /\ ledger \in [status  : {"absent", "open", "closing", "gone"},
                   amount  : Nat,
                   balance : Nat]
    /\ openTx \in {"none", "pending", "validated", "failed"}
    /\ mempool \subseteq Claim
    /\ pc \in [Procs -> {"idle"} \cup Steps \cup Terminal]
    /\ local \in [Procs -> Local]
    /\ base \in Nat
    /\ charged \in Nat
    /\ grants \subseteq [request : Requests, challenge : Challenges]
    /\ faults \in 0 .. MaxFaults

(***************************************************************************)
(* The durable books agree with the ledger whatever was interleaved, lost  *)
(* or crashed: nothing is booked as redeemed that the ledger has not paid, *)
(* the ledger has paid no more than was accepted, and no more is accepted  *)
(* than the channel holds.                                                 *)
(***************************************************************************)
BooksMatchLedger ==
    Exists(record) =>
        /\ record.redeemed <= ledger.balance
        /\ ledger.balance <= record.cumulative
        /\ record.cumulative <= record.funded
        /\ record.funded <= ledger.amount

(***************************************************************************)
(* What is accepted and not yet redeemed is backed by the payer's          *)
(* signature for exactly that amount, so the recipient can still collect   *)
(* it (also when the record began as a ledger import, whose placeholder    *)
(* signature backs nothing).                                               *)
(***************************************************************************)
OutstandingIsSigned ==
    record.redeemed < record.cumulative => record.signature = record.cumulative

(***************************************************************************)
(* "The server charges only the delta from the accepted high-water mark":  *)
(* all prices accepted since the record was created are covered by the     *)
(* growth of its cumulative amount, so no two requests share a payment.    *)
(***************************************************************************)
ServedIsPaid == base + charged <= record.cumulative

(***************************************************************************)
(* "This prevents one valid challenge from authorizing multiple            *)
(* successively higher cumulative claims": two deliveries are never both   *)
(* granted for one challenge.                                              *)
(***************************************************************************)
OneGrantPerChallenge ==
    \A g1, g2 \in grants : g1.challenge = g2.challenge => g1 = g2

(***************************************************************************)
(* With a recipient signer a session is finalized only once everything it  *)
(* accepted is redeemed: "a concurrently newer voucher remains active and  *)
(* redeemable instead of being finalized under an older claim", for the    *)
(* close and for the idle worker's stale scan alike.                       *)
(***************************************************************************)
FinalizedIsRedeemed ==
    HasSettler /\ record.finalized => record.redeemed = record.cumulative

(***************************************************************************)
(* "Do not submit a second on-ledger claim while its outcome is            *)
(* unresolved": as long as leases are long enough, at most one claim is    *)
(* before the ledger.                                                      *)
(***************************************************************************)
OneClaimInFlight ==
    LeaseOutlivesSettlement => \A c1, c2 \in mempool : c1 = c2

(***************************************************************************)
(* No step takes back an accepted, redeemed or funded drop, reopens a      *)
(* finalized session or accepts anything in one.                           *)
(***************************************************************************)
OnlyForward ==
    [][/\ record.funded <= record'.funded
       /\ record.cumulative <= record'.cumulative
       /\ record.redeemed <= record'.redeemed
       /\ record.finalized => /\ record'.finalized
                              /\ record'.cumulative = record.cumulative
      ]_vars

(***************************************************************************)
(* All of this implements the metered channel a seller is promised: the    *)
(* durable high-water mark is what the payer authorised, the ledger's      *)
(* balance what was collected.                                             *)
(***************************************************************************)
Metered == INSTANCE MeteredChannel WITH
               CollectsOnline <- HasSettler,
               authorised     <- record.cumulative,
               sold           <- charged,
               collected      <- IF Exists(record) THEN ledger.balance ELSE 0,
               closed         <- record.finalized

ImplementsMetered == Metered!MSpec

(***************************************************************************)
(* Once a worker runs, accepted value is eventually booked as redeemed,    *)
(* unless the payer's channel ran down first.                              *)
(***************************************************************************)
Outstanding == record.redeemed < record.cumulative

EventuallyRedeemed == Outstanding ~> (~Outstanding \/ ledger.status = "gone")
=============================================================================
