-------------------------- MODULE ChargeSettlement --------------------------
(***************************************************************************)
(* A facilitator settling charges: deliveries of credentials for one       *)
(* challenge, handled concurrently by any number of replicas               *)
(* (xrpl_service.py charge), the replay marker they share in Redis         *)
(* (replay_store.py) and the ledger the payments go to.                    *)
(*                                                                         *)
(* In pull mode the credential carries a signed Payment for the            *)
(* facilitator to submit, in push mode the hash of one the payer submits.  *)
(* A Payment must carry the challenge's InvoiceID.  The store keeps a key  *)
(* for the invoice and one for the blob or hash, always written together   *)
(* with one lifetime; the blob determines the invoice, so one marker       *)
(* stands for both.  Checks that depend on the credential alone and leave  *)
(* no trace (binding, decoding, policy) are passed; the comparison with    *)
(* the challenge, which follows the reservation, may fail.                 *)
(*                                                                         *)
(* Time is counted in ledger intervals since the challenge was issued, one *)
(* validated ledger in each.                                               *)
(***************************************************************************)
EXTENDS Integers, FiniteSets

CONSTANTS
    Deliveries,        \* deliveries of credentials; a retry is another one
    Payments,          \* signed Payment transactions carrying the InvoiceID
    LastLedger,        \* LastLedger[t]: LastLedgerSequence of payment t
    Lifetime,          \* the challenge expires this long after it was issued
    LedgerWindow,      \* MAX_PAYMENT_LEDGER_WINDOW
    LedgerSlack,       \* ledgers a payment may outlive its challenge by
    ValidationTimeout, \* VALIDATION_TIMEOUT
    ClockSkew,         \* REPLAY_RETENTION_CLOCK_SKEW_SECONDS
    PendingTTL,        \* the configured floors of the marker's lifetime
    ProcessedTTL,
    RejectionIsFinal,  \* a refused submission never reaches a ledger
    MaxFaults,         \* bound on crashes and failing Redis writes
    MaxTime,           \* bound on the clock
    None               \* nobody's marker

ASSUME DeliveriesAssumption ==
    /\ None \notin Deliveries
    /\ LastLedger \in [Payments -> Nat]
    /\ RejectionIsFinal \in BOOLEAN

ASSUME TimesAssumption ==
    /\ Lifetime \in Nat
    /\ LedgerWindow \in Nat
    /\ LedgerSlack \in Nat
    /\ ValidationTimeout \in Nat \ {0}
    /\ ClockSkew \in Nat
    /\ PendingTTL \in Nat
    /\ ProcessedTTL \in Nat
    /\ MaxFaults \in Nat
    /\ MaxTime \in Nat

VARIABLES
    now,        \* the clock, and the index of the last validated ledger
    marker,     \* the replay marker
    payment,    \* payment[t]: what has become of transaction t
    pc,         \* where each delivery's handler is
    local,      \* its local variables
    submitted,  \* history: payments the facilitator put before the ledger
    faults      \* number of faults so far

vars == <<now, marker, payment, pc, local, submitted, faults>>

-----------------------------------------------------------------------------
NoMarker == [state |-> "free", owner |-> None, until |-> 0]

Marker == [state : {"free", "pending", "processed"},
           owner : Deliveries \cup {None},
           until : Nat]

PaymentStates == {"unsent", "live", "success", "short", "failure", "dead"}

Final(t) == payment[t] \in {"success", "short", "failure"}

Fresh == [mode      |-> "none",  \* how the credential pays
          tx        |-> None,    \* the payment it names
          matches   |-> FALSE,   \* the payment is what the challenge asks for
          retention |-> 0]       \* computed when the marker was reserved

Local == [mode      : {"none", "pull", "push"},
          tx        : Payments \cup {None},
          matches   : BOOLEAN,
          retention : Nat]

Steps == {"freshness", "resolve", "reserve", "compare", "submit", "poll",
          "mark", "markShort", "release"}

Answers == {"granted", "refused", "replayed", "pending", "failed", "crashed"}

Goto(r, step) == pc' = [pc EXCEPT ![r] = step]

\* The handler returns or raises.  What it was asked is remembered only for
\* answers the properties speak of.
Answer(r, answer) ==
    /\ Goto(r, answer)
    /\ local' = [local EXCEPT ![r] = IF answer \in {"granted", "pending"}
                                     THEN [@ EXCEPT !.retention = 0] ELSE Fresh]

Continue(r, step) == Goto(r, step) /\ UNCHANGED local

Tx(r) == local[r].tx

Maximum(a, b) == IF a > b THEN a ELSE b

Init ==
    /\ now = 0
    /\ marker = NoMarker
    /\ payment = [t \in Payments |-> "unsent"]
    /\ pc = [r \in Deliveries |-> "idle"]
    /\ local = [r \in Deliveries |-> Fresh]
    /\ submitted = {}
    /\ faults = 0

-----------------------------------------------------------------------------
(***************************************************************************)
(* The world outside: the clock, the payer's own submissions, the ledger.  *)
(***************************************************************************)
Tick ==
    /\ now < MaxTime
    /\ now' = now + 1
    /\ marker' = IF marker.state # "free" /\ marker.until <= now'
                 THEN NoMarker ELSE marker
    /\ payment' = [t \in Payments |-> IF ~Final(t) /\ LastLedger[t] < now'
                                      THEN "dead" ELSE payment[t]]
    /\ UNCHANGED <<pc, local, submitted, faults>>

PayerSubmits(t) ==
    /\ payment[t] = "unsent"
    /\ payment' = [payment EXCEPT ![t] = "live"]
    /\ UNCHANGED <<now, marker, pc, local, submitted, faults>>

\* "short": validated with tesSUCCESS, but the delivered amount is missing or
\* another than the payment's.
ValidatePayment(t) ==
    /\ payment[t] = "live"
    /\ \E result \in {"success", "short", "failure"} :
          payment' = [payment EXCEPT ![t] = result]
    /\ UNCHANGED <<now, marker, pc, local, submitted, faults>>

-----------------------------------------------------------------------------
(***************************************************************************)
(* The replay marker.                                                      *)
(***************************************************************************)
\* Lifetime of a marker: the rest of the challenge's life, an attempt in
\* flight, and the clock skew between hosts.
Retention == (Lifetime - now) + ValidationTimeout + ClockSkew

\* Mutants: the configured lifetimes are caps, not floors.
PendingMarkerCapped(r, retention) ==
    [state |-> "pending", owner |-> r, until |-> now + PendingTTL]

ProcessedMarkerCapped(retention) ==
    [state |-> "processed", owner |-> None, until |-> now + ProcessedTTL]

PendingMarker(r, retention) ==
    [state |-> "pending", owner |-> r, until |-> now + Maximum(retention, PendingTTL)]

\* mark_processed does not look at what it overwrites.
ProcessedMarker(retention) ==
    [state |-> "processed", owner |-> None, until |-> now + Maximum(retention, ProcessedTTL)]

\* Mutants: release deletes whatever is there; release leaves a marker behind.
ReleasedMarkerAny(r) == NoMarker

ReleasedMarkerHalf(r) == [marker EXCEPT !.owner = None]

\* release_pending deletes the reservation of r and nothing else.
ReleasedMarker(r) == IF marker.owner = r THEN NoMarker ELSE marker

-----------------------------------------------------------------------------
(***************************************************************************)
(* charge.                                                                 *)
(***************************************************************************)
Arrive(r) ==
    /\ pc[r] = "idle"
    /\ now < Lifetime
    /\ \E mode \in {"pull", "push"}, t \in Payments, matches \in BOOLEAN :
        /\ local' = [local EXCEPT ![r] = [Fresh EXCEPT !.mode    = mode,
                                                       !.tx      = t,
                                                       !.matches = matches]]
        /\ Goto(r, IF mode = "pull" THEN "freshness" ELSE "resolve")
    /\ UNCHANGED <<now, marker, payment, submitted, faults>>

\* The last ledger a payment presented now may name.
LedgerCap == now + (Lifetime - now) + LedgerSlack

CheckFreshness(r) ==
    /\ pc[r] = "freshness"
    /\ IF /\ now < LastLedger[Tx(r)]
          /\ LastLedger[Tx(r)] <= now + LedgerWindow
          /\ Lifetime - now > 1
          /\ LastLedger[Tx(r)] <= LedgerCap
       THEN Continue(r, "reserve") ELSE Answer(r, "refused")
    /\ UNCHANGED <<now, marker, payment, submitted, faults>>

\* Push: poll for the validated payment.  Nothing is reserved yet.
Resolve(r) ==
    /\ pc[r] = "resolve"
    /\ \/ /\ Final(Tx(r))
          /\ IF /\ payment[Tx(r)] # "failure"
                /\ now < Lifetime
                /\ LastLedger[Tx(r)] <= LedgerCap
             THEN Continue(r, "reserve") ELSE Answer(r, "refused")
       \/ Answer(r, "pending")
    /\ UNCHANGED <<now, marker, payment, submitted, faults>>

Reserve(r) ==
    /\ pc[r] = "reserve"
    /\ IF now < Lifetime /\ marker.state = "free"
       THEN /\ marker' = PendingMarker(r, Retention)
            /\ local' = [local EXCEPT ![r].retention = Retention]
            /\ Goto(r, "compare")
       ELSE /\ Answer(r, IF now < Lifetime THEN "replayed" ELSE "refused")
            /\ UNCHANGED marker
    /\ UNCHANGED <<now, payment, submitted, faults>>

\* The payment against the challenge: parties, amount, tags, memos, source;
\* in push mode also the delivered amount.
Compare(r) ==
    /\ pc[r] = "compare"
    /\ Continue(r, IF local[r].mode = "pull"
                   THEN IF local[r].matches THEN "submit" ELSE "release"
                   ELSE IF local[r].matches /\ payment[Tx(r)] = "success"
                        THEN "mark" ELSE "release")
    /\ UNCHANGED <<now, marker, payment, submitted, faults>>

\* Mutant: a submission of unknown fate is taken for a refused one.
AmbiguousReleases(r) == Continue(r, "release")

\* SettlementPending: the reservation stays.
Ambiguous(r) == Answer(r, "pending")

(***************************************************************************)
(* Pull: submit, then poll.  A submission of a payment already queued or   *)
(* validated is accepted, and one whose sequence number is used up.  A     *)
(* refusal releases the reservation; refused provisionally (a ter or tec   *)
(* code), the payment may still go on to be validated.  An exception       *)
(* leaves the submission's fate unknown.                                   *)
(***************************************************************************)
Submitted(t) ==
    /\ payment' = [payment EXCEPT ![t] = IF @ = "unsent" THEN "live" ELSE @]
    /\ submitted' = submitted \cup {t}

Submit(r) ==
    /\ pc[r] = "submit"
    /\ \/ /\ payment[Tx(r)] # "dead"
          /\ Submitted(Tx(r))
          /\ Continue(r, "poll") \/ Ambiguous(r)
       \/ /\ UNCHANGED <<payment, submitted>>
          /\ Continue(r, "poll") \/ Continue(r, "release") \/ Ambiguous(r)
       \/ /\ ~RejectionIsFinal
          /\ payment[Tx(r)] = "unsent"
          /\ Submitted(Tx(r))
          /\ Continue(r, "release")
    /\ UNCHANGED <<now, marker, faults>>

\* The last disjunct: nothing validated in time, or malformed metadata.
Poll(r) ==
    /\ pc[r] = "poll"
    /\ \/ payment[Tx(r)] = "success" /\ Continue(r, "mark")
       \/ payment[Tx(r)] = "short" /\ Continue(r, "markShort")
       \/ payment[Tx(r)] = "failure" /\ Continue(r, "release")
       \/ Ambiguous(r)
    /\ UNCHANGED <<now, marker, payment, submitted, faults>>

MarkProcessed(r) ==
    /\ pc[r] \in {"mark", "markShort"}
    /\ marker' = ProcessedMarker(local[r].retention)
    /\ Answer(r, IF pc[r] = "mark" THEN "granted" ELSE "refused")
    /\ UNCHANGED <<now, payment, submitted, faults>>

ReleasePending(r) ==
    /\ pc[r] = "release"
    /\ marker' = ReleasedMarker(r)
    /\ Answer(r, "refused")
    /\ UNCHANGED <<now, payment, submitted, faults>>

(***************************************************************************)
(* Failures.  A Redis write may be applied although it raises.             *)
(***************************************************************************)
MarkFails(r) ==
    /\ pc[r] \in {"mark", "markShort"}
    /\ faults < MaxFaults
    /\ faults' = faults + 1
    /\ marker' \in {marker, ProcessedMarker(local[r].retention)}
    /\ IF local[r].mode = "push" THEN Continue(r, "release") ELSE Answer(r, "failed")
    /\ UNCHANGED <<now, payment, submitted>>

Crash(r) ==
    /\ pc[r] \in Steps
    /\ faults < MaxFaults
    /\ faults' = faults + 1
    /\ Answer(r, "crashed")
    /\ UNCHANGED <<now, marker, payment, submitted>>

-----------------------------------------------------------------------------
Handle(r) ==
    \/ CheckFreshness(r) \/ Resolve(r) \/ Reserve(r) \/ Compare(r)
    \/ Submit(r) \/ Poll(r) \/ MarkProcessed(r) \/ ReleasePending(r)

Next ==
    \/ Tick
    \/ \E t \in Payments : PayerSubmits(t) \/ ValidatePayment(t)
    \/ \E r \in Deliveries : Arrive(r) \/ Handle(r) \/ MarkFails(r) \/ Crash(r)

Spec == Init /\ [][Next]_vars

-----------------------------------------------------------------------------
TypeOK ==
    /\ now \in 0 .. MaxTime
    /\ marker \in Marker
    /\ (marker.state = "pending") <=> (marker.owner # None)
    /\ payment \in [Payments -> PaymentStates]
    /\ pc \in [Deliveries -> {"idle"} \cup Steps \cup Answers]
    /\ local \in [Deliveries -> Local]
    /\ submitted \subseteq Payments
    /\ faults \in 0 .. MaxFaults

(***************************************************************************)
(* "Payment proof is useful only when it is [...] accepted once": whatever *)
(* deliveries race, one challenge is granted once at most, on a payment    *)
(* that was validated in full.                                             *)
(***************************************************************************)
SoldOnce ==
    \A r \in Deliveries :
        pc[r] = "granted" =>
            /\ payment[Tx(r)] = "success"
            /\ \A q \in Deliveries : pc[q] = "granted" => q = r

(***************************************************************************)
(* "An ambiguous response can never turn into an automatic double          *)
(* payment": of all the payments for a challenge that deliveries hand it,  *)
(* the facilitator never has two validated, if the ledger's refusals are   *)
(* final.                                                                  *)
(***************************************************************************)
PaidOnce ==
    RejectionIsFinal =>
        \A t, u \in submitted :
            payment[t] = "success" /\ payment[u] = "success" => t = u

(***************************************************************************)
(* mark_processed overwrites without looking and release deletes by owner: *)
(* still no handler takes away another's live reservation, and no          *)
(* processed marker is lost before the challenge expires.                  *)
(***************************************************************************)
MarkerKept ==
    [][/\ marker.state = "pending" /\ marker' # marker =>
              \/ pc[marker.owner] \in {"mark", "markShort", "release"}
              \/ now' >= Lifetime
       /\ marker.state = "processed" /\ marker' # marker =>
              now' >= Lifetime
      ]_vars

(***************************************************************************)
(* "A rippled submission response that definitively did not accept the     *)
(* tx": when a payment the facilitator submitted is refused and its        *)
(* reservation released, no ledger can take the payment any more.          *)
(***************************************************************************)
RefusalIsDefinitive ==
    [][\A r \in Deliveries :
          /\ pc[r] = "release" /\ pc'[r] = "refused"
          /\ Tx(r) \in submitted
          => payment[Tx(r)] # "live"
      ]_vars

(***************************************************************************)
(* "Buyers must reconcile that reference and retry the same credential":   *)
(* the retry of a credential answered settlement-pending is not turned     *)
(* away as a replay when its payment was validated and nothing was sold.   *)
(***************************************************************************)
SameCredential(r, q) ==
    Tx(r) = Tx(q) /\ local[r].mode = local[q].mode /\ local[r].matches = local[q].matches

PendingIsRetryable ==
    [][\A r, q \in Deliveries :
          /\ pc[r] = "pending" /\ SameCredential(r, q)
          /\ pc[q] = "reserve" /\ pc'[q] = "replayed"
          /\ payment[Tx(q)] = "success"
          => \E p \in Deliveries : pc[p] = "granted"
      ]_vars
=============================================================================
