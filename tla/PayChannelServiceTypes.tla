----------------------- MODULE PayChannelServiceTypes -----------------------
(***************************************************************************)
(* The steps of PayChannelService keep the types of its variables, for any *)
(* number of deliveries, workers, challenges, amounts and faults.          *)
(***************************************************************************)
EXTENDS PayChannelService, PayChannelRecordProofs

-----------------------------------------------------------------------------
\* The shared state has its types.
SharedTyped ==
    /\ record \in Record
    /\ lease \in Procs \cup {None}
    /\ claimed \in [Challenges -> Requests \cup {None}]
    /\ ledger \in [status  : {"absent", "open", "closing", "gone"},
                   amount  : Nat,
                   balance : Nat]
    /\ openTx \in {"none", "pending", "validated", "failed"}
    /\ mempool \subseteq Claim
    /\ base \in Nat
    /\ charged \in Nat
    /\ grants \subseteq [request : Requests, challenge : Challenges]
    /\ faults \in 0 .. MaxFaults

\* Every process is somewhere, and a handler under way has its credential.
ProcsTyped ==
    /\ pc \in [Procs -> {"idle"} \cup Steps \cup Terminal]
    /\ local \in [Procs -> Local]
    /\ \A r \in Requests : pc[r] \in Steps => Cred(r) \in Credential

Typed == SharedTyped /\ ProcsTyped

-----------------------------------------------------------------------------
(***************************************************************************)
(* Types.                                                                  *)
(***************************************************************************)
\* The variables a coroutine starts with are of the right types.
LEMMA FreshType == Fresh \in Local
BY NewRecords DEF Fresh, Local, NoFunding

\* What a decoded credential is made of (_verify_envelope).
LEMMA CredentialType ==
    ASSUME NEW c \in Credential
    PROVE  /\ c.action \in {"open", "voucher", "close"}
           /\ c.challenge \in Challenges
           /\ c.amount \in Nat
           /\ c.signature \in Int
           /\ Price[c.challenge] \in Nat
<1>1. c.challenge \in Challenges /\ c.amount \in Amounts /\ c.signature \in Amounts \cup {BadSignature}
  BY DEF Credential
<1>2. c.amount \in Nat
  BY <1>1, AmountsAssumption
<1>3. c.signature \in Int
  <2>1. BadSignature \in Int
    BY DEF BadSignature
  <2>2. \A n \in Amounts : n \in Int
    BY AmountsAssumption
  <2> QED
    BY <1>1, <2>1, <2>2
<1>4. Price[c.challenge] \in Nat
  BY <1>1, AmountsAssumption
<1>5. c.action \in {"open", "voucher", "close"}
  BY DEF Credential
<1> QED
  BY <1>1, <1>2, <1>3, <1>4, <1>5

\* A handler that returns or raises leaves the types of the local state alone.
LEMMA LeaveType ==
    ASSUME ProcsTyped, NEW p \in Procs, NEW result,
           p \in Workers \/ result \in Terminal, Leave(p, result)
    PROVE  ProcsTyped'
<1>1. pc' = [pc EXCEPT ![p] = IF p \in Workers THEN "idle" ELSE result]
  BY DEF Leave, Goto
<1>2. local' = [local EXCEPT ![p] = Fresh]
  BY DEF Leave
<1>3. pc' \in [Procs -> {"idle"} \cup Steps \cup Terminal]
  BY <1>1 DEF ProcsTyped
<1>4. local' \in [Procs -> Local]
  BY <1>2, FreshType DEF ProcsTyped
<1>5. pc'[p] \notin Steps
  BY <1>1 DEF ProcsTyped, Steps, Terminal
<1>6. \A q \in Procs \ {p} : pc'[q] = pc[q] /\ local'[q] = local[q]
  BY <1>1, <1>2 DEF ProcsTyped
<1> QED
  BY <1>3, <1>4, <1>5, <1>6 DEF ProcsTyped, Cred, Procs

\* A handler's step from one await to the next leaves its credential alone.
LEMMA StepType ==
    ASSUME ProcsTyped, NEW p \in Procs, NEW step \in Steps,
           pc[p] \in Steps \/ p \in Workers,
           Goto(p, step),
           local' \in [Procs -> Local],
           \A q \in Procs : local'[q].cred = local[q].cred
    PROVE  ProcsTyped'
<1>1. pc' \in [Procs -> {"idle"} \cup Steps \cup Terminal]
  BY DEF ProcsTyped, Goto
<1>2. \A q \in Procs \ {p} : pc'[q] = pc[q]
  BY DEF ProcsTyped, Goto
<1> QED
  BY <1>1, <1>2, ProcsAssumption DEF ProcsTyped, Cred, Procs

\* Assignments of a coroutine to its variables, the credential excepted.
LEMMA LocalType ==
    ASSUME local \in [Procs -> Local], NEW p \in Procs
    PROVE  /\ \A rec \in Record : local' = [local EXCEPT ![p].snap = rec] =>
                local' \in [Procs -> Local] /\ \A q \in Procs : local'[q].cred = local[q].cred
           /\ \A n \in Nat : local' = [local EXCEPT ![p].funding = n] =>
                local' \in [Procs -> Local] /\ \A q \in Procs : local'[q].cred = local[q].cred
           /\ local' = [local EXCEPT ![p].holds = TRUE] =>
                local' \in [Procs -> Local] /\ \A q \in Procs : local'[q].cred = local[q].cred
<1>1. ASSUME NEW rec \in Record, local' = [local EXCEPT ![p].snap = rec]
      PROVE  local' \in [Procs -> Local] /\ \A q \in Procs : local'[q].cred = local[q].cred
  BY <1>1 DEF Local
<1>2. ASSUME NEW n \in Nat, local' = [local EXCEPT ![p].funding = n]
      PROVE  local' \in [Procs -> Local] /\ \A q \in Procs : local'[q].cred = local[q].cred
  BY <1>2 DEF Local
<1>3. ASSUME local' = [local EXCEPT ![p].holds = TRUE]
      PROVE  local' \in [Procs -> Local] /\ \A q \in Procs : local'[q].cred = local[q].cred
  BY <1>3 DEF Local
<1> QED
  BY <1>1, <1>2, <1>3

\* Every step of a session handler (_verify_open, _verify_claim_action) is typed.
LEMMA TypedHandle ==
    ASSUME Typed, NEW r \in Requests, Handle(r)
    PROVE  Typed'
<1> USE ProcsAssumption, AmountsAssumption DEF Typed
<1>0. r \in Procs /\ r \notin Workers
  BY DEF Procs
<1>1. CASE SubmitOpen(r)
  <2>1. ProcsTyped'
    BY <1>0, <1>1, LeaveType, StepType DEF SubmitOpen, ProcsTyped, Steps, Terminal
  <2> QED
    BY <1>1, <2>1 DEF SubmitOpen, SharedTyped
<1>2. CASE PollOpen(r)
  <2>1. ProcsTyped'
    BY <1>0, <1>2, LeaveType, StepType DEF PollOpen, ProcsTyped, Steps, Terminal
  <2> QED
    BY <1>2, <2>1 DEF PollOpen, SharedTyped
<1>3. CASE OpenRecord(r)
  <2>1. ProcsTyped'
    BY <1>0, <1>3, LeaveType, StepType DEF OpenRecord, Answer, ProcsTyped, Steps, Terminal
  <2>2. record' \in Record
    BY <1>3, NewRecords DEF OpenRecord, SharedTyped
  <2>3. grants' \subseteq [request : Requests, challenge : Challenges]
    BY <1>0, <1>3 DEF OpenRecord, Answer, SharedTyped, ProcsTyped, Cred, Credential, Steps
  <2> QED
    BY <1>3, <2>1, <2>2, <2>3 DEF OpenRecord, SharedTyped
<1>4. CASE Lookup(r)
  <2>1. ProcsTyped'
    BY <1>0, <1>4, LeaveType, LocalType, StepType
    DEF Lookup, Examine, ProcsTyped, SharedTyped, Steps, Terminal
  <2> QED
    BY <1>4, <2>1 DEF Lookup, SharedTyped
<1>5. CASE Import(r)
  <2>1. ImportedRecord(ledger.amount, ledger.balance) \in Record
    BY NewRecords DEF SharedTyped
  <2>2. ProcsTyped'
    BY <1>0, <1>5, <2>1, LeaveType, LocalType, StepType DEF Import, ProcsTyped, Steps, Terminal
  <2> QED
    BY <1>5, <2>2 DEF Import, SharedTyped
<1>6. CASE Create(r)
  <2>1. local[r].snap \in Record /\ local[r].snap.cumulative \in Nat
    BY <1>0 DEF ProcsTyped, Local, Record
  <2>2. record' \in Record /\ base' \in Nat
    BY <1>6, <2>1 DEF Create, SharedTyped
  <2>3. ProcsTyped'
    BY <1>0, <1>6, <2>2, LeaveType, LocalType, StepType DEF Create, Examine, ProcsTyped, Steps, Terminal
  <2> QED
    BY <1>6, <2>2, <2>3 DEF Create, SharedTyped
<1>7. CASE Verify(r)
  <2>1. ledger.amount \in Nat
    BY DEF SharedTyped
  <2>2. ProcsTyped'
    BY <1>0, <1>7, <2>1, LeaveType, LocalType, StepType DEF Verify, ProcsTyped, Steps, Terminal
  <2> QED
    BY <1>7, <2>2 DEF Verify, SharedTyped
<1>8. CASE ClaimChallenge(r)
  <2>1. ProcsTyped'
    BY <1>0, <1>8, LeaveType, StepType DEF ClaimChallenge, ProcsTyped, Steps, Terminal
  <2>2. claimed' \in [Challenges -> Requests \cup {None}]
    BY <1>8 DEF ClaimChallenge, SharedTyped
  <2> QED
    BY <1>8, <2>1, <2>2 DEF ClaimChallenge, SharedTyped
<1>9. CASE AdvanceRecord(r)
  <2>1. Cred(r) \in Credential
    BY <1>9 DEF AdvanceRecord, ProcsTyped, Steps
  <2>2. /\ Cred(r).challenge \in Challenges
        /\ Cred(r).amount \in Nat
        /\ Cred(r).signature \in Int
        /\ Price[Cred(r).challenge] \in Nat
    BY <2>1, CredentialType
  <2>7. local[r].funding \in Nat
    BY <1>0 DEF ProcsTyped, Local
  <2>3. record' \in Record
    BY <1>9, <2>2, <2>7, AdvancedFacts DEF AdvanceRecord, SharedTyped
  <2>4. charged' \in Nat
    BY <1>9, <2>2 DEF AdvanceRecord, SharedTyped
  <2>5. ProcsTyped'
    BY <1>0, <1>9, <2>3, LeaveType, LocalType, StepType
    DEF AdvanceRecord, Answer, ProcsTyped, Steps, Terminal
  <2>6. grants' \subseteq [request : Requests, challenge : Challenges]
    BY <1>9, <2>2 DEF AdvanceRecord, Answer, SharedTyped
  <2> QED
    BY <1>9, <2>3, <2>4, <2>5, <2>6 DEF AdvanceRecord, SharedTyped
<1>10. CASE Reload(r)
  <2>1. record \in Record
    BY DEF SharedTyped
  <2>2. ProcsTyped'
    BY <1>0, <1>10, <2>1, LeaveType, LocalType, StepType DEF Reload, ProcsTyped, Steps, Terminal
  <2> QED
    BY <1>10, <2>2 DEF Reload, SharedTyped
<1>11. CASE Abandon(r)
  <2>1. ProcsTyped'
    BY <1>0, <1>11, LeaveType DEF Abandon, Terminal
  <2> QED
    BY <1>11, <2>1 DEF Abandon, SharedTyped
<1> QED
  BY <1>1, <1>2, <1>3, <1>4, <1>5, <1>6, <1>7, <1>8, <1>9, <1>10, <1>11 DEF Handle

\* Every settlement step, of a close or of the worker (run_once), is typed.
LEMMA TypedSettle ==
    ASSUME Typed, NEW p \in Procs, Settle(p)
    PROVE  Typed'
<1> USE ProcsAssumption, AmountsAssumption DEF Typed
<1>1. CASE ClaimLease(p)
  <2>1. ProcsTyped'
    BY <1>1, LeaveType, LocalType, StepType DEF ClaimLease, ProcsTyped, Steps, Terminal
  <2> QED
    BY <1>1, <2>1 DEF ClaimLease, SharedTyped
<1>2. CASE SubmitClaim(p)
  <2>1. ProcsTyped'
    BY <1>2, StepType DEF SubmitClaim, ProcsTyped, Steps
  <2>2. mempool' \subseteq Claim
    BY <1>2 DEF SubmitClaim, SharedTyped, ProcsTyped, Claim, Local, Record
  <2> QED
    BY <1>2, <2>1, <2>2 DEF SubmitClaim, SharedTyped
<1>3. CASE AwaitClaim(p)
  <2>1. ProcsTyped'
    BY <1>3, LeaveType, StepType DEF AwaitClaim, ProcsTyped, Steps, Terminal
  <2> QED
    BY <1>3, <2>1 DEF AwaitClaim, SharedTyped
<1>4. CASE MarkRedeemed(p)
  <2>1. ProcsTyped'
    BY <1>4, LeaveType, StepType DEF MarkRedeemed, ProcsTyped, Steps, Terminal
  <2>2. record' \in Record
    BY <1>4 DEF MarkRedeemed, Redeemed, SharedTyped, ProcsTyped, Local, Record
  <2> QED
    BY <1>4, <2>1, <2>2 DEF MarkRedeemed, SharedTyped
<1>5. CASE ReleaseLease(p)
  <2>1. ProcsTyped'
    BY <1>5, LeaveType, StepType DEF ReleaseLease, ProcsTyped, Steps, Terminal
  <2> QED
    BY <1>5, <2>1 DEF ReleaseLease, SharedTyped
<1>6. CASE Finalize(p)
  <2>1. ProcsTyped'
    BY <1>6, LeaveType, StepType DEF Finalize, Answer, ProcsTyped, Steps, Terminal
  <2>2. record' \in Record
    BY <1>6 DEF Finalize, Finalized, SharedTyped, Record
  <2>3. grants' \subseteq [request : Requests, challenge : Challenges]
    BY <1>6 DEF Finalize, Answer, SharedTyped, ProcsTyped, Cred, Credential, Steps
  <2> QED
    BY <1>6, <2>1, <2>2, <2>3 DEF Finalize, SharedTyped
<1> QED
  BY <1>1, <1>2, <1>3, <1>4, <1>5, <1>6 DEF Settle

\* Every step of the external ledger is typed.
LEMMA TypedLedger ==
    ASSUME Typed, Ledger
    PROVE  Typed'
<1> USE AmountsAssumption DEF Typed
<1>1. ASSUME NEW claim \in mempool, NEW result \in {"success", "failure"}, Report(claim, result)
      PROVE  /\ local' \in [Procs -> Local]
             /\ \A q \in Procs : local'[q].cred = local[q].cred
  BY <1>1 DEF Report, SharedTyped, ProcsTyped, Claim, Local
<1>2. ASSUME NEW claim \in mempool, ValidateClaim(claim)
      PROVE  Typed'
  <2>1. ProcsTyped'
    BY <1>1, <1>2 DEF ValidateClaim, ProcsTyped, Cred, Procs
  <2> QED
    BY <1>2, <2>1 DEF ValidateClaim, SharedTyped, Claim
<1>3. ASSUME NEW claim \in mempool, RefuseClaim(claim)
      PROVE  Typed'
  <2>1. ProcsTyped'
    BY <1>1, <1>3 DEF RefuseClaim, ProcsTyped, Cred, Procs
  <2> QED
    BY <1>3, <2>1 DEF RefuseClaim, SharedTyped
<1>4. ASSUME NEW claim \in mempool, DropClaim(claim)
      PROVE  Typed'
  <2>1. ProcsTyped'
    BY <1>1, <1>4 DEF DropClaim, ProcsTyped, Cred, Procs
  <2> QED
    BY <1>4, <2>1 DEF DropClaim, SharedTyped
<1>5. CASE ValidateOpen \/ FailOpen \/ Fund \/ RunDown
  <2>1. ProcsTyped'
    BY <1>5 DEF ValidateOpen, FailOpen, Fund, RunDown, ProcsTyped, Cred
  <2>2. SharedTyped'
    BY <1>5 DEF ValidateOpen, FailOpen, Fund, RunDown, SharedTyped
  <2> QED
    BY <2>1, <2>2
<1> QED
  BY <1>2, <1>3, <1>4, <1>5 DEF Ledger

\* Every step of the service is typed.
LEMMA TypedStep ==
    ASSUME Typed, [Next]_vars
    PROVE  Typed'
<1> USE ProcsAssumption, AmountsAssumption DEF Typed
<1>1. CASE UNCHANGED vars
  BY <1>1 DEF vars, Cred, SharedTyped, ProcsTyped
<1>2. CASE ExpireLease
  <2>1. ProcsTyped'
    BY <1>2 DEF ExpireLease, ProcsTyped, Cred
  <2> QED
    BY <1>2, <2>1 DEF ExpireLease, SharedTyped
<1>3. ASSUME NEW r \in Requests, Arrive(r)
      PROVE  Typed'
  <2>1. PICK c \in Credential :
            /\ local' = [local EXCEPT ![r].cred = c]
            /\ Goto(r, "lookup") \/ Goto(r, "submitOpen")
    BY <1>3 DEF Arrive
  <2>2. local' \in [Procs -> Local] /\ local'[r].cred \in Credential
    BY <2>1 DEF ProcsTyped, Local, Procs
  <2>3. pc' \in [Procs -> {"idle"} \cup Steps \cup Terminal]
    BY <2>1 DEF ProcsTyped, Goto, Steps
  <2>4. \A q \in Procs \ {r} : pc'[q] = pc[q] /\ local'[q] = local[q]
    BY <2>1 DEF ProcsTyped, Goto
  <2>5. ProcsTyped'
    BY <2>2, <2>3, <2>4 DEF ProcsTyped, Cred, Procs
  <2> QED
    BY <1>3, <2>5 DEF Arrive, SharedTyped
<1>4. ASSUME NEW w \in Workers, Scan(w)
      PROVE  Typed'
  <2>1. PICK idle \in BOOLEAN :
            local' = [local EXCEPT ![w].snap = record, ![w].idle = idle]
    BY <1>4 DEF Scan
  <2>2. local' \in [Procs -> Local] /\ \A q \in Procs : local'[q].cred = local[q].cred
    <3>1. w \in Procs /\ record \in Record
      BY <1>4 DEF Procs, SharedTyped
    <3>2. local' = [local EXCEPT ![w] = [[local[w] EXCEPT !.snap = record] EXCEPT !.idle = idle]]
      BY <2>1, <3>1 DEF ProcsTyped
    <3>3. [[local[w] EXCEPT !.snap = record] EXCEPT !.idle = idle] \in Local
      BY <3>1 DEF ProcsTyped, Local
    <3> QED
      BY <3>1, <3>2, <3>3 DEF ProcsTyped, Local
  <2>3. ProcsTyped'
    BY <1>4, <2>2, StepType DEF Scan, Procs, Steps
  <2> QED
    BY <1>4, <2>3 DEF Scan, SharedTyped
<1>5. ASSUME NEW p \in Procs, Fault(p)
      PROVE  Typed'
  <2>1. ProcsTyped'
    BY <1>5, LeaveType DEF Fault, SettleFails, LoseContact, Crash, Terminal
  <2>2. mempool' \subseteq Claim
    BY <1>5 DEF Fault, SettleFails, LoseContact, Crash, Orphan, Claim, SharedTyped
  <2> QED
    BY <1>5, <2>1, <2>2 DEF Fault, SettleFails, LoseContact, Crash, SharedTyped
<1> QED
  BY <1>1, <1>2, <1>3, <1>4, <1>5, TypedHandle, TypedSettle, TypedLedger DEF Next
=============================================================================
