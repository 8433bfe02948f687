---------------------- MODULE PayChannelServiceProofs ----------------------
(***************************************************************************)
(* The safety of one payment channel, proved for any number of deliveries, *)
(* workers, challenges, amounts and faults.                                *)
(***************************************************************************)
EXTENDS PayChannelServiceTypes

-----------------------------------------------------------------------------
(***************************************************************************)
(* The inductive invariant, in parts.                                      *)
(***************************************************************************)
\* What is stored is valid; nothing was sold before.
RecordOK ==
    IF Exists(record) THEN ValidAccounting(record)
    ELSE record = NoRecord /\ base = 0 /\ charged = 0

\* The channel holds what it may pay, and exists once it is on record.
LedgerOK ==
    /\ ledger.status = "absent" => ledger = Absent
    /\ ledger.status # "absent" => ledger.amount > 0
    /\ ledger.balance <= ledger.amount
    /\ openTx = "validated" => /\ OpenFunding <= ledger.amount
                               /\ Exists(record) \/ ledger.balance = 0
                               /\ ledger.status # "absent"
    /\ Exists(record) => ledger.status # "absent"

Books ==
    /\ RecordOK
    /\ LedgerOK
    /\ BooksMatchLedger
    /\ OutstandingIsSigned
    /\ ServedIsPaid

\* A claim before the ledger asks for no more than was accepted; whoever
\* waits for one waits for that one alone.
ClaimsOK ==
    /\ \A claim \in mempool :
        /\ Exists(record)
        /\ claim.amount <= record.cumulative
        /\ claim.owner # None =>
            /\ pc[claim.owner] = "await"
            /\ local[claim.owner].outcome = "none"
            /\ local[claim.owner].snap.cumulative = claim.amount
    /\ \A c1, c2 \in mempool : c1.owner = c2.owner /\ c1.owner # None => c1 = c2

Settlement == {"lease", "reload", "settle", "await", "mark", "release", "finalize"}

\* What the local variables of a process say about the shared state.
LocalOK(p) ==
    /\ local[p].funding <= ledger.amount
    /\ local[p].outcome # "none" => pc[p] \in {"await", "mark", "release", "finalize"}
    /\ local[p].outcome = "success" => local[p].snap.cumulative <= ledger.balance
    /\ pc[p] = "mark" => local[p].outcome = "success"
    /\ pc[p] \in Settlement =>
        /\ Exists(record)
        /\ local[p].snap.cumulative <= record.cumulative
    /\ HasSettler /\ pc[p] \in {"release", "finalize"} =>
        local[p].snap.cumulative <= record.redeemed
    /\ pc[p] = "create" =>
        /\ ValidAccounting(local[p].snap)
        /\ local[p].snap.redeemed = local[p].snap.cumulative
        /\ local[p].snap.funded <= ledger.amount
        /\ ~local[p].snap.finalized
        /\ ledger.status # "absent"
        /\ Exists(record) \/ local[p].snap.cumulative = ledger.balance

\* What a handler has established about its credential.
CredOK(r) ==
    /\ pc[r] \in {"lookup", "import", "create", "verify"} => Cred(r).action # "open"
    /\ pc[r] \in {"verify", "claim", "record", "advance"} =>
        Cred(r).amount = 0 \/ Signed(Cred(r))
    /\ pc[r] = "claim" /\ Cred(r).action = "open" => openTx = "validated"
    /\ pc[r] = "record" => openTx = "validated"
    /\ pc[r] \in {"record", "advance", "abandon"} \cup Settlement =>
        claimed[Cred(r).challenge] = r
    /\ pc[r] \in Settlement => local[r].snap.cumulative = Cred(r).amount

GrantsOK == \A g \in grants : claimed[g.challenge] = g.request

Inv ==
    /\ Typed
    /\ Books
    /\ FinalizedIsRedeemed
    /\ ClaimsOK
    /\ \A p \in Procs : LocalOK(p)
    /\ \A r \in Requests : CredOK(r)
    /\ GrantsOK

-----------------------------------------------------------------------------
(***************************************************************************)
(* What no step takes back.                                                *)
(***************************************************************************)
Progress ==
    /\ record.funded <= record'.funded
    /\ record.cumulative <= record'.cumulative
    /\ record.redeemed <= record'.redeemed
    /\ record.finalized => record'.finalized /\ record'.cumulative = record.cumulative
    /\ ledger.balance <= ledger'.balance
    /\ ledger.amount <= ledger'.amount
    /\ ledger.status # "absent" => ledger'.status # "absent"
    /\ ~Exists(record) => ledger'.balance = ledger.balance
    /\ openTx = "validated" => openTx' = "validated"
    /\ \A c \in Challenges : claimed[c] # None => claimed'[c] = claimed[c]

\* A step that leaves the books alone.
Quiet == UNCHANGED <<record, ledger, base, charged>>

\* Process p goes to a step with new local variables; the others stay.
Moves(p, step, new) ==
    /\ pc'[p] = step
    /\ local'[p] = new
    /\ \A q \in Procs \ {p} : pc'[q] = pc[q] /\ local'[q] = local[q]

\* The forms of a step of one process.
LEMMA MoveForms ==
    ASSUME ProcsTyped, NEW p \in Procs
    PROVE  /\ \A result : Leave(p, result) =>
                \E step : /\ step = IF p \in Workers THEN "idle" ELSE result
                          /\ Moves(p, step, Fresh)
           /\ \A step : Goto(p, step) =>
                /\ local' = local => Moves(p, step, local[p])
                /\ \A rec : local' = [local EXCEPT ![p].snap = rec] =>
                        Moves(p, step, [local[p] EXCEPT !.snap = rec])
                /\ \A n : local' = [local EXCEPT ![p].funding = n] =>
                        Moves(p, step, [local[p] EXCEPT !.funding = n])
                /\ local' = [local EXCEPT ![p].holds = TRUE] =>
                        Moves(p, step, [local[p] EXCEPT !.holds = TRUE])
<1>1. ASSUME NEW result, Leave(p, result)
      PROVE  Moves(p, IF p \in Workers THEN "idle" ELSE result, Fresh)
  BY <1>1 DEF Leave, Goto, Moves, ProcsTyped
<1>2. ASSUME NEW step, Goto(p, step)
      PROVE  pc'[p] = step /\ \A q \in Procs \ {p} : pc'[q] = pc[q]
  BY <1>2 DEF Goto, ProcsTyped
<1>3. ASSUME NEW step, Goto(p, step), local' = local
      PROVE  Moves(p, step, local[p])
  BY <1>2, <1>3 DEF Moves
<1>4. ASSUME NEW step, Goto(p, step), NEW rec, local' = [local EXCEPT ![p].snap = rec]
      PROVE  Moves(p, step, [local[p] EXCEPT !.snap = rec])
  BY <1>2, <1>4 DEF Moves, ProcsTyped
<1>5. ASSUME NEW step, Goto(p, step), NEW n, local' = [local EXCEPT ![p].funding = n]
      PROVE  Moves(p, step, [local[p] EXCEPT !.funding = n])
  BY <1>2, <1>5 DEF Moves, ProcsTyped
<1>6. ASSUME NEW step, Goto(p, step), local' = [local EXCEPT ![p].holds = TRUE]
      PROVE  Moves(p, step, [local[p] EXCEPT !.holds = TRUE])
  BY <1>2, <1>6 DEF Moves, ProcsTyped
<1> QED
  BY <1>1, <1>3, <1>4, <1>5, <1>6

-----------------------------------------------------------------------------
(***************************************************************************)
(* Frames: what a step need not look at.                                   *)
(***************************************************************************)
\* A process that stays where it is keeps what it knows, whatever the others
\* do.
LEMMA StayOK ==
    ASSUME Inv, Typed', Progress, NEW q \in Procs,
           pc'[q] = pc[q], local'[q] = local[q]
    PROVE  LocalOK(q)' /\ (q \in Requests => CredOK(q)')
<1>1. LocalOK(q)
  BY DEF Inv
<1>2. /\ record \in Record /\ record' \in Record
      /\ ledger.amount \in Nat /\ ledger.balance \in Nat
      /\ ledger'.amount \in Nat /\ ledger'.balance \in Nat
      /\ local[q].snap \in Record /\ local[q].funding \in Nat
  BY DEF Inv, Typed, SharedTyped, ProcsTyped, Local
<1>3. LocalOK(q)'
  BY <1>1, <1>2 DEF LocalOK, Progress, Record, Exists, ValidAccounting
<1>4. ASSUME q \in Requests
      PROVE  CredOK(q)'
  <2>1. CredOK(q)
    BY <1>4 DEF Inv
  <2>2. pc[q] \in {"record", "advance", "abandon"} \cup Settlement =>
            Cred(q).challenge \in Challenges
    BY <1>4, CredentialType DEF Inv, Typed, ProcsTyped, Settlement, Steps
  <2>3. Cred(q)' = Cred(q)
    BY DEF Cred
  <2>4. q # None
    BY <1>4, ProcsAssumption DEF Procs
  <2>5. pc[q] \in {"record", "advance", "abandon"} \cup Settlement =>
            claimed'[Cred(q).challenge] = q
    BY <2>1, <2>2, <2>4 DEF CredOK, Progress
  <2> QED
    BY <2>1, <2>3, <2>5 DEF CredOK, Progress, Signed
<1> QED
  BY <1>3, <1>4

\* A process that leaves knows nothing.
LEMMA LeftOK ==
    ASSUME Typed', NEW q \in Procs, local'[q] = Fresh,
           pc'[q] \in {"idle"} \cup Terminal
    PROVE  LocalOK(q)' /\ CredOK(q)'
<1>1. local'[q].funding = 0 /\ local'[q].outcome = "none"
  BY DEF Fresh, NoFunding
<1>2. ledger'.amount \in Nat
  BY DEF Typed, SharedTyped
<1>3. pc'[q] \notin Steps
  BY DEF Steps, Terminal
<1>4. pc'[q] \notin Settlement \cup {"mark", "release", "finalize", "lookup", "import",
                                    "create", "verify", "claim", "record", "advance", "abandon"}
  BY <1>3 DEF Steps, Settlement
<1> QED
  BY <1>1, <1>2, <1>4 DEF LocalOK, CredOK

\* Hence one process has to be looked at.
LEMMA MoverOK ==
    ASSUME Inv, Typed', Progress, NEW p \in Procs, NEW step, NEW new, Moves(p, step, new),
           LocalOK(p)', p \in Requests => CredOK(p)'
    PROVE  (\A q \in Procs : LocalOK(q))' /\ (\A r \in Requests : CredOK(r))'
<1>1. \A q \in Procs \ {p} : LocalOK(q)' /\ (q \in Requests => CredOK(q)')
  BY StayOK DEF Moves
<1> QED
  BY <1>1 DEF Procs

\* The same for a handler that returns or raises.
LEMMA LeaverOK ==
    ASSUME Inv, Typed', Progress, NEW p \in Procs, NEW result, Leave(p, result),
           p \in Workers \/ result \in Terminal
    PROVE  (\A q \in Procs : LocalOK(q))' /\ (\A r \in Requests : CredOK(r))'
<1>1. PICK step : /\ step = IF p \in Workers THEN "idle" ELSE result
                  /\ Moves(p, step, Fresh)
  BY MoveForms DEF Inv, Typed
<1>2. LocalOK(p)' /\ CredOK(p)'
  BY <1>1, LeftOK DEF Moves
<1> QED
  BY <1>1, <1>2, MoverOK

\* The mempool is not touched and p does not wait for a claim in it.
LEMMA ClaimsStay ==
    ASSUME Inv, Typed', Progress, NEW p \in Procs, NEW step, NEW new, Moves(p, step, new),
           mempool' = mempool, pc[p] # "await" \/ local[p].outcome # "none"
    PROVE  ClaimsOK'
<1>1. \A claim \in mempool : claim.owner # p
  BY ProcsAssumption DEF Inv, ClaimsOK
<1>2. \A claim \in mempool : claim.amount \in Nat /\ claim.owner \in Procs \cup {None}
  BY DEF Inv, Typed, SharedTyped, Claim
<1>3. record \in Record /\ record' \in Record
  BY DEF Inv, Typed, SharedTyped
<1> QED
  BY <1>1, <1>2, <1>3 DEF Inv, ClaimsOK, Moves, Progress, Record, Exists

\* p walks away from the claims it waits for.
LEMMA ClaimsOrphan ==
    ASSUME Inv, Typed', Progress, NEW p \in Procs, NEW step, NEW new, Moves(p, step, new),
           Orphan(p)
    PROVE  ClaimsOK'
<1>1. \A claim \in mempool : claim.amount \in Nat /\ claim.owner \in Procs \cup {None}
  BY DEF Inv, Typed, SharedTyped, Claim
<1>2. record \in Record /\ record' \in Record
  BY DEF Inv, Typed, SharedTyped
<1>3. \A claim \in mempool' :
        \/ claim \in mempool /\ claim.owner # p
        \/ claim.owner = None /\ \E c \in mempool : claim.amount = c.amount
  BY ProcsAssumption DEF Orphan, Inv, Typed, SharedTyped, Claim
<1>4. ASSUME NEW claim \in mempool'
      PROVE  /\ Exists(record')
             /\ claim.amount <= record'.cumulative
             /\ claim.owner # None =>
                    /\ pc'[claim.owner] = "await"
                    /\ local'[claim.owner].outcome = "none"
                    /\ local'[claim.owner].snap.cumulative = claim.amount
  BY <1>1, <1>2, <1>3, <1>4 DEF Inv, ClaimsOK, Moves, Progress, Record, Exists
<1>5. ASSUME NEW c1 \in mempool', NEW c2 \in mempool', c1.owner = c2.owner, c1.owner # None
      PROVE  c1 = c2
  BY <1>3, <1>5 DEF Inv, ClaimsOK
<1> QED
  BY <1>4, <1>5 DEF ClaimsOK

\* A step that leaves the books, the claims on challenges and the grants alone.
LEMMA QuietProgress ==
    ASSUME Inv, Quiet, openTx = "validated" => openTx' = "validated",
           \A c \in Challenges : claimed[c] # None => claimed'[c] = claimed[c]
    PROVE  Progress
BY DEF Inv, Typed, SharedTyped, Quiet, Progress, Record

\* Nor does such a step disturb the books.
LEMMA QuietBooks ==
    ASSUME Inv, Quiet, openTx' = "validated" => openTx = "validated"
    PROVE  Books' /\ FinalizedIsRedeemed'
BY DEF Inv, Books, RecordOK, LedgerOK, BooksMatchLedger, OutstandingIsSigned, ServedIsPaid,
       FinalizedIsRedeemed, Quiet, ValidAccounting, Exists

\* Whoever was granted still holds the claim on its challenge.
LEMMA GrantsStay ==
    ASSUME Inv, Progress, grants' = grants
    PROVE  GrantsOK'
<1>1. \A g \in grants : g.challenge \in Challenges /\ g.request # None
  BY ProcsAssumption DEF Inv, Typed, SharedTyped, Procs
<1> QED
  BY <1>1 DEF Inv, GrantsOK, Progress

\* Granting a delivery that claimed its challenge.
LEMMA GrantsAdded ==
    ASSUME Inv, Progress, NEW r \in Procs, NEW granted \in BOOLEAN, Answer(r, granted),
           r \in Requests => /\ Cred(r).challenge \in Challenges
                             /\ claimed[Cred(r).challenge] = r
    PROVE  GrantsOK'
<1>1. \A g \in grants : claimed'[g.challenge] = g.request
  BY GrantsStay, ProcsAssumption DEF Inv, Typed, SharedTyped, Procs, GrantsOK, Progress
<1>2. r \in Requests => claimed'[Cred(r).challenge] = r
  BY ProcsAssumption DEF Progress, Procs
<1> QED
  BY <1>1, <1>2 DEF GrantsOK, Answer
-----------------------------------------------------------------------------
(***************************************************************************)
(* Steps that leave the books alone.                                       *)
(***************************************************************************)
QuietStep(p) ==
    /\ Quiet
    /\ openTx = "validated" <=> openTx' = "validated"
    /\ \A c \in Challenges : claimed[c] # None => claimed'[c] = claimed[c]
    /\ grants' = grants
    /\ mempool' = mempool
    /\ pc[p] # "await" \/ local[p].outcome # "none"

\* Such a step keeps the invariant if the process that moves knows what it says.
LEMMA QuietMove ==
    ASSUME Inv, Typed', NEW p \in Procs, QuietStep(p),
           NEW step, NEW new, Moves(p, step, new), LocalOK(p)', p \in Requests => CredOK(p)'
    PROVE  Inv'
<1>1. Progress
  BY QuietProgress DEF QuietStep, Inv, Typed, SharedTyped
<1>2. Books' /\ FinalizedIsRedeemed'
  BY QuietBooks DEF QuietStep
<1>3. (\A q \in Procs : LocalOK(q))' /\ (\A r \in Requests : CredOK(r))'
  BY <1>1, MoverOK
<1>4. ClaimsOK'
  BY <1>1, ClaimsStay DEF QuietStep
<1>5. GrantsOK'
  BY <1>1, GrantsStay DEF QuietStep
<1> QED
  BY <1>2, <1>3, <1>4, <1>5 DEF Inv

\* And if it leaves.
LEMMA QuietLeave ==
    ASSUME Inv, Typed', NEW p \in Procs, QuietStep(p), NEW result, Leave(p, result),
           p \in Workers \/ result \in Terminal
    PROVE  Inv'
<1>1. PICK step : /\ step = IF p \in Workers THEN "idle" ELSE result
                  /\ Moves(p, step, Fresh)
  BY MoveForms DEF Inv, Typed
<1>2. LocalOK(p)' /\ CredOK(p)'
  BY <1>1, LeftOK DEF Moves
<1> QED
  BY <1>1, <1>2, QuietMove

\* The handlers' steps up to the claim on the challenge, and the ones of a
\* close that only look at the record (_verify_open, _verify_claim_action).
LEMMA QuietHandle ==
    ASSUME Inv, Typed', NEW r \in Requests,
           \/ SubmitOpen(r) \/ PollOpen(r) \/ Lookup(r) \/ Import(r) \/ Verify(r)
           \/ ClaimChallenge(r) \/ Reload(r) \/ Abandon(r)
    PROVE  Inv'
<1>1. r \in Procs /\ r \notin Workers
  BY ProcsAssumption DEF Procs
<1>2. Typed /\ SharedTyped /\ ProcsTyped /\ LocalOK(r) /\ CredOK(r)
  BY <1>1 DEF Inv, Typed
<1>3. /\ record \in Record /\ local[r].snap \in Record /\ local[r].funding \in Nat
      /\ ledger.amount \in Nat /\ ledger.balance \in Nat
  BY <1>1, <1>2 DEF SharedTyped, ProcsTyped, Local
<1>4. pc[r] \in Steps => Cred(r) \in Credential
  BY <1>2 DEF ProcsTyped
<1>5. CASE SubmitOpen(r)
  <2>1. QuietStep(r)
    BY <1>5 DEF SubmitOpen, QuietStep, Quiet
  <2>2. CASE Goto(r, "pollOpen") /\ UNCHANGED local
    <3>1. Moves(r, "pollOpen", local[r])
      BY <1>1, <1>2, <2>2, MoveForms
    <3>2. LocalOK(r)' /\ CredOK(r)'
      BY <1>2, <1>5, <2>1, <3>1 DEF LocalOK, CredOK, Moves, SubmitOpen, Quiet, QuietStep, Settlement
    <3> QED
      BY <1>1, <2>1, <3>1, <3>2, QuietMove
  <2> QED
    BY <1>1, <1>5, <2>1, <2>2, QuietLeave DEF SubmitOpen, Terminal
<1>6. CASE PollOpen(r)
  <2>1. QuietStep(r)
    BY <1>6 DEF PollOpen, QuietStep, Quiet
  <2>2. CASE /\ openTx = "validated"
             /\ Cred(r).amount = 0 \/ Signed(Cred(r))
             /\ Goto(r, "claim") /\ UNCHANGED local
    <3>1. Moves(r, "claim", local[r])
      BY <1>1, <1>2, <2>2, MoveForms
    <3>2. LocalOK(r)' /\ CredOK(r)'
      BY <1>2, <1>6, <2>1, <2>2, <3>1
      DEF LocalOK, CredOK, Moves, PollOpen, Quiet, QuietStep, Settlement, Cred, Signed
    <3> QED
      BY <1>1, <2>1, <3>1, <3>2, QuietMove
  <2> QED
    BY <1>1, <1>6, <2>1, <2>2, QuietLeave DEF PollOpen, Terminal
<1>7. CASE Lookup(r)
  <2>1. QuietStep(r)
    BY <1>7 DEF Lookup, QuietStep, Quiet
  <2>2. CASE Goto(r, "verify") /\ local' = [local EXCEPT ![r].snap = record] /\ Signed(Cred(r))
    <3>1. Moves(r, "verify", [local[r] EXCEPT !.snap = record])
      BY <1>1, <1>2, <2>2, MoveForms
    <3>2. /\ local'[r].funding = local[r].funding /\ local'[r].outcome = local[r].outcome
          /\ local'[r].cred = local[r].cred
      BY <1>1, <1>2, <3>1 DEF Moves, ProcsTyped, Local
    <3>3. LocalOK(r)' /\ CredOK(r)'
      BY <1>2, <1>7, <2>1, <2>2, <3>1, <3>2
      DEF LocalOK, CredOK, Moves, Lookup, Quiet, QuietStep, Settlement, Cred, Signed
    <3> QED
      BY <1>1, <2>1, <3>1, <3>3, QuietMove
  <2>3. CASE Goto(r, "import") /\ UNCHANGED local
    <3>1. Moves(r, "import", local[r])
      BY <1>1, <1>2, <2>3, MoveForms
    <3>2. LocalOK(r)' /\ CredOK(r)'
      BY <1>2, <1>7, <2>1, <3>1
      DEF LocalOK, CredOK, Moves, Lookup, Quiet, QuietStep, Settlement, Cred
    <3> QED
      BY <1>1, <2>1, <3>1, <3>2, QuietMove
  <2> QED
    BY <1>1, <1>7, <2>1, <2>2, <2>3, QuietLeave DEF Lookup, Examine, Terminal
<1>8. CASE Import(r)
  <2>1. QuietStep(r)
    BY <1>8 DEF Import, QuietStep, Quiet
  <2> DEFINE imported == ImportedRecord(ledger.amount, ledger.balance)
  <2>2. CASE /\ ledger.status = "open"
             /\ Goto(r, "create") /\ local' = [local EXCEPT ![r].snap = imported]
    <3>1. Moves(r, "create", [local[r] EXCEPT !.snap = imported])
      BY <1>1, <1>2, <2>2, MoveForms
    <3>2. /\ local'[r].funding = local[r].funding /\ local'[r].outcome = local[r].outcome
          /\ local'[r].cred = local[r].cred /\ local'[r].snap = imported
      BY <1>1, <1>2, <3>1 DEF Moves, ProcsTyped, Local
    <3>3. /\ imported.funded = ledger.amount /\ imported.cumulative = ledger.balance
          /\ imported.redeemed = ledger.balance /\ ~imported.finalized
      BY <1>3, NewRecords
    <3>4. ledger.amount > 0 /\ ledger.balance <= ledger.amount
      BY <2>2 DEF Inv, Books, LedgerOK
    <3>5. LocalOK(r)' /\ CredOK(r)'
      BY <1>2, <1>3, <1>8, <2>1, <2>2, <3>1, <3>2, <3>3, <3>4
      DEF LocalOK, CredOK, Moves, Import, Quiet, QuietStep, Settlement, ValidAccounting, Cred
    <3> QED
      BY <1>1, <2>1, <3>1, <3>5, QuietMove
  <2> QED
    BY <1>1, <1>8, <2>1, <2>2, QuietLeave DEF Import, Terminal
<1>9. CASE Verify(r)
  <2>1. QuietStep(r)
    BY <1>9 DEF Verify, QuietStep, Quiet
  <2>2. CASE Goto(r, "claim") /\ local' = [local EXCEPT ![r].funding = ledger.amount]
    <3>1. Moves(r, "claim", [local[r] EXCEPT !.funding = ledger.amount])
      BY <1>1, <1>2, <2>2, MoveForms
    <3>2. /\ local'[r].funding = ledger.amount /\ local'[r].outcome = local[r].outcome
          /\ local'[r].cred = local[r].cred
      BY <1>1, <1>2, <3>1 DEF Moves, ProcsTyped, Local
    <3>3. LocalOK(r)' /\ (Cred(r).action # "open" => CredOK(r)')
      BY <1>2, <1>3, <1>9, <2>1, <3>1, <3>2
      DEF LocalOK, CredOK, Moves, Verify, Quiet, QuietStep, Settlement, Cred, Signed
    <3> QED
      BY <1>1, <1>2, <1>9, <2>1, <3>1, <3>3, QuietMove DEF CredOK, Verify
  <2> QED
    BY <1>1, <1>9, <2>1, <2>2, QuietLeave DEF Verify, Terminal
<1>10. CASE ClaimChallenge(r)
  <2>0. Cred(r).challenge \in Challenges
    BY <1>4, <1>10, CredentialType DEF ClaimChallenge, Steps
  <2>1. QuietStep(r)
    BY <1>2, <1>10, <2>0 DEF ClaimChallenge, QuietStep, Quiet, Unclaimed, SharedTyped
  <2> DEFINE step == IF Cred(r).action = "open" THEN "record" ELSE "advance"
  <2>2. CASE /\ claimed' = [claimed EXCEPT ![Cred(r).challenge] = r]
             /\ Goto(r, step) /\ UNCHANGED local
    <3>1. Moves(r, step, local[r])
      BY <1>1, <1>2, <2>2, MoveForms
    <3>2. claimed'[Cred(r).challenge] = r
      BY <1>2, <2>0, <2>2 DEF SharedTyped
    <3>3. Cred(r)' = Cred(r)
      BY <3>1 DEF Moves, Cred
    <3>4. LocalOK(r)' /\ CredOK(r)'
      BY <1>2, <1>10, <2>1, <3>1, <3>2, <3>3
      DEF LocalOK, CredOK, Moves, ClaimChallenge, Quiet, QuietStep, Settlement, Signed
    <3> QED
      BY <1>1, <2>1, <3>1, <3>4, QuietMove
  <2> QED
    BY <1>1, <1>10, <2>1, <2>2, QuietLeave DEF ClaimChallenge, Terminal
<1>11. CASE Reload(r)
  <2>1. QuietStep(r)
    BY <1>11 DEF Reload, QuietStep, Quiet
  <2>2. CASE Goto(r, "abandon") /\ UNCHANGED local
    <3>1. Moves(r, "abandon", local[r])
      BY <1>1, <1>2, <2>2, MoveForms
    <3>2. Cred(r)' = Cred(r)
      BY <3>1 DEF Moves, Cred
    <3>3. LocalOK(r)' /\ CredOK(r)'
      BY <1>2, <1>11, <2>1, <3>1, <3>2
      DEF LocalOK, CredOK, Moves, Reload, Quiet, QuietStep, Settlement
    <3> QED
      BY <1>1, <2>1, <3>1, <3>3, QuietMove
  <2> DEFINE unpaid == record.redeemed < record.cumulative
             step   == IF unpaid THEN "settle" ELSE IF local[r].holds THEN "release" ELSE "finalize"
  <2>3. CASE /\ record.cumulative = local[r].snap.cumulative
             /\ local' = [local EXCEPT ![r].snap = record]
             /\ Goto(r, step)
    <3>1. Moves(r, step, [local[r] EXCEPT !.snap = record])
      BY <1>1, <1>2, <2>3, MoveForms
    <3>2. /\ local'[r].funding = local[r].funding /\ local'[r].outcome = local[r].outcome
          /\ Cred(r)' = Cred(r) /\ local'[r].snap = record
      BY <1>1, <1>2, <3>1 DEF Moves, ProcsTyped, Local, Cred
    <3>3. LocalOK(r)' /\ CredOK(r)'
      BY <1>2, <1>3, <1>11, <2>1, <2>3, <3>1, <3>2
      DEF LocalOK, CredOK, Moves, Reload, Quiet, QuietStep, Settlement, Record
    <3> QED
      BY <1>1, <2>1, <3>1, <3>3, QuietMove
  <2> QED
    BY <1>1, <1>11, <2>1, <2>2, <2>3, QuietLeave DEF Reload, Terminal
<1>12. CASE Abandon(r)
  <2>1. QuietStep(r)
    BY <1>12 DEF Abandon, QuietStep, Quiet
  <2> QED
    BY <1>1, <1>12, <2>1, QuietLeave DEF Abandon, Terminal
<1> QED
  BY <1>5, <1>6, <1>7, <1>8, <1>9, <1>10, <1>11, <1>12

\* A credential that arrives, and the worker's scan of the records (run_once).
LEMMA QuietArrival ==
    ASSUME Inv, Typed', NEW p \in Procs,
           (p \in Requests /\ Arrive(p)) \/ (p \in Workers /\ Scan(p))
    PROVE  Inv'
<1>1. Typed /\ SharedTyped /\ ProcsTyped /\ LocalOK(p)
  BY DEF Inv, Typed
<1>2. CASE p \in Requests /\ Arrive(p)
  <2>1. PICK c \in Credential, step \in {"lookup", "submitOpen"} :
            /\ local' = [local EXCEPT ![p].cred = c]
            /\ Goto(p, step)
            /\ step = "lookup" => c.action # "open"
    BY <1>2 DEF Arrive
  <2>2. Moves(p, step, [local[p] EXCEPT !.cred = c])
    BY <1>1, <2>1 DEF Moves, ProcsTyped, Goto
  <2>3. /\ local'[p].funding = local[p].funding /\ local'[p].outcome = local[p].outcome
        /\ local'[p].cred = c
    BY <1>1, <2>2 DEF Moves, ProcsTyped, Local
  <2>4. QuietStep(p)
    BY <1>2 DEF Arrive, QuietStep, Quiet
  <2>5. LocalOK(p)' /\ CredOK(p)'
    BY <1>1, <1>2, <2>1, <2>2, <2>3, <2>4
    DEF LocalOK, CredOK, Moves, Arrive, Quiet, QuietStep, Settlement, Cred
  <2> QED
    BY <2>2, <2>4, <2>5, QuietMove
<1>3. CASE p \in Workers /\ Scan(p)
  <2>1. PICK idle \in BOOLEAN, step \in {"lease", "finalize"} :
            /\ local' = [local EXCEPT ![p].snap = record, ![p].idle = idle]
            /\ Goto(p, step)
            /\ step = "finalize" => ~(record.redeemed < record.cumulative)
    BY <1>3 DEF Scan
  <2>2. Moves(p, step, local'[p])
    BY <1>1, <2>1 DEF Moves, ProcsTyped, Goto
  <2>3. /\ local'[p].funding = local[p].funding /\ local'[p].outcome = local[p].outcome
        /\ local'[p].snap = record
    BY <1>1, <2>1 DEF ProcsTyped, Local
  <2>4. QuietStep(p)
    BY <1>3 DEF Scan, QuietStep, Quiet
  <2>5. LocalOK(p)'
    BY <1>1, <1>3, <2>1, <2>2, <2>3, <2>4
    DEF LocalOK, Moves, Scan, Quiet, QuietStep, Settlement, SharedTyped, Record
  <2> QED
    BY <1>3, <2>2, <2>4, <2>5, QuietMove, ProcsAssumption
<1> QED
  BY <1>2, <1>3

\* The settlement steps that touch at most the lease.
LEMMA QuietSettle ==
    ASSUME Inv, Typed', NEW p \in Procs,
           ClaimLease(p) \/ AwaitClaim(p) \/ ReleaseLease(p) \/ SettleFails(p)
    PROVE  Inv'
<1>1. Typed /\ SharedTyped /\ ProcsTyped /\ LocalOK(p) /\ (p \in Requests => CredOK(p))
  BY DEF Inv, Typed
<1>2. p \in Workers => p \notin Requests
  BY ProcsAssumption
<1>3. CASE ClaimLease(p)
  <2>1. QuietStep(p)
    BY <1>3 DEF ClaimLease, QuietStep, Quiet
  <2> DEFINE step == IF p \in Workers THEN "settle" ELSE "reload"
  <2>2. CASE local' = [local EXCEPT ![p].holds = TRUE] /\ Goto(p, step)
    <3>1. Moves(p, step, [local[p] EXCEPT !.holds = TRUE])
      BY <1>1, <2>2, MoveForms
    <3>2. /\ local'[p].funding = local[p].funding /\ local'[p].outcome = local[p].outcome
          /\ Cred(p)' = Cred(p) /\ local'[p].snap = local[p].snap
      BY <1>1, <3>1 DEF Moves, ProcsTyped, Local, Cred
    <3>3. LocalOK(p)' /\ (p \in Requests => CredOK(p)')
      BY <1>1, <1>3, <2>1, <3>1, <3>2
      DEF LocalOK, CredOK, Moves, ClaimLease, Quiet, QuietStep, Settlement
    <3> QED
      BY <2>1, <3>1, <3>3, QuietMove
  <2>3. CASE Goto(p, "reload") /\ UNCHANGED local /\ p \notin Workers
    <3>1. Moves(p, "reload", local[p])
      BY <1>1, <2>3, MoveForms
    <3>2. Cred(p)' = Cred(p)
      BY <3>1 DEF Moves, Cred
    <3>3. LocalOK(p)' /\ (p \in Requests => CredOK(p)')
      BY <1>1, <1>3, <2>1, <3>1, <3>2
      DEF LocalOK, CredOK, Moves, ClaimLease, Quiet, QuietStep, Settlement
    <3> QED
      BY <2>1, <3>1, <3>3, QuietMove
  <2> QED
    BY <1>3, <2>1, <2>2, <2>3, QuietLeave DEF ClaimLease
<1>4. CASE AwaitClaim(p)
  <2>1. QuietStep(p)
    BY <1>4 DEF AwaitClaim, QuietStep, Quiet
  <2>2. CASE local[p].outcome = "success" /\ Goto(p, "mark") /\ UNCHANGED local
    <3>1. Moves(p, "mark", local[p])
      BY <1>1, <2>2, MoveForms
    <3>2. Cred(p)' = Cred(p)
      BY <3>1 DEF Moves, Cred
    <3>3. LocalOK(p)' /\ (p \in Requests => CredOK(p)')
      BY <1>1, <1>4, <2>1, <2>2, <3>1, <3>2
      DEF LocalOK, CredOK, Moves, AwaitClaim, Quiet, QuietStep, Settlement
    <3> QED
      BY <2>1, <3>1, <3>3, QuietMove
  <2> QED
    BY <1>4, <2>1, <2>2, QuietLeave DEF AwaitClaim, Terminal
<1>5. CASE ReleaseLease(p)
  <2>1. QuietStep(p)
    BY <1>5 DEF ReleaseLease, QuietStep, Quiet
  <2>2. CASE Goto(p, "finalize") /\ UNCHANGED local
    <3>1. Moves(p, "finalize", local[p])
      BY <1>1, <2>2, MoveForms
    <3>2. Cred(p)' = Cred(p)
      BY <3>1 DEF Moves, Cred
    <3>3. LocalOK(p)' /\ (p \in Requests => CredOK(p)')
      BY <1>1, <1>5, <2>1, <3>1, <3>2
      DEF LocalOK, CredOK, Moves, ReleaseLease, Quiet, QuietStep, Settlement
    <3> QED
      BY <2>1, <3>1, <3>3, QuietMove
  <2> QED
    BY <1>5, <2>1, <2>2, QuietLeave DEF ReleaseLease
<1>6. CASE SettleFails(p)
  <2>1. QuietStep(p)
    BY <1>6 DEF SettleFails, QuietStep, Quiet
  <2> QED
    BY <1>6, <2>1, QuietLeave DEF SettleFails, Terminal
<1> QED
  BY <1>3, <1>4, <1>5, <1>6

\* The claim submitted is for what the process last read (_settle_paychannel_claim).
LEMMA SubmitClaimInv ==
    ASSUME Inv, Typed', NEW p \in Procs, SubmitClaim(p)
    PROVE  Inv'
<1>1. Typed /\ SharedTyped /\ ProcsTyped /\ LocalOK(p) /\ (p \in Requests => CredOK(p))
  BY DEF Inv, Typed
<1>2. Moves(p, "await", local[p])
  BY <1>1, MoveForms DEF SubmitClaim
<1>3. Progress /\ Books' /\ FinalizedIsRedeemed'
  BY QuietProgress, QuietBooks DEF SubmitClaim, Quiet
<1>4. Cred(p)' = Cred(p)
  BY <1>2 DEF Moves, Cred
<1>5. LocalOK(p)' /\ (p \in Requests => CredOK(p)')
  BY <1>1, <1>2, <1>4 DEF LocalOK, CredOK, Moves, SubmitClaim, Settlement
<1>6. (\A q \in Procs : LocalOK(q))' /\ (\A r \in Requests : CredOK(r))'
  BY <1>2, <1>3, <1>5, MoverOK
<1>7. GrantsOK'
  BY <1>3, GrantsStay DEF SubmitClaim
<1>8. \A claim \in mempool : claim.owner # p
  BY ProcsAssumption DEF Inv, ClaimsOK, SubmitClaim
<1> DEFINE new == [owner     |-> p,
                   amount    |-> local[p].snap.cumulative,
                   signature |-> local[p].snap.signature]
<1>9. \A claim \in mempool' :
        /\ Exists(record)'
        /\ claim.amount <= record'.cumulative
        /\ claim.owner # None =>
            /\ pc'[claim.owner] = "await"
            /\ local'[claim.owner].outcome = "none"
            /\ local'[claim.owner].snap.cumulative = claim.amount
  <2>1. \A claim \in mempool : claim.owner \in Procs \cup {None}
    BY <1>1 DEF SharedTyped, Claim
  <2>2. /\ Exists(record) /\ record' = record
        /\ new.amount <= record.cumulative
        /\ new.owner = p /\ local[p].outcome = "none"
    BY <1>1 DEF LocalOK, SubmitClaim, Settlement
  <2> QED
    BY <1>2, <1>8, <2>1, <2>2 DEF Inv, ClaimsOK, SubmitClaim, Moves
<1>10. \A c1, c2 \in mempool' : c1.owner = c2.owner /\ c1.owner # None => c1 = c2
  <2>1. mempool' = mempool \cup {new} /\ new.owner = p
    BY DEF SubmitClaim
  <2> QED
    BY <1>8, <2>1 DEF Inv, ClaimsOK
<1>11. ClaimsOK'
  BY <1>9, <1>10 DEF ClaimsOK
<1> QED
  BY <1>3, <1>6, <1>7, <1>11 DEF Inv

\* A process that loses contact or dies leaves its claims to the ledger.
LEMMA OrphanInv ==
    ASSUME Inv, Typed', NEW p \in Procs, LoseContact(p) \/ Crash(p)
    PROVE  Inv'
<1>1. PICK result \in Terminal : Leave(p, result)
  BY DEF LoseContact, Crash, Terminal
<1>2. Progress /\ Books' /\ FinalizedIsRedeemed'
  BY QuietProgress, QuietBooks DEF LoseContact, Crash, Quiet
<1>3. (\A q \in Procs : LocalOK(q))' /\ (\A r \in Requests : CredOK(r))'
  BY <1>1, <1>2, LeaverOK
<1>4. PICK step : Moves(p, step, Fresh)
  BY <1>1, MoveForms DEF Inv, Typed
<1>5. ClaimsOK'
  BY <1>2, <1>4, ClaimsOrphan DEF LoseContact, Crash
<1>6. GrantsOK'
  BY <1>2, GrantsStay DEF LoseContact, Crash
<1> QED
  BY <1>2, <1>3, <1>5, <1>6 DEF Inv

-----------------------------------------------------------------------------
(***************************************************************************)
(* The ledger.                                                             *)
(***************************************************************************)
\* A claim leaves the mempool, and its submitter sees what became of it.
LEMMA ResolvedOK ==
    ASSUME Inv, Typed', Progress, NEW claim \in mempool, NEW result \in {"success", "failure"},
           mempool' = mempool \ {claim}, Report(claim, result), UNCHANGED <<pc, claimed>>,
           result = "success" => claim.amount <= ledger'.balance
    PROVE  /\ (\A q \in Procs : LocalOK(q))'
           /\ (\A r \in Requests : CredOK(r))'
           /\ ClaimsOK'
<1>1. /\ Typed /\ SharedTyped /\ ProcsTyped
      /\ claim.owner \in Procs \cup {None}
      /\ None \notin Procs
  BY ProcsAssumption DEF Inv, Typed, SharedTyped, Claim
<1>2. CASE claim.owner = None
  <2>1. local' = local
    BY <1>2 DEF Report
  <2>2. \A q \in Procs : LocalOK(q)' /\ (q \in Requests => CredOK(q)')
    BY <2>1, StayOK
  <2>3. ClaimsOK'
    <3>1. record \in Record /\ record' \in Record /\ \A c \in mempool : c.amount \in Nat
      BY DEF Inv, Typed, SharedTyped, Claim
    <3> QED
      BY <2>1, <3>1 DEF Inv, ClaimsOK, Progress, Record, Exists
  <2> QED
    BY <2>2, <2>3 DEF Procs
<1>3. CASE claim.owner # None
  <2> DEFINE p == claim.owner
  <2>1. p \in Procs /\ local' = [local EXCEPT ![p].outcome = result]
    BY <1>1, <1>3 DEF Report
  <2>2. Moves(p, pc[p], [local[p] EXCEPT !.outcome = result])
    BY <1>1, <2>1 DEF Moves, ProcsTyped
  <2>3. /\ local'[p].funding = local[p].funding /\ local'[p].outcome = result
        /\ local'[p].cred = local[p].cred /\ local'[p].snap = local[p].snap
        /\ pc'[p] = "await" /\ pc[p] = "await"
        /\ local[p].snap.cumulative = claim.amount
    BY <1>1, <1>3, <2>1, <2>2 DEF Inv, ClaimsOK, Moves, ProcsTyped, Local
  <2>4. LocalOK(p) /\ (p \in Requests => CredOK(p))
    BY <2>1 DEF Inv
  <2>5. /\ record \in Record /\ record' \in Record
        /\ ledger.amount \in Nat /\ ledger.balance \in Nat
        /\ ledger'.amount \in Nat /\ ledger'.balance \in Nat
        /\ local[p].snap \in Record /\ local[p].funding \in Nat
    BY <1>1, <2>1 DEF Typed, SharedTyped, ProcsTyped, Local
  <2>6. LocalOK(p)'
    BY <2>3, <2>4, <2>5 DEF LocalOK, Progress, Settlement, Record, Exists
  <2>7. p \in Requests => CredOK(p)'
    BY <2>3, <2>4 DEF CredOK, Settlement, Cred
  <2>8. (\A q \in Procs : LocalOK(q))' /\ (\A r \in Requests : CredOK(r))'
    BY <2>1, <2>2, <2>6, <2>7, MoverOK
  <2>9. ClaimsOK'
    <3>1. \A c \in mempool : c.amount \in Nat /\ c.owner \in Procs \cup {None}
      BY DEF Inv, Typed, SharedTyped, Claim
    <3>2. \A c \in mempool' : c.owner # p
      BY <1>3 DEF Inv, ClaimsOK
    <3> QED
      BY <2>1, <2>2, <2>5, <3>1, <3>2 DEF Inv, ClaimsOK, Moves, Progress, Record, Exists
  <2> QED
    BY <2>8, <2>9
<1> QED
  BY <1>2, <1>3

\* Opens, claims, funding and expiry on the ledger keep the invariant.
LEMMA LedgerInv ==
    ASSUME Inv, Typed', Ledger
    PROVE  Inv'
<1>1. Typed /\ SharedTyped /\ ProcsTyped
  BY DEF Inv, Typed
<1>2. /\ record \in Record
      /\ ledger.amount \in Nat /\ ledger.balance \in Nat
      /\ ledger'.amount \in Nat /\ ledger'.balance \in Nat
  BY <1>1 DEF SharedTyped, Typed
<1>3. ASSUME NEW claim \in mempool, ValidateClaim(claim)
      PROVE  Inv'
  <2>1. /\ Exists(record)
        /\ claim.amount <= record.cumulative
        /\ ledger.balance < claim.amount
        /\ claim.amount <= ledger.amount
        /\ claim.amount \in Nat
    BY <1>1, <1>3 DEF Inv, ClaimsOK, ValidateClaim, ClaimPays, SharedTyped, Claim
  <2>2. /\ ledger'.balance = claim.amount
        /\ ledger'.amount = ledger.amount
        /\ ledger'.status = ledger.status
        /\ ledger.status # "absent"
    BY <1>1, <1>3 DEF ValidateClaim, ClaimPays, SharedTyped
  <2>3. Progress
    BY <1>2, <1>3, <2>1, <2>2 DEF Progress, ValidateClaim, Record
  <2>4. Books' /\ FinalizedIsRedeemed'
    BY <1>2, <1>3, <2>1, <2>2
    DEF Inv, Books, RecordOK, LedgerOK, BooksMatchLedger, OutstandingIsSigned, ServedIsPaid,
        FinalizedIsRedeemed, ValidateClaim, Exists, ValidAccounting, Record
  <2>5. claim.amount <= ledger'.balance
    BY <2>1, <2>2
  <2>6. /\ (\A q \in Procs : LocalOK(q))'
        /\ (\A r \in Requests : CredOK(r))'
        /\ ClaimsOK'
    BY <1>3, <2>3, <2>5, ResolvedOK DEF ValidateClaim
  <2>7. GrantsOK'
    BY <1>3, <2>3, GrantsStay DEF ValidateClaim
  <2> QED
    BY <2>4, <2>6, <2>7 DEF Inv
<1>4. ASSUME NEW claim \in mempool, RefuseClaim(claim) \/ DropClaim(claim)
      PROVE  Inv'
  <2>1. Progress /\ Books' /\ FinalizedIsRedeemed'
    BY <1>4, QuietProgress, QuietBooks DEF RefuseClaim, DropClaim, Quiet
  <2>2. /\ (\A q \in Procs : LocalOK(q))'
        /\ (\A r \in Requests : CredOK(r))'
        /\ ClaimsOK'
    BY <1>4, <2>1, ResolvedOK DEF RefuseClaim, DropClaim
  <2>3. GrantsOK'
    BY <1>4, <2>1, GrantsStay DEF RefuseClaim, DropClaim
  <2> QED
    BY <2>1, <2>2, <2>3 DEF Inv
<1>5. CASE ValidateOpen \/ FailOpen \/ Fund \/ RunDown
  <2>1. /\ UNCHANGED <<record, claimed, mempool, pc, local, base, charged, grants>>
        /\ ledger.balance = ledger'.balance
        /\ ledger.amount <= ledger'.amount
        /\ ledger'.status = "absent" => ledger'.amount = 0 /\ ledger' = ledger
        /\ ledger.status # "absent" => ledger'.status # "absent"
        /\ openTx = "validated" => openTx' = "validated"
        /\ openTx' = "validated" /\ openTx # "validated" =>
                /\ OpenFunding <= ledger'.amount
                /\ ledger'.balance = 0
                /\ ledger'.status # "absent"
        /\ ledger'.status # "absent" => ledger'.amount > 0
    <3>1. CASE ValidateOpen
      BY <1>1, <1>2, <3>1, AmountsAssumption DEF ValidateOpen, Absent
    <3>2. CASE FailOpen
      BY <1>1, <1>2, <3>2 DEF FailOpen, Inv, Books, LedgerOK, Absent
    <3>3. CASE Fund
      BY <1>1, <1>2, <3>3 DEF Fund, SharedTyped
    <3>4. CASE RunDown
      BY <1>1, <1>2, <3>4 DEF RunDown, SharedTyped, Inv, Books, LedgerOK
    <3> QED
      BY <1>5, <3>1, <3>2, <3>3, <3>4
  <2>2. Progress
    BY <1>2, <2>1 DEF Progress, Record
  <2>3. LedgerOK'
    BY <1>2, <2>1, AmountsAssumption DEF Inv, Books, LedgerOK, Exists
  <2>4. Books' /\ FinalizedIsRedeemed'
    BY <1>2, <2>1, <2>3
    DEF Inv, Books, RecordOK, BooksMatchLedger, OutstandingIsSigned, ServedIsPaid,
        FinalizedIsRedeemed, Exists, ValidAccounting, Record
  <2>5. \A q \in Procs : LocalOK(q)' /\ (q \in Requests => CredOK(q)')
    BY <2>1, <2>2, StayOK
  <2>6. ClaimsOK'
    BY <2>1 DEF Inv, ClaimsOK, Exists
  <2>7. GrantsOK'
    BY <2>1, <2>2, GrantsStay
  <2> QED
    BY <2>4, <2>5, <2>6, <2>7 DEF Inv, Procs
<1> QED
  BY <1>3, <1>4, <1>5 DEF Ledger

-----------------------------------------------------------------------------
(***************************************************************************)
(* Steps that write the record.                                            *)
(***************************************************************************)
\* What is left to show of such a step when one process moves.
LEMMA WriteInv ==
    ASSUME Inv, Typed', NEW p \in Procs, Progress, Books', FinalizedIsRedeemed', GrantsOK',
           mempool' = mempool, pc[p] # "await" \/ local[p].outcome # "none",
           \/ \E result : Leave(p, result) /\ (p \in Workers \/ result \in Terminal)
           \/ \E step, new : /\ Moves(p, step, new)
                             /\ LocalOK(p)'
                             /\ p \in Requests => CredOK(p)'
    PROVE  Inv'
<1>1. CASE \E result : Leave(p, result) /\ (p \in Workers \/ result \in Terminal)
  <2>1. PICK result : Leave(p, result) /\ (p \in Workers \/ result \in Terminal)
    BY <1>1
  <2>2. (\A q \in Procs : LocalOK(q))' /\ (\A r \in Requests : CredOK(r))'
    BY <2>1, LeaverOK
  <2>3. PICK step : Moves(p, step, Fresh)
    BY <2>1, MoveForms DEF Inv, Typed
  <2>4. ClaimsOK'
    BY <2>3, ClaimsStay
  <2> QED
    BY <2>2, <2>4 DEF Inv
<1>2. CASE \E step, new : Moves(p, step, new) /\ LocalOK(p)' /\ (p \in Requests => CredOK(p)')
  <2>1. PICK step, new : Moves(p, step, new)
    BY <1>2
  <2>2. LocalOK(p)' /\ (p \in Requests => CredOK(p)')
    BY <1>2
  <2>3. (\A q \in Procs : LocalOK(q))' /\ (\A r \in Requests : CredOK(r))'
    BY <2>1, <2>2, MoverOK
  <2>4. ClaimsOK'
    BY <2>1, ClaimsStay
  <2> QED
    BY <2>3, <2>4 DEF Inv
<1> QED
  BY <1>1, <1>2

\* An open creates the record unless it exists (_verify_open).
LEMMA OpenRecordInv ==
    ASSUME Inv, Typed', NEW r \in Requests, OpenRecord(r)
    PROVE  Inv'
<1>1. /\ Typed /\ SharedTyped /\ ProcsTyped
      /\ r \in Procs /\ r \notin Workers
      /\ LocalOK(r) /\ CredOK(r)
  BY ProcsAssumption DEF Inv, Typed, Procs
<1>2. /\ record \in Record /\ record' \in Record
      /\ ledger.amount \in Nat /\ ledger.balance \in Nat
      /\ Cred(r).challenge \in Challenges /\ Cred(r).amount \in Nat
  BY <1>1, CredentialType DEF SharedTyped, Typed, ProcsTyped, OpenRecord, Steps
<1>3. openTx = "validated" /\ claimed[Cred(r).challenge] = r
  BY <1>1 DEF CredOK, OpenRecord
<1>4. /\ OpenFunding <= ledger.amount /\ ledger.status # "absent"
      /\ Exists(record) \/ ledger.balance = 0
  BY <1>3 DEF Inv, Books, LedgerOK
<1>5. /\ UNCHANGED <<claimed, ledger, openTx, mempool, base, charged>>
      /\ record' = IF Exists(record) THEN record ELSE FreshRecord(OpenFunding)
  BY DEF OpenRecord
<1>6. /\ Exists(record')
      /\ Exists(record) => record' = record
      /\ ~Exists(record) =>
            /\ record'.funded = OpenFunding
            /\ record'.cumulative = 0
            /\ record'.redeemed = 0
            /\ ~record'.finalized
            /\ record.funded = 0 /\ record.cumulative = 0 /\ record.redeemed = 0
            /\ ~record.finalized /\ base = 0 /\ charged = 0 /\ ledger.balance = 0
            /\ ValidAccounting(record')
  <2>1. ~Exists(record) => record = NoRecord /\ base = 0 /\ charged = 0
    BY DEF Inv, Books, RecordOK
  <2>2. OpenFunding \in Nat \ {0}
    BY AmountsAssumption
  <2> QED
    BY <1>4, <1>5, <2>1, <2>2, NewRecords DEF NoRecord, Exists
<1>7. Progress
  BY <1>2, <1>5, <1>6, AmountsAssumption DEF Progress, Record
<1>8. Books' /\ FinalizedIsRedeemed'
  <2>1. CASE Exists(record)
    BY <1>5, <1>6, <2>1
    DEF Inv, Books, RecordOK, LedgerOK, BooksMatchLedger, OutstandingIsSigned, ServedIsPaid,
        FinalizedIsRedeemed, Exists, ValidAccounting
  <2>2. CASE ~Exists(record)
    BY <1>2, <1>4, <1>5, <1>6, <2>2, AmountsAssumption
    DEF Inv, Books, RecordOK, LedgerOK, BooksMatchLedger, OutstandingIsSigned, ServedIsPaid,
        FinalizedIsRedeemed
  <2> QED
    BY <2>1, <2>2
<1>9. CASE Goto(r, "advance") /\ UNCHANGED <<local, grants>>
  <2>1. Moves(r, "advance", local[r])
    BY <1>1, <1>9, MoveForms
  <2>2. Cred(r)' = Cred(r)
    BY <2>1 DEF Moves, Cred
  <2>3. LocalOK(r)' /\ CredOK(r)'
    BY <1>1, <1>3, <1>5, <2>1, <2>2
    DEF LocalOK, CredOK, Moves, OpenRecord, Settlement, Signed
  <2>4. GrantsOK'
    BY <1>7, <1>9, GrantsStay
  <2> QED
    BY <1>1, <1>5, <1>7, <1>8, <2>1, <2>3, <2>4, WriteInv DEF OpenRecord
<1>10. ASSUME NEW granted \in BOOLEAN, Answer(r, granted)
       PROVE  Inv'
  <2>1. GrantsOK'
    BY <1>1, <1>2, <1>3, <1>7, <1>10, GrantsAdded
  <2>2. \E result : Leave(r, result) /\ result \in Terminal
    BY <1>10 DEF Answer, Terminal
  <2> QED
    BY <1>1, <1>5, <1>7, <1>8, <2>1, <2>2, WriteInv DEF OpenRecord
<1> QED
  BY <1>9, <1>10 DEF OpenRecord

\* A ledger import creates the record unless it exists (_verify_claim_action).
LEMMA CreateInv ==
    ASSUME Inv, Typed', NEW r \in Requests, Create(r)
    PROVE  Inv'
<1>1. /\ Typed /\ SharedTyped /\ ProcsTyped
      /\ r \in Procs /\ r \notin Workers
      /\ LocalOK(r) /\ CredOK(r)
  BY ProcsAssumption DEF Inv, Typed, Procs
<1>2. /\ record \in Record /\ record' \in Record /\ local[r].snap \in Record
      /\ ledger.amount \in Nat /\ ledger.balance \in Nat
  BY <1>1 DEF SharedTyped, Typed, ProcsTyped, Local
<1>3. /\ ValidAccounting(local[r].snap)
      /\ local[r].snap.redeemed = local[r].snap.cumulative
      /\ local[r].snap.funded <= ledger.amount
      /\ ~local[r].snap.finalized
      /\ ledger.status # "absent"
      /\ Exists(record) \/ local[r].snap.cumulative = ledger.balance
  BY <1>1 DEF LocalOK, Create
<1>4. /\ UNCHANGED <<claimed, ledger, openTx, mempool, charged, grants>>
      /\ record' = IF Exists(record) THEN record ELSE local[r].snap
      /\ base' = IF Exists(record) THEN base ELSE local[r].snap.cumulative
      /\ Examine(r, record')
  BY DEF Create
<1>5. ~Exists(record) => record = NoRecord /\ base = 0 /\ charged = 0
  BY DEF Inv, Books, RecordOK
<1>6. /\ NoRecord.funded = 0 /\ NoRecord.cumulative = 0 /\ NoRecord.redeemed = 0
      /\ NoRecord.finalized = FALSE
  BY DEF NoRecord
<1>7. Progress
  BY <1>2, <1>3, <1>4, <1>5, <1>6 DEF Progress, Record
<1>8. Books' /\ FinalizedIsRedeemed'
  <2>1. CASE Exists(record)
    BY <1>4, <2>1
    DEF Inv, Books, RecordOK, LedgerOK, BooksMatchLedger, OutstandingIsSigned, ServedIsPaid,
        FinalizedIsRedeemed, Exists, ValidAccounting
  <2>2. CASE ~Exists(record)
    <3>1. /\ record' = local[r].snap /\ base' = record'.cumulative /\ charged' = 0
          /\ record'.cumulative = ledger'.balance /\ record'.redeemed = record'.cumulative
          /\ record'.funded <= ledger'.amount /\ ledger' = ledger
          /\ ValidAccounting(record') /\ Exists(record')
          /\ openTx' = openTx
      BY <1>3, <1>4, <1>5, <2>2 DEF ValidAccounting, Exists
    <3>2. LedgerOK'
      BY <1>3, <3>1 DEF Inv, Books, LedgerOK
    <3>3. /\ record'.cumulative \in Nat /\ record'.redeemed \in Nat /\ record'.funded \in Nat
          /\ ~record'.finalized
      BY <1>2, <1>3, <3>1 DEF Record
    <3>4. BooksMatchLedger' /\ ServedIsPaid'
      BY <3>1, <3>3 DEF BooksMatchLedger, ServedIsPaid, ValidAccounting
    <3>5. RecordOK' /\ OutstandingIsSigned' /\ FinalizedIsRedeemed'
      BY <3>1, <3>3 DEF RecordOK, OutstandingIsSigned, FinalizedIsRedeemed
    <3> QED
      BY <3>2, <3>4, <3>5 DEF Books
  <2> QED
    BY <2>1, <2>2
<1>9. GrantsOK'
  BY <1>4, <1>7, GrantsStay
<1>10. CASE Leave(r, "refused")
  BY <1>1, <1>4, <1>7, <1>8, <1>9, <1>10, WriteInv DEF Create, Terminal
<1>11. CASE /\ Signed(Cred(r))
            /\ Goto(r, "verify")
            /\ local' = [local EXCEPT ![r].snap = record']
  <2>1. Moves(r, "verify", [local[r] EXCEPT !.snap = record'])
    BY <1>1, <1>11, MoveForms
  <2>2. /\ local'[r].funding = local[r].funding /\ local'[r].outcome = local[r].outcome
        /\ Cred(r)' = Cred(r)
    BY <1>1, <2>1 DEF Moves, ProcsTyped, Local, Cred
  <2>3. LocalOK(r)' /\ CredOK(r)'
    BY <1>1, <1>4, <1>11, <2>1, <2>2
    DEF LocalOK, CredOK, Moves, Create, Settlement, Signed
  <2> QED
    BY <1>1, <1>4, <1>7, <1>8, <1>9, <2>1, <2>3, WriteInv DEF Create
<1> QED
  BY <1>4, <1>10, <1>11 DEF Examine

\* The high-water mark advances, and a close goes on to settle (advance).
LEMMA AdvanceInv ==
    ASSUME Inv, Typed', NEW r \in Requests, AdvanceRecord(r)
    PROVE  Inv'
<1> DEFINE c      == Cred(r)
           price  == Price[c.challenge]
           status == AdvanceStatus(record, c.amount, price, local[r].funding)
           resumed == /\ c.action = "close"
                      /\ ExactReplay(record, c.amount, price, c.signature, local[r].funding)
           accepted == status = "advanced" \/ resumed
<1>1. /\ Typed /\ SharedTyped /\ ProcsTyped
      /\ r \in Procs /\ r \notin Workers
      /\ LocalOK(r) /\ CredOK(r)
  BY ProcsAssumption DEF Inv, Typed, Procs
<1>2. /\ c.challenge \in Challenges /\ c.amount \in Nat /\ c.signature \in Int /\ price \in Nat
      /\ local[r].funding \in Nat
  BY <1>1, CredentialType DEF ProcsTyped, AdvanceRecord, Steps, Local
<1>3. /\ record \in Record /\ record' \in Record
      /\ ledger.amount \in Nat /\ ledger.balance \in Nat
      /\ base \in Nat /\ charged \in Nat
  BY <1>1 DEF SharedTyped, Typed
<1>4. /\ local[r].funding <= ledger.amount
      /\ claimed[c.challenge] = r
      /\ c.amount = 0 \/ c.signature = c.amount
      /\ local[r].outcome = "none"
  BY <1>1 DEF LocalOK, CredOK, AdvanceRecord, Signed
<1>5. /\ UNCHANGED <<claimed, ledger, openTx, mempool, base>>
      /\ charged' = IF status = "advanced" THEN charged + price ELSE charged
      /\ record' = Advanced(record, c.amount, price, c.signature, local[r].funding)
      /\ pc[r] = "advance"
  BY DEF AdvanceRecord
<1>6. /\ record'.redeemed = record.redeemed
      /\ record'.finalized = record.finalized
      /\ record.funded <= record'.funded
      /\ record'.funded \in {record.funded, local[r].funding}
      /\ ~Exists(record) => status # "advanced" /\ record' = record
      /\ status = "advanced" =>
            /\ ~record.finalized
            /\ record'.cumulative = c.amount
            /\ record'.signature = c.signature
            /\ record.cumulative < c.amount
            /\ record.cumulative + price <= c.amount
            /\ c.amount <= record'.funded
      /\ status # "advanced" =>
            /\ record'.cumulative = record.cumulative
            /\ record'.signature = record.signature
      /\ status = "replay" => Exists(record) /\ ~record.finalized /\ c.amount = record.cumulative
  BY <1>2, <1>3, <1>5, AdvancedFacts
<1> HIDE DEF status, price
<1>7. Progress
  BY <1>2, <1>3, <1>5, <1>6 DEF Progress, Record
<1>8. Books' /\ FinalizedIsRedeemed'
  <2>1. CASE ~Exists(record)
    BY <1>5, <1>6, <2>1
    DEF Inv, Books, RecordOK, LedgerOK, BooksMatchLedger, OutstandingIsSigned, ServedIsPaid,
        FinalizedIsRedeemed, Exists, ValidAccounting
  <2>2. CASE Exists(record)
    <3>1. /\ ValidAccounting(record) /\ record.redeemed <= ledger.balance
          /\ ledger.balance <= record.cumulative /\ record.funded <= ledger.amount
          /\ record.redeemed < record.cumulative => record.signature = record.cumulative
          /\ base + charged <= record.cumulative
          /\ ledger.status # "absent" /\ ledger.balance <= ledger.amount
          /\ HasSettler /\ record.finalized => record.redeemed = record.cumulative
      BY <2>2 DEF Inv, Books, RecordOK, LedgerOK, BooksMatchLedger, OutstandingIsSigned,
                  ServedIsPaid, FinalizedIsRedeemed
    <3>2. /\ ValidAccounting(record') /\ Exists(record')
          /\ record'.funded <= ledger.amount
      BY <1>2, <1>3, <1>4, <1>6, <3>1 DEF ValidAccounting, Exists, Record
    <3>3. base' + charged' <= record'.cumulative
      BY <1>2, <1>3, <1>5, <1>6, <3>1 DEF Record
    <3>4. ledger'.balance <= record'.cumulative /\ record'.redeemed <= ledger'.balance
      BY <1>2, <1>3, <1>5, <1>6, <3>1 DEF Record
    <3>5. record'.redeemed < record'.cumulative => record'.signature = record'.cumulative
      BY <1>2, <1>3, <1>4, <1>6, <3>1 DEF Record
    <3>6. HasSettler /\ record'.finalized => record'.redeemed = record'.cumulative
      BY <1>6, <3>1
    <3>7. LedgerOK'
      BY <1>5, <2>2, <3>2 DEF Inv, Books, LedgerOK
    <3> QED
      BY <1>5, <3>2, <3>3, <3>4, <3>5, <3>6, <3>7
      DEF Books, RecordOK, BooksMatchLedger, OutstandingIsSigned, ServedIsPaid,
          FinalizedIsRedeemed, ValidAccounting
  <2> QED
    BY <2>1, <2>2
<1>9. CASE ~(accepted /\ c.action = "close")
  <2>1. accepted \in BOOLEAN /\ Answer(r, accepted)
    BY <1>9 DEF AdvanceRecord, status, price
  <2>2. GrantsOK'
    BY <1>1, <1>2, <1>4, <1>7, <2>1, GrantsAdded
  <2>3. \E result : Leave(r, result) /\ result \in Terminal
    BY <2>1 DEF Answer, Terminal
  <2> QED
    BY <1>1, <1>4, <1>5, <1>7, <1>8, <2>2, <2>3, WriteInv
<1>10. CASE accepted /\ c.action = "close"
  <2> DEFINE step == IF HasSettler /\ record'.redeemed < record'.cumulative
                     THEN "lease" ELSE "finalize"
  <2>1. /\ Goto(r, step)
        /\ local' = [local EXCEPT ![r].snap = record']
        /\ grants' = grants
    BY <1>10 DEF AdvanceRecord, status, price
  <2>2. Moves(r, step, [local[r] EXCEPT !.snap = record'])
    BY <1>1, <2>1, MoveForms
  <2>3. /\ local'[r].funding = local[r].funding /\ local'[r].outcome = local[r].outcome
        /\ Cred(r)' = Cred(r) /\ local'[r].snap = record'
    BY <1>1, <2>2 DEF Moves, ProcsTyped, Local, Cred
  <2>4. Exists(record') /\ record'.cumulative = c.amount
    <3>1. status = "advanced" \/ status = "replay"
      BY <1>10 DEF ExactReplay, status, price
    <3> QED
      BY <1>3, <1>6, <3>1 DEF Exists, Record
  <2>5. pc'[r] = step /\ step \in {"lease", "finalize"}
    BY <2>2 DEF Moves
  <2>6. HasSettler /\ step = "finalize" => record'.cumulative <= record'.redeemed
    BY <1>3 DEF Record
  <2>7. record'.cumulative <= record'.cumulative
    BY <1>3 DEF Record
  <2> HIDE DEF step
  <2>8. LocalOK(r)'
    BY <1>4, <1>5, <2>3, <2>4, <2>5, <2>6, <2>7 DEF LocalOK
  <2>9. CredOK(r)'
    BY <1>4, <1>5, <2>3, <2>4, <2>5 DEF CredOK, Settlement
  <2>10. GrantsOK'
    BY <1>7, <2>1, GrantsStay
  <2> QED
    BY <1>1, <1>4, <1>5, <1>7, <1>8, <2>2, <2>8, <2>9, <2>10, WriteInv
<1> QED
  BY <1>9, <1>10

\* A validated claim is booked (mark_redeemed).
LEMMA MarkRedeemedInv ==
    ASSUME Inv, Typed', NEW p \in Procs, MarkRedeemed(p)
    PROVE  Inv'
<1> DEFINE amount == local[p].snap.cumulative
<1>1. /\ Typed /\ SharedTyped /\ ProcsTyped /\ LocalOK(p) /\ (p \in Requests => CredOK(p))
      /\ record \in Record /\ record' \in Record /\ amount \in Nat
      /\ ledger.amount \in Nat /\ ledger.balance \in Nat
  BY DEF Inv, Typed, SharedTyped, ProcsTyped, Local, Record
<1>2. /\ UNCHANGED <<claimed, ledger, openTx, mempool, base, charged, grants>>
      /\ pc[p] = "mark"
  BY DEF MarkRedeemed
<1>3. amount <= ledger.balance /\ local[p].outcome = "success" /\ Exists(record)
  BY <1>1, <1>2 DEF LocalOK, Settlement
<1>4. CASE CanRedeem(record, amount)
  <2> DEFINE step == IF local[p].idle THEN "finalize" ELSE "release"
  <2>1. record' = Redeemed(record, amount) /\ Goto(p, step) /\ UNCHANGED local
    BY <1>4 DEF MarkRedeemed
  <2>2. /\ record'.funded = record.funded /\ record'.cumulative = record.cumulative
        /\ record'.signature = record.signature /\ record'.finalized = record.finalized
        /\ record'.redeemed = amount
        /\ record.redeemed <= amount /\ amount <= record.cumulative
    BY <1>1, <1>4, <2>1, RedeemedFacts
  <2>3. Progress
    BY <1>1, <1>2, <2>2 DEF Progress, Record
  <2>4. LedgerOK'
    BY <1>2, <1>3, <2>2 DEF Inv, Books, LedgerOK, Exists
  <2>5. RecordOK' /\ BooksMatchLedger' /\ OutstandingIsSigned' /\ ServedIsPaid' /\ FinalizedIsRedeemed'
    BY <1>1, <1>2, <1>3, <2>2
    DEF Inv, Books, RecordOK, BooksMatchLedger, OutstandingIsSigned, ServedIsPaid,
        FinalizedIsRedeemed, Exists, ValidAccounting, Record
  <2>6. Moves(p, step, local[p])
    BY <1>1, <2>1, MoveForms
  <2>7. Cred(p)' = Cred(p) /\ local'[p] = local[p] /\ pc'[p] = step /\ step \in {"release", "finalize"}
    BY <2>6 DEF Moves, Cred
  <2>8. amount <= record'.redeemed /\ amount <= record'.cumulative /\ Exists(record')
    BY <1>1, <1>3, <2>2 DEF Exists
  <2> HIDE DEF step
  <2>9. LocalOK(p)'
    BY <1>1, <1>2, <1>3, <2>7, <2>8 DEF LocalOK
  <2>10. p \in Requests => CredOK(p)'
    BY <1>1, <1>2, <2>7 DEF CredOK, Settlement
  <2>11. GrantsOK'
    BY <1>2, <2>3, GrantsStay
  <2> QED
    BY <1>1, <1>2, <2>3, <2>4, <2>5, <2>6, <2>9, <2>10, <2>11, WriteInv DEF Books
<1>5. CASE ~CanRedeem(record, amount)
  <2>1. record' = record /\ Leave(p, "refused")
    BY <1>5 DEF MarkRedeemed
  <2>2. Progress /\ Books' /\ FinalizedIsRedeemed'
    BY <1>2, <2>1, QuietProgress, QuietBooks DEF Quiet
  <2>3. GrantsOK'
    BY <1>2, <2>2, GrantsStay
  <2> QED
    BY <1>1, <1>2, <2>1, <2>2, <2>3, WriteInv DEF Terminal
<1> QED
  BY <1>4, <1>5

\* A session is finalized under the cumulative amount its finalizer settled.
LEMMA FinalizeInv ==
    ASSUME Inv, Typed', NEW p \in Procs, Finalize(p)
    PROVE  Inv'
<1>1. /\ Typed /\ SharedTyped /\ ProcsTyped /\ LocalOK(p) /\ (p \in Requests => CredOK(p))
      /\ record \in Record /\ record' \in Record /\ local[p].snap \in Record
      /\ ledger.amount \in Nat /\ ledger.balance \in Nat
  BY DEF Inv, Typed, SharedTyped, ProcsTyped, Local
<1>2. /\ UNCHANGED <<claimed, ledger, openTx, mempool, base, charged>>
      /\ pc[p] = "finalize"
      /\ record' = Finalized(record, Expected(p))
  BY DEF Finalize
<1>3. Expected(p) = local[p].snap.cumulative
  BY <1>1, <1>2 DEF Expected, CredOK, Settlement, Procs
<1>4. /\ record'.funded = record.funded /\ record'.cumulative = record.cumulative
      /\ record'.signature = record.signature /\ record'.redeemed = record.redeemed
      /\ record.finalized => record'.finalized
      /\ record'.finalized /\ ~record.finalized => Exists(record) /\ record.cumulative = Expected(p)
  BY <1>1, <1>2, FinalizedFacts
<1>5. Progress
  BY <1>1, <1>2, <1>4 DEF Progress, Record
<1>6. LedgerOK'
  BY <1>2, <1>4 DEF Inv, Books, LedgerOK, Exists
<1>7. RecordOK'
  <2>1. CASE Exists(record)
    BY <1>4, <2>1 DEF Inv, Books, RecordOK, Exists, ValidAccounting
  <2>2. CASE ~Exists(record)
    BY <1>2, <2>2 DEF Inv, Books, RecordOK, Finalized, CanFinalize
  <2> QED
    BY <2>1, <2>2
<1>8. BooksMatchLedger' /\ OutstandingIsSigned' /\ ServedIsPaid'
  BY <1>2, <1>4 DEF Inv, Books, BooksMatchLedger, OutstandingIsSigned, ServedIsPaid, Exists
<1>9. FinalizedIsRedeemed'
  <2>1. ASSUME HasSettler, record'.finalized, ~record.finalized
        PROVE  record'.redeemed = record'.cumulative
    <3>1. record.cumulative <= record.redeemed
      BY <1>1, <1>2, <1>3, <1>4, <2>1 DEF LocalOK
    <3>2. record.redeemed <= record.cumulative
      BY <1>4, <2>1 DEF Inv, Books, RecordOK, ValidAccounting
    <3> QED
      BY <1>1, <1>4, <3>1, <3>2 DEF Record
  <2> QED
    BY <1>4, <2>1 DEF Inv, FinalizedIsRedeemed
<1>10. CASE p \in Workers /\ Goto(p, "release") /\ UNCHANGED <<local, grants>>
  <2>1. Moves(p, "release", local[p])
    BY <1>1, <1>10, MoveForms
  <2>2. LocalOK(p)'
    BY <1>1, <1>2, <1>4, <2>1 DEF LocalOK, Moves, Settlement, Exists
  <2>3. p \notin Requests
    BY <1>10, ProcsAssumption
  <2>4. GrantsOK'
    BY <1>5, <1>10, GrantsStay
  <2> QED
    BY <1>1, <1>2, <1>5, <1>6, <1>7, <1>8, <1>9, <2>1, <2>2, <2>3, <2>4, WriteInv DEF Books
<1>11. CASE Answer(p, CanFinalize(record, Expected(p)))
  <2>1. CanFinalize(record, Expected(p)) \in BOOLEAN
    BY DEF CanFinalize, Exists
  <2>2. p \in Requests => /\ Cred(p).challenge \in Challenges
                          /\ claimed[Cred(p).challenge] = p
    BY <1>1, <1>2, CredentialType DEF CredOK, Settlement, ProcsTyped, Steps
  <2>3. GrantsOK'
    BY <1>5, <1>11, <2>1, <2>2, GrantsAdded
  <2>4. \E result : Leave(p, result) /\ result \in Terminal
    BY <1>11 DEF Answer, Terminal
  <2> QED
    BY <1>1, <1>2, <1>5, <1>6, <1>7, <1>8, <1>9, <2>3, <2>4, WriteInv DEF Books
<1> QED
  BY <1>10, <1>11 DEF Finalize

-----------------------------------------------------------------------------
(***************************************************************************)
(* The invariant holds initially and is kept by every step.                *)
(***************************************************************************)
\* A facilitator starts with an empty store, on a new or an imported channel.
LEMMA InitInv ==
    ASSUME Init
    PROVE  Inv
<1>1. /\ record = NoRecord /\ lease = None /\ mempool = {} /\ grants = {}
      /\ base = 0 /\ charged = 0 /\ faults = 0 /\ openTx = "none"
      /\ claimed = [c \in Challenges |-> None]
      /\ pc = [p \in Procs |-> "idle"] /\ local = [p \in Procs |-> Fresh]
  BY DEF Init
<1>2. /\ NoRecord \in Record /\ ~Exists(NoRecord) /\ Fresh \in Local
      /\ NoRecord.cumulative = 0 /\ NoRecord.redeemed = 0 /\ NoRecord.finalized = FALSE
  BY NewRecords, FreshType DEF NoRecord
<1>3. ASSUME ledger = Absent
      PROVE  /\ ledger \in [status : {"absent", "open", "closing", "gone"}, amount : Nat, balance : Nat]
             /\ LedgerOK
  <2>1. ledger \in [status : {"absent", "open", "closing", "gone"}, amount : Nat, balance : Nat]
    BY <1>3 DEF Absent
  <2>2. LedgerOK
    BY <1>1, <1>2, <1>3 DEF LedgerOK, Absent
  <2> QED
    BY <2>1, <2>2
<1>4. ASSUME NEW paid \in PriorBalances, paid < OpenFunding,
             ledger = [status |-> "open", amount |-> OpenFunding, balance |-> paid]
      PROVE  /\ ledger \in [status : {"absent", "open", "closing", "gone"}, amount : Nat, balance : Nat]
             /\ LedgerOK
  <2>1. paid \in Nat /\ OpenFunding \in Nat \ {0}
    BY AmountsAssumption
  <2>2. ledger \in [status : {"absent", "open", "closing", "gone"}, amount : Nat, balance : Nat]
    BY <1>4, <2>1
  <2>3. ledger.status = "open" /\ ledger.amount = OpenFunding /\ ledger.balance = paid
    BY <1>4
  <2>4. ~Exists(record) /\ openTx # "validated"
    BY <1>1, <1>2
  <2>5. ledger.amount > 0 /\ ledger.balance <= ledger.amount
    BY <1>4, <2>1, <2>3
  <2>6. LedgerOK
    BY <2>3, <2>4, <2>5 DEF LedgerOK
  <2> QED
    BY <2>2, <2>6
<1>5. /\ ledger \in [status : {"absent", "open", "closing", "gone"}, amount : Nat, balance : Nat]
      /\ LedgerOK
  <2>1. \/ ledger = Absent
        \/ \E paid \in PriorBalances :
              /\ paid < OpenFunding
              /\ ledger = [status |-> "open", amount |-> OpenFunding, balance |-> paid]
    BY DEF Init
  <2> QED
    BY <1>3, <1>4, <2>1
<1>6. SharedTyped
  BY <1>1, <1>2, <1>5, AmountsAssumption DEF SharedTyped
<1>7. ProcsTyped
  BY <1>1, <1>2 DEF ProcsTyped, Steps, Procs
<1>8. Books /\ FinalizedIsRedeemed
  BY <1>1, <1>2, <1>5
  DEF Books, RecordOK, BooksMatchLedger, OutstandingIsSigned, ServedIsPaid, FinalizedIsRedeemed
<1>9. ClaimsOK /\ GrantsOK
  BY <1>1 DEF ClaimsOK, GrantsOK
<1>10. ASSUME NEW p \in Procs
       PROVE  LocalOK(p) /\ CredOK(p)
  <2>1. /\ pc[p] = "idle" /\ local[p].funding = 0 /\ local[p].outcome = "none"
    BY <1>1 DEF Fresh, NoFunding
  <2>2. 0 <= ledger.amount
    BY <1>5
  <2> QED
    BY <2>1, <2>2 DEF LocalOK, CredOK, Settlement
<1> QED
  BY <1>6, <1>7, <1>8, <1>9, <1>10 DEF Inv, Typed, Procs

\* Every step of the service, its workers and the ledger keeps it.
LEMMA StepInv ==
    ASSUME Inv, [Next]_vars
    PROVE  Inv'
<1>1. Typed'
  BY TypedStep DEF Inv
<1>2. CASE UNCHANGED vars
  BY <1>2 DEF vars, Inv, Typed, SharedTyped, ProcsTyped, Books, RecordOK, LedgerOK,
              BooksMatchLedger, OutstandingIsSigned, ServedIsPaid, FinalizedIsRedeemed,
              ClaimsOK, LocalOK, CredOK, Cred, GrantsOK
<1>3. CASE Ledger
  BY <1>1, <1>3, LedgerInv
<1>4. CASE ExpireLease
  <2>1. Progress /\ Books' /\ FinalizedIsRedeemed'
    BY <1>4, QuietProgress, QuietBooks DEF ExpireLease, Quiet
  <2>2. \A q \in Procs : LocalOK(q)' /\ (q \in Requests => CredOK(q)')
    BY <1>1, <1>4, <2>1, StayOK DEF ExpireLease
  <2>3. ClaimsOK' /\ GrantsOK'
    BY <1>4 DEF ExpireLease, Inv, ClaimsOK, GrantsOK
  <2> QED
    BY <1>1, <2>1, <2>2, <2>3 DEF Inv, Procs
<1>5. ASSUME NEW r \in Requests, Arrive(r) \/ Handle(r)
      PROVE  Inv'
  BY <1>1, <1>5, QuietArrival, QuietHandle, OpenRecordInv, CreateInv, AdvanceInv DEF Handle, Procs
<1>6. ASSUME NEW w \in Workers, Scan(w)
      PROVE  Inv'
  BY <1>1, <1>6, QuietArrival DEF Procs
<1>7. ASSUME NEW p \in Procs, Settle(p) \/ Fault(p)
      PROVE  Inv'
  BY <1>1, <1>7, QuietSettle, SubmitClaimInv, MarkRedeemedInv, FinalizeInv, OrphanInv
  DEF Settle, Fault
<1> QED
  BY <1>2, <1>3, <1>4, <1>5, <1>6, <1>7 DEF Next

\* What the invariant says of the properties the model-checking runs check.
LEMMA InvImplies ==
    ASSUME Inv
    PROVE  /\ TypeOK
           /\ BooksMatchLedger
           /\ OutstandingIsSigned
           /\ ServedIsPaid
           /\ OneGrantPerChallenge
           /\ FinalizedIsRedeemed
<1>1. TypeOK
  BY DEF Inv, Typed, SharedTyped, ProcsTyped, Books, RecordOK, TypeOK
<1>2. OneGrantPerChallenge
  <2>1. \A g \in grants : g = [request |-> g.request, challenge |-> g.challenge]
    BY DEF Inv, Typed, SharedTyped
  <2> QED
    BY <2>1 DEF Inv, GrantsOK, OneGrantPerChallenge
<1> QED
  BY <1>1, <1>2 DEF Inv, Books

\* The whole invariant, of which the theorems below are parts.
LEMMA SpecInv == Spec => []Inv
<1>1. Init => Inv
  BY InitInv
<1>2. Inv /\ [Next]_vars => Inv'
  BY StepInv
<1> QED
  BY <1>1, <1>2, PTL DEF Spec

(***************************************************************************)
(* Every record in the store satisfies the accounting that PayChannelRecord*)
(* enforces, and every variable keeps its type.                            *)
(***************************************************************************)
THEOREM TypeCorrect == Spec => []TypeOK
<1>1. Inv => TypeOK
  BY InvImplies
<1> QED
  BY <1>1, SpecInv, PTL

(***************************************************************************)
(* What mark_redeemed has booked the ledger has paid, and the ledger has   *)
(* paid no more than the high-water mark advance has accepted.             *)
(***************************************************************************)
THEOREM BooksAlwaysMatch == Spec => []BooksMatchLedger
<1>1. Inv => BooksMatchLedger
  BY InvImplies
<1> QED
  BY <1>1, SpecInv, PTL

(***************************************************************************)
(* What is accepted and not redeemed rests on a signature the payer gave,  *)
(* never on the placeholder of an imported record.                         *)
(***************************************************************************)
THEOREM OutstandingAlwaysSigned == Spec => []OutstandingIsSigned
<1>1. Inv => OutstandingIsSigned
  BY InvImplies
<1> QED
  BY <1>1, SpecInv, PTL

(***************************************************************************)
(* The prices of all vouchers accepted by advance fit into the growth of   *)
(* the cumulative amount, for any price list and any interleaving.         *)
(***************************************************************************)
THEOREM ServedAlwaysPaid == Spec => []ServedIsPaid
<1>1. Inv => ServedIsPaid
  BY InvImplies
<1> QED
  BY <1>1, SpecInv, PTL

(***************************************************************************)
(* claim_challenge lets at most one delivery of a challenge be granted.    *)
(***************************************************************************)
THEOREM GrantedOnce == Spec => []OneGrantPerChallenge
<1>1. Inv => OneGrantPerChallenge
  BY InvImplies
<1> QED
  BY <1>1, SpecInv, PTL

(***************************************************************************)
(* With a recipient signer, neither a close nor the worker's idle          *)
(* finalization ends a session with accepted value unredeemed.             *)
(***************************************************************************)
THEOREM FinalizedOnlyRedeemed == Spec => []FinalizedIsRedeemed
<1>1. Inv => FinalizedIsRedeemed
  BY InvImplies
<1> QED
  BY <1>1, SpecInv, PTL

-----------------------------------------------------------------------------
(***************************************************************************)
(* The redemption lease.  Nobody gives it back, and it does not expire,    *)
(* under a claim that is not resolved: so whoever gets it finds no claim   *)
(* before the ledger.                                                      *)
(***************************************************************************)
\* p has the lease and is to give it back.
Holding(p) ==
    /\ local[p].holds
    /\ \/ pc[p] \in {"reload", "settle", "await", "mark", "abandon", "release"}
       \/ pc[p] = "finalize" /\ p \in Workers

\* What p knows of the lease and of the claims before the ledger.
HoldOK(p) ==
    /\ local[p].holds =>
         pc[p] \in {"reload", "settle", "await", "mark", "abandon", "release", "finalize"}
    /\ pc[p] \in {"settle", "await", "mark", "abandon", "release"} => local[p].holds
    /\ Holding(p) =>
        /\ lease = p
        /\ \/ pc[p] = "await" /\ local[p].outcome = "none"
           \/ mempool = {}

\* A claim before the ledger has its lease, though its submitter may be gone.
LeaseOK ==
    /\ mempool # {} => lease # None
    /\ \A c1, c2 \in mempool : c1 = c2
    /\ \A p \in Procs : HoldOK(p)

\* p moves, and neither lease nor claims do.
LEMMA LeaseIdle ==
    ASSUME LeaseOK, UNCHANGED <<lease, mempool>>, NEW p \in Procs, NEW step, NEW new,
           Moves(p, step, new), HoldOK(p)'
    PROVE  LeaseOK'
BY DEF LeaseOK, HoldOK, Holding, Moves

\* p leaves: it may leave a claim and its lease behind.
LEMMA LeaseLeft ==
    ASSUME ProcsTyped, LeaseOK, NEW p \in Procs, NEW result, Leave(p, result),
           p \in Workers \/ result \in Terminal,
           lease' = lease \/ (lease' = None /\ lease = p /\ mempool' = {}),
           mempool' = mempool \/ Orphan(p)
    PROVE  LeaseOK'
<1>1. PICK step : /\ step = IF p \in Workers THEN "idle" ELSE result
                  /\ Moves(p, step, Fresh)
  BY MoveForms
<1>2. mempool = {} => mempool' = {}
  BY DEF Orphan
<1>3. \A c1, c2 \in mempool' : c1 = c2
  BY DEF LeaseOK, Orphan
<1>4. HoldOK(p)'
  BY <1>1 DEF HoldOK, Holding, Moves, Fresh, Terminal
<1>5. ASSUME NEW q \in Procs \ {p}
      PROVE  HoldOK(q)'
  BY <1>1, <1>2 DEF HoldOK, Holding, LeaseOK, Moves
<1>6. mempool' # {} => lease' # None
  BY <1>2 DEF LeaseOK
<1> QED BY <1>3, <1>4, <1>5, <1>6 DEF LeaseOK

\* A step of the ledger resolves the one claim there is.
LEMMA LeaseResolved ==
    ASSUME LeaseOK, Inv, NEW claim \in mempool, mempool' = mempool \ {claim}, NEW result,
           Report(claim, result), lease' = lease, pc' = pc
    PROVE  LeaseOK'
<1>1. mempool' = {}
  BY DEF LeaseOK
<1>2. \A p \in Procs : local'[p].holds = local[p].holds
  BY DEF Report, Inv, Typed, ProcsTyped, Local
<1> QED BY <1>1, <1>2 DEF LeaseOK, HoldOK, Holding

\* The steps of a handler at which it has nothing to do with the lease.
Away == {"submitOpen", "pollOpen", "record", "lookup", "import", "create", "verify", "claim",
         "advance", "lease"}

\* p goes on, as holder or as the bystander it was.
LEMMA LeaseMoved ==
    ASSUME ProcsTyped, LeaseOK, UNCHANGED <<lease, mempool>>, NEW p \in Procs,
           NEW step, Goto(p, step),
           \/ local' = local
           \/ \E rec : local' = [local EXCEPT ![p].snap = rec]
           \/ \E n : local' = [local EXCEPT ![p].funding = n]
           \/ \E c : local' = [local EXCEPT ![p].cred = c]
           \/ \E rec, i : local' = [local EXCEPT ![p].snap = rec, ![p].idle = i],
           \/ step \in Away \cup {"finalize"} /\ pc[p] \in Away \cup {"idle"}
           \/ /\ pc[p] \in {"reload", "mark", "finalize"}
              /\ step \in {"abandon", "settle", "release"} => Holding(p)
              /\ step \in {"abandon", "settle", "release", "finalize"}
           \/ pc[p] = "await" /\ step = "mark" /\ local[p].outcome # "none"
    PROVE  LeaseOK'
<1>1. /\ local'[p].holds = local[p].holds
      /\ \A q \in Procs \ {p} : local'[q] = local[q] /\ pc'[q] = pc[q]
      /\ pc'[p] = step
  BY DEF Goto, ProcsTyped, Local
<1>2. HoldOK(p)
  BY DEF LeaseOK
<1>3. Moves(p, step, local'[p])
  BY <1>1 DEF Moves
<1>4. HoldOK(p)'
  BY <1>1, <1>2 DEF HoldOK, Holding, Away
<1> QED BY <1>3, <1>4, LeaseIdle

\* What a handler does before it has the lease, or after it reloaded.
LEMMA LeaseHandle ==
    ASSUME Inv, LeaseOK, NEW r \in Requests, Arrive(r) \/ Handle(r)
    PROVE  LeaseOK'
<1>1. r \in Procs /\ r \notin Workers /\ ProcsTyped /\ HoldOK(r)
  BY ProcsAssumption DEF Procs, Inv, Typed, LeaseOK
<1>2. CASE Abandon(r)
  <2>1. pc[r] = "abandon" /\ Leave(r, "refused") /\ lease = r /\ mempool = {} /\ mempool' = mempool
        /\ lease' = None
    BY <1>1, <1>2 DEF Abandon, HoldOK, Holding
  <2> QED BY <1>1, <2>1, LeaseLeft DEF Terminal
<1>3. CASE UNCHANGED <<lease, mempool>> /\ \E result \in Terminal : Leave(r, result)
  BY <1>1, <1>3, LeaseLeft
<1>4. CASE Arrive(r)
  <2>1. \E step \in Away : Goto(r, step)
    BY <1>4 DEF Arrive, Away
  <2> QED BY <1>1, <1>4, <2>1, LeaseMoved DEF Arrive
<1>5. ASSUME ~\E result \in Terminal : Leave(r, result), ~Abandon(r), Handle(r)
      PROVE  /\ UNCHANGED <<lease, mempool>>
             /\ \E step \in Away \cup {"finalize", "abandon", "settle", "release"} :
                  /\ Goto(r, step)
                  /\ \/ pc[r] \in Away /\ step \in Away \cup {"finalize"}
                     \/ pc[r] = "reload" /\ step \in {"abandon", "settle", "release", "finalize"}
                        /\ (step # "finalize" => local[r].holds)
                  /\ \/ local' = local
                     \/ \E rec : local' = [local EXCEPT ![r].snap = rec]
                     \/ \E n : local' = [local EXCEPT ![r].funding = n]
  <2>1. CASE SubmitOpen(r) \/ PollOpen(r) \/ Lookup(r) \/ Import(r) \/ Create(r) \/ Verify(r)
    BY <1>5, <2>1 DEF SubmitOpen, PollOpen, Lookup, Import, Create, Verify, Examine, Away, Terminal
  <2>2. CASE ClaimChallenge(r) \/ OpenRecord(r)
    BY <1>5, <2>2 DEF ClaimChallenge, OpenRecord, Answer, Away, Terminal
  <2>3. CASE AdvanceRecord(r)
    BY <1>5, <2>3 DEF AdvanceRecord, Answer, Away, Terminal
  <2>4. CASE Reload(r)
    BY <1>5, <2>4 DEF Reload, Away, Terminal
  <2> QED BY <1>5, <2>1, <2>2, <2>3, <2>4 DEF Handle
<1>6. CASE Handle(r) /\ ~Abandon(r) /\ ~\E result \in Terminal : Leave(r, result)
  <2>1. PICK step \in Away \cup {"finalize", "abandon", "settle", "release"} :
            /\ Goto(r, step)
            /\ \/ pc[r] \in Away /\ step \in Away \cup {"finalize"}
               \/ pc[r] = "reload" /\ step \in {"abandon", "settle", "release", "finalize"}
                  /\ (step # "finalize" => local[r].holds)
            /\ \/ local' = local
               \/ \E rec : local' = [local EXCEPT ![r].snap = rec]
               \/ \E n : local' = [local EXCEPT ![r].funding = n]
    BY <1>5, <1>6
  <2>2. UNCHANGED <<lease, mempool>>
    BY <1>5, <1>6
  <2>3. pc[r] = "reload" /\ step \in {"abandon", "settle", "release"} => Holding(r)
    BY <2>1 DEF Holding, Away
  <2> QED BY <1>1, <2>1, <2>2, <2>3, LeaseMoved
<1>7. CASE Handle(r) /\ ~Abandon(r) /\ \E result \in Terminal : Leave(r, result)
  <2>1. UNCHANGED <<lease, mempool>>
    BY <1>7 DEF Handle, SubmitOpen, PollOpen, Lookup, Import, Create, Verify, ClaimChallenge,
                OpenRecord, AdvanceRecord, Reload
  <2> QED BY <1>3, <1>7, <2>1
<1> QED BY <1>2, <1>4, <1>6, <1>7

\* Settlement, by a handler or a worker, and every way it breaks off.
LEMMA LeaseSettle ==
    ASSUME Inv, LeaseOK, NEW p \in Procs, Settle(p) \/ Fault(p) \/ (p \in Workers /\ Scan(p))
    PROVE  LeaseOK'
<1>1. ProcsTyped /\ HoldOK(p) /\ LocalOK(p) /\ p # None
  BY ProcsAssumption DEF Inv, Typed, LeaseOK
<1>2. CASE ClaimLease(p)
  <2>1. CASE lease = None
    <3>1. /\ lease' = p /\ local' = [local EXCEPT ![p].holds = TRUE] /\ mempool' = mempool
          /\ pc' = [pc EXCEPT ![p] = IF p \in Workers THEN "settle" ELSE "reload"]
      BY <1>2, <2>1 DEF ClaimLease, Goto
    <3>2. mempool = {} /\ \A q \in Procs : ~Holding(q)
      BY <2>1, ProcsAssumption DEF LeaseOK, HoldOK
    <3>3. HoldOK(p)'
      BY <1>1, <3>1, <3>2 DEF HoldOK, Holding, ProcsTyped, Local
    <3>4. ASSUME NEW q \in Procs \ {p} PROVE HoldOK(q)'
      BY <1>1, <3>1, <3>2 DEF LeaseOK, HoldOK, Holding, ProcsTyped
    <3> QED BY <1>1, <3>1, <3>2, <3>3, <3>4 DEF LeaseOK
  <2>2. CASE lease # None /\ p \in Workers
    BY <1>1, <1>2, <2>2, LeaseLeft DEF ClaimLease
  <2>3. CASE lease # None /\ p \notin Workers
    <3>1. UNCHANGED <<lease, mempool, local>> /\ Goto(p, "reload") /\ pc[p] = "lease"
      BY <1>2, <2>3 DEF ClaimLease
    <3>2. Moves(p, "reload", local[p])
      BY <1>1, <3>1, MoveForms
    <3>3. HoldOK(p)'
      BY <1>1, <3>1, <3>2 DEF HoldOK, Holding, Moves
    <3> QED BY <3>1, <3>2, <3>3, LeaseIdle
  <2> QED BY <2>1, <2>2, <2>3
<1>3. CASE SubmitClaim(p)
  <2>1. Holding(p) /\ lease = p /\ mempool = {} /\ local[p].outcome = "none"
    BY <1>1, <1>3 DEF SubmitClaim, HoldOK, Holding, LocalOK
  <2>2. /\ lease' = lease /\ local' = local /\ pc' = [pc EXCEPT ![p] = "await"]
        /\ \A c1, c2 \in mempool' : c1 = c2
    BY <1>3, <2>1 DEF SubmitClaim, Goto
  <2>3. HoldOK(p)'
    BY <1>1, <2>1, <2>2 DEF HoldOK, Holding, ProcsTyped
  <2>4. ASSUME NEW q \in Procs \ {p} PROVE HoldOK(q)'
    BY <1>1, <2>1, <2>2 DEF LeaseOK, HoldOK, Holding, ProcsTyped
  <2> QED BY <1>1, <2>1, <2>2, <2>3, <2>4 DEF LeaseOK
<1>4. CASE AwaitClaim(p)
  <2>1. CASE Leave(p, "refused")
    BY <1>1, <1>4, <2>1, LeaseLeft DEF AwaitClaim, Terminal
  <2>2. CASE local[p].outcome = "success" /\ Goto(p, "mark") /\ UNCHANGED local
    BY <1>1, <1>4, <2>2, LeaseMoved DEF AwaitClaim
  <2> QED BY <1>4, <2>1, <2>2 DEF AwaitClaim
<1>5. CASE MarkRedeemed(p)
  <2>1. CASE Leave(p, "refused")
    BY <1>1, <1>5, <2>1, LeaseLeft DEF MarkRedeemed, Terminal
  <2>2. CASE UNCHANGED local /\ \E step \in {"finalize", "release"} : Goto(p, step)
    <3>1. Holding(p) /\ pc[p] = "mark"
      BY <1>1, <1>5 DEF MarkRedeemed, HoldOK, Holding
    <3> QED BY <1>1, <1>5, <2>2, <3>1, LeaseMoved DEF MarkRedeemed
  <2> QED BY <1>5, <2>1, <2>2 DEF MarkRedeemed
<1>6. CASE ReleaseLease(p)
  <2>1. lease = p /\ mempool = {} /\ mempool' = mempool /\ lease' = None /\ pc[p] = "release"
    BY <1>1, <1>6 DEF ReleaseLease, HoldOK, Holding
  <2>2. CASE p \in Workers
    BY <1>1, <1>6, <2>1, <2>2, LeaseLeft DEF ReleaseLease
  <2>3. CASE p \notin Workers
    <3>1. Goto(p, "finalize") /\ local' = local
      BY <1>6, <2>3 DEF ReleaseLease
    <3>2. Moves(p, "finalize", local[p])
      BY <1>1, <3>1, MoveForms
    <3>3. HoldOK(p)'
      BY <1>1, <2>1, <2>3, <3>2 DEF HoldOK, Holding, Moves
    <3>4. ASSUME NEW q \in Procs \ {p} PROVE HoldOK(q)'
      BY <2>1, <3>2 DEF LeaseOK, HoldOK, Holding, Moves
    <3> QED BY <2>1, <3>3, <3>4 DEF LeaseOK
  <2> QED BY <2>2, <2>3
<1>7. CASE Finalize(p)
  <2>1. CASE p \in Workers /\ local[p].holds /\ Goto(p, "release") /\ UNCHANGED local
    BY <1>1, <1>7, <2>1, LeaseMoved DEF Finalize, Holding
  <2>2. CASE Answer(p, CanFinalize(record, Expected(p)))
    BY <1>1, <1>7, <2>2, LeaseLeft DEF Finalize, Answer, Terminal
  <2> QED BY <1>7, <2>1, <2>2 DEF Finalize
<1>8. CASE Fault(p)
  <2>1. lease' = lease /\ (mempool' = mempool \/ Orphan(p))
        /\ \E result \in Terminal : Leave(p, result)
    BY <1>8 DEF Fault, SettleFails, LoseContact, Crash, Terminal
  <2> QED BY <1>1, <2>1, LeaseLeft
<1>9. CASE p \in Workers /\ Scan(p)
  <2>1. pc[p] = "idle" /\ UNCHANGED <<lease, mempool>>
        /\ (\E step \in {"lease", "finalize"} : Goto(p, step))
        /\ \E rec, i : local' = [local EXCEPT ![p].snap = rec, ![p].idle = i]
    BY <1>9 DEF Scan
  <2> QED BY <1>1, <2>1, LeaseMoved DEF Away
<1> QED BY <1>2, <1>3, <1>4, <1>5, <1>6, <1>7, <1>8, <1>9 DEF Settle

\* Every step, when leases are long enough.
LEMMA LeaseStep ==
    ASSUME Inv, LeaseOK, LeaseOutlivesSettlement, [Next]_vars
    PROVE  LeaseOK'
<1>1. CASE UNCHANGED vars
  BY <1>1 DEF vars, LeaseOK, HoldOK, Holding
<1>2. CASE Ledger
  <2>1. ASSUME NEW claim \in mempool, ValidateClaim(claim) \/ RefuseClaim(claim) \/ DropClaim(claim)
        PROVE  LeaseOK'
    BY <2>1, LeaseResolved DEF ValidateClaim, RefuseClaim, DropClaim
  <2>2. CASE UNCHANGED <<lease, mempool, pc, local>>
    BY <2>2 DEF LeaseOK, HoldOK, Holding
  <2> QED BY <1>2, <2>1, <2>2 DEF Ledger, ValidateOpen, FailOpen, Fund, RunDown
<1>3. CASE ExpireLease
  <2>1. mempool = {} /\ ~Settling(lease) /\ lease' = None /\ UNCHANGED <<mempool, pc, local>>
    BY <1>3 DEF ExpireLease
  <2>2. \A p \in Procs : ~Holding(p)
    BY <2>1 DEF LeaseOK, HoldOK, Holding, Settling
  <2> QED BY <2>1, <2>2 DEF LeaseOK, HoldOK, Holding
<1> QED BY <1>1, <1>2, <1>3, LeaseHandle, LeaseSettle DEF Next, Procs

\* The second layer of the inductive invariant.
LEMMA LeaseInv == Spec => [](Inv /\ (LeaseOutlivesSettlement => LeaseOK))
<1>1. Init => LeaseOK
  BY DEF Init, LeaseOK, HoldOK, Holding, Fresh
<1>2. Inv /\ (LeaseOutlivesSettlement => LeaseOK) /\ [Next]_vars
        => (LeaseOutlivesSettlement => LeaseOK)'
  BY LeaseStep
<1> QED BY <1>1, <1>2, SpecInv, PTL DEF Spec

(***************************************************************************)
(* No second claim is submitted while the outcome of one is unresolved,    *)
(* whichever replicas close or redeem, crash or lose contact, as long as   *)
(* no lease expires under an unresolved claim (paychannel_store.py:816).   *)
(***************************************************************************)
THEOREM ClaimsOneAtATime == Spec => []OneClaimInFlight
<1>1. (LeaseOutlivesSettlement => LeaseOK) => OneClaimInFlight
  BY DEF LeaseOK, OneClaimInFlight
<1> QED BY <1>1, LeaseInv, PTL
=============================================================================
