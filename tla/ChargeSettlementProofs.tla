----------------------- MODULE ChargeSettlementProofs -----------------------
(***************************************************************************)
(* Proofs about ChargeSettlement, for any number of deliveries and         *)
(* payments, any lifetimes and timeouts, and any number of faults.         *)
(*                                                                         *)
(* All rests on one fact: a reservation is only made while the challenge   *)
(* lives, and a marker lasts longer than the challenge; so whoever finds   *)
(* the marker free finds nobody at work and nothing sold.                  *)
(***************************************************************************)
EXTENDS ChargeSettlement, TLAPS

\* From the reservation to the answer.
Holding(r) == pc[r] \in {"compare", "submit", "poll", "mark", "markShort", "release"}

Active(r) == Holding(r) \/ pc[r] = "granted"

\* A submitted payment that is in a ledger or can still get there.
Viable(t) == t \in submitted /\ payment[t] \notin {"failure", "dead"}

PaymentNamed ==
    \A r \in Deliveries : pc[r] \in Steps \cup {"granted"} => Tx(r) \in Payments

PullSubmits ==
    \A r \in Deliveries : pc[r] \in {"submit", "poll"} => local[r].mode = "pull"

Alone == \A r, q \in Deliveries : Active(r) /\ Active(q) => r = q

Lasting == marker.state # "free" => marker.until > Lifetime

Retained == \A r \in Deliveries : Holding(r) => local[r].retention + now > Lifetime

\* While the challenge lives the marker is its holder's.  It may already be
\* processed only if writing that raised.
Kept ==
    now < Lifetime =>
        \A r \in Deliveries :
            /\ Holding(r) => \/ marker.owner = r
                             \/ pc[r] = "release" /\ marker.state = "processed"
            /\ pc[r] = "granted" => marker.state = "processed"

Settled ==
    \A r \in Deliveries : pc[r] \in {"mark", "granted"} => payment[Tx(r)] = "success"

\* A viable payment is the only one, its marker stays, and nobody but the
\* handler that waits for it is at work.
Followed(t) ==
    /\ now < Lifetime => marker.state # "free"
    /\ \A u \in Payments : Viable(u) => u = t
    /\ \A r \in Deliveries :
          Holding(r) => /\ pc[r] \in {"poll", "mark", "markShort"}
                        /\ Tx(r) = t
                        /\ local[r].mode = "pull"

OneViable == RejectionIsFinal => \A t \in Payments : Viable(t) => Followed(t)

Inv ==
    /\ TypeOK
    /\ PaymentNamed
    /\ PullSubmits
    /\ Alone
    /\ Lasting
    /\ Retained
    /\ Kept
    /\ Settled
    /\ OneViable

-----------------------------------------------------------------------------
\* The answer or the next step of the delivery that moves.
Moved(r) ==
    /\ \E step \in {"idle"} \cup Steps \cup Answers : pc' = [pc EXCEPT ![r] = step]
    /\ local' \in [Deliveries -> Local]
    /\ \A q \in Deliveries \ {r} : local'[q] = local[q]

USE DeliveriesAssumption, TimesAssumption

LEMMA AnswerMoves ==
    ASSUME TypeOK, NEW r \in Deliveries, NEW answer \in Answers, Answer(r, answer)
    PROVE  /\ Moved(r)
           /\ pc'[r] = answer
           /\ answer \in {"granted", "pending"} => Tx(r)' = Tx(r)
<1>1. Fresh \in Local
  BY DEF Fresh, Local
<1>2. [local[r] EXCEPT !.retention = 0] \in Local
  BY DEF TypeOK, Local
<1>. QED
  BY <1>1, <1>2 DEF Moved, Answer, Goto, TypeOK, Tx, Local

LEMMA ContinueMoves ==
    ASSUME TypeOK, NEW r \in Deliveries, NEW step \in Steps, Continue(r, step)
    PROVE  Moved(r) /\ pc'[r] = step /\ local' = local
BY DEF Moved, Continue, Goto, TypeOK

LEMMA SubmittedPays ==
    ASSUME TypeOK, NEW t \in Payments, Submitted(t)
    PROVE  /\ payment' \in [Payments -> PaymentStates]
           /\ submitted' = submitted \cup {t}
           /\ \A u \in Payments \ {t} : payment'[u] = payment[u]
           /\ payment'[t] = IF payment[t] = "unsent" THEN "live" ELSE payment[t]
BY DEF TypeOK, Submitted, PaymentStates

LEMMA PendingMarkerTyped ==
    ASSUME TypeOK, NEW r \in Deliveries, now < Lifetime
    PROVE  /\ Retention \in Nat
           /\ Retention + now > Lifetime
           /\ PendingMarker(r, Retention) \in Marker
           /\ PendingMarker(r, Retention).state = "pending"
           /\ PendingMarker(r, Retention).owner = r
           /\ PendingMarker(r, Retention).until > Lifetime
<1>1. Retention \in Nat /\ Retention + now > Lifetime
  BY DEF TypeOK, Retention
<1>2. now + Maximum(Retention, PendingTTL) \in Nat
      /\ now + Maximum(Retention, PendingTTL) > Lifetime
  BY <1>1 DEF TypeOK, Maximum
<1>. QED
  BY <1>1, <1>2 DEF PendingMarker, Marker

LEMMA ProcessedMarkerTyped ==
    ASSUME TypeOK, NEW retention \in Nat
    PROVE  /\ ProcessedMarker(retention) \in Marker
           /\ ProcessedMarker(retention).state = "processed"
           /\ ProcessedMarker(retention).owner = None
           /\ retention + now > Lifetime => ProcessedMarker(retention).until > Lifetime
<1>1. now + Maximum(retention, ProcessedTTL) \in Nat
      /\ now + Maximum(retention, ProcessedTTL) >= retention + now
  BY DEF TypeOK, Maximum
<1>. QED
  BY <1>1 DEF TypeOK, ProcessedMarker, Marker

LEMMA ReleasedMarkerTyped ==
    ASSUME TypeOK, NEW r \in Deliveries
    PROVE  /\ ReleasedMarker(r) \in Marker
           /\ marker.owner = r => ReleasedMarker(r) = NoMarker
           /\ marker.owner # r => ReleasedMarker(r) = marker
           /\ NoMarker.state = "free" /\ NoMarker.owner = None
BY DEF TypeOK, ReleasedMarker, NoMarker, Marker

-----------------------------------------------------------------------------
(***************************************************************************)
(* Steps of a delivery that touch neither the marker nor a payment: if it  *)
(* holds the marker afterwards it held it before, for the same payment.    *)
(***************************************************************************)
Holds(r) ==
    Holding(r)' =>
        /\ Holding(r)
        /\ pc[r] # "release"
        /\ local'[r].retention = local[r].retention
        /\ local'[r].mode = local[r].mode
        /\ local'[r].tx = local[r].tx

LEMMA QuietStep ==
    ASSUME Inv, NEW r \in Deliveries, Moved(r), Holds(r),
           UNCHANGED <<now, marker, payment, submitted>>,
           faults' \in 0 .. MaxFaults,
           pc'[r] \in Steps => local'[r].tx \in Payments,
           pc'[r] # "granted",
           pc'[r] \in {"submit", "poll"} => local'[r].mode = "pull",
           pc'[r] = "mark" => payment[local'[r].tx] = "success",
           \A t \in Payments :
               RejectionIsFinal /\ Viable(t) /\ Holding(r)' =>
                   pc'[r] \in {"poll", "mark", "markShort"}
    PROVE  Inv'
<1>1. /\ pc' \in [Deliveries -> {"idle"} \cup Steps \cup Answers]
      /\ \A q \in Deliveries \ {r} : pc'[q] = pc[q] /\ local'[q] = local[q]
  BY DEF Moved, Inv, TypeOK
<1>2. TypeOK'
  BY <1>1 DEF Inv, TypeOK, Moved, Marker, PaymentStates
<1>3. PaymentNamed'
  BY <1>1 DEF Inv, PaymentNamed, Tx
<1>4. \A q \in Deliveries : Active(q)' => Active(q)
  BY <1>1 DEF Active, Holding, Holds
<1>5. Alone'
  BY <1>4 DEF Inv, Alone
<1>6. Lasting'
  BY DEF Inv, Lasting
<1>7. Retained'
  BY <1>1 DEF Inv, Retained, Holding, Holds
<1>8. Kept'
  BY <1>1 DEF Inv, Kept, Holding, Holds
<1>9. Settled'
  BY <1>1 DEF Inv, Settled, Tx
<1>10. OneViable'
  <2>. SUFFICES ASSUME RejectionIsFinal, NEW t \in Payments, Viable(t)'
                PROVE  Followed(t)'
    BY DEF OneViable
  <2>1. Viable(t) /\ Followed(t)
    BY DEF Inv, OneViable, Viable
  <2>2. ASSUME NEW q \in Deliveries, Holding(q)'
        PROVE  pc'[q] \in {"poll", "mark", "markShort"} /\ Tx(q)' = t /\ local'[q].mode = "pull"
    BY <1>1, <2>1, <2>2 DEF Holding, Holds, Followed, Tx
  <2>. QED
    BY <2>1, <2>2 DEF Followed, Viable
<1>11. PullSubmits'
  BY <1>1 DEF Inv, PullSubmits
<1>. QED
  BY <1>2, <1>3, <1>5, <1>6, <1>7, <1>8, <1>9, <1>10, <1>11 DEF Inv

LEMMA ArriveStep ==
    ASSUME Inv, NEW r \in Deliveries, Arrive(r)
    PROVE  Inv'
<1>1. PICK mode \in {"pull", "push"}, t \in Payments, matches \in BOOLEAN :
          /\ local' = [local EXCEPT ![r] = [Fresh EXCEPT !.mode = mode, !.tx = t, !.matches = matches]]
          /\ Goto(r, IF mode = "pull" THEN "freshness" ELSE "resolve")
  BY DEF Arrive
<1>2. [Fresh EXCEPT !.mode = mode, !.tx = t, !.matches = matches] \in Local
  BY DEF Fresh, Local
<1>3. local'[r].tx = t
  BY <1>1 DEF Inv, TypeOK, Fresh
<1>4. Moved(r) /\ pc'[r] \in {"freshness", "resolve"}
  BY <1>1, <1>2 DEF Inv, TypeOK, Moved, Goto, Steps
<1>. QED
  BY <1>3, <1>4, QuietStep DEF Arrive, Holds, Holding, Inv, TypeOK

LEMMA CheckStep ==
    ASSUME Inv, NEW r \in Deliveries, CheckFreshness(r) \/ Resolve(r)
    PROVE  Inv'
<1>1. Tx(r) \in Payments
  BY DEF CheckFreshness, Resolve, Inv, PaymentNamed, Steps
<1>2. CASE Continue(r, "reserve")
  <2>1. Moved(r) /\ pc'[r] = "reserve" /\ local' = local
    BY <1>2, ContinueMoves DEF Inv, Steps
  <2>. QED
    BY <1>1, <2>1, QuietStep DEF CheckFreshness, Resolve, Holds, Holding, Tx, Inv, TypeOK
<1>3. ASSUME NEW answer \in {"refused", "pending"}, Answer(r, answer)
      PROVE  Inv'
  <2>1. Moved(r) /\ pc'[r] = answer
    BY <1>3, AnswerMoves DEF Inv, Answers
  <2>. QED
    BY <2>1, QuietStep DEF CheckFreshness, Resolve, Holds, Holding, Inv, TypeOK, Steps
<1>. QED
  BY <1>2, <1>3 DEF CheckFreshness, Resolve

LEMMA CompareStep ==
    ASSUME Inv, NEW r \in Deliveries, Compare(r)
    PROVE  Inv'
<1>1. PICK step \in {"submit", "release", "mark"} :
          /\ Continue(r, step)
          /\ step = "mark" => payment[Tx(r)] = "success"
          /\ step = "submit" => local[r].mode = "pull"
  BY DEF Compare
<1>2. Moved(r) /\ pc'[r] = step /\ local' = local
  BY <1>1, ContinueMoves DEF Inv, Steps
<1>3. pc[r] = "compare" /\ Tx(r) \in Payments
  BY DEF Compare, Inv, PaymentNamed, Steps
<1>4. ASSUME RejectionIsFinal, NEW t \in Payments, Viable(t)
      PROVE  FALSE
  BY <1>3, <1>4 DEF Inv, OneViable, Followed, Holding
<1>5. Holds(r)
  BY <1>2, <1>3 DEF Holds, Holding
<1>. QED
  BY <1>1, <1>2, <1>3, <1>4, <1>5, QuietStep DEF Compare, Tx, Inv, TypeOK

LEMMA CrashStep ==
    ASSUME Inv, NEW r \in Deliveries, Crash(r)
    PROVE  Inv'
<1>1. Moved(r) /\ pc'[r] = "crashed"
  BY AnswerMoves DEF Crash, Inv, Answers
<1>2. faults' \in 0 .. MaxFaults
  BY DEF Crash, Inv, TypeOK
<1>. QED
  BY <1>1, <1>2, QuietStep DEF Crash, Holds, Holding, Steps

-----------------------------------------------------------------------------
(***************************************************************************)
(* Submission and polling.                                                 *)
(***************************************************************************)
\* Submission reached a ledger: there was no viable payment before, so this
\* is the only one, and r its only follower.
LEMMA SubmittedStep ==
    ASSUME Inv, NEW r \in Deliveries, pc[r] = "submit",
           Submitted(Tx(r)), UNCHANGED <<now, marker, faults>>,
           \/ Continue(r, "poll")
           \/ Ambiguous(r)
           \/ ~RejectionIsFinal /\ payment[Tx(r)] = "unsent" /\ Continue(r, "release")
    PROVE  Inv'
<1>1. TypeOK /\ Tx(r) \in Payments
  BY DEF Inv, PaymentNamed, Steps
<1>. local[r].mode = "pull"
  BY DEF Inv, PullSubmits
<1>2. /\ payment' \in [Payments -> PaymentStates]
      /\ submitted' = submitted \cup {Tx(r)}
      /\ \A u \in Payments \ {Tx(r)} : payment'[u] = payment[u]
      /\ payment'[Tx(r)] = IF payment[Tx(r)] = "unsent" THEN "live" ELSE payment[Tx(r)]
  BY <1>1, SubmittedPays
<1>3. /\ Moved(r)
      /\ pc'[r] \in {"poll", "pending", "release"}
      /\ pc'[r] = "release" => ~RejectionIsFinal
      /\ pc'[r] # "pending" => local' = local
  BY <1>1, AnswerMoves, ContinueMoves DEF Ambiguous, Answers, Steps
<1>4. /\ pc' \in [Deliveries -> {"idle"} \cup Steps \cup Answers]
      /\ \A q \in Deliveries \ {r} : pc'[q] = pc[q] /\ local'[q] = local[q]
  BY <1>1, <1>3 DEF Moved, TypeOK
<1>5. \A t \in Payments : RejectionIsFinal => ~Viable(t)
  BY DEF Inv, OneViable, Followed, Holding
<1>6. TypeOK'
  BY <1>1, <1>2, <1>3, <1>4 DEF TypeOK, Moved, Marker
<1>7. PaymentNamed'
  BY <1>1, <1>3, <1>4 DEF Inv, PaymentNamed, Tx, Steps
<1>8. \A q \in Deliveries : Active(q)' => Active(q)
  BY <1>3, <1>4 DEF Active, Holding
<1>9. Alone' /\ Lasting'
  BY <1>8 DEF Inv, Alone, Lasting
<1>10. Retained'
  BY <1>3, <1>4 DEF Inv, Retained, Holding
<1>11. Kept'
  BY <1>3, <1>4 DEF Inv, Kept, Holding
<1>12. Settled'
  BY <1>1, <1>2, <1>3, <1>4 DEF Inv, Settled, PaymentNamed, Tx, Steps
<1>13. OneViable'
  <2>. SUFFICES ASSUME RejectionIsFinal, NEW t \in Payments, Viable(t)'
                PROVE  Followed(t)'
    BY DEF OneViable
  <2>1. \A u \in Payments : Viable(u)' => u = Tx(r)
    BY <1>2, <1>5 DEF Viable
  <2>2. \A q \in Deliveries : Holding(q)' => q = r
    BY <1>8 DEF Active, Holding, Inv, Alone
  <2>3. now' < Lifetime => marker'.state # "free"
    BY <1>1 DEF Inv, Kept, Holding, TypeOK
  <2>. QED
    BY <1>3, <2>1, <2>2, <2>3 DEF Followed, Holding, Tx
<1>14. PullSubmits'
  BY <1>3, <1>4 DEF Inv, PullSubmits
<1>. QED
  BY <1>6, <1>7, <1>9, <1>10, <1>11, <1>12, <1>13, <1>14 DEF Inv

LEMMA SubmitStep ==
    ASSUME Inv, NEW r \in Deliveries, Submit(r)
    PROVE  Inv'
<1>1. pc[r] = "submit" /\ Tx(r) \in Payments /\ local[r].mode = "pull" /\ TypeOK
  BY DEF Submit, Inv, PaymentNamed, PullSubmits, Steps
<1>2. CASE UNCHANGED <<payment, submitted>>
  <2>1. PICK step \in {"poll", "release", "pending"} :
           IF step = "pending" THEN Answer(r, step) ELSE Continue(r, step)
    BY <1>1, <1>2 DEF Submit, Ambiguous
  <2>2. Moved(r) /\ pc'[r] = step /\ (step # "pending" => local' = local)
    BY <1>1, <2>1, AnswerMoves, ContinueMoves DEF Answers, Steps
  <2>3. \A t \in Payments : RejectionIsFinal => ~Viable(t)
    BY <1>1 DEF Inv, OneViable, Followed, Holding
  <2>4. Holds(r) /\ (pc'[r] \in Steps => local'[r].tx \in Payments)
    BY <1>1, <2>2 DEF Holds, Holding, Steps, Tx
  <2>. QED
    <3>1. /\ pc'[r] # "granted" /\ pc'[r] # "mark"
          /\ pc'[r] \in {"submit", "poll"} => local'[r].mode = "pull"
          /\ faults' \in 0 .. MaxFaults
          /\ UNCHANGED <<now, marker, payment, submitted>>
      BY <1>1, <1>2, <2>2 DEF Submit, TypeOK
    <3>. QED
      BY <2>2, <2>3, <2>4, <3>1, QuietStep
<1>3. CASE ~UNCHANGED <<payment, submitted>>
  BY <1>1, <1>3, SubmittedStep DEF Submit
<1>. QED
  BY <1>2, <1>3 DEF Submit

LEMMA PollStep ==
    ASSUME Inv, NEW r \in Deliveries, Poll(r)
    PROVE  Inv'
<1>1. pc[r] = "poll" /\ Tx(r) \in Payments /\ local[r].mode = "pull" /\ TypeOK
  BY DEF Poll, Inv, PaymentNamed, PullSubmits, Steps
<1>2. CASE Ambiguous(r)
  <2>1. Moved(r) /\ pc'[r] = "pending"
    BY <1>1, <1>2, AnswerMoves DEF Ambiguous, Answers
  <2>. QED
    BY <2>1, QuietStep DEF Poll, Holds, Holding, Inv, TypeOK, Steps
<1>3. CASE ~Ambiguous(r)
  <2>1. PICK step \in {"mark", "markShort", "release"} :
           /\ Continue(r, step)
           /\ step = "mark" => payment[Tx(r)] = "success"
           /\ step = "release" => payment[Tx(r)] = "failure"
    BY <1>3 DEF Poll
  <2>2. Moved(r) /\ pc'[r] = step /\ local' = local
    BY <1>1, <2>1, ContinueMoves DEF Steps
  <2>3. ASSUME RejectionIsFinal, NEW t \in Payments, Viable(t)
        PROVE  pc'[r] \in {"mark", "markShort"}
    BY <1>1, <2>1, <2>2, <2>3 DEF Inv, OneViable, Followed, Holding, Viable
  <2>4. Holds(r)
    BY <1>1, <2>2 DEF Holds, Holding
  <2>5. faults' \in 0 .. MaxFaults /\ UNCHANGED <<now, marker, payment, submitted>>
    BY <1>1 DEF Poll, TypeOK
  <2>. QED
    BY <1>1, <2>1, <2>2, <2>3, <2>4, <2>5, QuietStep DEF Tx
<1>. QED
  BY <1>2, <1>3

-----------------------------------------------------------------------------
(***************************************************************************)
(* Steps that write the marker.                                            *)
(***************************************************************************)
LEMMA ReserveStep ==
    ASSUME Inv, NEW r \in Deliveries, Reserve(r)
    PROVE  Inv'
<1>1. TypeOK /\ pc[r] = "reserve" /\ Tx(r) \in Payments
  BY DEF Reserve, Inv, PaymentNamed, Steps
<1>2. CASE now < Lifetime /\ marker.state = "free"
  <2>1. /\ marker' = PendingMarker(r, Retention)
        /\ local' = [local EXCEPT ![r].retention = Retention]
        /\ Goto(r, "compare")
        /\ UNCHANGED <<now, payment, submitted, faults>>
    BY <1>2 DEF Reserve
  <2>2. /\ Retention \in Nat
        /\ Retention + now > Lifetime
        /\ marker' \in Marker
        /\ marker'.state = "pending"
        /\ marker'.owner = r
        /\ marker'.until > Lifetime
    BY <1>1, <1>2, <2>1, PendingMarkerTyped
  <2>3. /\ pc' = [pc EXCEPT ![r] = "compare"]
        /\ local' \in [Deliveries -> Local]
        /\ local'[r].tx = local[r].tx
        /\ local'[r].retention = Retention
        /\ \A q \in Deliveries \ {r} : pc'[q] = pc[q] /\ local'[q] = local[q]
    BY <1>1, <2>1, <2>2 DEF Goto, TypeOK, Local
  <2>4. pc'[r] = "compare"
    BY <1>1, <2>3 DEF TypeOK
  <2>5. \A q \in Deliveries : ~Active(q)
    BY <1>1, <1>2 DEF Inv, Kept, Active, TypeOK
  <2>6. TypeOK'
    BY <1>1, <2>1, <2>2, <2>3 DEF TypeOK, Steps, Marker
  <2>7. PaymentNamed'
    BY <1>1, <2>3, <2>4 DEF Inv, PaymentNamed, Tx
  <2>8. PullSubmits'
    BY <2>3, <2>4 DEF Inv, PullSubmits
  <2>9. Alone'
    BY <2>3, <2>5 DEF Alone, Active, Holding
  <2>10. Lasting'
    BY <2>2 DEF Lasting
  <2>11. Retained'
    BY <2>1, <2>2, <2>3, <2>5 DEF Retained, Active, Holding
  <2>12. Kept'
    BY <2>2, <2>3, <2>4, <2>5 DEF Kept, Active, Holding
  <2>13. Settled'
    BY <2>1, <2>3, <2>4 DEF Inv, Settled, Tx
  <2>14. OneViable'
    BY <1>2, <2>1 DEF Inv, OneViable, Followed, Viable
  <2>. QED
    BY <2>6, <2>7, <2>8, <2>9, <2>10, <2>11, <2>12, <2>13, <2>14 DEF Inv
<1>3. CASE ~(now < Lifetime /\ marker.state = "free")
  <2>1. PICK answer \in {"replayed", "refused"} : Answer(r, answer)
    BY <1>3 DEF Reserve
  <2>2. Moved(r) /\ pc'[r] \in {"replayed", "refused"}
    BY <1>1, <2>1, AnswerMoves DEF Answers
  <2>3. UNCHANGED <<now, marker, payment, submitted>> /\ faults' \in 0 .. MaxFaults
    BY <1>1, <1>3 DEF Reserve, TypeOK
  <2>. QED
    BY <2>2, <2>3, QuietStep DEF Holds, Holding, Steps
<1>. QED
  BY <1>2, <1>3

\* The marker becomes processed, or writing it raised: then the handler gives
\* up, and in push mode goes on to release what may not be its own any more.
LEMMA MarkStep ==
    ASSUME Inv, NEW r \in Deliveries, MarkProcessed(r) \/ MarkFails(r)
    PROVE  Inv'
<1>1. TypeOK /\ pc[r] \in {"mark", "markShort"} /\ Tx(r) \in Payments /\ Holding(r)
  BY DEF MarkProcessed, MarkFails, Inv, PaymentNamed, Steps, Holding
<1>2. /\ marker' = marker \/ marker' = ProcessedMarker(local[r].retention)
      /\ UNCHANGED <<now, payment, submitted>>
      /\ faults' \in 0 .. MaxFaults
  BY <1>1 DEF MarkProcessed, MarkFails, TypeOK
<1>3. local[r].retention \in Nat /\ local[r].retention + now > Lifetime
  BY <1>1 DEF Inv, TypeOK, Local, Retained
<1>4. \/ marker' = marker
      \/ /\ marker' \in Marker
         /\ marker'.state = "processed"
         /\ marker'.owner = None
         /\ marker'.until > Lifetime
  BY <1>1, <1>2, <1>3, ProcessedMarkerTyped
<1>5. /\ Moved(r)
      /\ pc'[r] \in {"granted", "refused", "failed", "release"}
      /\ pc'[r] = "granted" => /\ pc[r] = "mark"
                               /\ marker' = ProcessedMarker(local[r].retention)
                               /\ Tx(r)' = Tx(r)
      /\ pc'[r] = "release" => local[r].mode = "push" /\ local' = local
  BY <1>1, AnswerMoves, ContinueMoves DEF MarkProcessed, MarkFails, Answers, Steps
<1>6. /\ pc' \in [Deliveries -> {"idle"} \cup Steps \cup Answers]
      /\ \A q \in Deliveries \ {r} : pc'[q] = pc[q] /\ local'[q] = local[q]
  BY <1>1, <1>5 DEF Moved, TypeOK
<1>7. \A q \in Deliveries : Active(q) => q = r
  BY <1>1 DEF Inv, Alone, Active
<1>8. \A q \in Deliveries : Active(q)' => q = r
  BY <1>6, <1>7 DEF Active, Holding
<1>9. TypeOK'
  BY <1>1, <1>2, <1>4, <1>5, <1>6 DEF TypeOK, Moved
<1>10. PaymentNamed'
  BY <1>1, <1>5, <1>6 DEF Inv, PaymentNamed, Tx, Steps
<1>11. PullSubmits'
  BY <1>5, <1>6 DEF Inv, PullSubmits
<1>12. Alone'
  BY <1>8 DEF Alone
<1>13. Lasting'
  BY <1>4 DEF Inv, Lasting
<1>14. Retained'
  BY <1>2, <1>3, <1>5, <1>8 DEF Retained, Active, Holding
<1>15. Kept'
  <2>1. now < Lifetime => marker.owner = r
    BY <1>1 DEF Inv, Kept
  <2>2. pc'[r] = "granted" => marker'.state = "processed"
    BY <1>3, <1>5, ProcessedMarkerTyped, <1>1
  <2>. QED
    BY <1>2, <1>4, <1>5, <1>8, <2>1, <2>2 DEF Kept, Active, Holding
<1>16. Settled'
  BY <1>2, <1>5, <1>8 DEF Inv, Settled, Active, Holding
<1>17. OneViable'
  <2>. SUFFICES ASSUME RejectionIsFinal, NEW t \in Payments, Viable(t)'
                PROVE  Followed(t)'
    BY DEF OneViable
  <2>1. Viable(t) /\ Followed(t)
    BY <1>2 DEF Inv, OneViable, Viable
  <2>2. local[r].mode = "pull"
    BY <1>1, <2>1 DEF Followed
  <2>. QED
    BY <1>2, <1>4, <1>5, <1>8, <2>1, <2>2 DEF Followed, Viable, Active, Holding
<1>. QED
  BY <1>9, <1>10, <1>11, <1>12, <1>13, <1>14, <1>15, <1>16, <1>17 DEF Inv

LEMMA ReleaseStep ==
    ASSUME Inv, NEW r \in Deliveries, ReleasePending(r)
    PROVE  Inv'
<1>1. TypeOK /\ pc[r] = "release" /\ Holding(r)
  BY DEF ReleasePending, Inv, Holding
<1>2. /\ marker' = NoMarker \/ marker' = marker
      /\ marker' \in Marker
      /\ NoMarker.state = "free" /\ NoMarker.owner = None
      /\ UNCHANGED <<now, payment, submitted, faults>>
  BY <1>1, ReleasedMarkerTyped DEF ReleasePending
<1>3. Moved(r) /\ pc'[r] = "refused"
  BY <1>1, AnswerMoves DEF ReleasePending, Answers
<1>4. /\ pc' \in [Deliveries -> {"idle"} \cup Steps \cup Answers]
      /\ \A q \in Deliveries \ {r} : pc'[q] = pc[q] /\ local'[q] = local[q]
  BY <1>1, <1>3 DEF Moved, TypeOK
<1>5. \A q \in Deliveries : ~Active(q)'
  BY <1>1, <1>3, <1>4 DEF Inv, Alone, Active, Holding
<1>6. \A t \in Payments : RejectionIsFinal => ~Viable(t)
  BY <1>1 DEF Inv, OneViable, Followed
<1>7. TypeOK'
  BY <1>1, <1>2, <1>3, <1>4 DEF TypeOK, Moved
<1>8. PaymentNamed'
  BY <1>3, <1>4 DEF Inv, PaymentNamed, Tx, Steps
<1>9. PullSubmits'
  BY <1>3, <1>4 DEF Inv, PullSubmits
<1>10. Lasting'
  BY <1>2 DEF Inv, Lasting
<1>11. Alone' /\ Retained' /\ Kept' /\ Settled'
  BY <1>5 DEF Alone, Retained, Kept, Settled, Active, Holding
<1>12. OneViable'
  BY <1>2, <1>6 DEF OneViable, Viable
<1>. QED
  BY <1>7, <1>8, <1>9, <1>10, <1>11, <1>12 DEF Inv

-----------------------------------------------------------------------------
(***************************************************************************)
(* Steps of the clock, the payers and the ledger.  A payment that was      *)
(* validated, or cannot be any more, stays so.                             *)
(***************************************************************************)
LEMMA WorldStep ==
    ASSUME Inv, Tick \/ \E t \in Payments : PayerSubmits(t) \/ ValidatePayment(t)
    PROVE  Inv'
<1>1. TypeOK
  BY DEF Inv
<1>2. /\ UNCHANGED <<pc, local, submitted, faults>>
      /\ now' \in 0 .. MaxTime /\ now' >= now
      /\ \/ marker' = marker
         \/ marker' = NoMarker /\ marker.state # "free" /\ marker.until <= now'
  <2>1. CASE Tick
    <3>1. now \in 0 .. MaxTime /\ now < MaxTime /\ now' = now + 1
      BY <1>1, <2>1 DEF Tick, TypeOK
    <3>. QED
      BY <2>1, <3>1 DEF Tick
  <2>2. CASE \E t \in Payments : PayerSubmits(t) \/ ValidatePayment(t)
    BY <1>1, <2>2 DEF PayerSubmits, ValidatePayment, TypeOK
  <2>. QED
    BY <2>1, <2>2
<1>3. /\ payment' \in [Payments -> PaymentStates]
      /\ \A t \in Payments :
            /\ payment[t] \in {"success", "failure"} => payment'[t] = payment[t]
            /\ payment[t] = "dead" => payment'[t] = "dead"
  BY <1>1 DEF Tick, PayerSubmits, ValidatePayment, TypeOK, PaymentStates, Final
<1>4. NoMarker \in Marker /\ NoMarker.state = "free" /\ NoMarker.owner = None
  BY DEF NoMarker, Marker
<1>5. now' < Lifetime => marker' = marker
  BY <1>1, <1>2 DEF Inv, Lasting, TypeOK, Marker
<1>6. TypeOK'
  BY <1>1, <1>2, <1>3, <1>4 DEF TypeOK
<1>7. PaymentNamed' /\ PullSubmits' /\ Alone'
  BY <1>2 DEF Inv, PaymentNamed, PullSubmits, Alone, Active, Holding, Tx
<1>8. Lasting'
  BY <1>2, <1>4 DEF Inv, Lasting
<1>9. Retained'
  BY <1>1, <1>2 DEF Inv, Retained, Holding, TypeOK, Local
<1>10. Kept'
  BY <1>1, <1>2, <1>5 DEF Inv, Kept, Holding, TypeOK
<1>11. Settled'
  BY <1>2, <1>3 DEF Inv, Settled, PaymentNamed, Tx, Steps
<1>12. OneViable'
  <2>. SUFFICES ASSUME RejectionIsFinal, NEW t \in Payments, Viable(t)'
                PROVE  Followed(t)'
    BY DEF OneViable
  <2>1. \A u \in Payments : Viable(u)' => Viable(u)
    BY <1>2, <1>3 DEF Viable
  <2>2. Followed(t)
    BY <2>1 DEF Inv, OneViable
  <2>. QED
    BY <1>1, <1>2, <1>5, <2>1, <2>2 DEF Followed, Holding, Tx, TypeOK
<1>. QED
  BY <1>6, <1>7, <1>8, <1>9, <1>10, <1>11, <1>12 DEF Inv

-----------------------------------------------------------------------------
LEMMA InitInv == Init => Inv
<1>. SUFFICES ASSUME Init PROVE Inv
  OBVIOUS
<1>1. NoMarker \in Marker /\ NoMarker.state = "free" /\ NoMarker.owner = None
  BY DEF NoMarker, Marker
<1>2. Fresh \in Local
  BY DEF Fresh, Local
<1>3. TypeOK
  BY <1>1, <1>2 DEF Init, TypeOK, PaymentStates
<1>4. \A r \in Deliveries : ~Active(r) /\ pc[r] = "idle"
  BY DEF Init, Active, Holding
<1>5. PaymentNamed /\ PullSubmits /\ Alone /\ Retained /\ Kept /\ Settled
  BY <1>4 DEF PaymentNamed, PullSubmits, Alone, Retained, Kept, Settled, Active, Steps
<1>6. Lasting /\ OneViable
  BY <1>1 DEF Init, Lasting, OneViable, Viable
<1>. QED
  BY <1>3, <1>5, <1>6 DEF Inv

LEMMA NextInv == Inv /\ [Next]_vars => Inv'
<1>. SUFFICES ASSUME Inv, [Next]_vars PROVE Inv'
  OBVIOUS
<1>1. CASE Tick \/ \E t \in Payments : PayerSubmits(t) \/ ValidatePayment(t)
  BY <1>1, WorldStep
<1>2. ASSUME NEW r \in Deliveries, Arrive(r) \/ Handle(r) \/ MarkFails(r) \/ Crash(r)
      PROVE  Inv'
  BY <1>2, ArriveStep, CheckStep, ReserveStep, CompareStep, SubmitStep, PollStep,
     MarkStep, ReleaseStep, CrashStep DEF Handle
<1>3. CASE UNCHANGED vars
  BY <1>3 DEF vars, Inv, TypeOK, PaymentNamed, PullSubmits, Alone, Lasting, Retained,
              Kept, Settled, OneViable, Viable, Followed, Active, Holding, Tx
<1>. QED
  BY <1>1, <1>2, <1>3 DEF Next

LEMMA Invariance == Spec => []Inv
BY InitInv, NextInv, PTL DEF Spec

(***************************************************************************)
(* Every variable keeps its type; a marker has an owner exactly while it   *)
(* is pending.                                                             *)
(***************************************************************************)
THEOREM ChargeTypeCorrect == Spec => []TypeOK
<1>1. Inv => TypeOK
  BY DEF Inv
<1>. QED
  BY <1>1, Invariance, PTL

(***************************************************************************)
(* Whatever deliveries of whatever payments race, at whatever time and     *)
(* with however many crashes and failing writes, charge grants one         *)
(* challenge once at most, on a payment validated in full.                 *)
(***************************************************************************)
THEOREM ChargeSoldOnce == Spec => []SoldOnce
<1>1. Inv => SoldOnce
  BY DEF Inv, Settled, Alone, Active, SoldOnce
<1>. QED
  BY <1>1, Invariance, PTL

(***************************************************************************)
(* Of all payments for one challenge the facilitator never has two         *)
(* validated, if the ledger's refusals are final.                          *)
(***************************************************************************)
THEOREM ChargePaidOnce == Spec => []PaidOnce
<1>1. Inv => PaidOnce
  BY DEF Inv, TypeOK, OneViable, Followed, Viable, PaidOnce
<1>. QED
  BY <1>1, Invariance, PTL

\* What one step may do to the marker.
MarkerStep ==
    /\ marker.state = "pending" /\ marker' # marker =>
          \/ pc[marker.owner] \in {"mark", "markShort", "release"}
          \/ now' >= Lifetime
    /\ marker.state = "processed" /\ marker' # marker => now' >= Lifetime

(***************************************************************************)
(* Although mark_processed overwrites without looking, no handler takes    *)
(* away another's reservation, and a processed marker outlives the         *)
(* challenge.                                                              *)
(***************************************************************************)
THEOREM ChargeMarkerKept == Spec => MarkerKept
<1>1. ASSUME Inv, [Next]_vars
      PROVE  MarkerStep
  <2>. TypeOK
    BY <1>1 DEF Inv
  <2>1. CASE Tick
    BY <1>1, <2>1 DEF Tick, Inv, Lasting, TypeOK, Marker, MarkerStep
  <2>2. ASSUME NEW r \in Deliveries, Reserve(r)
        PROVE  MarkerStep
    BY <2>2 DEF Reserve, MarkerStep
  <2>3. ASSUME NEW r \in Deliveries, MarkProcessed(r) \/ MarkFails(r)
        PROVE  MarkerStep
    <3>1. pc[r] \in {"mark", "markShort"} /\ now' = now
      BY <2>3 DEF MarkProcessed, MarkFails
    <3>2. now < Lifetime => marker.owner = r
      BY <1>1, <3>1 DEF Inv, Kept, Holding
    <3>. QED
      BY <3>1, <3>2 DEF TypeOK, MarkerStep
  <2>4. ASSUME NEW r \in Deliveries, ReleasePending(r)
        PROVE  MarkerStep
    BY <2>4, ReleasedMarkerTyped DEF ReleasePending, TypeOK, MarkerStep
  <2>5. ASSUME marker' = marker
        PROVE  MarkerStep
    BY <2>5 DEF MarkerStep
  <2>. QED
    BY <1>1, <2>1, <2>2, <2>3, <2>4, <2>5
       DEF Next, vars, Handle, PayerSubmits, ValidatePayment, Arrive, CheckFreshness,
           Resolve, Compare, Submit, Poll, Crash
<1>2. Inv /\ [Next]_vars => [MarkerStep]_vars
  BY <1>1
<1>. QED
  BY <1>2, Invariance, PTL DEF Spec, MarkerStep, MarkerKept

(***************************************************************************)
(* When charge releases the reservation of a payment it submitted, no      *)
(* ledger can take that payment any more, if the ledger's refusals are     *)
(* final.                                                                  *)
(***************************************************************************)
THEOREM ChargeRefusalDefinitive ==
    ASSUME RejectionIsFinal
    PROVE  Spec => RefusalIsDefinitive
<1>1. Inv /\ [Next]_vars =>
          [\A r \in Deliveries :
              /\ pc[r] = "release" /\ pc'[r] = "refused"
              /\ Tx(r) \in submitted
              => payment[Tx(r)] # "live"]_vars
  BY DEF Inv, TypeOK, OneViable, Followed, Viable, Holding
<1>. QED
  BY <1>1, Invariance, PTL DEF Spec, RefusalIsDefinitive
=============================================================================
