------------------------ MODULE FundingJournalProofs ------------------------
(***************************************************************************)
(* Proofs about FundingJournal, for any number of invocations, targets,    *)
(* transactions, ledgers, payments and faults.                             *)
(***************************************************************************)
EXTENDS FundingJournal, TLAPS

NeedsPending == {"lookup", "age", "submit", "await"}

NeedsNone == {"balance", "faucet", "request", "credited", "trust", "need",
              "journal", "final"}

\* The journal and the process agree on whether a transaction is pending.
PhaseOK ==
    \A r \in Runs :
        /\ pc[r] \in NeedsPending => Pending # 0
        /\ pc[r] \in NeedsNone => Pending = 0
        /\ pc[r] \in {"submit", "await"} => local[r].next # "none"

\* What is about to be signed, and what is signed, fits below the target, but
\* for what the answer it rests on hid and what has come in since.
RoomOK ==
    /\ \A r \in Runs :
          pc[r] = "journal" /\ local[r].kind = "convert"
          => rlusd + local[r].amount <= Target[r] + slack
    /\ Pending # 0 =>
          /\ tx[Pending].state # "none"
          /\ tx[Pending].kind = "convert" /\ ~Validated(Pending) =>
                /\ tx[Pending].run \in Runs
                /\ rlusd + tx[Pending].amount <= Target[tx[Pending].run] + slack

\* A complete search found nothing, after the last ledger it could be in.
AbsentOK ==
    \A r \in Runs :
        pc[r] = "age" /\ local[r].searched = "all" =>
            ledger >= tx[Pending].last /\ ~Validated(Pending)

Inv == TypeOK /\ LiveIsJournaled /\ NothingForgotten /\ PhaseOK /\ RoomOK /\ AbsentOK

LEMMA LocalTypes ==
    /\ Fresh \in Local
    /\ \A ledgers \in {"some", "all"} : Searched(ledgers) \in Local
    /\ \A kind \in {"trust", "convert"}, amount \in Nat : ToSign(kind, amount) \in Local
    /\ \A step \in {"balance", "need", "final"} : Then(step) \in Local
BY DEF Fresh, Local, Searched, ToSign, Then

\* TypeOK in two halves, for the provers' sake.
FlagsOK == line \in BOOLEAN /\ xrp \in BOOLEAN /\ drip \in BOOLEAN

RestOK ==
    /\ ledger \in 0 .. MaxLedger
    /\ tx \in [Txs -> Tx]
    /\ rlusd \in Nat
    /\ journal \in Journal
    /\ lock \in Runs \cup {None}
    /\ pc \in [Runs -> {"idle"} \cup Steps]
    /\ Locked
    /\ local \in [Runs -> Local]
    /\ asks \in Nat
    /\ uses \in Nat
    /\ slack \in Int
    /\ faults \in Nat

LEMMA TypeHalves == TypeOK <=> FlagsOK /\ RestOK
BY Zenon DEF TypeOK, FlagsOK, RestOK

LEMMA InitFlags == Init => FlagsOK
BY Zenon DEF Init, FlagsOK

LEMMA InitInv == Init => Inv
<1> SUFFICES ASSUME Init PROVE Inv
  OBVIOUS
<1> USE RunsAssumption, BoundsAssumption
<1>1. FlagsOK
  BY InitFlags
<1>2. tx \in [Txs -> Tx]
  BY DEF Init, NoTx, Tx
<1>3. journal \in Journal
  BY DEF Init, Journal
<1>4. RestOK
  BY <1>2, <1>3, LocalTypes DEF Init, RestOK, Locked
<1>5. LiveIsJournaled /\ NothingForgotten
  BY DEF Init, LiveIsJournaled, NothingForgotten, MayValidate, NoTx
<1>6. PhaseOK /\ RoomOK /\ AbsentOK
  BY DEF Init, PhaseOK, RoomOK, AbsentOK, NeedsPending, NeedsNone, Pending
<1> QED BY <1>1, <1>4, <1>5, <1>6, TypeHalves DEF Inv

-----------------------------------------------------------------------------
(***************************************************************************)
(* What the moves of a process do to its part of the state.                *)
(***************************************************************************)
LEMMA RecordRest ==
    ASSUME RestOK, Pending \in Txs, Record(Pending)
    PROVE  journal' \in Journal
<1>1. journal.done \cup {Pending} \in SUBSET Txs
  BY DEF RestOK, Journal
<1> QED BY <1>1 DEF RestOK, Journal, Record

LEMMA ContinueRest ==
    ASSUME RestOK, NEW r \in Runs, NEW step \in Steps, pc[r] # "idle", Continue(r, step)
    PROVE  pc' \in [Runs -> {"idle"} \cup Steps] /\ Locked' /\ UNCHANGED <<local, lock>>
BY DEF RestOK, Continue, Goto, Locked, Steps

LEMMA ExitRest ==
    ASSUME RestOK, NEW r \in Runs, pc[r] # "idle", Exit(r)
    PROVE  /\ pc' \in [Runs -> {"idle"} \cup Steps]
           /\ Locked'
           /\ local' \in [Runs -> Local]
           /\ lock' \in Runs \cup {None}
BY LocalTypes, RunsAssumption DEF RestOK, Exit, Goto, Locked, Steps

LEMMA GotoRest ==
    ASSUME RestOK, NEW r \in Runs, NEW step \in Steps, pc[r] # "idle", Goto(r, step),
           UNCHANGED lock
    PROVE  pc' \in [Runs -> {"idle"} \cup Steps] /\ Locked'
BY DEF RestOK, Goto, Locked, Steps

-----------------------------------------------------------------------------
(***************************************************************************)
(* Type correctness, one action at a time.                                 *)
(***************************************************************************)
LEMMA FlagsStep == FlagsOK /\ [Next]_vars => FlagsOK'
<1> SUFFICES ASSUME FlagsOK, [Next]_vars PROVE FlagsOK'
  OBVIOUS
<1> USE DEF FlagsOK
<1>1. CASE CloseLedger
  BY <1>1, Zenon DEF CloseLedger, Apply
<1>2. CASE Drip
  BY <1>2, Zenon DEF Drip
<1>3. CASE Spend
  BY <1>3, Zenon DEF Spend
<1>6. CASE Credit
  BY <1>6, Zenon DEF Credit
<1>4. ASSUME NEW r \in Runs, Begin(r) \/ Advance(r) \/ Crash(r) PROVE FlagsOK'
  BY <1>4, Zenon DEF Begin, Advance, Crash, Reconcile, Lookup, Age, Submit, Await, Sign,
     Balance, Faucet, Request, Credited, TrustLine, Need, FinalCheck, world
<1>5. CASE UNCHANGED vars
  BY <1>5, Zenon DEF vars, world
<1> QED BY <1>1, <1>2, <1>3, <1>4, <1>5, <1>6 DEF Next

LEMMA RestStep == RestOK /\ PhaseOK /\ [Next]_vars => RestOK'
<1> SUFFICES ASSUME RestOK, PhaseOK, [Next]_vars PROVE RestOK'
  OBVIOUS
<1> USE RunsAssumption, BoundsAssumption
<1>1. CASE CloseLedger
  <2>1. CASE UNCHANGED <<tx, rlusd, line, xrp>>
    BY <1>1, <2>1 DEF CloseLedger, RestOK, Locked
  <2>2. ASSUME NEW t \in Txs, NEW result \in {"success", "failure"}, Apply(t, result)
        PROVE  RestOK'
    <3>1. tx' \in [Txs -> Tx]
      BY <2>2 DEF Apply, RestOK, Tx
    <3>2. rlusd' \in Nat
      BY <2>2 DEF Apply, RestOK, Tx
    <3> QED BY <1>1, <3>1, <3>2 DEF CloseLedger, RestOK, Locked
  <2> QED BY <1>1, <2>1, <2>2 DEF CloseLedger
<1>2. CASE Drip
  BY <1>2 DEF Drip, RestOK, Locked
<1>3. CASE Spend
  BY <1>3 DEF Spend, RestOK, Locked
<1>19. CASE Credit
  BY <1>19 DEF Credit, RestOK, Locked
<1>4. ASSUME NEW r \in Runs, Begin(r) PROVE RestOK'
  BY <1>4 DEF Begin, Unlocked, Goto, world, Steps, RestOK, Locked
<1>5. ASSUME NEW r \in Runs, NEW searched \in {"some", "all"}, Lookup(r, searched) PROVE RestOK'
  <2>1. pc[r] # "idle" /\ UNCHANGED <<world, tx>> /\ Pending \in Txs
    BY <1>5 DEF Lookup, PhaseOK, NeedsPending, RestOK, Journal, Pending
  <2>2. CASE Record(Pending) /\ Continue(r, "balance")
    <3>1. journal' \in Journal
      BY <2>1, <2>2, RecordRest
    <3> QED BY <2>1, <2>2, <3>1, ContinueRest DEF world, RestOK, Steps
  <2>3. CASE ClearPending /\ Exit(r)
    <3>1. journal' \in Journal
      BY <2>1, <2>3 DEF ClearPending, RestOK, Journal
    <3> QED BY <2>1, <2>3, <3>1, ExitRest DEF world, RestOK
  <2>4. CASE /\ local' = [local EXCEPT ![r] = Searched(searched)]
             /\ Goto(r, "age")
             /\ UNCHANGED <<journal, lock>>
    <3>1. pc' \in [Runs -> {"idle"} \cup Steps] /\ Locked'
      BY <2>1, <2>4, GotoRest DEF Steps
    <3>5. local' \in [Runs -> Local]
      BY <2>1, <2>4, LocalTypes DEF RestOK
    <3> QED BY <2>1, <2>4, <3>1, <3>5 DEF world, RestOK
  <2> QED BY <1>5, <2>2, <2>3, <2>4 DEF Lookup
<1>6. ASSUME NEW r \in Runs, Age(r) PROVE RestOK'
  <2>1. pc[r] # "idle" /\ UNCHANGED <<world, tx>>
    BY <1>6 DEF Age
  <2>2. CASE ClearPending /\ Continue(r, "balance")
    <3>1. journal' \in Journal
      BY <2>2 DEF ClearPending, RestOK, Journal
    <3> QED BY <2>1, <2>2, <3>1, ContinueRest DEF world, RestOK, Steps
  <2>3. CASE Exit(r) /\ UNCHANGED journal
    BY <2>1, <2>3, ExitRest DEF world, RestOK
  <2>4. CASE /\ local' = [local EXCEPT ![r] = Then("balance")]
             /\ Goto(r, "submit")
             /\ UNCHANGED <<journal, lock>>
    <3>1. pc' \in [Runs -> {"idle"} \cup Steps] /\ Locked'
      BY <2>1, <2>4, GotoRest DEF Steps
    <3>5. local' \in [Runs -> Local]
      BY <2>1, <2>4, LocalTypes DEF RestOK
    <3> QED BY <2>1, <2>4, <3>1, <3>5 DEF world, RestOK
  <2> QED BY <1>6, <2>2, <2>3, <2>4 DEF Age
<1>7. ASSUME NEW r \in Runs, Submit(r) PROVE RestOK'
  <2>1. Pending \in Txs
    BY <1>7 DEF Submit, PhaseOK, NeedsPending, RestOK, Journal, Pending
  <2>2. tx' \in [Txs -> Tx]
    BY <1>7, <2>1 DEF Submit, RestOK, Tx
  <2> QED BY <1>7, <2>2, ContinueRest DEF Submit, world, RestOK, Steps
<1>8. ASSUME NEW r \in Runs, Await(r) PROVE RestOK'
  <2>1. pc[r] # "idle" /\ UNCHANGED <<world, tx>> /\ Pending \in Txs
    BY <1>8 DEF Await, PhaseOK, NeedsPending, RestOK, Journal, Pending
  <2>2. CASE /\ Record(Pending)
             /\ Goto(r, local[r].next)
             /\ local' = [local EXCEPT ![r] = Fresh]
             /\ UNCHANGED lock
    <3>1. journal' \in Journal
      BY <2>1, <2>2, RecordRest
    <3>2. local[r].next \in Steps
      BY <1>8 DEF Await, PhaseOK, RestOK, Local, Steps
    <3>3. pc' \in [Runs -> {"idle"} \cup Steps] /\ Locked'
      BY <2>1, <2>2, <3>2, GotoRest
    <3>7. local' \in [Runs -> Local]
      BY <2>1, <2>2, <3>2, LocalTypes DEF RestOK
    <3> QED BY <2>1, <2>2, <3>1, <3>3, <3>7 DEF world, RestOK
  <2>3. CASE ClearPending /\ Exit(r)
    <3>1. journal' \in Journal
      BY <2>1, <2>3 DEF ClearPending, RestOK, Journal
    <3> QED BY <2>1, <2>3, <3>1, ExitRest DEF world, RestOK
  <2>4. CASE Uncertain(r)
    BY <2>1, <2>4, ExitRest DEF Uncertain, world, RestOK
  <2> QED BY <1>8, <2>2, <2>3, <2>4 DEF Await
<1>9. ASSUME NEW r \in Runs, Sign(r) PROVE RestOK'
  <2>1. pc[r] # "idle" /\ UNCHANGED world
    BY <1>9 DEF Sign
  <2>2. ASSUME NEW t \in Txs,
               tx' = [tx EXCEPT ![t] = Signed(r)],
               journal' = [journal EXCEPT !.pending = t],
               NEW step \in {"need", "final"},
               local' = [local EXCEPT ![r] = Then(step)],
               Goto(r, "submit"),
               UNCHANGED lock
        PROVE  RestOK'
    <3>1. Signed(r) \in Tx
      BY DEF Signed, RestOK, Local, Tx
    <3>2. tx' \in [Txs -> Tx]
      BY <2>2, <3>1 DEF RestOK
    <3>3. journal' \in Journal
      BY <2>2 DEF RestOK, Journal
    <3>4. pc' \in [Runs -> {"idle"} \cup Steps] /\ Locked'
      BY <2>1, <2>2, GotoRest DEF Steps
    <3>8. local' \in [Runs -> Local]
      BY <2>1, <2>2, LocalTypes DEF RestOK
    <3> QED BY <2>1, <2>2, <3>2, <3>3, <3>4, <3>8 DEF world, RestOK
  <2>3. CASE Exit(r) /\ UNCHANGED <<tx, journal>>
    BY <2>1, <2>3, ExitRest DEF world, RestOK
  <2> QED BY <1>9, <2>2, <2>3 DEF Sign
<1>10. ASSUME NEW r \in Runs, Balance(r) PROVE RestOK'
  <2>1. CASE Exit(r)
    BY <1>10, <2>1, ExitRest DEF Balance, world, RestOK
  <2>2. CASE Continue(r, "faucet")
    BY <1>10, <2>2, ContinueRest DEF Balance, world, Steps, RestOK
  <2> QED BY <1>10, <2>1, <2>2 DEF Balance
<1>11. ASSUME NEW r \in Runs, Faucet(r) PROVE RestOK'
  <2>1. Attempted \in Journal
    BY DEF Attempted, RestOK, Journal
  <2> QED BY <1>11, <2>1, ExitRest, ContinueRest DEF Faucet, world, Steps, RestOK
<1>12. ASSUME NEW r \in Runs, Request(r) PROVE RestOK'
  BY <1>12, ContinueRest DEF Request, Steps, RestOK
<1>13. ASSUME NEW r \in Runs, Credited(r) PROVE RestOK'
  BY <1>13, ExitRest, ContinueRest DEF Credited, world, Steps, RestOK
<1>14. ASSUME NEW r \in Runs, TrustLine(r) PROVE RestOK'
  <2>1. CASE Continue(r, "need")
    BY <1>14, <2>1, ContinueRest DEF TrustLine, world, Steps, RestOK
  <2>2. CASE /\ local' = [local EXCEPT ![r] = ToSign("trust", 0)]
             /\ Goto(r, "journal")
             /\ UNCHANGED lock
    <3>1. pc' \in [Runs -> {"idle"} \cup Steps] /\ Locked'
      BY <1>14, <2>2, GotoRest DEF TrustLine, Steps
    <3>5. local' \in [Runs -> Local]
      BY <1>14, <2>2, LocalTypes DEF RestOK
    <3> QED BY <1>14, <2>2, <3>1, <3>5 DEF TrustLine, world, RestOK
  <2> QED BY <1>14, <2>1, <2>2 DEF TrustLine
<1>15. ASSUME NEW r \in Runs, Need(r) PROVE RestOK'
  <2>1. PICK answer \in Answers : Reading(r, answer)
    BY <1>15 DEF Need
  <2>2. answer \in Nat /\ slack' \in Int /\ pc[r] # "idle"
    BY <1>15, <2>1 DEF Need, Reading, Answers, RestOK
  <2>3. CASE Continue(r, "final") \/ Exit(r)
    BY <1>15, <2>2, <2>3, ContinueRest, ExitRest DEF Need, Steps, RestOK
  <2>4. CASE /\ answer < Target[r]
             /\ local' = [local EXCEPT ![r] = ToSign("convert", Needed(r, answer))]
             /\ Goto(r, "journal")
             /\ UNCHANGED lock
    <3>1. Needed(r, answer) \in Nat
      BY <2>2, <2>4 DEF Needed
    <3>2. pc' \in [Runs -> {"idle"} \cup Steps] /\ Locked'
      BY <2>2, <2>4, GotoRest DEF Steps
    <3>3. local' \in [Runs -> Local]
      BY <2>4, <3>1, LocalTypes DEF RestOK
    <3> QED BY <1>15, <2>2, <2>4, <3>2, <3>3 DEF Need, RestOK
  <2> QED BY <2>1, <2>3, <2>4 DEF Reading
<1>16. ASSUME NEW r \in Runs, FinalCheck(r) PROVE RestOK'
  BY <1>16, ExitRest DEF FinalCheck, world, RestOK
<1>17. ASSUME NEW r \in Runs, Crash(r) PROVE RestOK'
  BY <1>17, ExitRest DEF Crash, Steps, RestOK
<1>18. CASE UNCHANGED vars
  BY <1>18 DEF vars, world, RestOK, Locked
<1> QED
  BY <1>1, <1>2, <1>3, <1>4, <1>5, <1>6, <1>7, <1>8, <1>9, <1>10, <1>11, <1>12, <1>13,
     <1>14, <1>15, <1>16, <1>17, <1>18, <1>19 DEF Next, Advance, Reconcile

-----------------------------------------------------------------------------
(***************************************************************************)
(* The safety invariants.  Only the process that holds the lock moves, and *)
(* only the ledger changes what is pending without it.                     *)
(***************************************************************************)
LEMMA Alone ==
    ASSUME RestOK, NEW r \in Runs, pc[r] # "idle"
    PROVE  \A q \in Runs : q # r => pc[q] = "idle"
BY DEF RestOK, Locked

LEMMA PendingType == RestOK => Pending \in {0} \cup Txs /\ 0 \notin Txs
BY BoundsAssumption DEF RestOK, Journal, Pending, Txs

\* A process that moves on without touching transactions.
Journaled == LiveIsJournaled /\ NothingForgotten

LEMMA JournaledKept ==
    Journaled /\ UNCHANGED <<tx, ledger>> /\ journal'.pending = journal.pending
    /\ journal'.done = journal.done => Journaled'
BY DEF Journaled, LiveIsJournaled, NothingForgotten, MayValidate, Pending

LEMMA JournaledStep ==
    RestOK /\ Journaled /\ PhaseOK /\ AbsentOK /\ [Next]_vars => Journaled'
<1> SUFFICES ASSUME RestOK, Journaled, PhaseOK, AbsentOK, [Next]_vars PROVE Journaled'
  OBVIOUS
<1> USE PendingType
<1>1. CASE CloseLedger
  <2>1. CASE UNCHANGED tx
    BY <1>1, <2>1, BoundsAssumption DEF CloseLedger, Journaled, LiveIsJournaled, NothingForgotten, MayValidate,
       RestOK, Tx
  <2>2. ASSUME NEW t \in Txs, NEW result \in {"success", "failure"}, MayValidate(t),
               Apply(t, result)
        PROVE  Journaled'
    BY <1>1, <2>2, BoundsAssumption DEF CloseLedger, Apply, Journaled, LiveIsJournaled, NothingForgotten,
       MayValidate, RestOK, Tx
  <2> QED BY <1>1, <2>1, <2>2 DEF CloseLedger
<1>2. CASE Drip
  BY <1>2, JournaledKept DEF Drip
<1>3. CASE Spend
  BY <1>3, JournaledKept DEF Spend
<1>19. CASE Credit
  BY <1>19, JournaledKept DEF Credit
<1>4. ASSUME NEW r \in Runs, Begin(r) PROVE Journaled'
  BY <1>4, JournaledKept DEF Begin, world
<1>5. ASSUME NEW r \in Runs, NEW searched \in {"some", "all"}, Lookup(r, searched)
      PROVE  Journaled'
  BY <1>5 DEF Lookup, Record, ClearPending, Journaled, LiveIsJournaled, NothingForgotten,
     MayValidate, Pending, world, RestOK, Journal
<1>6. ASSUME NEW r \in Runs, Age(r) PROVE Journaled'
  <2>1. pc[r] = "age" /\ UNCHANGED <<tx, ledger>>
    BY <1>6 DEF Age, world
  <2>2. CASE ledger >= tx[Pending].last /\ Absent(r) /\ ClearPending
    <3>1. ~Validated(Pending) /\ ~MayValidate(Pending)
      <4>1. ~Validated(Pending)
        BY <2>1, <2>2 DEF AbsentOK, Absent
      <4>2. Pending \in Txs
        BY <2>1 DEF PhaseOK, NeedsPending
      <4>3. tx[Pending].last \in Nat /\ ledger \in Nat
        BY <4>2, BoundsAssumption DEF RestOK, Tx
      <4> QED BY <2>2, <4>1, <4>3 DEF MayValidate
    <3>2. journal'.pending = 0 /\ journal'.done = journal.done
      BY <2>2 DEF ClearPending, RestOK, Journal
    <3>3. \A t \in Txs : ~MayValidate(t)
      BY <3>1 DEF Journaled, LiveIsJournaled, Pending
    <3>4. \A t \in Txs : tx[t].state = "success" => t \in journal.done
      BY <3>1 DEF Journaled, NothingForgotten, Validated, Pending
    <3> QED BY <2>1, <3>2, <3>3, <3>4 DEF Journaled, LiveIsJournaled, NothingForgotten,
            MayValidate
  <2>3. CASE UNCHANGED journal
    BY <2>1, <2>3, JournaledKept
  <2> QED BY <1>6, <2>2, <2>3 DEF Age
<1>7. ASSUME NEW r \in Runs, Submit(r) PROVE Journaled'
  BY <1>7 DEF Submit, PhaseOK, NeedsPending, Journaled, LiveIsJournaled, NothingForgotten,
     MayValidate, Pending, world, RestOK, Tx
<1>8. ASSUME NEW r \in Runs, Await(r) PROVE Journaled'
  BY <1>8 DEF Await, Uncertain, Record, ClearPending, Journaled, LiveIsJournaled,
     NothingForgotten, MayValidate, Pending, world, RestOK, Journal
<1>9. ASSUME NEW r \in Runs, Sign(r) PROVE Journaled'
  BY <1>9 DEF Sign, Signed, Unsigned, Journaled, LiveIsJournaled, NothingForgotten,
     MayValidate, Pending, world, RestOK, Journal, Tx
<1>10. ASSUME NEW r \in Runs, Balance(r) PROVE Journaled'
  BY <1>10, JournaledKept DEF Balance, world
<1>11. ASSUME NEW r \in Runs, Faucet(r) PROVE Journaled'
  BY <1>11, JournaledKept DEF Faucet, Attempted, world, RestOK, Journal
<1>12. ASSUME NEW r \in Runs, Request(r) PROVE Journaled'
  BY <1>12, JournaledKept DEF Request
<1>13. ASSUME NEW r \in Runs, Credited(r) PROVE Journaled'
  BY <1>13, JournaledKept DEF Credited, world
<1>14. ASSUME NEW r \in Runs, TrustLine(r) PROVE Journaled'
  BY <1>14, JournaledKept DEF TrustLine, world
<1>15. ASSUME NEW r \in Runs, Need(r) PROVE Journaled'
  BY <1>15, JournaledKept DEF Need
<1>16. ASSUME NEW r \in Runs, FinalCheck(r) PROVE Journaled'
  BY <1>16, JournaledKept DEF FinalCheck, world
<1>17. ASSUME NEW r \in Runs, Crash(r) PROVE Journaled'
  BY <1>17, JournaledKept DEF Crash
<1>18. CASE UNCHANGED vars
  BY <1>18, JournaledKept DEF vars, world
<1> QED
  BY <1>1, <1>2, <1>3, <1>4, <1>5, <1>6, <1>7, <1>8, <1>9, <1>10, <1>11, <1>12, <1>13,
     <1>14, <1>15, <1>16, <1>17, <1>18, <1>19 DEF Next, Advance, Reconcile

-----------------------------------------------------------------------------
LEMMA Moved ==
    ASSUME RestOK, NEW r \in Runs, pc[r] # "idle", NEW step, Goto(r, step)
    PROVE  pc'[r] = step /\ \A q \in Runs : q # r => pc'[q] = "idle"
BY Alone DEF Goto, RestOK

LEMMA PhaseKept ==
    ASSUME RestOK, NEW r \in Runs, pc[r] # "idle", NEW step, Goto(r, step),
           step \in NeedsPending => Pending' # 0,
           step \in NeedsNone => Pending' = 0,
           step \in {"submit", "await"} => local'[r].next # "none"
    PROVE  PhaseOK'
BY Moved DEF PhaseOK, NeedsPending, NeedsNone

LEMMA RoomKept ==
    ASSUME RestOK, RoomOK, NEW r \in Runs, pc[r] # "idle", NEW step, Goto(r, step),
           step # "journal", UNCHANGED <<tx, rlusd>>, Pending' \in {0, Pending},
           UNCHANGED slack \/ Pending = 0
    PROVE  RoomOK'
<1>1. \A q \in Runs : pc'[q] # "journal"
  BY Moved
<1> QED BY <1>1 DEF RoomOK, Validated

LEMMA PhaseStep == RestOK /\ PhaseOK /\ [Next]_vars => PhaseOK'
<1> SUFFICES ASSUME RestOK, PhaseOK, [Next]_vars PROVE PhaseOK'
  OBVIOUS
<1> USE PendingType, Alone DEF PhaseOK, NeedsPending, NeedsNone
<1>1. CASE CloseLedger \/ Drip \/ Spend \/ Credit
  BY <1>1 DEF CloseLedger, Drip, Spend, Credit, Pending
<1>2. ASSUME NEW r \in Runs, Begin(r) PROVE PhaseOK'
  BY <1>2 DEF Begin, Goto, Pending, RestOK, Locked, Unlocked
<1>3. ASSUME NEW r \in Runs, NEW searched \in {"some", "all"}, Lookup(r, searched)
      PROVE  PhaseOK'
  <2>1. pc[r] = "lookup"
    BY <1>3 DEF Lookup
  <2>2. CASE Record(Pending) /\ Continue(r, "balance")
    BY <2>1, <2>2, PhaseKept DEF Record, Continue, Pending, RestOK, Journal
  <2>3. CASE ClearPending /\ Exit(r)
    BY <2>1, <2>3, PhaseKept DEF Exit
  <2>4. CASE Goto(r, "age") /\ UNCHANGED journal
    BY <2>1, <2>4, PhaseKept DEF Pending
  <2> QED BY <1>3, <2>2, <2>3, <2>4 DEF Lookup
<1>4. ASSUME NEW r \in Runs, Age(r) PROVE PhaseOK'
  BY <1>4 DEF Age, ClearPending, Continue, Exit, Goto, Then, Fresh, Pending, RestOK, Journal
<1>5. ASSUME NEW r \in Runs, Submit(r) PROVE PhaseOK'
  BY <1>5 DEF Submit, Continue, Goto, Pending, RestOK
<1>6. ASSUME NEW r \in Runs, Await(r) PROVE PhaseOK'
  <2>1. local[r].next \in {"balance", "need", "final"}
    BY <1>6 DEF Await, RestOK, Local
  <2>2. pc[r] = "await"
    BY <1>6 DEF Await
  <2>3. CASE Record(Pending) /\ Goto(r, local[r].next)
    BY <2>1, <2>2, <2>3, PhaseKept DEF Record, Pending, RestOK, Journal
  <2>4. CASE Exit(r)
    BY <2>2, <2>4, PhaseKept DEF Exit
  <2> QED BY <1>6, <2>3, <2>4 DEF Await, Uncertain
<1>7. ASSUME NEW r \in Runs, Sign(r) PROVE PhaseOK'
  BY <1>7 DEF Sign, Exit, Goto, Then, Fresh, Pending, RestOK, Journal
<1>8. ASSUME NEW r \in Runs,
             Balance(r) \/ Request(r) \/ Credited(r) \/ TrustLine(r) \/ Need(r)
             \/ FinalCheck(r)
      PROVE  PhaseOK'
  <2>1. pc[r] # "idle" /\ Pending' = 0
    BY <1>8 DEF Balance, Request, Credited, TrustLine, Need, FinalCheck, Pending
  <2>2. PICK step \in {"idle"} \cup NeedsNone : Goto(r, step)
    BY <1>8 DEF Balance, Request, Credited, TrustLine, Need, Reading, FinalCheck, Continue,
       Exit
  <2> QED BY <2>1, <2>2, PhaseKept
<1>9. ASSUME NEW r \in Runs, Faucet(r) PROVE PhaseOK'
  BY <1>9 DEF Faucet, Attempted, Continue, Exit, Goto, Pending, RestOK, Journal
<1>10. ASSUME NEW r \in Runs, Crash(r) PROVE PhaseOK'
  BY <1>10 DEF Crash, Exit, Goto, Pending, RestOK, Steps
<1>11. CASE UNCHANGED vars
  BY <1>11 DEF vars, Pending
<1> QED
  BY <1>1, <1>2, <1>3, <1>4, <1>5, <1>6, <1>7, <1>8, <1>9, <1>10, <1>11
     DEF Next, Advance, Reconcile

LEMMA AbsentStep == RestOK /\ PhaseOK /\ AbsentOK /\ [Next]_vars => AbsentOK'
<1> SUFFICES ASSUME RestOK, PhaseOK, AbsentOK, [Next]_vars PROVE AbsentOK'
  OBVIOUS
<1> USE PendingType, Alone DEF AbsentOK
<1>1. CASE CloseLedger
  <2> SUFFICES ASSUME NEW r \in Runs, pc[r] = "age", local[r].searched = "all"
               PROVE  (ledger >= tx[Pending].last /\ ~Validated(Pending))'
    BY <1>1 DEF CloseLedger
  <2>1. Pending \in Txs /\ ledger >= tx[Pending].last /\ ~Validated(Pending)
    BY DEF PhaseOK, NeedsPending
  <2>2. tx[Pending].last \in Nat /\ ledger \in Nat
    BY <2>1, BoundsAssumption DEF RestOK, Tx
  <2>3. tx'[Pending] = tx[Pending]
    BY <1>1, <2>1, <2>2 DEF CloseLedger, Apply, MayValidate, RestOK
  <2> QED BY <1>1, <2>1, <2>2, <2>3 DEF CloseLedger, Validated, Pending
<1>2. CASE Drip \/ Spend \/ Credit
  BY <1>2 DEF Drip, Spend, Credit, Validated, Pending
<1>3. ASSUME NEW r \in Runs, Begin(r) PROVE AbsentOK'
  BY <1>3 DEF Begin, Goto, world, Validated, Pending, RestOK, Unlocked, Locked
<1>4. ASSUME NEW r \in Runs, NEW searched \in {"some", "all"}, Lookup(r, searched)
      PROVE  AbsentOK'
  BY <1>4 DEF Lookup, Searched, Fresh, Continue, Exit, Goto, world, Validated, Pending, RestOK
<1>5. ASSUME NEW r \in Runs, Begin(r) \/ Age(r) \/ Submit(r) \/ Await(r) \/ Sign(r)
      PROVE  \A q \in Runs : pc'[q] # "age"
  <2>1. CASE Begin(r)
    BY <2>1, RunsAssumption DEF Begin, Goto, RestOK, Unlocked, Locked
  <2>2. CASE Age(r) \/ Submit(r) \/ Await(r) \/ Sign(r)
    <3>1. pc[r] # "idle"
      BY <2>2 DEF Age, Submit, Await, Sign
    <3>2. local[r].next # "age"
      BY DEF RestOK, Local
    <3>3. PICK step : step # "age" /\ Goto(r, step)
      BY <2>2, <3>2 DEF Age, Submit, Await, Uncertain, Sign, Continue, Exit
    <3> QED BY <3>1, <3>3, Moved
  <2> QED BY <1>5, <2>1, <2>2
<1>6. ASSUME NEW r \in Runs,
             Balance(r) \/ Faucet(r) \/ Request(r) \/ Credited(r) \/ TrustLine(r) \/ Need(r)
             \/ FinalCheck(r) \/ Crash(r)
      PROVE  \A q \in Runs : pc'[q] # "age"
  <2>1. pc[r] # "idle"
    BY <1>6 DEF Balance, Faucet, Request, Credited, TrustLine, Need, FinalCheck, Crash, Steps
  <2>2. PICK step : step # "age" /\ Goto(r, step)
    BY <1>6 DEF Balance, Faucet, Request, Credited, TrustLine, Need, Reading, FinalCheck,
       Crash, Continue, Exit
  <2> QED BY <2>1, <2>2, Moved
<1>7. CASE UNCHANGED vars
  BY <1>7 DEF vars, world, Validated, Pending
<1> QED
  BY <1>1, <1>2, <1>3, <1>4, <1>5, <1>6, <1>7 DEF Next, Advance, Reconcile

-----------------------------------------------------------------------------
LEMMA RoomStep ==
    RestOK /\ Journaled /\ PhaseOK /\ RoomOK /\ [Next]_vars => RoomOK'
<1> SUFFICES ASSUME RestOK, Journaled, PhaseOK, RoomOK, [Next]_vars PROVE RoomOK'
  OBVIOUS
<1> USE PendingType, Alone, RunsAssumption
<1>1. CASE CloseLedger
  <2>1. CASE UNCHANGED <<tx, rlusd, line, xrp>>
    BY <1>1, <2>1 DEF CloseLedger, RoomOK, Validated, Pending
  <2>2. ASSUME NEW t \in Txs, NEW result \in {"success", "failure"}, MayValidate(t),
               Apply(t, result)
        PROVE  RoomOK'
    <3>1. Pending = t
      BY <2>2 DEF Journaled, LiveIsJournaled, Pending
    <3>2. \A r \in Runs : pc[r] # "journal"
      BY <3>1 DEF PhaseOK, NeedsNone
    <3>3. tx'[t].state = result
      BY <2>2 DEF Apply, RestOK, Tx
    <3> QED BY <1>1, <3>1, <3>2, <3>3 DEF CloseLedger, RoomOK, Validated, Pending
  <2> QED BY <1>1, <2>1, <2>2 DEF CloseLedger
<1>2. CASE Drip
  BY <1>2 DEF Drip, RoomOK, Validated, Pending
<1>3. CASE Spend
  <2>1. rlusd' = rlusd - 1
    BY <1>3 DEF Spend
  <2>2. ASSUME NEW r \in Runs, pc[r] = "journal", local[r].kind = "convert"
        PROVE  rlusd' + local[r].amount <= Target[r] + slack
    BY <2>1, <2>2 DEF RoomOK, RestOK, Local
  <2>3. ASSUME Pending # 0, tx[Pending].kind = "convert", ~Validated(Pending)
        PROVE  rlusd' + tx[Pending].amount <= Target[tx[Pending].run] + slack
    BY <2>1, <2>3 DEF RoomOK, RestOK, Tx
  <2> QED BY <1>3, <2>2, <2>3 DEF Spend, RoomOK, Validated, Pending
<1>15. CASE Credit
  <2>1. rlusd' = rlusd + 1 /\ slack' = slack + 1 /\ UNCHANGED <<tx, journal, pc, local>>
    BY <1>15 DEF Credit
  <2>2. ASSUME NEW r \in Runs, pc[r] = "journal", local[r].kind = "convert"
        PROVE  rlusd' + local[r].amount <= Target[r] + slack'
    BY <2>1, <2>2 DEF RoomOK, RestOK, Local
  <2>3. ASSUME Pending # 0, tx[Pending].kind = "convert", ~Validated(Pending)
        PROVE  rlusd' + tx[Pending].amount <= Target[tx[Pending].run] + slack'
    BY <2>1, <2>3 DEF RoomOK, RestOK, Tx
  <2> QED BY <2>1, <2>2, <2>3 DEF RoomOK, Validated, Pending
<1>4. ASSUME NEW r \in Runs, Begin(r) PROVE RoomOK'
  BY <1>4 DEF Begin, Goto, world, RoomOK, Validated, Pending, RestOK, Unlocked, Locked
<1>5. ASSUME NEW r \in Runs, NEW searched \in {"some", "all"}, Lookup(r, searched)
      PROVE  RoomOK'
  <2>1. pc[r] # "idle" /\ UNCHANGED <<tx, rlusd, slack>>
    BY <1>5 DEF Lookup, world
  <2>2. Pending' \in {0, Pending}
    BY <1>5 DEF Lookup, Record, ClearPending, RestOK, Journal, Pending
  <2>3. PICK step : step # "journal" /\ Goto(r, step)
    BY <1>5 DEF Lookup, Continue, Exit
  <2> QED BY <2>1, <2>2, <2>3, RoomKept
<1>6. ASSUME NEW r \in Runs, Age(r) PROVE RoomOK'
  BY <1>6 DEF Age, ClearPending, Continue, Exit, Goto, world, RoomOK, Validated,
     Pending, RestOK, Journal
<1>7. ASSUME NEW r \in Runs, Submit(r) PROVE RoomOK'
  <2>1. Pending \in Txs /\ tx'[Pending].run = tx[Pending].run
        /\ tx'[Pending].kind = tx[Pending].kind /\ tx'[Pending].amount = tx[Pending].amount
        /\ tx'[Pending].state # "none" /\ (Validated(Pending) => Validated(Pending)')
    BY <1>7 DEF Submit, PhaseOK, NeedsPending, RestOK, Tx, RoomOK, Validated, Pending
  <2>2. \A q \in Runs : pc'[q] # "journal"
    BY <1>7 DEF Submit, Continue, Goto, RestOK
  <2> QED BY <1>7, <2>1, <2>2 DEF Submit, world, RoomOK, Pending
<1>8. ASSUME NEW r \in Runs, Await(r) PROVE RoomOK'
  <2>1. local[r].next \in {"balance", "need", "final"}
    BY <1>8 DEF Await, RestOK, Local, PhaseOK
  <2>2. pc[r] # "idle" /\ UNCHANGED <<tx, rlusd, slack>>
    BY <1>8 DEF Await, world
  <2>3. Pending' \in {0, Pending}
    BY <1>8 DEF Await, Uncertain, Record, ClearPending, RestOK, Journal, Pending
  <2>4. PICK step : step # "journal" /\ Goto(r, step)
    BY <1>8, <2>1 DEF Await, Uncertain, Exit
  <2> QED BY <2>2, <2>3, <2>4, RoomKept
<1>9. ASSUME NEW r \in Runs, Sign(r) PROVE RoomOK'
  <2>1. \A q \in Runs : pc'[q] # "journal"
    BY <1>9 DEF Sign, Exit, Goto, RestOK
  <2>2. CASE UNCHANGED <<tx, journal>>
    BY <1>9, <2>1, <2>2 DEF Sign, world, RoomOK, Validated, Pending
  <2>3. ASSUME NEW t \in Txs, tx' = [tx EXCEPT ![t] = Signed(r)],
               journal' = [journal EXCEPT !.pending = t]
        PROVE  RoomOK'
    <3>1. Pending' = t /\ tx'[t] = Signed(r)
      BY <2>3 DEF RestOK, Journal, Pending
    <3>2. local[r].kind = "convert" => rlusd + local[r].amount <= Target[r] + slack
      BY <1>9 DEF Sign, RoomOK
    <3> QED BY <1>9, <2>1, <3>1, <3>2 DEF Sign, Signed, world, RoomOK
  <2> QED BY <1>9, <2>2, <2>3 DEF Sign
<1>10. ASSUME NEW r \in Runs,
              Balance(r) \/ Request(r) \/ Credited(r) \/ FinalCheck(r) \/ Crash(r)
       PROVE  RoomOK'
  <2>1. pc[r] # "idle" /\ UNCHANGED <<tx, rlusd, slack, journal>>
    BY <1>10 DEF Balance, Request, Credited, FinalCheck, Crash, world, Steps
  <2>2. PICK step : step # "journal" /\ Goto(r, step)
    BY <1>10 DEF Balance, Request, Credited, FinalCheck, Crash, Continue, Exit
  <2> QED BY <2>1, <2>2, RoomKept DEF Pending
<1>11. ASSUME NEW r \in Runs, Faucet(r) PROVE RoomOK'
  BY <1>11 DEF Faucet, Attempted, Continue, Exit, Goto, world, RoomOK, Validated, Pending,
     RestOK, Journal
<1>12. ASSUME NEW r \in Runs, TrustLine(r) PROVE RoomOK'
  <2>1. pc[r] # "idle" /\ UNCHANGED <<tx, rlusd, slack, journal>>
    BY <1>12 DEF TrustLine, world
  <2>2. CASE Continue(r, "need")
    BY <2>1, <2>2, RoomKept DEF Continue, Pending
  <2>3. CASE local' = [local EXCEPT ![r] = ToSign("trust", 0)] /\ Goto(r, "journal")
    <3>1. local'[r].kind # "convert"
      BY <2>3 DEF RestOK, ToSign, Fresh
    <3>2. \A q \in Runs : q # r => pc'[q] # "journal"
      BY <2>1, <2>3, Moved
    <3> QED BY <2>1, <3>1, <3>2 DEF RoomOK, Validated, Pending
  <2> QED BY <1>12, <2>2, <2>3 DEF TrustLine
<1>13. ASSUME NEW r \in Runs, Need(r) PROVE RoomOK'
  <2>1. pc[r] # "idle" /\ UNCHANGED <<tx, rlusd, journal>> /\ Pending = 0
    BY <1>13 DEF Need, PhaseOK, NeedsNone
  <2>2. PICK answer \in Answers : Reading(r, answer)
    BY <1>13 DEF Need
  <2>3. CASE Continue(r, "final") \/ Exit(r)
    BY <2>1, <2>3, RoomKept DEF Continue, Exit, Pending
  <2>4. CASE /\ answer < Target[r]
             /\ local' = [local EXCEPT ![r] = ToSign("convert", Needed(r, answer))]
             /\ slack' = rlusd - answer
             /\ Goto(r, "journal")
    <3>1. local'[r].amount = Needed(r, answer)
      BY <2>4 DEF RestOK, ToSign, Fresh
    <3>2. rlusd + Needed(r, answer) <= Target[r] + slack'
      BY <2>4 DEF Needed, Answers, RestOK
    <3>3. \A q \in Runs : q # r => pc'[q] # "journal"
      BY <2>1, <2>4, Moved
    <3> QED BY <2>1, <3>1, <3>2, <3>3 DEF RoomOK, Pending
  <2> QED BY <2>2, <2>3, <2>4 DEF Reading
<1>14. CASE UNCHANGED vars
  BY <1>14 DEF vars, world, RoomOK, Validated, Pending
<1> QED
  BY <1>1, <1>2, <1>3, <1>4, <1>5, <1>6, <1>7, <1>8, <1>9, <1>10, <1>11, <1>12, <1>13, <1>14,
     <1>15 DEF Next, Advance, Reconcile

-----------------------------------------------------------------------------
LEMMA Step == Inv /\ [Next]_vars => Inv'
<1> SUFFICES ASSUME Inv, [Next]_vars PROVE Inv'
  OBVIOUS
<1>1. FlagsOK /\ RestOK
  BY TypeHalves DEF Inv
<1>2. Journaled /\ PhaseOK /\ RoomOK /\ AbsentOK
  BY DEF Inv, Journaled
<1>3. TypeOK'
  BY <1>1, <1>2, FlagsStep, RestStep, TypeHalves DEF TypeOK, FlagsOK, RestOK
<1>4. Journaled' /\ PhaseOK' /\ RoomOK' /\ AbsentOK'
  BY <1>1, <1>2, JournaledStep, PhaseStep, RoomStep, AbsentStep
<1> QED BY <1>3, <1>4 DEF Inv, Journaled

LEMMA Invariant == Spec => []Inv
BY InitInv, Step, PTL DEF Spec

(***************************************************************************)
(* Every reachable state is well typed, and the invocation that runs is    *)
(* the one that holds the file lock.                                       *)
(***************************************************************************)
THEOREM FundingTypeCorrect == Spec => []TypeOK
<1>1. Inv => TypeOK
  BY DEF Inv
<1> QED BY <1>1, Invariant, PTL

(***************************************************************************)
(* The journal always knows the one transaction that a ledger may take.    *)
(***************************************************************************)
THEOREM FundingLiveIsJournaled == Spec => []LiveIsJournaled
<1>1. Inv => LiveIsJournaled
  BY DEF Inv
<1> QED BY <1>1, Invariant, PTL

(***************************************************************************)
(* No applied transaction is lost from the record of what was done.        *)
(***************************************************************************)
THEOREM FundingNothingForgotten == Spec => []NothingForgotten
<1>1. Inv => NothingForgotten
  BY DEF Inv
<1> QED BY <1>1, Invariant, PTL

\* Only a ledger validates, and what it validates is what is pending.
LEMMA OneShortfall ==
    ASSUME Inv, Next, NEW t \in Txs, ~Validated(t), Validated(t)', tx[t].kind = "convert"
    PROVE  rlusd' <= Target[tx[t].run] + slack
<1>1. RestOK /\ Journaled /\ PhaseOK /\ RoomOK
  BY TypeHalves DEF Inv, Journaled
<1>2. CASE CloseLedger
  <2>1. CASE UNCHANGED <<tx, rlusd, line, xrp>>
    BY <2>1 DEF Validated
  <2>2. ASSUME NEW u \in Txs, NEW result \in {"success", "failure"}, MayValidate(u),
               Apply(u, result)
        PROVE  rlusd' <= Target[tx[t].run] + slack
    <3>1. u = t
      BY <1>1, <2>2 DEF Apply, Validated, RestOK
    <3>2. t = Pending /\ Pending # 0
      BY <1>1, <2>2, <3>1, PendingType DEF Journaled, LiveIsJournaled, Pending
    <3>3. rlusd + tx[t].amount <= Target[tx[t].run] + slack
      BY <1>1, <3>2 DEF RoomOK
    <3>4. rlusd' = rlusd + tx[t].amount \/ rlusd' = rlusd
      BY <2>2, <3>1 DEF Apply
    <3>5. tx[t].run \in Runs /\ tx[t].amount \in Nat
      BY <1>1, <3>2 DEF RoomOK, RestOK, Tx
    <3> QED BY <1>1, <3>3, <3>4, <3>5, RunsAssumption DEF RestOK
  <2> QED BY <1>2, <2>1, <2>2 DEF CloseLedger
<1>3. CASE Drip \/ Spend \/ Credit
  BY <1>3 DEF Drip, Spend, Credit, Validated
<1>4. ASSUME NEW r \in Runs, Begin(r) \/ Advance(r) \/ Crash(r)
      PROVE  FALSE
  <2>1. tx' = tx \/ Submit(r) \/ Sign(r)
    BY <1>4 DEF Begin, Advance, Crash, Reconcile, Lookup, Age, Await, Balance, Faucet,
       Request, Credited, TrustLine, Need, FinalCheck, world
  <2>2. tx' # tx
    BY DEF Validated
  <2>3. CASE Submit(r)
    BY <1>1, <2>3 DEF Submit, Validated, RestOK, Tx
  <2>4. CASE Sign(r)
    BY <1>1, <2>4 DEF Sign, Signed, Validated, RestOK, Tx
  <2> QED BY <2>1, <2>2, <2>3, <2>4
<1> QED BY <1>2, <1>3, <1>4 DEF Next

(***************************************************************************)
(* No shortfall is bought twice: whichever run submits a conversion again  *)
(* and however late it validates, it lifts the balance above its target by *)
(* no more than the answer it was computed from hid and others paid in.    *)
(***************************************************************************)
THEOREM FundingNeverBoughtTwice == Spec => NeverBoughtTwice
<1>1. Inv /\ [Next]_vars =>
          [\A t \in Txs :
              ~Validated(t) /\ Validated(t)' /\ tx[t].kind = "convert"
              => rlusd' <= Target[tx[t].run] + slack]_vars
  BY OneShortfall
<1> QED BY <1>1, Invariant, PTL DEF Spec, NeverBoughtTwice

-----------------------------------------------------------------------------
\* The last request was sent when the journal says, or is about to be.
FaucetOK ==
    /\ journal.faucetAt = -1 => asks = 0
    /\ journal.faucetAt # -1 =>
          journal.faucetAt <= ledger /\ asks <= 1 + journal.faucetAt \div FaucetDelay
    /\ \A r \in Runs : pc[r] = "request" =>
          journal.faucetAt # -1 /\ asks <= journal.faucetAt \div FaucetDelay

LEMMA WindowsPass ==
    ASSUME NEW a \in Nat, NEW b \in Nat, NEW d \in Nat \ {0}
    PROVE  /\ a <= b => a \div d <= b \div d
           /\ a + d <= b => 1 + a \div d <= b \div d
           /\ a \div d \in Nat
OBVIOUS

LEMMA FaucetStep == RestOK /\ FaucetOK /\ [Next]_vars => FaucetOK'
<1> SUFFICES ASSUME RestOK, FaucetOK, [Next]_vars PROVE FaucetOK'
  OBVIOUS
<1>0. ledger \in Nat /\ journal.faucetAt \in Nat \cup {-1} /\ asks \in Nat
  BY BoundsAssumption DEF RestOK, Journal
<1>1. CASE CloseLedger \/ Drip \/ Spend \/ Credit
  <2>1. ledger' \in {ledger, ledger + 1} /\ UNCHANGED <<journal, pc, asks>>
    BY <1>1 DEF CloseLedger, Drip, Spend, Credit
  <2> QED BY <1>0, <2>1 DEF FaucetOK
<1>2. ASSUME NEW r \in Runs, Faucet(r) PROVE FaucetOK'
  <2>1. pc[r] # "idle" /\ UNCHANGED <<ledger, asks>>
    BY <1>2 DEF Faucet, world
  <2>2. CASE UNCHANGED journal /\ \E step : step # "request" /\ Goto(r, step)
    <3>1. \A q \in Runs : pc'[q] # "request"
      BY <2>1, <2>2, Moved
    <3> QED BY <2>1, <2>2, <3>1 DEF FaucetOK
  <2>3. CASE ~FaucetWaits /\ journal' = Attempted /\ Goto(r, "request")
    <3>1. journal'.faucetAt = ledger
      BY <2>3 DEF Attempted, RestOK, Journal
    <3>2. asks <= ledger \div FaucetDelay
      <4>1. CASE journal.faucetAt = -1
        BY <1>0, <4>1, WindowsPass, BoundsAssumption DEF FaucetOK
      <4>2. CASE journal.faucetAt # -1
        <5>1. journal.faucetAt + FaucetDelay <= ledger
          BY <1>0, <2>3, <4>2, BoundsAssumption DEF FaucetWaits
        <5>2. 1 + journal.faucetAt \div FaucetDelay <= ledger \div FaucetDelay
          BY <1>0, <4>2, <5>1, WindowsPass, BoundsAssumption
        <5>3. asks <= 1 + journal.faucetAt \div FaucetDelay
          BY <4>2 DEF FaucetOK
        <5>4. journal.faucetAt \div FaucetDelay \in Nat /\ ledger \div FaucetDelay \in Nat
          BY <1>0, <4>2, WindowsPass, BoundsAssumption
        <5> QED BY <1>0, <5>2, <5>3, <5>4
      <4> QED BY <4>1, <4>2
    <3>3. ledger \div FaucetDelay \in Nat
      BY <1>0, WindowsPass, BoundsAssumption
    <3> QED BY <1>0, <2>1, <3>1, <3>2, <3>3 DEF FaucetOK
  <2> QED BY <1>2, <2>2, <2>3 DEF Faucet, Continue, Exit
<1>3. ASSUME NEW r \in Runs, Request(r) PROVE FaucetOK'
  <2>1. /\ UNCHANGED <<ledger, journal>> /\ asks' = asks + 1
        /\ pc[r] = "request" /\ Goto(r, "credited")
    BY <1>3 DEF Request, Continue
  <2>2. \A q \in Runs : pc'[q] # "request"
    BY <2>1, Moved
  <2>3. journal.faucetAt # -1 /\ asks <= journal.faucetAt \div FaucetDelay
    BY <2>1 DEF FaucetOK
  <2>4. journal.faucetAt \div FaucetDelay \in Nat
    BY <1>0, <2>3, WindowsPass, BoundsAssumption
  <2> QED BY <1>0, <2>1, <2>2, <2>3, <2>4 DEF FaucetOK
<1>4. ASSUME NEW r \in Runs,
             Begin(r) \/ Reconcile(r) \/ Submit(r) \/ Await(r) \/ Sign(r) \/ Balance(r)
             \/ Credited(r) \/ TrustLine(r) \/ Need(r) \/ FinalCheck(r) \/ Crash(r)
      PROVE  FaucetOK'
  <2>1. UNCHANGED <<ledger, asks>>
    BY <1>4 DEF Begin, Reconcile, Lookup, Age, Submit, Await, Sign, Balance, Credited,
       TrustLine, Need, FinalCheck, Crash, world
  <2>2. journal'.faucetAt = journal.faucetAt
    BY <1>4 DEF Begin, Reconcile, Lookup, Age, Submit, Await, Uncertain, Sign, Balance,
       Credited, TrustLine, Need, FinalCheck, Crash, world, Record, ClearPending, RestOK, Journal
  <2>3. \A q \in Runs : pc'[q] # "request"
    <3>1. CASE Begin(r)
      BY <3>1, RunsAssumption DEF Begin, Goto, RestOK, Unlocked, Locked
    <3>2. CASE ~Begin(r)
      <4>1. pc[r] # "idle"
        BY <1>4, <3>2 DEF Reconcile, Lookup, Age, Submit, Await, Sign, Balance, Credited,
           TrustLine, Need, FinalCheck, Crash, Steps
      <4>2. local[r].next # "request"
        BY DEF RestOK, Local
      <4>3. PICK step : step # "request" /\ Goto(r, step)
        BY <1>4, <3>2, <4>2 DEF Reconcile, Lookup, Age, Submit, Await, Uncertain, Sign,
           Balance, Credited, TrustLine, Need, Reading, FinalCheck, Crash,
           Continue, Exit
      <4> QED BY <4>1, <4>3, Moved
    <3> QED BY <3>1, <3>2
  <2> QED BY <2>1, <2>2, <2>3 DEF FaucetOK
<1>5. CASE UNCHANGED vars
  BY <1>5 DEF vars, world, FaucetOK
<1> QED BY <1>1, <1>2, <1>3, <1>4, <1>5 DEF Next, Advance

(***************************************************************************)
(* The faucet is asked at most once in each reconciliation window, however *)
(* often the command crashes and is run again.                             *)
(***************************************************************************)
THEOREM FundingFaucetSpared == Spec => []FaucetSpared
<1>1. Init => FaucetOK
  BY DEF Init, FaucetOK
<1>2. Inv /\ FaucetOK /\ [Next]_vars => FaucetOK'
  BY FaucetStep, TypeHalves DEF Inv
<1>3. Inv /\ FaucetOK => FaucetSpared
  <2> SUFFICES ASSUME Inv, FaucetOK PROVE FaucetSpared
    OBVIOUS
  <2>1. ledger \in Nat /\ journal.faucetAt \in Nat \cup {-1} /\ asks \in Nat
    BY TypeHalves, BoundsAssumption DEF Inv, RestOK, Journal
  <2>2. ledger \div FaucetDelay \in Nat
    BY <2>1, WindowsPass, BoundsAssumption
  <2>3. CASE journal.faucetAt = -1
    BY <2>1, <2>2, <2>3 DEF FaucetOK, FaucetSpared
  <2>4. CASE journal.faucetAt # -1
    <3>1. journal.faucetAt \div FaucetDelay <= ledger \div FaucetDelay
          /\ journal.faucetAt \div FaucetDelay \in Nat
      BY <2>1, <2>4, WindowsPass, BoundsAssumption DEF FaucetOK
    <3> QED BY <2>1, <2>2, <2>4, <3>1 DEF FaucetOK, FaucetSpared
  <2> QED BY <2>3, <2>4
<1> QED BY <1>1, <1>2, <1>3, Invariant, PTL DEF Spec
=============================================================================
