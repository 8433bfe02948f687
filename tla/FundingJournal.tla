--------------------------- MODULE FundingJournal ---------------------------
(***************************************************************************)
(* devtools/rlusd_fund.py: a command that brings a Testnet wallet up to a  *)
(* target balance of RLUSD by buying it with XRP, journals every           *)
(* transaction before it submits it, and is rerun after a crash or a       *)
(* pending outcome.  Several invocations share the journal file of one     *)
(* wallet under an exclusive lock; the ledger, the XRP faucet and the      *)
(* other uses of the wallet go on beside them.                             *)
(*                                                                         *)
(* A server may lag behind, or answer with an error, which the code reads  *)
(* as an account without trust lines and so without a balance.             *)
(*                                                                         *)
(* XRP is abstracted to whether there is enough of it.  The journal is     *)
(* replaced atomically (a temporary file, fsync, rename), and every change *)
(* of the state in memory is written at once, so the two are one.          *)
(***************************************************************************)
EXTENDS Integers

CONSTANTS
    Runs,         \* invocations of the command, each rerun any number of times
    MaxTxs,       \* bound on signed transactions
    Target,       \* Target[r]: --target-rlusd
    Cap,          \* Cap[r]: --max-xrp, in drops
    Quotes,       \* source amounts that path finding may answer, in drops
    SlippageBps,  \* --slippage-bps
    Window,       \* autofill's LastLedgerSequence, past the present ledger
    FaucetDelay,  \* FAUCET_RETRY_DELAY, in ledgers
    MaxLedger,    \* bound on the ledger index
    MaxUses,      \* bound on RLUSD payments that others make to or from the wallet
    MaxFaults,    \* bound on crashes and failing calls
    None

Txs == 1 .. MaxTxs

ASSUME RunsAssumption ==
    /\ None \notin Runs
    /\ Target \in [Runs -> Nat]
    /\ Cap \in [Runs -> Nat]
    /\ Quotes \subseteq Nat \ {0}

ASSUME BoundsAssumption ==
    /\ MaxTxs \in Nat
    /\ SlippageBps \in 0 .. 5000
    /\ Window \in Nat
    /\ FaucetDelay \in Nat \ {0}
    /\ MaxLedger \in Nat
    /\ MaxUses \in Nat
    /\ MaxFaults \in Nat

VARIABLES
    ledger,   \* index of the last validated ledger
    tx,       \* tx[t]: what has become of the t-th signed transaction
    rlusd,    \* the wallet's validated RLUSD balance
    line,     \* it has the trust line
    xrp,      \* it has enough XRP for a conversion
    drip,     \* the faucet is about to pay
    journal,  \* the funding-state file
    lock,     \* who holds the file lock
    pc,       \* where each invocation is
    local,    \* its local variables
    asks,     \* history: requests sent to the faucet
    uses,     \* payments others have made to or from it
    slack,    \* history: what the answer behind the last conversion hid of the
              \* balance, and what was received since
    faults    \* faults so far

world == <<ledger, rlusd, line, xrp, drip, asks, uses, slack, faults>>
vars == <<world, tx, journal, lock, pc, local>>

-----------------------------------------------------------------------------
NoTx == [state |-> "none", kind |-> "none", run |-> None, amount |-> 0, last |-> 0]

Tx == [state  : {"none", "signed", "live", "success", "failure"},
       kind   : {"none", "trust", "convert"},
       run    : Runs \cup {None},
       amount : Nat,
       last   : Nat]

Journal == [pending  : {0} \cup Txs,
            done     : SUBSET Txs,
            faucetAt : Nat \cup {-1}]

Fresh == [searched |-> "some",   \* ledgers that the lookup covered
          kind     |-> "none",   \* of the transaction about to be signed
          amount   |-> 0,
          next     |-> "none"]   \* what follows the pending transaction

Local == [searched : {"some", "all"},
          kind     : {"none", "trust", "convert"},
          amount   : Nat,
          next     : {"none", "balance", "need", "final"}]

Searched(ledgers) == [Fresh EXCEPT !.searched = ledgers]
ToSign(kind, amount) == [Fresh EXCEPT !.kind = kind, !.amount = amount]
Then(step) == [Fresh EXCEPT !.next = step]

Steps == {"lookup", "age", "balance", "faucet", "request", "credited", "trust",
          "need", "journal", "submit", "await", "final"}

Validated(t) == tx[t].state \in {"success", "failure"}

\* A ledger may still take it.
MayValidate(t) == tx[t].state = "live" /\ ledger < tx[t].last

Init ==
    /\ ledger = 0
    /\ tx = [t \in Txs |-> NoTx]
    /\ rlusd = 0
    /\ line \in BOOLEAN
    /\ xrp = FALSE
    /\ drip = FALSE
    /\ journal = [pending |-> 0, done |-> {}, faucetAt |-> -1]
    /\ lock = None
    /\ pc = [r \in Runs |-> "idle"]
    /\ local = [r \in Runs |-> Fresh]
    /\ asks = 0
    /\ uses = 0
    /\ slack = 0
    /\ faults = 0

-----------------------------------------------------------------------------
Goto(r, step) == pc' = [pc EXCEPT ![r] = step]

Continue(r, step) == Goto(r, step) /\ UNCHANGED <<local, lock>>

\* The command reports a result or an error, and the lock is released.
Exit(r) ==
    /\ Goto(r, "idle")
    /\ local' = [local EXCEPT ![r] = Fresh]
    /\ lock' = None

Pending == journal.pending

\* _record_terminal_transaction.
Record(t) == journal' = [journal EXCEPT !.pending = 0, !.done = @ \cup {t}]

ClearPending == journal' = [journal EXCEPT !.pending = 0]

\* Rounded up.
SendMax(drops) == (drops * (10000 + SlippageBps) + 9999) \div 10000

-----------------------------------------------------------------------------
(***************************************************************************)
(* The world: the ledger, the faucet, and a wallet that is in use.         *)
(***************************************************************************)
Apply(t, result) ==
    /\ tx' = [tx EXCEPT ![t].state = result]
    /\ IF result = "success" /\ tx[t].kind = "convert"
       THEN rlusd' = rlusd + tx[t].amount /\ xrp' \in BOOLEAN /\ UNCHANGED line
       ELSE UNCHANGED <<rlusd, xrp>> /\ line' = (line \/ result = "success")

CloseLedger ==
    /\ ledger < MaxLedger
    /\ ledger' = ledger + 1
    /\ \/ UNCHANGED <<tx, rlusd, line, xrp>>
       \/ \E t \in Txs, result \in {"success", "failure"} :
              /\ MayValidate(t)
              /\ tx[t].kind = "convert" /\ ~line => result = "failure"
              /\ Apply(t, result)
    /\ UNCHANGED <<drip, journal, lock, pc, local, asks, uses, slack, faults>>

Drip ==
    /\ drip
    /\ drip' = FALSE
    /\ xrp' = TRUE
    /\ UNCHANGED <<ledger, tx, rlusd, line, journal, lock, pc, local, asks, uses, slack, faults>>

Spend ==
    /\ rlusd > 0
    /\ uses < MaxUses
    /\ rlusd' = rlusd - 1
    /\ uses' = uses + 1
    /\ UNCHANGED <<ledger, tx, line, xrp, drip, journal, lock, pc, local, asks, slack, faults>>

\* Another command, such as the top-up's bridge, pays the same wallet.
Credit ==
    /\ line
    /\ uses < MaxUses
    /\ rlusd' = rlusd + 1
    /\ uses' = uses + 1
    /\ slack' = slack + 1
    /\ UNCHANGED <<ledger, tx, line, xrp, drip, journal, lock, pc, local, asks, faults>>

-----------------------------------------------------------------------------
(***************************************************************************)
(* main: take the lock, load the journal.                                  *)
(***************************************************************************)
\* Mutant: the invocations do not exclude each other.
NoLock == TRUE

Unlocked == lock = None

Begin(r) ==
    /\ pc[r] = "idle"
    /\ Unlocked
    /\ lock' = r
    /\ Goto(r, IF Pending = 0 THEN "balance" ELSE "lookup")
    /\ UNCHANGED <<world, tx, journal, local>>

-----------------------------------------------------------------------------
(***************************************************************************)
(* reconcile_pending_transaction.                                          *)
(***************************************************************************)
\* "all": the server holds every ledger of the pending transaction's range
\* (searched_all); it cannot before the last of them exists.
Lookup(r, searched) ==
    /\ pc[r] = "lookup"
    /\ searched = "all" => ledger >= tx[Pending].last
    /\ \/ /\ tx[Pending].state = "success"
          /\ Record(Pending)
          /\ Continue(r, "balance")
       \/ /\ tx[Pending].state = "failure"
          /\ ClearPending
          /\ Exit(r)
       \/ /\ ~(searched = "all" /\ Validated(Pending))
          /\ local' = [local EXCEPT ![r] = Searched(searched)]
          /\ Goto(r, "age")
          /\ UNCHANGED <<journal, lock>>
    /\ UNCHANGED <<world, tx>>

\* Mutant: the server's answer is never taken for a complete search.
AbsentNever(r) == FALSE

\* Mutant: absence is taken for granted once LastLedgerSequence has passed.
AbsentUnsearched(r) == TRUE

\* txnNotFound, and the search was complete.
Absent(r) == local[r].searched = "all"

Age(r) ==
    /\ pc[r] = "age"
    /\ \/ /\ ledger >= tx[Pending].last
          /\ Absent(r)
          /\ ClearPending
          /\ Continue(r, "balance")
       \/ /\ ledger >= tx[Pending].last
          /\ ~Absent(r)
          /\ Exit(r)
          /\ UNCHANGED journal
       \/ /\ ledger < tx[Pending].last
          /\ local' = [local EXCEPT ![r] = Then("balance")]
          /\ Goto(r, "submit")
          /\ UNCHANGED <<journal, lock>>
    /\ UNCHANGED <<world, tx>>

-----------------------------------------------------------------------------
(***************************************************************************)
(* Submission of the journaled blob, new or again, and what comes of it.   *)
(***************************************************************************)
Submit(r) ==
    /\ pc[r] = "submit"
    /\ \/ tx' = [tx EXCEPT ![Pending].state = IF @ = "signed" THEN "live" ELSE @]
       \/ UNCHANGED tx
    /\ Continue(r, "await")
    /\ UNCHANGED <<world, journal>>

\* Mutant: an uncertain outcome is cleared like a failed one.
ForgetUncertain(r) == ClearPending /\ Exit(r)

\* SettlementPendingError: not validated, or the call raised; the journal
\* keeps the transaction.
Uncertain(r) == Exit(r) /\ UNCHANGED journal

Await(r) ==
    /\ pc[r] = "await"
    /\ \/ /\ tx[Pending].state = "success"
          /\ Record(Pending)
          /\ Goto(r, local[r].next)
          /\ local' = [local EXCEPT ![r] = Fresh]
          /\ UNCHANGED lock
       \/ /\ tx[Pending].state = "failure"
          /\ ClearPending
          /\ Exit(r)
       \/ Uncertain(r)
    /\ UNCHANGED <<world, tx>>

-----------------------------------------------------------------------------
(***************************************************************************)
(* submit_journaled_transaction, up to the submission.  The ledger index   *)
(* that bounds a later lookup from below is read before anything is signed.*)
(***************************************************************************)
Unsigned(t) == tx[t].state = "none" /\ \A u \in Txs : u < t => tx[u].state # "none"

Signed(r) == [state  |-> "signed", kind |-> local[r].kind, run |-> r,
              amount |-> local[r].amount, last |-> ledger + Window]

\* A fee above the cap, or a simulation without a route or with another
\* amount, refuses.
Sign(r) ==
    /\ pc[r] = "journal"
    /\ \/ \E t \in Txs :
            /\ Pending = 0
            /\ Unsigned(t)
            /\ ledger + Window <= MaxLedger
            /\ tx' = [tx EXCEPT ![t] = Signed(r)]
            /\ journal' = [journal EXCEPT !.pending = t]
            /\ local' = [local EXCEPT ![r] =
                            Then(IF local[r].kind = "trust" THEN "need" ELSE "final")]
            /\ Goto(r, "submit")
            /\ UNCHANGED lock
       \/ Exit(r) /\ UNCHANGED <<tx, journal>>
    /\ UNCHANGED world

-----------------------------------------------------------------------------
(***************************************************************************)
(* fund_rlusd_wallet.                                                      *)
(***************************************************************************)
\* What a server may answer: the balance, an earlier one (whatever lies below
\* what has come in), or an error, which is read as zero.
Answers == 0 .. rlusd + uses

Balance(r) ==
    /\ pc[r] = "balance"
    /\ \E answer \in Answers :
          IF answer >= Target[r] THEN Exit(r) ELSE Continue(r, "faucet")
    /\ UNCHANGED <<world, tx, journal>>

\* Mutant: the attempt is not on disk when the request goes out.
AttemptUnsaved == journal

\* ensure_testnet_xrp: the attempt is journaled before the request.
Attempted == [journal EXCEPT !.faucetAt = ledger]

FaucetWaits == journal.faucetAt >= 0 /\ ledger < journal.faucetAt + FaucetDelay

Faucet(r) ==
    /\ pc[r] = "faucet"
    /\ \/ xrp /\ Continue(r, "trust") /\ UNCHANGED journal
       \/ FaucetWaits /\ Exit(r) /\ UNCHANGED journal
       \/ /\ ~FaucetWaits
          /\ journal' = Attempted
          /\ Continue(r, "request")
    /\ UNCHANGED <<world, tx>>

Request(r) ==
    /\ pc[r] = "request"
    /\ asks' = asks + 1
    /\ drip' \in {drip, TRUE}
    /\ Continue(r, "credited")
    /\ UNCHANGED <<ledger, tx, rlusd, line, xrp, journal, uses, slack, faults>>

Credited(r) ==
    /\ pc[r] = "credited"
    /\ \/ xrp /\ Continue(r, "trust")
       \/ Exit(r)
    /\ UNCHANGED <<world, tx, journal>>

\* An error answer shows no trust line.
TrustLine(r) ==
    /\ pc[r] = "trust"
    /\ \/ line /\ Continue(r, "need")
       \/ /\ local' = [local EXCEPT ![r] = ToSign("trust", 0)]
          /\ Goto(r, "journal")
          /\ UNCHANGED lock
    /\ UNCHANGED <<world, tx, journal>>

\* Mutant: buys the whole target.
WholeTarget(r, answer) == Target[r]

Needed(r, answer) == Target[r] - answer

\* The second reading of the balance is believed, whatever it is, and a route
\* is looked for.
Reading(r, answer) ==
    \/ answer >= Target[r] /\ Continue(r, "final") /\ UNCHANGED slack
    \/ /\ answer < Target[r]
       /\ \E quote \in Quotes : SendMax(quote) <= Cap[r]
       /\ local' = [local EXCEPT ![r] = ToSign("convert", Needed(r, answer))]
       /\ slack' = rlusd - answer
       /\ Goto(r, "journal")
       /\ UNCHANGED lock
    \/ answer < Target[r] /\ Exit(r) /\ UNCHANGED slack

Need(r) ==
    /\ pc[r] = "need"
    /\ \E answer \in Answers : Reading(r, answer)
    /\ UNCHANGED <<ledger, rlusd, line, xrp, drip, asks, uses, faults, tx, journal>>

FinalCheck(r) ==
    /\ pc[r] = "final"
    /\ Exit(r)
    /\ UNCHANGED <<world, tx, journal>>

\* The process dies, or a call that nothing handles raises.
Crash(r) ==
    /\ pc[r] \in Steps
    /\ faults < MaxFaults
    /\ faults' = faults + 1
    /\ Exit(r)
    /\ UNCHANGED <<ledger, rlusd, line, xrp, drip, asks, uses, slack, tx,
                   journal>>

-----------------------------------------------------------------------------
Reconcile(r) == (\E searched \in {"some", "all"} : Lookup(r, searched)) \/ Age(r)

Advance(r) ==
    \/ Reconcile(r) \/ Submit(r) \/ Await(r) \/ Sign(r)
    \/ Balance(r) \/ Faucet(r) \/ Request(r) \/ Credited(r) \/ TrustLine(r)
    \/ Need(r) \/ FinalCheck(r)

Next ==
    \/ CloseLedger \/ Drip \/ Spend \/ Credit
    \/ \E r \in Runs : Begin(r) \/ Advance(r) \/ Crash(r)

Spec == Init /\ [][Next]_vars

\* The operator reruns the command, the process runs, ledgers close, and a
\* server with the full history answers now and then.
FairSpec ==
    /\ Spec
    /\ WF_vars(CloseLedger)
    /\ WF_vars(\E r \in Runs : Begin(r))
    /\ \A r \in Runs : WF_vars(Advance(r))
    /\ SF_vars(\E r \in Runs : Lookup(r, "all"))

-----------------------------------------------------------------------------
\* The invocation that runs holds the lock, and it alone.
Locked == \A r \in Runs : pc[r] # "idle" <=> lock = r

TypeOK ==
    /\ ledger \in 0 .. MaxLedger
    /\ tx \in [Txs -> Tx]
    /\ rlusd \in Nat
    /\ line \in BOOLEAN
    /\ xrp \in BOOLEAN
    /\ drip \in BOOLEAN
    /\ journal \in Journal
    /\ lock \in Runs \cup {None}
    /\ pc \in [Runs -> {"idle"} \cup Steps]
    /\ Locked
    /\ local \in [Runs -> Local]
    /\ asks \in Nat
    /\ uses \in Nat
    /\ slack \in Int
    /\ faults \in Nat

(***************************************************************************)
(* "It does not sign another conversion until the previous transaction     *)
(* validates or is authoritatively absent after expiry": whatever crashes  *)
(* and reruns, a transaction that a ledger may still take is the one the   *)
(* journal knows to be pending.                                            *)
(***************************************************************************)
LiveIsJournaled == \A t \in Txs : MayValidate(t) => journal.pending = t

(***************************************************************************)
(* No shortfall is bought twice: a conversion, whoever submits it again    *)
(* and however late it validates, lifts the balance above the target of    *)
(* the run that signed it by no more than what the answer of the server    *)
(* hid of the balance and what others have paid in since.  (With an error  *)
(* answer that is the whole balance, so the code does overshoot.)          *)
(***************************************************************************)
NeverBoughtTwice ==
    [][\A t \in Txs :
          ~Validated(t) /\ Validated(t)' /\ tx[t].kind = "convert"
          => rlusd' <= Target[tx[t].run] + slack
      ]_vars

(***************************************************************************)
(* The hashes the command reports are all it did: a transaction that the   *)
(* ledger has applied is recorded as completed or still to be reconciled.  *)
(***************************************************************************)
NothingForgotten ==
    \A t \in Txs : tx[t].state = "success" => t \in journal.done \/ journal.pending = t

(***************************************************************************)
(* Crashed and rerun, the command asks the faucet once in a reconciliation *)
(* window.                                                                 *)
(***************************************************************************)
FaucetSpared == asks <= 1 + ledger \div FaucetDelay

(***************************************************************************)
(* Rerunning resolves: no transaction stays pending for ever.              *)
(***************************************************************************)
EventuallyResolved == \A t \in Txs : journal.pending = t ~> journal.pending # t
=============================================================================
