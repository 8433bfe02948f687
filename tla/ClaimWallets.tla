---------------------------- MODULE ClaimWallets ----------------------------
(***************************************************************************)
(* devtools/live_testnet_support.py: topping up a demo buyer with RLUSD or *)
(* USDC from a Testnet faucet.  Each claim goes to a disposable wallet     *)
(* whose seed is kept in a claim-state file; every run first recovers the  *)
(* wallets of earlier runs (sweeps the token to the accumulator, resets    *)
(* the trust line, deletes the account) and last bridges the accumulator's *)
(* balance to the buyer.                                                   *)
(*                                                                         *)
(* The RLUSD and the USDC command have the same recovery and differ in the *)
(* claim: RLUSD calls the faucet itself, USDC asks the user to.  Balances  *)
(* count faucet drips.  One command runs at a time: there is no lock.      *)
(*                                                                         *)
(* What the command reads of the ledger may be missing from the answer: it *)
(* takes an account_info error for a deleted account and an account_lines  *)
(* error for no trust line and no balance.  Each such answer is a fault.   *)
(***************************************************************************)
EXTENDS Integers, FiniteSets

CONSTANTS
    MaxWallets,  \* bound on disposable wallets
    MaxEpochs,   \* bound on cooldowns that pass
    MaxFaults    \* bound on crashes, failing calls, timeouts and error answers

Wallets == 1 .. MaxWallets

ASSUME BoundsAssumption ==
    MaxWallets \in Nat /\ MaxEpochs \in Nat /\ MaxFaults \in Nat

VARIABLES
    asset,    \* which of the two commands
    account,  \* account[w]: "none", "open" or "deleted" on the ledger
    ready,    \* ready[w]: AccountDelete's ledger gap has passed
    line,     \* line[w]: the wallet has the trust line
    balance,  \* balance[w]: its token balance
    due,      \* due[w]: the faucet is about to pay it
    told,     \* told[w]: the user has been asked to claim to it
    asked,    \* asked[w]: the faucet has been asked for it
    pooled,   \* the accumulator's token balance
    buyer,    \* the buyer's
    file,     \* the claim-state file
    mem,      \* the running command's copy
    pc,       \* where the command is
    cur,      \* the wallet it is busy with
    todo,     \* wallets its recovery has not reached yet
    phase,    \* whose recovery it is: of earlier wallets, after a claim, after a failure
    next,     \* the step after a write
    seen,     \* the balance that it is moving
    swept,    \* its recovery moved something
    epoch,    \* cooldowns that have passed
    faults,   \* faults so far
    lost      \* history: wallets whose seed is gone, or that an error answer wrote off

ledgerVars == <<account, ready, line, balance, due, told, asked, pooled, buyer>>
callVars == <<cur, todo, phase, next, seen, swept>>
vars == <<asset, ledgerVars, file, mem, pc, callVars, epoch, faults, lost>>

-----------------------------------------------------------------------------
\* "tracked" stands for created, claimed, claim_failed, rlusd_swept, usdc_swept
\* and delete_failed, which nothing tells apart.
Statuses == {"untracked", "tracked", "awaiting_manual_funding", "deleted"}

\* success: the cooldown in which the last success was recorded.
State == [status : [Wallets -> Statuses], success : {-1} \cup 0 .. MaxEpochs]

\* Recovery looks at a wallet until it is deleted.
Unfinished(status) == status \notin {"untracked", "deleted"}

Empty == [status |-> [w \in Wallets |-> "untracked"], success |-> -1]

\* A file that is no JSON, or of another version, accumulator or issuer.
Void == [status |-> [w \in Wallets |-> "untracked"], success |-> -2]

\* load_rlusd_claim_state: no file and a void one both read as the empty state,
\* and the next write replaces what is there.
Load == IF file.success = -2 THEN Empty ELSE file

Init ==
    /\ asset \in {"rlusd", "usdc"}
    /\ account = [w \in Wallets |-> "none"]
    /\ ready = [w \in Wallets |-> FALSE]
    /\ line = [w \in Wallets |-> FALSE]
    /\ balance = [w \in Wallets |-> 0]
    /\ due = [w \in Wallets |-> FALSE]
    /\ told = [w \in Wallets |-> FALSE]
    /\ asked = [w \in Wallets |-> FALSE]
    /\ pooled = 0
    /\ buyer = 0
    /\ file = Empty
    /\ mem = Empty
    /\ pc = "idle"
    /\ cur = 0
    /\ todo = {}
    /\ phase = "earlier"
    /\ next = "idle"
    /\ seen = 0
    /\ swept = FALSE
    /\ epoch = 0
    /\ faults = 0
    /\ lost = {}

-----------------------------------------------------------------------------
(***************************************************************************)
(* The ledger, the faucets and the user.                                   *)
(***************************************************************************)
Deliver(w) ==
    /\ due[w]
    /\ due' = [due EXCEPT ![w] = FALSE]
    /\ balance' = [balance EXCEPT ![w] = IF line[w] THEN @ + 1 ELSE @]
    /\ UNCHANGED <<asset, account, ready, line, told, asked, pooled, buyer, file, mem, pc, callVars,
                   epoch, faults, lost>>

\* The user follows the printed message, once for each address.
Ask(w) ==
    /\ asset = "usdc"
    /\ told[w]
    /\ ~asked[w]
    /\ asked' = [asked EXCEPT ![w] = TRUE]
    /\ due' = [due EXCEPT ![w] = TRUE]
    /\ UNCHANGED <<asset, account, ready, line, balance, told, pooled, buyer, file, mem, pc, callVars,
                   epoch, faults, lost>>

Ripen(w) ==
    /\ account[w] = "open"
    /\ ~ready[w]
    /\ ready' = [ready EXCEPT ![w] = TRUE]
    /\ UNCHANGED <<asset, account, line, balance, due, told, asked, pooled, buyer, file, mem, pc,
                   callVars, epoch, faults, lost>>

Cool ==
    /\ epoch < MaxEpochs
    /\ epoch' = epoch + 1
    /\ UNCHANGED <<asset, ledgerVars, file, mem, pc, callVars, faults, lost>>

World == Cool \/ \E w \in Wallets : Deliver(w) \/ Ask(w) \/ Ripen(w)

-----------------------------------------------------------------------------
(***************************************************************************)
(* How a command moves on, writes and stops.                               *)
(***************************************************************************)
\* Mutant: what the call knew survives it.
StopDirty == pc' = "idle" /\ UNCHANGED <<mem, callVars>>

Stop ==
    /\ pc' = "idle"
    /\ mem' = Empty
    /\ cur' = 0
    /\ todo' = {}
    /\ phase' = "earlier"
    /\ next' = "idle"
    /\ seen' = 0
    /\ swept' = FALSE

Goto(step) == pc' = step /\ UNCHANGED callVars

Save(step) ==
    /\ pc' = "write"
    /\ next' = step
    /\ UNCHANGED <<cur, todo, phase, seen, swept>>

Mark(status) == mem' = [mem EXCEPT !.status[cur] = status]

Fault == faults < MaxFaults /\ faults' = faults + 1

\* The wallet's recovery returns to its caller.
Return == Save(IF phase = "earlier" THEN "recover" ELSE "bridge")

\* An exception: the claim handles it, anything else ends the command.
Raise ==
    \/ /\ phase = "claim"
       /\ Mark("tracked")
       /\ pc' = "look"
       /\ phase' = "failed"
       /\ UNCHANGED <<cur, todo, next, seen, swept>>
    \/ phase # "claim" /\ Stop

\* write_rlusd_claim_state: not atomic.  (A claim also writes the time of the
\* attempt, in its step "topup".)
Write ==
    /\ pc = "write"
    /\ file' = mem
    /\ Goto(next)
    /\ UNCHANGED <<asset, ledgerVars, mem, epoch, faults, lost>>

\* Every seed that was ever written goes with the file.
Discard ==
    /\ file' = Void
    /\ lost' = {w \in Wallets : account[w] # "none"}

\* A wallet that was about to be written off is tracked still.
Crash ==
    /\ pc # "idle"
    /\ Fault
    /\ Stop
    /\ \/ /\ lost' = {w \in lost : ~Unfinished(file.status[w])}
          /\ UNCHANGED file
       \/ pc \in {"write", "topup"} /\ Discard
    /\ UNCHANGED <<asset, ledgerVars, epoch>>

\* _refresh_demo_wallet_set, before a run: on an error answer about the merchant
\* wallet, which is the accumulator, a new one takes its place in the cache, and
\* what the old one holds stays behind.  A file of another version or issuer is
\* void likewise, and moves nothing.
Replace ==
    /\ pc = "idle"
    /\ Fault
    /\ Discard
    /\ pooled' \in {0, pooled}
    /\ UNCHANGED <<asset, account, ready, line, balance, due, told, asked, buyer, mem, pc, callVars,
                   epoch>>

-----------------------------------------------------------------------------
(***************************************************************************)
(* recover_tracked_claim_wallets.                                          *)
(***************************************************************************)
Start ==
    /\ pc = "idle"
    /\ pc' = "recover"
    /\ mem' = Load
    /\ todo' = {w \in Wallets : Unfinished(Load.status[w])}
    /\ UNCHANGED <<asset, ledgerVars, file, cur, phase, next, seen, swept, epoch, faults, lost>>

\* Mutant: the success is forgotten.
Forgotten == mem

Succeeded == [mem EXCEPT !.success = epoch]

\* USDC learns of a claim by finding its money.
Recover ==
    /\ pc = "recover"
    /\ \/ \E w \in todo :
            /\ \A v \in todo : w <= v
            /\ cur' = w
            /\ todo' = todo \ {w}
            /\ pc' = "look"
            /\ UNCHANGED <<mem, phase, next, seen, swept>>
       \/ /\ todo = {}
          /\ asset = "usdc" /\ swept
          /\ mem' = Succeeded
          /\ Save("topup")
       \/ /\ todo = {}
          /\ ~(asset = "usdc" /\ swept)
          /\ Goto("topup")
          /\ UNCHANGED mem
    /\ UNCHANGED <<asset, ledgerVars, file, epoch, faults, lost>>

-----------------------------------------------------------------------------
(***************************************************************************)
(* _recover_claim_wallet.                                                  *)
(***************************************************************************)
\* Mutant: a wallet that awaited funding is not looked at.
StillAwaiting == mem.status[cur] = "awaiting_manual_funding"

Awaiting == mem.status[cur] = "awaiting_manual_funding" /\ balance[cur] = 0

\* get_validated_account_root: no account_data in the answer means no account,
\* and no later run looks at the wallet again.
WriteOff ==
    /\ account[cur] = "open"
    /\ Fault
    /\ Mark("deleted")
    /\ lost' = lost \cup {cur}
    /\ Return

\* The balance is read as zero, or a call fails.
LookAmiss ==
    /\ account[cur] = "open"
    /\ Fault
    /\ \/ Raise
       \/ /\ mem.status[cur] = "awaiting_manual_funding"
          /\ Return
          /\ UNCHANGED mem
       \/ /\ mem.status[cur] # "awaiting_manual_funding"
          /\ pc' = "reset"
          /\ seen' = 0
          /\ UNCHANGED <<mem, cur, todo, phase, next, swept>>
    /\ UNCHANGED lost

Look ==
    /\ pc = "look"
    /\ \/ /\ account[cur] # "open"
          /\ Mark("deleted")
          /\ Return
          /\ UNCHANGED <<faults, lost>>
       \/ /\ account[cur] = "open" /\ Awaiting
          /\ Return
          /\ UNCHANGED <<mem, faults, lost>>
       \/ /\ account[cur] = "open" /\ ~Awaiting
          /\ pc' = IF balance[cur] > 0 THEN "sweep" ELSE "reset"
          /\ seen' = balance[cur]
          /\ UNCHANGED <<mem, cur, todo, phase, next, swept, faults, lost>>
       \/ WriteOff \/ LookAmiss
    /\ UNCHANGED <<asset, ledgerVars, file, epoch>>

Transfer ==
    /\ balance' = [balance EXCEPT ![cur] = @ - seen]
    /\ pooled' = pooled + seen
    /\ UNCHANGED <<account, ready, line, due, told, asked, buyer>>

Sweep ==
    /\ pc = "sweep"
    /\ \/ /\ Transfer
          /\ Mark("tracked")
          /\ pc' = "reset"
          /\ swept' = TRUE
          /\ UNCHANGED <<cur, todo, phase, next, seen, faults>>
       \/ /\ Fault
          /\ Transfer \/ UNCHANGED ledgerVars
          /\ Raise
    /\ UNCHANGED <<asset, file, epoch, lost>>

\* Mutant: the limit stays.
KeepLine == UNCHANGED ledgerVars

\* A trust line that holds a balance survives a limit of zero.
Unline ==
    /\ line' = [line EXCEPT ![cur] = balance[cur] > 0]
    /\ UNCHANGED <<account, ready, balance, due, told, asked, pooled, buyer>>

ResetLine ==
    /\ pc = "reset"
    /\ \/ /\ line[cur] /\ balance[cur] > 0
          /\ Mark("tracked")
          /\ Return
          /\ UNCHANGED <<ledgerVars, faults>>
       \/ /\ line[cur] /\ balance[cur] = 0
          /\ Unline
          /\ Goto("delete")
          /\ UNCHANGED <<mem, faults>>
       \/ /\ ~line[cur]
          /\ Goto("delete")
          /\ UNCHANGED <<mem, ledgerVars, faults>>
       \/ /\ line[cur]
          /\ Fault
          /\ \/ (Unline \/ UNCHANGED ledgerVars) /\ Raise
             \/ (Unline \/ UNCHANGED ledgerVars) /\ Mark("tracked") /\ Return
             \/ (Unline \/ UNCHANGED ledgerVars) /\ Goto("delete") /\ UNCHANGED mem
    /\ UNCHANGED <<asset, file, epoch, lost>>

Remove ==
    /\ account' = [account EXCEPT ![cur] = "deleted"]
    /\ UNCHANGED <<ready, line, balance, due, told, asked, pooled, buyer>>

\* Mutant: a deletion without an answer counts as done.
AssumedDeleted == "deleted"

NotDeleted == "tracked"

\* A trust line obliges the account to stay.
Delete ==
    /\ pc = "delete"
    /\ \/ /\ ~ready[cur]
          /\ Return
          /\ UNCHANGED <<mem, ledgerVars, faults, lost>>
       \/ /\ ready[cur] /\ ~line[cur]
          /\ Remove
          /\ Mark("deleted")
          /\ Return
          /\ UNCHANGED <<faults, lost>>
       \/ /\ ready[cur] /\ line[cur]
          /\ Mark(NotDeleted)
          /\ Return
          /\ UNCHANGED <<ledgerVars, faults, lost>>
       \/ /\ ready[cur]
          /\ Fault
          /\ (~line[cur] /\ Remove) \/ UNCHANGED ledgerVars
          /\ Mark(NotDeleted)
          /\ Return
          /\ UNCHANGED lost
       \/ WriteOff /\ UNCHANGED ledgerVars
       \/ /\ Fault
          /\ Raise
          /\ UNCHANGED <<ledgerVars, lost>>
    /\ UNCHANGED <<asset, file, epoch>>

-----------------------------------------------------------------------------
(***************************************************************************)
(* claim_rlusd_topup and prepare_usdc_topup, after the recovery.           *)
(***************************************************************************)
Cooling == mem.success = epoch

Pending == \E w \in Wallets : mem.status[w] = "awaiting_manual_funding"

\* A faucet creates it, with XRP and without the trust line.
Generate(w) ==
    /\ account[w] = "none"
    /\ \A v \in Wallets : v < w => account[v] # "none"
    /\ account' = [account EXCEPT ![w] = "open"]
    /\ UNCHANGED <<ready, balance, due, told, asked, pooled, buyer>>

\* Mutant: the wallet is not on disk before it is used.
TrackLater(step) ==
    pc' = step /\ phase' = "claim" /\ UNCHANGED <<next, todo, seen, swept>>

\* The try block begins.
Track(step) ==
    pc' = "write" /\ next' = step /\ phase' = "claim" /\ UNCHANGED <<todo, seen, swept>>

TopUp ==
    /\ pc = "topup"
    /\ \/ Goto("bridge") /\ UNCHANGED <<ledgerVars, mem>>  \* no token, or the bound
       \/ \E w \in Wallets :
            /\ ~Cooling
            /\ cur' = w
            /\ Generate(w)
            /\ \/ /\ asset = "rlusd"
                  /\ mem' = [mem EXCEPT !.status[w] = "tracked"]
                  /\ UNCHANGED line
                  /\ Track("trust")
               \/ /\ asset = "usdc" /\ ~Pending
                  /\ mem' = [mem EXCEPT !.status[w] = "awaiting_manual_funding"]
                  /\ line' = [line EXCEPT ![w] = TRUE]
                  /\ Track("bridge")
    /\ UNCHANGED <<asset, file, epoch, faults, lost>>

Trust ==
    /\ pc = "trust"
    /\ \/ /\ line' = [line EXCEPT ![cur] = TRUE]
          /\ Save("mint")
          /\ UNCHANGED <<mem, faults>>
       \/ /\ Fault
          /\ line' \in {line, [line EXCEPT ![cur] = TRUE]}
          /\ Raise
    /\ UNCHANGED <<asset, account, ready, balance, due, told, asked, pooled, buyer, file, epoch,
                   lost>>

Mint ==
    /\ pc = "mint"
    /\ \/ /\ asked' = [asked EXCEPT ![cur] = TRUE]
          /\ due' = [due EXCEPT ![cur] = TRUE]
          /\ Mark("tracked")
          /\ Save("wait")
          /\ UNCHANGED faults
       \/ /\ UNCHANGED <<asked, due, faults>>  \* rate limited
          /\ Raise
       \/ /\ Fault
          /\ asked' = [asked EXCEPT ![cur] = TRUE]
          /\ due' = [due EXCEPT ![cur] = TRUE]
          /\ Raise
    /\ UNCHANGED <<asset, account, ready, line, balance, told, pooled, buyer, file, epoch, lost>>

Wait ==
    /\ pc = "wait"
    /\ \/ /\ balance[cur] > 0
          /\ mem' = Succeeded
          /\ Save("look")
          /\ UNCHANGED faults
       \/ /\ Fault
          /\ Raise
    /\ UNCHANGED <<asset, ledgerVars, file, epoch, lost>>

Bridged == buyer' = buyer + pooled /\ pooled' = 0

\* _finalize_rlusd_topup_result: the command ends whatever the bridge does, and
\* prints which wallet awaits funding.
Bridge ==
    /\ pc = "bridge"
    /\ \/ Bridged /\ UNCHANGED faults
       \/ Fault /\ (Bridged \/ UNCHANGED <<buyer, pooled>>)
    /\ told' = [w \in Wallets |-> told[w] \/ mem.status[w] = "awaiting_manual_funding"]
    /\ Stop
    /\ UNCHANGED <<asset, account, ready, line, balance, due, asked, file, epoch, lost>>

-----------------------------------------------------------------------------
RecoverWallet == Look \/ Sweep \/ ResetLine \/ Delete

Claim == TopUp \/ Trust \/ Mint \/ Wait

Command == Write \/ Recover \/ RecoverWallet \/ Claim \/ Bridge

Next == World \/ Start \/ Command \/ Crash \/ Replace

Spec == Init /\ [][Next]_vars

\* The command is run again and again, ledgers close, the faucet pays.
FairSpec ==
    /\ Spec
    /\ WF_vars(Start)
    /\ WF_vars(Command)
    /\ \A w \in Wallets : WF_vars(Ripen(w)) /\ WF_vars(Deliver(w))

-----------------------------------------------------------------------------
TypeOK ==
    /\ asset \in {"rlusd", "usdc"}
    /\ account \in [Wallets -> {"none", "open", "deleted"}]
    /\ ready \in [Wallets -> BOOLEAN]
    /\ line \in [Wallets -> BOOLEAN]
    /\ balance \in [Wallets -> Nat]
    /\ due \in [Wallets -> BOOLEAN]
    /\ told \in [Wallets -> BOOLEAN]
    /\ asked \in [Wallets -> BOOLEAN]
    /\ pooled \in Nat
    /\ buyer \in Nat
    /\ file \in State \cup {Void}
    /\ mem \in State
    /\ pc \in {"idle", "recover", "look", "sweep", "reset", "delete", "write", "topup",
               "trust", "mint", "wait", "bridge"}
    /\ cur \in {0} \cup Wallets
    /\ todo \subseteq Wallets
    /\ phase \in {"earlier", "claim", "failed"}
    /\ next \in {"idle", "recover", "look", "topup", "trust", "mint", "wait", "bridge"}
    /\ seen \in Nat
    /\ swept \in BOOLEAN
    /\ epoch \in 0 .. MaxEpochs
    /\ faults \in 0 .. MaxFaults
    /\ lost \subseteq Wallets
    /\ pc = "idle" => cur = 0 /\ todo = {} /\ phase = "earlier" /\ ~swept

(***************************************************************************)
(* No claimed token is stranded: a disposable wallet that holds some, or   *)
(* may still receive some, has its seed in the file and is not written     *)
(* off.  The exceptions are those that the code makes: the wallets of a    *)
(* file that became void, and one that an error answer writes off.         *)
(***************************************************************************)
Tracked ==
    \A w \in Wallets \ lost :
        balance[w] > 0 \/ (due[w] /\ line[w]) => Unfinished(file.status[w])

(***************************************************************************)
(* A wallet that the file calls deleted, which recovery never looks at     *)
(* again, is gone from the ledger, whatever calls failed or were cut off   *)
(* on the way.  Only an error answer to account_info writes off one that   *)
(* is not.                                                                 *)
(***************************************************************************)
DeletedIsGone ==
    \A w \in Wallets \ lost : file.status[w] = "deleted" => account[w] = "deleted"

(***************************************************************************)
(* The faucet is asked once in each cooldown, and once more for each run   *)
(* that a fault kept from recording its success, an answer that voids the  *)
(* file included.                                                          *)
(***************************************************************************)
CooldownKept == Cardinality({w \in Wallets : asked[w]}) <= 1 + epoch + faults

(***************************************************************************)
(* What a claim wallet receives reaches the buyer, through every failure   *)
(* but the two that lose the wallet (see Tracked).                         *)
(***************************************************************************)
EventuallyCollected ==
    \A w \in Wallets : balance[w] > 0 ~> w \in lost \/ (balance[w] = 0 /\ pooled = 0)

(***************************************************************************)
(* A wallet that was funded, or whose claim failed, is deleted from the    *)
(* ledger in the end, its XRP reserve returned, and recorded as deleted,   *)
(* unless it was lost before.                                              *)
(***************************************************************************)
EventuallyDeleted ==
    \A w \in Wallets :
        file.status[w] \notin {"untracked", "awaiting_manual_funding"}
        ~> w \in lost \/ (file.status[w] = "deleted" /\ account[w] = "deleted")
=============================================================================
