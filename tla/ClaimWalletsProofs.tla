------------------------- MODULE ClaimWalletsProofs -------------------------
(***************************************************************************)
(* Proofs about ClaimWallets, for any number of disposable wallets,        *)
(* cooldowns and faults.                                                   *)
(*                                                                         *)
(* A wallet can hold or receive the token only while it has the trust      *)
(* line; and whoever has the line is tracked on disk, or nobody was ever   *)
(* told of it, or its file became void or an error answer wrote it off.    *)
(* The faucet is asked once in a cooldown, because a command that ended    *)
(* without a fault left on disk that the claim was made.                   *)
(***************************************************************************)
EXTENDS ClaimWallets, FiniteSetTheorems, TLAPS

MoneyNeedsLine ==
    \A w \in Wallets :
        /\ balance[w] > 0 => line[w]
        /\ account[w] # "open" => ~line[w]
        /\ account[w] = "none" => ~told[w] /\ ~due[w]

\* What a state, on disk or in memory, says of the ledger.
StatusOK(state) ==
    \A w \in Wallets :
        /\ state.status[w] = "deleted" => account[w] = "deleted" \/ w \in lost
        /\ state.status[w] # "untracked" => account[w] # "none"

Untold(w) == ~told[w] /\ ~due[w] /\ balance[w] = 0

Recorded(state) ==
    \A w \in Wallets \ lost : line[w] => Unfinished(state.status[w]) \/ Untold(w)

\* Between two writes the command tracks nothing that the file does not.
OnDisk == \A w \in Wallets : Unfinished(mem.status[w]) => Unfinished(file.status[w])

Kept ==
    /\ Recorded(file)
    /\ pc # "idle" => Recorded(mem)
    /\ pc \notin {"idle", "write"} => OnDisk

Step == IF pc = "write" THEN next ELSE pc

\* The command is busy with a wallet that it tracks.
AtWork ==
    /\ Step = "idle" => pc = "idle"
    /\ Step \in {"look", "sweep", "reset", "delete", "trust", "mint", "wait"} =>
          cur \in Wallets /\ Unfinished(mem.status[cur])
    /\ Step = "trust" => account[cur] = "open"
    /\ Step = "sweep" => seen <= balance[cur]
    /\ cur \notin todo
    /\ \A w \in todo : Unfinished(mem.status[w])

Inv ==
    /\ TypeOK
    /\ MoneyNeedsLine
    /\ StatusOK(file)
    /\ StatusOK(mem)
    /\ Kept
    /\ AtWork

-----------------------------------------------------------------------------
USE BoundsAssumption

LEMMA MarkFacts ==
    ASSUME TypeOK, cur \in Wallets, NEW status \in Statuses, Mark(status)
    PROVE  /\ mem' \in State
           /\ mem'.status[cur] = status
           /\ \A w \in Wallets \ {cur} : mem'.status[w] = mem.status[w]
           /\ mem'.success = mem.success
BY DEF TypeOK, Mark, State

LEMMA EmptyFacts ==
    /\ Empty \in State
    /\ \A w \in Wallets : Empty.status[w] = "untracked" /\ Void.status[w] = "untracked"
    /\ ~Unfinished("untracked") /\ Unfinished("tracked") /\ ~Unfinished("deleted")
    /\ Unfinished("awaiting_manual_funding")
BY DEF Empty, Void, State, Statuses, Unfinished

-----------------------------------------------------------------------------
(***************************************************************************)
(* The ledger, the faucets and the user.                                   *)
(***************************************************************************)
LEMMA WorldStep ==
    ASSUME Inv, World
    PROVE  Inv'
<1>1. TypeOK
  BY DEF Inv
<1>2. CASE Cool
  <2>1. TypeOK'
    BY <1>1, <1>2 DEF Cool, TypeOK, ledgerVars, callVars
  <2>. QED
    BY <1>2, <2>1 DEF Cool, Inv, MoneyNeedsLine, StatusOK, Kept, Recorded, Untold, OnDisk, AtWork, Step,
                      ledgerVars, callVars, State
<1>3. ASSUME NEW w \in Wallets, Deliver(w) \/ Ask(w) \/ Ripen(w)
      PROVE  Inv'
  <2>1. /\ UNCHANGED <<asset, account, line, told, pooled, buyer, file, mem, pc, cur, todo,
                        phase, next, seen, swept, epoch, faults, lost>>
        /\ ready' \in [Wallets -> BOOLEAN]
        /\ asked' \in [Wallets -> BOOLEAN]
        /\ due' \in [Wallets -> BOOLEAN]
        /\ balance' \in [Wallets -> Nat]
    <3>1. CASE Deliver(w)
      BY <1>1, <3>1 DEF Deliver, TypeOK, callVars
    <3>2. CASE Ask(w)
      BY <1>1, <3>2 DEF Ask, TypeOK, callVars
    <3>3. CASE Ripen(w)
      BY <1>1, <3>3 DEF Ripen, TypeOK, callVars
    <3>. QED
      BY <1>3, <3>1, <3>2, <3>3
  <2>8. TypeOK'
    BY <1>1, <2>1 DEF TypeOK
  <2>2. \A v \in Wallets :
           /\ balance'[v] >= balance[v]
           /\ balance'[v] > balance[v] => due[v] /\ line[v]
           /\ due'[v] => due[v] \/ told[v]
           /\ due[v] => due'[v] \/ balance'[v] > balance[v] \/ ~line[v]
    BY <1>1, <1>3 DEF Deliver, Ask, Ripen, TypeOK
  <2>3. MoneyNeedsLine'
    BY <1>1, <2>1, <2>2 DEF Inv, MoneyNeedsLine, TypeOK
  <2>4. StatusOK(file)' /\ StatusOK(mem)'
    BY <2>1 DEF Inv, StatusOK
  <2>5. \A v \in Wallets : Untold(v) => Untold(v)'
    BY <1>1, <2>1, <2>2 DEF Untold, TypeOK
  <2>6. Kept'
    BY <2>1, <2>5 DEF Inv, Kept, Recorded, OnDisk, State
  <2>7. AtWork'
    BY <1>1, <2>1, <2>2 DEF Inv, AtWork, Step, callVars, TypeOK
  <2>. QED
    BY <2>8, <2>3, <2>4, <2>6, <2>7 DEF Inv
<1>. QED
  BY <1>2, <1>3 DEF World

-----------------------------------------------------------------------------
(***************************************************************************)
(* Beginning, writing, stopping.                                           *)
(***************************************************************************)
LEMMA StopFacts ==
    ASSUME Stop
    PROVE  /\ pc' = "idle" /\ cur' = 0 /\ todo' = {} /\ phase' = "earlier" /\ swept' = FALSE
           /\ next' = "idle" /\ seen' = 0
           /\ mem' = Empty
           /\ AtWork'
BY DEF Stop, AtWork, Step

\* A void file tracks nothing; who could be missed is lost.
LEMMA DiscardFacts ==
    ASSUME Inv, Discard, UNCHANGED <<account, line, due, told, balance>>
    PROVE  /\ file' = Void /\ lost' \subseteq Wallets
           /\ StatusOK(file)' /\ Recorded(file)'
<1>1. file' = Void /\ lost' = {w \in Wallets : account[w] # "none"}
  BY DEF Discard
<1>2. StatusOK(file)'
  BY <1>1, EmptyFacts DEF StatusOK
<1>3. Recorded(file)'
  BY <1>1 DEF Inv, MoneyNeedsLine, Recorded
<1>. QED
  BY <1>1, <1>2, <1>3

LEMMA CrashStep ==
    ASSUME Inv, Crash
    PROVE  Inv'
<1>1. TypeOK
  BY DEF Inv
<1>2. /\ UNCHANGED <<asset, ledgerVars, epoch>>
      /\ \/ lost' = {w \in lost : ~Unfinished(file.status[w])} /\ UNCHANGED file
         \/ Discard
      /\ faults' \in 0 .. MaxFaults
      /\ Stop
  BY <1>1 DEF Crash, Fault, TypeOK
<1>3. /\ file' \in State \cup {Void} /\ lost' \subseteq Wallets
      /\ StatusOK(file)' /\ Recorded(file)'
  <2>1. CASE Discard
    BY <1>2, <2>1, DiscardFacts DEF ledgerVars
  <2>2. CASE lost' = {w \in lost : ~Unfinished(file.status[w])} /\ UNCHANGED file
    <3>1. StatusOK(file)'
      BY <1>2, <2>2, EmptyFacts DEF Inv, StatusOK, ledgerVars
    <3>2. Recorded(file)'
      BY <1>2, <2>2 DEF Inv, Kept, Recorded, Untold, ledgerVars
    <3>. QED
      BY <1>1, <2>2, <3>1, <3>2 DEF TypeOK
  <2>. QED
    BY <1>2, <2>1, <2>2
<1>4. TypeOK'
  BY <1>1, <1>2, <1>3, StopFacts, EmptyFacts DEF TypeOK, ledgerVars
<1>5. MoneyNeedsLine'
  BY <1>2 DEF Inv, MoneyNeedsLine, ledgerVars
<1>6. StatusOK(mem)'
  BY <1>2, StopFacts, EmptyFacts DEF StatusOK
<1>7. Kept'
  BY <1>2, <1>3, StopFacts DEF Kept
<1>8. AtWork'
  BY <1>2, StopFacts
<1>. QED
  BY <1>3, <1>4, <1>5, <1>6, <1>7, <1>8 DEF Inv

LEMMA ReplaceStep ==
    ASSUME Inv, Replace
    PROVE  Inv'
<1>1. TypeOK
  BY DEF Inv
<1>2. /\ UNCHANGED <<asset, account, ready, line, balance, due, told, asked, buyer, mem, pc, cur, todo,
                      phase, next, seen, swept, epoch>>
      /\ pc = "idle" /\ Discard
      /\ pooled' \in {0, pooled}
      /\ faults' \in 0 .. MaxFaults
  BY <1>1 DEF Replace, Fault, TypeOK, callVars
<1>3. /\ file' = Void /\ lost' \subseteq Wallets
      /\ StatusOK(file)' /\ Recorded(file)'
  BY <1>2, DiscardFacts
<1>4. TypeOK'
  BY <1>1, <1>2, <1>3 DEF TypeOK
<1>5. MoneyNeedsLine'
  BY <1>2 DEF Inv, MoneyNeedsLine
<1>6. StatusOK(mem)'
  <2>. SUFFICES ASSUME NEW w \in Wallets
                PROVE  /\ mem'.status[w] = "deleted" => account'[w] = "deleted" \/ w \in lost'
                       /\ mem'.status[w] # "untracked" => account'[w] # "none"
    BY DEF StatusOK
  <2>. QED
    BY <1>2 DEF Inv, StatusOK, Discard
<1>7. Kept'
  BY <1>2, <1>3 DEF Kept
<1>8. AtWork'
  BY <1>2 DEF Inv, AtWork, Step
<1>. QED
  BY <1>3, <1>4, <1>5, <1>6, <1>7, <1>8 DEF Inv

LEMMA StartStep ==
    ASSUME Inv, Start
    PROVE  Inv'
<1>1. TypeOK
  BY DEF Inv
<1>2. /\ pc = "idle" /\ pc' = "recover" /\ mem' = Load
      /\ todo' = {w \in Wallets : Unfinished(Load.status[w])}
      /\ UNCHANGED <<asset, account, ready, line, balance, due, told, asked, pooled, buyer, file, cur,
                     phase, next, seen, swept, epoch, faults, lost>>
  BY DEF Start, ledgerVars
<1>3. /\ Load \in State
      /\ \A w \in Wallets : Load.status[w] = file.status[w]
  BY <1>1, EmptyFacts DEF Load, TypeOK, Void, State
<1>4. TypeOK'
  BY <1>1, <1>2, <1>3 DEF TypeOK
<1>5. MoneyNeedsLine' /\ StatusOK(file)' /\ StatusOK(mem)'
  BY <1>2, <1>3 DEF Inv, MoneyNeedsLine, StatusOK
<1>6. Kept'
  BY <1>2, <1>3 DEF Inv, Kept, Recorded, Untold, OnDisk, State
<1>7. AtWork'
  BY <1>1, <1>2 DEF AtWork, Step, TypeOK, Wallets
<1>. QED
  BY <1>4, <1>5, <1>6, <1>7 DEF Inv

LEMMA WriteStep ==
    ASSUME Inv, Write
    PROVE  Inv'
<1>1. TypeOK
  BY DEF Inv
<1>2. /\ pc = "write" /\ file' = mem /\ pc' = next
      /\ UNCHANGED <<asset, account, ready, line, balance, due, told, asked, pooled, buyer, mem, cur,
                     todo, phase, next, seen, swept, epoch, faults, lost>>
  BY DEF Write, Goto, ledgerVars, callVars
<1>3. TypeOK'
  BY <1>1, <1>2 DEF Inv, TypeOK, AtWork, Step
<1>4. MoneyNeedsLine' /\ StatusOK(file)' /\ StatusOK(mem)'
  BY <1>2 DEF Inv, MoneyNeedsLine, StatusOK
<1>5. Kept'
  BY <1>1, <1>2 DEF Inv, TypeOK, Kept, Recorded, Untold, OnDisk, State
<1>6. AtWork'
  BY <1>1, <1>2 DEF Inv, TypeOK, AtWork, Step
<1>. QED
  BY <1>3, <1>4, <1>5, <1>6 DEF Inv

-----------------------------------------------------------------------------
(***************************************************************************)
(* Steps of the command that are about one wallet, which it tracks.        *)
(***************************************************************************)
\* What such a step may do to the ledger.
Touches(w) ==
    /\ UNCHANGED <<told, file>>
    /\ lost \subseteq lost' /\ lost' \subseteq Wallets
    /\ \A v \in Wallets \ {w} :
          UNCHANGED <<account[v], line[v], due[v], balance[v]>>
    /\ account'[w] \in {account[w], "deleted"}
    /\ balance'[w] > 0 => line'[w]
    /\ account'[w] # "open" => ~line'[w]

\* How such a step may go on.
GoesOn(w) ==
    /\ UNCHANGED <<cur, todo>>
    /\ \A v \in Wallets \ {w} : mem'.status[v] = mem.status[v]
    /\ \/ Unfinished(mem'.status[w])
       \/ mem'.status[w] = "deleted" /\ (account'[w] = "deleted" \/ w \in lost')
    /\ Step' \notin {"idle", "trust"}
    /\ Step' \in {"look", "sweep", "reset", "delete", "mint", "wait"} => Unfinished(mem'.status[w])
    /\ Step' = "sweep" => seen' <= balance'[w]

LEMMA WalletStep ==
    ASSUME Inv, pc \in {"look", "sweep", "reset", "delete", "trust", "mint", "wait"},
           TypeOK', Touches(cur), GoesOn(cur) \/ Stop
    PROVE  Inv'
<1>1. /\ cur \in Wallets
      /\ Unfinished(mem.status[cur])
      /\ account[cur] # "none"
  BY EmptyFacts DEF Inv, AtWork, Step, StatusOK
<1>2. TypeOK
  BY DEF Inv
<1>3. MoneyNeedsLine'
  <2>. SUFFICES ASSUME NEW w \in Wallets
                PROVE  /\ balance'[w] > 0 => line'[w]
                       /\ account'[w] # "open" => ~line'[w]
                       /\ account'[w] = "none" => ~told'[w] /\ ~due'[w]
    BY DEF MoneyNeedsLine
  <2>1. CASE w = cur
    BY <1>1, <2>1 DEF Touches
  <2>2. CASE w # cur
    BY <2>2 DEF Inv, MoneyNeedsLine, Touches
  <2>. QED
    BY <2>1, <2>2
<1>4. \A w \in Wallets : account[w] = "deleted" => account'[w] = "deleted"
  BY DEF Touches
<1>5. \A w \in Wallets : account[w] # "none" => account'[w] # "none"
  BY DEF Touches
<1>6. StatusOK(file)'
  BY <1>4, <1>5 DEF Inv, StatusOK, Touches
<1>7. StatusOK(mem)'
  <2>1. CASE GoesOn(cur)
    BY <1>1, <1>4, <1>5, <2>1, EmptyFacts DEF Inv, StatusOK, GoesOn, Touches
  <2>2. CASE Stop
    BY <2>2, StopFacts, EmptyFacts DEF StatusOK
  <2>. QED
    BY <2>1, <2>2
<1>8. Kept'
  <2>1. file' = file /\ Recorded(file) /\ Recorded(mem) /\ OnDisk /\ lost \subseteq lost'
    BY DEF Inv, Kept, Touches
  <2>2. \A w \in Wallets \ {cur} : line'[w] = line[w] /\ (Untold(w) => Untold(w)')
    BY DEF Untold, Touches
  <2>3. Recorded(file)'
    <3>1. Unfinished(file.status[cur])
      BY <1>1, <2>1 DEF OnDisk
    <3>. QED
      BY <2>1, <2>2, <3>1 DEF Recorded
  <2>4. CASE GoesOn(cur)
    <3>1. Recorded(mem)'
      BY <1>1, <2>1, <2>2, <2>4 DEF Recorded, GoesOn, Touches
    <3>2. OnDisk'
      BY <1>1, <2>1, <2>4 DEF OnDisk, GoesOn
    <3>. QED
      BY <2>1, <2>3, <3>1, <3>2 DEF Kept
  <2>5. CASE Stop
    BY <2>1, <2>3, <2>5, StopFacts DEF Kept
  <2>. QED
    BY <2>4, <2>5
<1>9. AtWork'
  <2>1. CASE GoesOn(cur)
    BY <1>1, <1>2, <2>1 DEF Inv, AtWork, GoesOn, Step, TypeOK
  <2>2. CASE Stop
    BY <2>2, StopFacts
  <2>. QED
    BY <2>1, <2>2
<1>. QED
  BY <1>3, <1>6, <1>7, <1>8, <1>9 DEF Inv

\* The two halves of TypeOK that such a step may change.
LedgerOK ==
    /\ account \in [Wallets -> {"none", "open", "deleted"}]
    /\ ready \in [Wallets -> BOOLEAN]
    /\ line \in [Wallets -> BOOLEAN]
    /\ balance \in [Wallets -> Nat]
    /\ due \in [Wallets -> BOOLEAN]
    /\ told \in [Wallets -> BOOLEAN]
    /\ asked \in [Wallets -> BOOLEAN]
    /\ pooled \in Nat
    /\ buyer \in Nat

CommandOK ==
    /\ mem \in State
    /\ pc \in {"idle", "recover", "look", "sweep", "reset", "delete", "write", "topup",
               "trust", "mint", "wait", "bridge"}
    /\ cur \in {0} \cup Wallets
    /\ todo \subseteq Wallets
    /\ phase \in {"earlier", "claim", "failed"}
    /\ next \in {"idle", "recover", "look", "topup", "trust", "mint", "wait", "bridge"}
    /\ seen \in Nat
    /\ swept \in BOOLEAN
    /\ pc = "idle" => cur = 0 /\ todo = {} /\ phase = "earlier" /\ ~swept

LEMMA Halves ==
    ASSUME TypeOK
    PROVE  LedgerOK /\ CommandOK
BY DEF TypeOK, LedgerOK, CommandOK

LEMMA HalvesKept ==
    ASSUME TypeOK, LedgerOK', CommandOK', UNCHANGED <<asset, file, epoch>>,
           faults' \in 0 .. MaxFaults, lost' = lost \/ lost' \subseteq Wallets
    PROVE  TypeOK'
BY DEF TypeOK, LedgerOK, CommandOK

LEMMA FaultFacts ==
    ASSUME TypeOK, Fault \/ UNCHANGED faults
    PROVE  faults' \in 0 .. MaxFaults
BY DEF TypeOK, Fault

Busy == pc \in {"look", "sweep", "reset", "delete", "trust", "mint", "wait"}

LEMMA BusyFacts ==
    ASSUME Inv, Busy
    PROVE  /\ TypeOK /\ LedgerOK /\ CommandOK
           /\ cur \in Wallets
           /\ Unfinished(mem.status[cur])
           /\ account[cur] \in {"open", "deleted"}
<1>1. TypeOK /\ LedgerOK /\ CommandOK
  BY Halves DEF Inv
<1>2. cur \in Wallets /\ Unfinished(mem.status[cur])
  BY DEF Inv, AtWork, Busy, Step
<1>3. account[cur] # "none"
  BY <1>2, EmptyFacts DEF Inv, StatusOK
<1>. QED
  BY <1>1, <1>2, <1>3 DEF LedgerOK

LEMMA StopOK ==
    ASSUME Stop
    PROVE  CommandOK'
BY StopFacts, EmptyFacts DEF CommandOK

LEMMA RaiseFacts ==
    ASSUME Inv, Busy, Raise
    PROVE  CommandOK' /\ (GoesOn(cur) \/ Stop)
<1>1. CASE Stop
  BY <1>1, StopOK
<1>2. CASE phase = "claim"
  <2>1. /\ Mark("tracked") /\ pc' = "look" /\ phase' = "failed"
        /\ UNCHANGED <<cur, todo, next, seen, swept>>
    BY <1>2 DEF Raise
  <2>2. /\ mem' \in State /\ mem'.status[cur] = "tracked"
        /\ \A w \in Wallets \ {cur} : mem'.status[w] = mem.status[w]
    BY <2>1, BusyFacts, MarkFacts DEF Statuses
  <2>3. CommandOK'
    BY <2>1, <2>2, BusyFacts DEF CommandOK
  <2>4. GoesOn(cur)
    BY <2>1, <2>2, EmptyFacts DEF GoesOn, Step
  <2>. QED
    BY <2>3, <2>4
<1>. QED
  BY <1>1, <1>2 DEF Raise

LEMMA SaveFacts ==
    ASSUME Inv, Busy, mem' \in State,
           NEW step \in {"recover", "bridge", "look", "mint", "wait"}, Save(step),
           \A w \in Wallets \ {cur} : mem'.status[w] = mem.status[w],
           Unfinished(mem'.status[cur]) \/
               /\ step \in {"recover", "bridge"}
               /\ mem'.status[cur] = "deleted" /\ (account'[cur] = "deleted" \/ cur \in lost')
    PROVE  CommandOK' /\ GoesOn(cur)
<1>1. /\ pc' = "write" /\ next' = step
      /\ UNCHANGED <<cur, todo, phase, seen, swept>>
  BY DEF Save
<1>2. CommandOK'
  BY <1>1, BusyFacts DEF CommandOK
<1>3. GoesOn(cur)
  BY <1>1 DEF GoesOn, Step
<1>. QED
  BY <1>2, <1>3

LEMMA ReturnFacts ==
    ASSUME Inv, Busy, Return,
           \/ Mark("tracked")
           \/ mem' = mem
           \/ Mark("deleted") /\ (account'[cur] = "deleted" \/ cur \in lost')
    PROVE  CommandOK' /\ GoesOn(cur)
<1>1. /\ mem' \in State
      /\ \A w \in Wallets \ {cur} : mem'.status[w] = mem.status[w]
      /\ \/ Unfinished(mem'.status[cur])
         \/ mem'.status[cur] = "deleted" /\ (account'[cur] = "deleted" \/ cur \in lost')
  <2>1. CASE mem' = mem
    BY <2>1, BusyFacts DEF CommandOK
  <2>2. CASE Mark("tracked")
    BY <2>2, BusyFacts, MarkFacts, EmptyFacts DEF Statuses
  <2>3. CASE Mark("deleted") /\ (account'[cur] = "deleted" \/ cur \in lost')
    BY <2>3, BusyFacts, MarkFacts DEF Statuses
  <2>. QED
    BY <2>1, <2>2, <2>3
<1>. QED
  BY <1>1, SaveFacts DEF Return

-----------------------------------------------------------------------------
LEMMA SameLedger ==
    ASSUME Inv, Busy, UNCHANGED <<ledgerVars, file>>, lost' \in {lost, lost \cup {cur}}
    PROVE  LedgerOK' /\ Touches(cur)
<1>1. LedgerOK'
  BY BusyFacts DEF LedgerOK, ledgerVars
<1>2. Touches(cur)
  BY BusyFacts DEF Inv, MoneyNeedsLine, Touches, ledgerVars, TypeOK
<1>. QED
  BY <1>1, <1>2

LEMMA LookStep ==
    ASSUME Inv, Look
    PROVE  Inv'
<1>1. Busy
  BY DEF Look, Busy
<1>2. UNCHANGED <<asset, ledgerVars, file, epoch>> /\ (Fault \/ UNCHANGED faults)
  BY DEF Look, WriteOff, LookAmiss
<1>3. lost' \in {lost, lost \cup {cur}}
  BY DEF Look, WriteOff, LookAmiss
<1>4. CommandOK' /\ (GoesOn(cur) \/ Stop)
  <2>1. CASE account[cur] # "open" /\ Mark("deleted") /\ Return
    BY <1>1, <1>2, <2>1, BusyFacts, ReturnFacts DEF ledgerVars
  <2>2. CASE Return /\ UNCHANGED mem
    BY <1>1, <2>2, ReturnFacts
  <2>3. CASE /\ pc' \in {"sweep", "reset"}
             /\ seen' \in 0 .. balance[cur]
             /\ UNCHANGED <<mem, cur, todo, phase, next, swept>>
    <3>1. balance[cur] \in Nat
      BY <1>1, BusyFacts DEF LedgerOK
    <3>2. CommandOK'
      BY <1>1, <2>3, <3>1, BusyFacts DEF CommandOK
    <3>3. GoesOn(cur)
      BY <1>1, <1>2, <2>3, <3>1, BusyFacts DEF GoesOn, Step, ledgerVars
    <3>. QED
      BY <3>2, <3>3
  <2>4. CASE WriteOff
    BY <1>1, <2>4, ReturnFacts DEF WriteOff
  <2>5. CASE Raise
    BY <1>1, <2>5, RaiseFacts
  <2>6. balance[cur] \in Nat
    BY <1>1, BusyFacts DEF LedgerOK
  <2>. QED
    BY <2>1, <2>2, <2>3, <2>4, <2>5, <2>6 DEF Look, LookAmiss
<1>5. LedgerOK' /\ Touches(cur)
  BY <1>1, <1>2, <1>3, BusyFacts, SameLedger
<1>6. TypeOK'
  BY <1>1, <1>2, <1>4, <1>5, BusyFacts, HalvesKept, FaultFacts DEF Touches
<1>. QED
  BY <1>1, <1>4, <1>5, <1>6, WalletStep DEF Busy

LEMMA TransferFacts ==
    ASSUME Inv, Busy, Transfer, pc = "sweep", UNCHANGED <<file, lost>>
    PROVE  LedgerOK' /\ Touches(cur)
<1>1. seen \in Nat /\ seen <= balance[cur]
  BY BusyFacts DEF Inv, AtWork, Step, CommandOK
<1>2. LedgerOK'
  BY <1>1, BusyFacts DEF Transfer, LedgerOK
<1>3. Touches(cur)
  BY <1>1, BusyFacts DEF Inv, MoneyNeedsLine, Transfer, LedgerOK, Touches, TypeOK
<1>. QED
  BY <1>2, <1>3

LEMMA SweepStep ==
    ASSUME Inv, Sweep
    PROVE  Inv'
<1>1. Busy /\ pc = "sweep"
  BY DEF Sweep, Busy
<1>2. UNCHANGED <<asset, file, epoch, lost>> /\ (Fault \/ UNCHANGED faults)
  BY DEF Sweep
<1>3. LedgerOK' /\ Touches(cur)
  BY <1>1, <1>2, TransferFacts, SameLedger DEF Sweep
<1>4. CommandOK' /\ (GoesOn(cur) \/ Stop)
  <2>1. CASE Raise
    BY <1>1, <2>1, RaiseFacts
  <2>2. CASE /\ Mark("tracked") /\ pc' = "reset" /\ swept' = TRUE
             /\ UNCHANGED <<cur, todo, phase, next, seen>>
    <3>1. /\ mem' \in State /\ mem'.status[cur] = "tracked"
          /\ \A w \in Wallets \ {cur} : mem'.status[w] = mem.status[w]
      BY <1>1, <2>2, BusyFacts, MarkFacts DEF Statuses
    <3>2. CommandOK'
      BY <1>1, <2>2, <3>1, BusyFacts DEF CommandOK
    <3>3. GoesOn(cur)
      BY <2>2, <3>1, EmptyFacts DEF GoesOn, Step
    <3>. QED
      BY <3>2, <3>3
  <2>. QED
    BY <2>1, <2>2 DEF Sweep
<1>5. TypeOK'
  BY <1>1, <1>2, <1>3, <1>4, BusyFacts, HalvesKept, FaultFacts
<1>. QED
  BY <1>1, <1>3, <1>4, <1>5, WalletStep DEF Busy

LEMMA UnlineFacts ==
    ASSUME Inv, Busy, Unline, line[cur], UNCHANGED <<file, lost>>
    PROVE  LedgerOK' /\ Touches(cur)
<1>1. LedgerOK'
  BY BusyFacts DEF Unline, LedgerOK
<1>2. account[cur] = "open"
  BY BusyFacts DEF Inv, MoneyNeedsLine
<1>3. Touches(cur)
  BY <1>2, BusyFacts DEF Unline, LedgerOK, Touches, TypeOK
<1>. QED
  BY <1>1, <1>3

LEMMA ResetStep ==
    ASSUME Inv, ResetLine
    PROVE  Inv'
<1>1. Busy
  BY DEF ResetLine, Busy
<1>2. UNCHANGED <<asset, file, epoch, lost>> /\ (Fault \/ UNCHANGED faults)
  BY DEF ResetLine
<1>3. LedgerOK' /\ Touches(cur)
  BY <1>1, <1>2, UnlineFacts, SameLedger DEF ResetLine
<1>4. CommandOK' /\ (GoesOn(cur) \/ Stop)
  <2>1. CASE Raise
    BY <1>1, <2>1, RaiseFacts
  <2>2. CASE Mark("tracked") /\ Return
    BY <1>1, <2>2, ReturnFacts
  <2>3. CASE Goto("delete") /\ UNCHANGED mem
    <3>1. pc' = "delete" /\ UNCHANGED <<cur, todo, phase, next, seen, swept, mem>>
      BY <2>3 DEF Goto, callVars
    <3>2. CommandOK'
      BY <1>1, <3>1, BusyFacts DEF CommandOK
    <3>3. GoesOn(cur)
      BY <1>1, <3>1, BusyFacts DEF GoesOn, Step
    <3>. QED
      BY <3>2, <3>3
  <2>. QED
    BY <2>1, <2>2, <2>3 DEF ResetLine
<1>5. TypeOK'
  BY <1>1, <1>2, <1>3, <1>4, BusyFacts, HalvesKept, FaultFacts
<1>. QED
  BY <1>1, <1>3, <1>4, <1>5, WalletStep DEF Busy

LEMMA RemoveFacts ==
    ASSUME Inv, Busy, Remove, ~line[cur], UNCHANGED <<file, lost>>
    PROVE  LedgerOK' /\ Touches(cur) /\ account'[cur] = "deleted"
<1>1. LedgerOK' /\ account'[cur] = "deleted"
  BY BusyFacts DEF Remove, LedgerOK
<1>2. Touches(cur)
  BY <1>1, BusyFacts DEF Inv, MoneyNeedsLine, Remove, LedgerOK, Touches, TypeOK
<1>. QED
  BY <1>1, <1>2

LEMMA DeleteStep ==
    ASSUME Inv, Delete
    PROVE  Inv'
<1>1. Busy
  BY DEF Delete, Busy
<1>2. UNCHANGED <<asset, file, epoch>> /\ (Fault \/ UNCHANGED faults)
  BY DEF Delete, WriteOff
<1>3. LedgerOK' /\ Touches(cur)
  <2>1. CASE Remove /\ ~line[cur] /\ UNCHANGED lost
    BY <1>1, <1>2, <2>1, RemoveFacts
  <2>2. CASE UNCHANGED ledgerVars /\ lost' \in {lost, lost \cup {cur}}
    BY <1>1, <1>2, <2>2, SameLedger
  <2>. QED
    BY <2>1, <2>2 DEF Delete, WriteOff
<1>4. CommandOK' /\ (GoesOn(cur) \/ Stop)
  <2>1. CASE Return /\ (Mark("tracked") \/ mem' = mem)
    BY <1>1, <2>1, ReturnFacts
  <2>2. CASE Return /\ Remove /\ ~line[cur] /\ Mark("deleted") /\ UNCHANGED lost
    BY <1>1, <1>2, <2>2, RemoveFacts, ReturnFacts
  <2>3. CASE WriteOff
    BY <1>1, <2>3, ReturnFacts DEF WriteOff
  <2>4. CASE Raise
    BY <1>1, <2>4, RaiseFacts
  <2>. QED
    BY <2>1, <2>2, <2>3, <2>4 DEF Delete, NotDeleted
<1>5. TypeOK'
  BY <1>1, <1>2, <1>3, <1>4, BusyFacts, HalvesKept, FaultFacts DEF Touches
<1>. QED
  BY <1>1, <1>3, <1>4, <1>5, WalletStep DEF Busy

LEMMA TrustStep ==
    ASSUME Inv, Trust
    PROVE  Inv'
<1>1. Busy /\ account[cur] = "open"
  BY DEF Trust, Busy, Inv, AtWork, Step
<1>2. UNCHANGED <<asset, account, ready, balance, due, told, asked, pooled, buyer, file, epoch, lost>>
      /\ (Fault \/ UNCHANGED faults)
  BY DEF Trust
<1>3. line' \in {line, [line EXCEPT ![cur] = TRUE]}
  BY DEF Trust
<1>4. LedgerOK'
  BY <1>1, <1>2, <1>3, BusyFacts DEF LedgerOK
<1>5. Touches(cur)
  BY <1>1, <1>2, <1>3, BusyFacts DEF Inv, MoneyNeedsLine, LedgerOK, Touches, TypeOK
<1>6. CommandOK' /\ (GoesOn(cur) \/ Stop)
  <2>1. CASE Raise
    BY <1>1, <2>1, RaiseFacts
  <2>2. CASE Save("mint") /\ UNCHANGED mem
    BY <1>1, <2>2, BusyFacts, SaveFacts DEF CommandOK
  <2>. QED
    BY <2>1, <2>2 DEF Trust
<1>7. TypeOK'
  BY <1>1, <1>2, <1>4, <1>6, BusyFacts, HalvesKept, FaultFacts
<1>. QED
  BY <1>1, <1>5, <1>6, <1>7, WalletStep DEF Busy

LEMMA MintStep ==
    ASSUME Inv, Mint
    PROVE  Inv'
<1>1. Busy
  BY DEF Mint, Busy
<1>2. UNCHANGED <<asset, account, ready, line, balance, told, pooled, buyer, file, epoch, lost>>
      /\ (Fault \/ UNCHANGED faults)
  BY DEF Mint
<1>3. /\ asked' \in {asked, [asked EXCEPT ![cur] = TRUE]}
      /\ due' \in {due, [due EXCEPT ![cur] = TRUE]}
  BY DEF Mint
<1>4. LedgerOK'
  BY <1>1, <1>2, <1>3, BusyFacts DEF LedgerOK
<1>5. Touches(cur)
  BY <1>1, <1>2, <1>3, BusyFacts DEF Inv, MoneyNeedsLine, LedgerOK, Touches, TypeOK
<1>6. CommandOK' /\ (GoesOn(cur) \/ Stop)
  <2>1. CASE Raise
    BY <1>1, <2>1, RaiseFacts
  <2>2. CASE Mark("tracked") /\ Save("wait")
    <3>1. /\ mem' \in State /\ mem'.status[cur] = "tracked"
          /\ \A w \in Wallets \ {cur} : mem'.status[w] = mem.status[w]
      BY <1>1, <2>2, BusyFacts, MarkFacts DEF Statuses
    <3>. QED
      BY <1>1, <2>2, <3>1, EmptyFacts, SaveFacts
  <2>. QED
    BY <2>1, <2>2 DEF Mint
<1>7. TypeOK'
  BY <1>1, <1>2, <1>4, <1>6, BusyFacts, HalvesKept, FaultFacts
<1>. QED
  BY <1>1, <1>5, <1>6, <1>7, WalletStep DEF Busy

LEMMA SucceededFacts ==
    ASSUME TypeOK
    PROVE  Succeeded \in State /\ \A w \in Wallets : Succeeded.status[w] = mem.status[w]
BY DEF TypeOK, Succeeded, State

LEMMA WaitStep ==
    ASSUME Inv, Wait
    PROVE  Inv'
<1>1. Busy
  BY DEF Wait, Busy
<1>2. UNCHANGED <<asset, ledgerVars, file, epoch, lost>> /\ (Fault \/ UNCHANGED faults)
  BY DEF Wait
<1>3. CommandOK' /\ (GoesOn(cur) \/ Stop)
  <2>1. CASE Raise
    BY <1>1, <2>1, RaiseFacts
  <2>2. CASE mem' = Succeeded /\ Save("look")
    BY <1>1, <2>2, BusyFacts, SucceededFacts, SaveFacts
  <2>. QED
    BY <2>1, <2>2 DEF Wait
<1>4. TypeOK'
  BY <1>1, <1>2, <1>3, BusyFacts, SameLedger, HalvesKept, FaultFacts
<1>. QED
  BY <1>1, <1>2, <1>3, <1>4, SameLedger, WalletStep DEF Busy

-----------------------------------------------------------------------------
(***************************************************************************)
(* Steps of the command between wallets.                                   *)
(***************************************************************************)
LEMMA RecoverStep ==
    ASSUME Inv, Recover
    PROVE  Inv'
<1>1. TypeOK /\ pc = "recover" /\ LedgerOK /\ CommandOK
  BY Halves DEF Inv, Recover
<1>2. UNCHANGED <<asset, account, ready, line, balance, due, told, asked, pooled, buyer, file, epoch,
                  faults, lost>>
  BY DEF Recover, ledgerVars
<1>3. mem' \in State /\ \A w \in Wallets : mem'.status[w] = mem.status[w]
  BY <1>1, SucceededFacts DEF Recover, CommandOK
<1>4. \/ /\ cur' \in todo
         /\ todo' = todo \ {cur'}
         /\ pc' = "look"
         /\ UNCHANGED <<phase, next, seen, swept>>
      \/ /\ pc' = "write" /\ next' = "topup"
         /\ UNCHANGED <<cur, todo, phase, seen, swept>>
      \/ /\ pc' = "topup"
         /\ UNCHANGED <<cur, todo, phase, next, seen, swept>>
  BY DEF Recover, Save, Goto, callVars
<1>5. CommandOK' /\ LedgerOK'
  BY <1>1, <1>2, <1>3, <1>4 DEF CommandOK, LedgerOK
<1>6. TypeOK'
  BY <1>1, <1>2, <1>5, HalvesKept, FaultFacts
<1>7. MoneyNeedsLine' /\ StatusOK(file)' /\ StatusOK(mem)'
  BY <1>2, <1>3 DEF Inv, MoneyNeedsLine, StatusOK
<1>8. Kept'
  BY <1>1, <1>2, <1>3 DEF Inv, Kept, Recorded, Untold, OnDisk, State
<1>9. AtWork'
  BY <1>1, <1>3, <1>4 DEF Inv, AtWork, Step, CommandOK
<1>. QED
  BY <1>6, <1>7, <1>8, <1>9 DEF Inv

\* The bridge moves nothing that a wallet holds.  It prints only of wallets
\* that are on disk.
LEMMA BridgeStep ==
    ASSUME Inv, Bridge
    PROVE  Inv'
<1>1. TypeOK /\ pc = "bridge" /\ LedgerOK
  BY Halves DEF Inv, Bridge
<1>2. /\ Stop
      /\ UNCHANGED <<asset, account, ready, line, balance, due, asked, file, epoch, lost>>
      /\ told' = [w \in Wallets |-> told[w] \/ mem.status[w] = "awaiting_manual_funding"]
      /\ Fault \/ UNCHANGED faults
  BY DEF Bridge
<1>3. pooled' \in Nat /\ buyer' \in Nat
  BY <1>1 DEF Bridge, Bridged, LedgerOK
<1>4. LedgerOK'
  BY <1>1, <1>2, <1>3 DEF LedgerOK
<1>5. TypeOK'
  BY <1>1, <1>2, <1>4, StopOK, HalvesKept, FaultFacts
<1>6. MoneyNeedsLine'
  BY <1>2 DEF Inv, MoneyNeedsLine, StatusOK
<1>7. StatusOK(file)' /\ StatusOK(mem)'
  BY <1>2, StopFacts, EmptyFacts DEF Inv, StatusOK
<1>8. Kept'
  <2>. SUFFICES Recorded(file)'
    BY <1>2, StopFacts DEF Kept
  <2>1. Recorded(file) /\ OnDisk /\ Recorded(mem)
    BY <1>1 DEF Inv, Kept
  <2>2. ASSUME NEW w \in Wallets \ lost, line'[w]
        PROVE  Unfinished(file'.status[w]) \/ Untold(w)'
    <3>1. CASE mem.status[w] = "awaiting_manual_funding"
      BY <1>2, <2>1, <3>1, EmptyFacts DEF OnDisk
    <3>2. CASE mem.status[w] # "awaiting_manual_funding"
      BY <1>2, <2>1, <2>2, <3>2 DEF Recorded, Untold
    <3>. QED
      BY <3>1, <3>2
  <2>. QED
    BY <1>2, <2>1, <2>2 DEF Recorded
<1>9. AtWork'
  BY <1>2, StopFacts
<1>. QED
  BY <1>5, <1>6, <1>7, <1>8, <1>9 DEF Inv

\* The new wallet has no token, and is written down before the faucet or the
\* user can learn of it.
LEMMA TopUpStep ==
    ASSUME Inv, TopUp
    PROVE  Inv'
<1>1. TypeOK /\ pc = "topup" /\ LedgerOK /\ CommandOK
  BY Halves DEF Inv, TopUp
<1>2. UNCHANGED <<asset, file, epoch, faults, lost>>
  BY DEF TopUp
<1>3. CASE Goto("bridge") /\ UNCHANGED <<ledgerVars, mem>>
  <2>1. /\ pc' = "bridge"
        /\ UNCHANGED <<cur, todo, phase, next, seen, swept, mem>>
        /\ UNCHANGED <<account, ready, line, balance, due, told, asked, pooled, buyer>>
    BY <1>3 DEF Goto, callVars, ledgerVars
  <2>2. CommandOK' /\ LedgerOK'
    BY <1>1, <2>1 DEF CommandOK, LedgerOK
  <2>3. TypeOK'
    BY <1>1, <1>2, <2>2, HalvesKept, FaultFacts
  <2>4. MoneyNeedsLine' /\ StatusOK(file)' /\ StatusOK(mem)'
    BY <1>2, <2>1 DEF Inv, MoneyNeedsLine, StatusOK
  <2>5. Kept'
    BY <1>1, <1>2, <2>1 DEF Inv, Kept, Recorded, Untold, OnDisk, State
  <2>6. AtWork'
    BY <1>1, <2>1 DEF Inv, AtWork, Step
  <2>. QED
    BY <2>3, <2>4, <2>5, <2>6 DEF Inv
<1>4. ASSUME NEW w \in Wallets, cur' = w, Generate(w),
             \/ /\ mem' = [mem EXCEPT !.status[w] = "tracked"]
                /\ UNCHANGED line
                /\ Track("trust")
             \/ /\ mem' = [mem EXCEPT !.status[w] = "awaiting_manual_funding"]
                /\ line' = [line EXCEPT ![w] = TRUE]
                /\ Track("bridge")
      PROVE  Inv'
  <2>1. /\ account[w] = "none"
        /\ account' = [account EXCEPT ![w] = "open"]
        /\ UNCHANGED <<ready, balance, due, told, asked, pooled, buyer>>
    BY <1>4 DEF Generate
  <2>2. /\ pc' = "write" /\ next' \in {"trust", "bridge"} /\ phase' = "claim"
        /\ UNCHANGED <<todo, seen, swept>>
    BY <1>4 DEF Track
  <2>3. /\ mem' \in State
        /\ mem'.status[w] \in {"tracked", "awaiting_manual_funding"}
        /\ \A v \in Wallets \ {w} : mem'.status[v] = mem.status[v]
    BY <1>1, <1>4 DEF CommandOK, State, Statuses
  <2>4. line' \in {line, [line EXCEPT ![w] = TRUE]}
    BY <1>4
  <2>5. LedgerOK'
    BY <1>1, <2>1, <2>4 DEF LedgerOK
  <2>6. CommandOK'
    BY <1>1, <1>4, <2>2, <2>3 DEF CommandOK
  <2>7. TypeOK'
    BY <1>1, <1>2, <2>5, <2>6, HalvesKept, FaultFacts
  <2>8. ~told[w] /\ ~due[w] /\ ~line[w] /\ balance[w] = 0
    BY <1>1, <2>1 DEF Inv, MoneyNeedsLine, LedgerOK
  <2>9. MoneyNeedsLine'
    BY <1>1, <2>1, <2>4, <2>8 DEF Inv, MoneyNeedsLine, LedgerOK
  <2>10. StatusOK(file)'
    BY <1>1, <1>2, <2>1 DEF Inv, StatusOK, LedgerOK
  <2>11. StatusOK(mem)'
    BY <1>1, <1>2, <2>1, <2>3 DEF Inv, StatusOK, LedgerOK
  <2>12. Kept'
    <3>. SUFFICES Recorded(file)' /\ Recorded(mem)'
      BY <1>2, <2>2 DEF Kept
    <3>1. Recorded(file) /\ Recorded(mem)
      BY <1>1 DEF Inv, Kept
    <3>2. \A v \in Wallets \ {w} : line'[v] = line[v]
      BY <1>1, <2>4 DEF LedgerOK
    <3>3. Recorded(file)'
      BY <1>2, <2>1, <2>8, <3>1, <3>2 DEF Recorded, Untold
    <3>4. Recorded(mem)'
      BY <1>2, <2>1, <2>3, <2>8, <3>1, <3>2 DEF Recorded, Untold
    <3>. QED
      BY <3>3, <3>4
  <2>13. AtWork'
    <3>1. w \notin todo /\ \A v \in todo : v \in Wallets \ {w} /\ Unfinished(mem.status[v])
      BY <1>1, <2>1, EmptyFacts DEF Inv, AtWork, StatusOK, CommandOK
    <3>2. Unfinished(mem'.status[w])
      BY <2>3, EmptyFacts
    <3>3. account'[w] = "open"
      BY <1>1, <2>1 DEF LedgerOK
    <3>. QED
      BY <1>4, <2>2, <2>3, <3>1, <3>2, <3>3 DEF AtWork, Step
  <2>. QED
    BY <2>7, <2>9, <2>10, <2>11, <2>12, <2>13 DEF Inv
<1>. QED
  BY <1>3, <1>4 DEF TopUp

-----------------------------------------------------------------------------
LEMMA InitInv == Init => Inv
<1>. SUFFICES ASSUME Init PROVE Inv
  OBVIOUS
<1>1. TypeOK
  <2>1. LedgerOK
    BY DEF Init, LedgerOK
  <2>2. CommandOK
    BY EmptyFacts DEF Init, CommandOK
  <2>3. asset \in {"rlusd", "usdc"} /\ lost \subseteq Wallets
    BY DEF Init
  <2>4. file \in State
    BY EmptyFacts DEF Init
  <2>5. epoch \in 0 .. MaxEpochs /\ faults \in 0 .. MaxFaults
    BY DEF Init
  <2>. QED
    BY <2>1, <2>2, <2>3, <2>4, <2>5 DEF LedgerOK, CommandOK, TypeOK
<1>2. MoneyNeedsLine
  BY DEF Init, MoneyNeedsLine
<1>3. StatusOK(file) /\ StatusOK(mem)
  BY EmptyFacts DEF Init, StatusOK
<1>4. Kept /\ AtWork
  BY EmptyFacts DEF Init, Kept, Recorded, Untold, AtWork, Step, Wallets
<1>. QED
  BY <1>1, <1>2, <1>3, <1>4 DEF Inv

LEMMA NextInv == Inv /\ [Next]_vars => Inv'
<1>. SUFFICES ASSUME Inv, [Next]_vars PROVE Inv'
  OBVIOUS
<1>1. CASE World
  BY <1>1, WorldStep
<1>2. CASE Start \/ Crash \/ Replace \/ Write
  BY <1>2, StartStep, CrashStep, ReplaceStep, WriteStep
<1>3. CASE RecoverWallet
  BY <1>3, LookStep, SweepStep, ResetStep, DeleteStep DEF RecoverWallet
<1>4. CASE Claim
  BY <1>4, TopUpStep, TrustStep, MintStep, WaitStep DEF Claim
<1>5. CASE Recover \/ Bridge
  BY <1>5, RecoverStep, BridgeStep
<1>6. CASE UNCHANGED vars
  <2>1. TypeOK'
    BY <1>6 DEF Inv, vars, ledgerVars, callVars, TypeOK
  <2>2. MoneyNeedsLine' /\ StatusOK(file)' /\ StatusOK(mem)'
    BY <1>6 DEF Inv, vars, ledgerVars, MoneyNeedsLine, StatusOK
  <2>3. Kept' /\ AtWork'
    BY <1>6 DEF Inv, vars, ledgerVars, callVars, Kept, Recorded, Untold, OnDisk, AtWork, Step
  <2>. QED
    BY <2>1, <2>2, <2>3 DEF Inv
<1>. QED
  BY <1>1, <1>2, <1>3, <1>4, <1>5, <1>6 DEF Next, Command

LEMMA Invariance == Spec => []Inv
BY InitInv, NextInv, PTL DEF Spec

(***************************************************************************)
(* Every variable keeps its type, whatever call fails and wherever the     *)
(* command crashes.                                                        *)
(***************************************************************************)
THEOREM WalletsTypeCorrect == Spec => []TypeOK
<1>1. Inv => TypeOK
  BY DEF Inv
<1>. QED
  BY <1>1, Invariance, PTL

(***************************************************************************)
(* The seed of every wallet that holds or may receive a claimed token is   *)
(* on disk and not written off, however many commands crash or fail at any *)
(* step.  The exceptions are the wallets of a file that became void and    *)
(* those that an error answer to account_info wrote off.                   *)
(***************************************************************************)
THEOREM WalletsTracked == Spec => []Tracked
<1>1. Inv => Tracked
  BY DEF Inv, TypeOK, MoneyNeedsLine, Kept, Recorded, Untold, Tracked
<1>. QED
  BY <1>1, Invariance, PTL

(***************************************************************************)
(* A lost answer to the deletion, a failing call or a crash never writes   *)
(* off a wallet whose account is on the ledger: what recovery never looks  *)
(* at again is gone, or an error answer to account_info said so.           *)
(***************************************************************************)
THEOREM WalletsDeletedGone == Spec => []DeletedIsGone
<1>1. Inv => DeletedIsGone
  BY DEF Inv, StatusOK, DeletedIsGone
<1>. QED
  BY <1>1, Invariance, PTL

-----------------------------------------------------------------------------
(***************************************************************************)
(* The cooldown.  Between two claims the last one has been recorded and    *)
(* the cooldown has passed, or a fault lost the record.                    *)
(***************************************************************************)
\* The wallets for which the faucet was, or may at any time be, asked: USDC's
\* user may follow the printed message long after the command.
Claims == {w \in Wallets : IF asset = "rlusd" THEN asked[w] ELSE account[w] # "none"}

Claimed == Cardinality(Claims)

\* There is room for one claim more in this cooldown.
Spare == Claimed <= epoch + faults

\* No command that goes by this state claims in this cooldown.
Closed(state) ==
    \/ state.success = epoch
    \/ asset = "usdc" /\ \E w \in Wallets :
            state.status[w] = "awaiting_manual_funding" /\ account[w] = "open"

\* The command is about to record a success.
Recording ==
    \/ asset = "rlusd" /\ Step = "wait"
    \/ asset = "usdc" /\ swept /\ Step \notin {"topup", "bridge"}

\* Nobody claims to a wallet that was not generated.
Known == asset = "usdc" => \A w \in Wallets : asked[w] => account[w] # "none"

\* While there is no room, every command knows it, or is about to write it down.
Bounded ==
    /\ Known
    /\ Claimed <= 1 + epoch + faults
    /\ pc = "idle" => Spare \/ Closed(Load)
    /\ pc # "idle" => Spare \/ Closed(mem) \/ Recording
    /\ Step \in {"trust", "mint"} => Spare

\* Which command is where, with what in its copy.
Route ==
    /\ Step \in {"trust", "mint", "wait"} => asset = "rlusd" /\ phase = "claim"
    /\ asset = "usdc" /\ Step # "bridge" => phase = "earlier"
    /\ pc \in {"recover", "topup", "bridge"} => mem = Load
    /\ asset = "usdc" /\ Step \in {"reset", "delete"} => mem.status[cur] # "awaiting_manual_funding"

\* The ways a step on one wallet ends.
LEMMA ReturnRoute ==
    ASSUME Return, Route, Busy, asset' = asset
    PROVE  Route' /\ pc' = "write" /\ next' \in {"recover", "bridge"} /\ swept' = swept
           /\ (asset = "usdc" => next' = "recover")
BY DEF Return, Save, Route, Step, Busy

LEMMA RaiseRoute ==
    ASSUME Raise, Route, Busy, asset' = asset
    PROVE  /\ Route'
           /\ \/ pc' = "idle"
              \/ phase = "claim" /\ pc' = "look" /\ swept' = swept /\ Mark("tracked")
                 /\ asset # "usdc"
BY DEF Raise, Stop, Route, Step, Busy

\* Commands keep to their routes.
LEMMA RouteStep ==
    ASSUME Inv, Route, [Next]_vars
    PROVE  Route'
<1>1. TypeOK /\ CommandOK
  BY Halves DEF Inv
<1>2. CASE UNCHANGED vars \/ World
  <2>1. UNCHANGED <<asset, file, mem, pc, cur, todo, phase, next, seen, swept>>
    BY <1>2 DEF vars, callVars, World, Cool, Deliver, Ask, Ripen
  <2> QED BY <2>1 DEF Route, Step, Load
<1>3. CASE Start
  BY <1>3 DEF Start, Route, Step, Load, ledgerVars
<1>4. CASE Crash \/ Replace
  BY <1>4 DEF Crash, Replace, Stop, Route, Step, callVars
<1>5. CASE Write
  <2>1. file' = mem /\ mem' = mem /\ pc' = next /\ next' = next /\ pc = "write" /\ asset' = asset
        /\ phase' = phase /\ cur' = cur
    BY <1>5 DEF Write, Goto, callVars
  <2>2. mem.success # -2 /\ next # "write"
    BY <1>1 DEF CommandOK, State
  <2> QED BY <2>1, <2>2 DEF Route, Step, Load
<1>6. CASE Recover
  <2>1. pc = "recover" /\ asset' = asset /\ file' = file /\ phase' = phase
        /\ \/ pc' = "look"
           \/ pc' = "write" /\ next' = "topup"
           \/ pc' = "topup" /\ mem' = mem
    BY <1>6 DEF Recover, Save, Goto, callVars
  <2> QED BY <2>1 DEF Route, Step, Load
<1>7. CASE Look
  <2>1. Busy /\ asset' = asset
    BY <1>7 DEF Look, Busy
  <2>2. CASE Return
    BY <2>1, <2>2, ReturnRoute
  <2>3. CASE ~Awaiting /\ pc' = (IF balance[cur] > 0 THEN "sweep" ELSE "reset")
             /\ UNCHANGED <<mem, cur, todo, phase, next, swept>>
    <3>1. cur \in Wallets /\ balance[cur] \in Nat
      BY <2>1, BusyFacts DEF LedgerOK
    <3>2. pc' = "reset" => mem.status[cur] # "awaiting_manual_funding"
      BY <2>3, <3>1 DEF Awaiting
    <3> QED BY <1>7, <2>1, <2>3, <3>2 DEF Look, Route, Step
  <2>4. CASE Raise
    BY <2>1, <2>4, RaiseRoute
  <2>5. CASE mem.status[cur] # "awaiting_manual_funding" /\ pc' = "reset"
             /\ UNCHANGED <<mem, cur, todo, phase, next, swept>>
    BY <1>7, <2>1, <2>5 DEF Look, Route, Step
  <2> QED BY <1>7, <2>2, <2>3, <2>4, <2>5 DEF Look, WriteOff, LookAmiss
<1>8. CASE Sweep
  <2>1. Busy /\ asset' = asset
    BY <1>8 DEF Sweep, Busy
  <2>2. CASE Raise
    BY <2>1, <2>2, RaiseRoute
  <2>3. CASE Mark("tracked") /\ pc' = "reset" /\ UNCHANGED <<cur, todo, phase, next, seen>>
    <3>1. mem'.status[cur] = "tracked"
      BY <2>1, <2>3, BusyFacts, MarkFacts DEF Statuses
    <3> QED BY <1>8, <2>1, <2>3, <3>1 DEF Sweep, Route, Step
  <2> QED BY <1>8, <2>2, <2>3 DEF Sweep
<1>9. CASE ResetLine
  <2>1. Busy /\ asset' = asset
    BY <1>9 DEF ResetLine, Busy
  <2>2. CASE Raise
    BY <2>1, <2>2, RaiseRoute
  <2>3. CASE Return
    BY <2>1, <2>3, ReturnRoute
  <2>4. CASE Goto("delete") /\ UNCHANGED mem
    BY <1>9, <2>1, <2>4 DEF ResetLine, Goto, callVars, Route, Step
  <2> QED BY <1>9, <2>2, <2>3, <2>4 DEF ResetLine
<1>10. CASE Delete
  BY <1>10, ReturnRoute, RaiseRoute DEF Delete, WriteOff, Busy
<1>11. CASE TopUp
  <2>1. pc = "topup" /\ asset' = asset /\ file' = file
    BY <1>11 DEF TopUp
  <2>2. CASE Goto("bridge") /\ UNCHANGED <<ledgerVars, mem>>
    BY <2>1, <2>2 DEF Goto, callVars, Route, Step, Load
  <2>3. CASE (asset = "rlusd" /\ Track("trust")) \/ (asset = "usdc" /\ Track("bridge"))
    BY <2>1, <2>3 DEF Track, Route, Step
  <2> QED BY <1>11, <2>2, <2>3 DEF TopUp
<1>12. CASE Trust
  <2>1. Busy /\ asset' = asset
    BY <1>12 DEF Trust, Busy
  <2>2. CASE Raise
    BY <2>1, <2>2, RaiseRoute
  <2>3. CASE Save("mint")
    BY <1>12, <2>1, <2>3 DEF Trust, Save, Route, Step
  <2> QED BY <1>12, <2>2, <2>3 DEF Trust
<1>13. CASE Mint
  <2>1. Busy /\ asset' = asset
    BY <1>13 DEF Mint, Busy
  <2>2. CASE Raise
    BY <2>1, <2>2, RaiseRoute
  <2>3. CASE Save("wait")
    BY <1>13, <2>1, <2>3 DEF Mint, Save, Route, Step
  <2> QED BY <1>13, <2>2, <2>3 DEF Mint
<1>14. CASE Wait
  <2>1. Busy /\ asset' = asset
    BY <1>14 DEF Wait, Busy
  <2>2. CASE Raise
    BY <2>1, <2>2, RaiseRoute
  <2>3. CASE Save("look")
    BY <1>14, <2>1, <2>3 DEF Wait, Save, Route, Step
  <2> QED BY <1>14, <2>2, <2>3 DEF Wait
<1>15. CASE Bridge
  BY <1>15 DEF Bridge, Stop, Route, Step
<1> QED BY <1>2, <1>3, <1>4, <1>5, <1>6, <1>7, <1>8, <1>9, <1>10, <1>11, <1>12, <1>13, <1>14, <1>15
        DEF Next, Command, RecoverWallet, Claim

-----------------------------------------------------------------------------
\* The claims are counted in naturals.
LEMMA ClaimedFacts ==
    ASSUME Inv
    PROVE  /\ IsFiniteSet(Claims)
           /\ Claimed \in Nat /\ epoch \in Nat /\ faults \in Nat
           /\ asset \in {"rlusd", "usdc"}
<1>1. IsFiniteSet(Wallets) /\ Claims \in SUBSET Wallets
  BY BoundsAssumption, FS_Interval DEF Wallets, Claims
<1>2. IsFiniteSet(Claims)
  BY <1>1, FS_Subset
<1> QED BY <1>2, FS_CardinalityType DEF Claimed, Inv, TypeOK

\* A step that adds no claim, and a step that adds one.
LEMMA SameClaims ==
    ASSUME Inv, asset' = asset,
           \A w \in Wallets : /\ asset = "rlusd" => asked'[w] = asked[w]
                              /\ asset = "usdc" => (account'[w] = "none" <=> account[w] = "none")
    PROVE  Claimed' = Claimed
<1>1. Claims' = Claims
  BY ClaimedFacts DEF Claims
<1> QED BY <1>1 DEF Claimed

LEMMA OneMore ==
    ASSUME Inv, asset' = asset, NEW v \in Wallets,
           asset = "rlusd" => asked' = [asked EXCEPT ![v] = TRUE],
           asset = "usdc" => account' = [account EXCEPT ![v] = "open"]
    PROVE  Claimed' <= Claimed + 1 /\ Claimed' \in Nat
<1>1. Claims' = Claims \cup {v}
  <2>1. CASE asset = "rlusd"
    <3>1. Claims = {w \in Wallets : asked[w]} /\ Claims' = {w \in Wallets : asked'[w]}
      BY <2>1 DEF Claims
    <3>2. \A w \in Wallets : asked'[w] <=> asked[w] \/ w = v
      BY <2>1 DEF Inv, TypeOK
    <3> QED BY <3>1, <3>2, Zenon
  <2>2. CASE asset = "usdc"
    <3>1. /\ Claims = {w \in Wallets : account[w] # "none"}
          /\ Claims' = {w \in Wallets : account'[w] # "none"}
      BY <2>2 DEF Claims
    <3>2. \A w \in Wallets : account'[w] # "none" <=> account[w] # "none" \/ w = v
      BY <2>2 DEF Inv, TypeOK
    <3> QED BY <3>1, <3>2, Zenon
  <2> QED BY <2>1, <2>2, ClaimedFacts
<1>2. /\ IsFiniteSet(Claims \cup {v})
      /\ Cardinality(Claims \cup {v}) = Cardinality(Claims)
            \/ Cardinality(Claims \cup {v}) = Cardinality(Claims) + 1
  BY ClaimedFacts, FS_AddElement
<1>3. Claimed' = Cardinality(Claims \cup {v}) /\ Claimed' \in Nat
  BY <1>1, <1>2, FS_CardinalityType DEF Claimed
<1> QED BY <1>2, <1>3, ClaimedFacts DEF Claimed

\* Where there is room the bound holds.
LEMMA OneOver ==
    ASSUME NEW n \in Nat, NEW e \in Nat, NEW f \in Nat, n <= e + f
    PROVE  n <= 1 + e + f
OBVIOUS

LEMMA SpareSuffices ==
    ASSUME Spare', Known', Claimed' \in Nat, epoch' \in Nat, faults' \in Nat
    PROVE  Bounded'
<1>1. Claimed' <= 1 + epoch' + faults'
  <2>1. Claimed' <= epoch' + faults'
    BY DEF Spare
  <2> QED BY <2>1, OneOver
<1> QED BY <1>1 DEF Bounded

\* Steps that add no claim: a fault makes room, otherwise somebody knows.
LEMMA BoundedKept ==
    ASSUME Inv, Bounded, Known', asset' = asset, Claimed' = Claimed, epoch' = epoch,
           Fault \/ UNCHANGED faults,
           ~Spare /\ UNCHANGED faults =>
               /\ Step' \notin {"trust", "mint"}
               /\ IF pc' = "idle" THEN Closed(Load)' ELSE Closed(mem)' \/ Recording'
    PROVE  Bounded'
<1>1. CASE Spare'
  BY <1>1, ClaimedFacts, SpareSuffices DEF Fault
<1>2. CASE ~Spare'
  <2>1. UNCHANGED faults /\ ~Spare
    BY <1>2, ClaimedFacts DEF Fault, Spare, Bounded
  <2> QED BY <1>2, <2>1 DEF Bounded
<1> QED BY <1>1, <1>2

\* An account that was generated never becomes one that was not.
LEMMA KnownStep ==
    ASSUME Inv, Known, [Next]_vars
    PROVE  Known' /\ asset' = asset
<1>1. asset' = asset
  BY DEF Next, vars, World, Cool, Deliver, Ask, Ripen, Start, Command, Write, Recover, RecoverWallet,
         Look, WriteOff, LookAmiss, Sweep, ResetLine, Delete, Claim, TopUp, Trust, Mint, Wait, Bridge, Crash,
         Replace
<1>2. TypeOK /\ LedgerOK
  BY Halves DEF Inv
<1>3. \A w \in Wallets : account[w] # "none" => account'[w] # "none"
  <2>1. account' = account \/ Remove \/ \E w \in Wallets : Generate(w)
    BY DEF Next, vars, ledgerVars, World, Cool, Deliver, Ask, Ripen, Start, Command, Write, Recover, RecoverWallet,
         Look, WriteOff, LookAmiss, Sweep, ResetLine, Delete, Claim, TopUp, Trust, Mint, Wait, Bridge, Crash, Replace, Transfer, Unline
  <2> QED BY <1>2, <2>1 DEF Remove, Generate, LedgerOK
<1>4. ASSUME asset = "usdc", NEW w \in Wallets, asked'[w]
      PROVE  asked[w] \/ account[w] # "none"
  <2>1. asked' = asked \/ (\E v \in Wallets : Ask(v)) \/ Mint
    BY DEF Next, vars, ledgerVars, World, Cool, Deliver, Ripen, Start, Command, Write, Recover, RecoverWallet,
         Look, WriteOff, LookAmiss, Sweep, ResetLine, Delete, Claim, TopUp, Trust, Wait, Bridge, Crash, Replace, Transfer, Unline, Remove, Generate
  <2>2. CASE \E v \in Wallets : Ask(v)
    BY <1>2, <1>4, <2>2 DEF Ask, Inv, MoneyNeedsLine, LedgerOK
  <2>3. CASE Mint
    <3>1. Busy /\ (asked' = asked \/ asked' = [asked EXCEPT ![cur] = TRUE])
      BY <2>3 DEF Mint, Busy
    <3> QED BY <1>2, <1>4, <3>1, BusyFacts DEF LedgerOK
  <2> QED BY <1>4, <2>1, <2>2, <2>3
<1> QED BY <1>1, <1>3, <1>4 DEF Known

-----------------------------------------------------------------------------
\* What a step of recovery leaves of the account it works on.
LEMMA ClosedKept ==
    ASSUME Inv, Route, Busy, asset' = asset, epoch' = epoch, mem'.success = mem.success,
           \A w \in Wallets \ {cur} : mem'.status[w] = mem.status[w] /\ account'[w] = account[w],
           \/ mem.status[cur] # "awaiting_manual_funding"
           \/ account[cur] # "open"
           \/ mem'.status[cur] = mem.status[cur] /\ account'[cur] = account[cur],
           Closed(mem)
    PROVE  Closed(mem)'
BY DEF Closed

\* The recovery of one wallet returns with what it knew.
LEMMA ReturnBounded ==
    ASSUME Inv, Route, Bounded, Busy, Return, asset' = asset, epoch' = epoch, ~Spare,
           Closed(mem) => Closed(mem)', Step # "wait"
    PROVE  /\ Step' \notin {"trust", "mint"}
           /\ IF pc' = "idle" THEN Closed(Load)' ELSE Closed(mem)' \/ Recording'
<1>1. pc' = "write" /\ next' \in {"recover", "bridge"} /\ swept' = swept
      /\ (asset = "usdc" => next' = "recover")
  BY ReturnRoute
<1>2. Closed(mem) \/ Recording
  BY DEF Bounded, Busy
<1>3. Recording => Recording'
  BY <1>1 DEF Recording, Step
<1> QED BY <1>1, <1>2, <1>3 DEF Step

\* USDC's recovery forgets a wallet only after it moved its money, or its
\* account is gone.
LEMMA RecoverWalletBounded ==
    ASSUME Inv, Route, Bounded, Known', RecoverWallet
    PROVE  Bounded'
<1>1. /\ Busy /\ asset' = asset /\ epoch' = epoch /\ asked' = asked
      /\ Fault \/ UNCHANGED faults
      /\ pc \in {"look", "sweep", "reset", "delete"}
      /\ account' = account \/ (pc = "delete" /\ Remove)
  BY DEF RecoverWallet, Look, WriteOff, LookAmiss, Sweep, ResetLine, Delete, Busy, ledgerVars, Transfer, Unline,
       Remove
<1>2. cur \in Wallets /\ account[cur] \in {"open", "deleted"} /\ LedgerOK /\ TypeOK /\ CommandOK
  BY <1>1, BusyFacts
<1>3. /\ \A w \in Wallets \ {cur} : account'[w] = account[w]
      /\ \A w \in Wallets : account'[w] = "none" <=> account[w] = "none"
  BY <1>1, <1>2 DEF Remove, LedgerOK
<1>4. Claimed' = Claimed
  BY <1>1, <1>3, SameClaims
<1>5. ASSUME ~Spare, UNCHANGED faults
      PROVE  /\ Step' \notin {"trust", "mint"}
             /\ IF pc' = "idle" THEN Closed(Load)' ELSE Closed(mem)' \/ Recording'
  <2>1. ~Fault
    BY <1>2, <1>5 DEF Fault, TypeOK
  <2>2. Step # "wait" /\ Step # "write" /\ Step = pc
    BY <1>1 DEF Step
  <2>3. Closed(mem) \/ (asset = "usdc" /\ swept)
    BY <1>1, <1>5, <2>2 DEF Bounded, Recording
  <2>4. CASE Look
    <3>1. account' = account /\ epoch' = epoch
      BY <2>4 DEF Look, ledgerVars
    <3>2. CASE account[cur] # "open" /\ Mark("deleted") /\ Return
      <4>1. mem'.success = mem.success /\ \A w \in Wallets \ {cur} : mem'.status[w] = mem.status[w]
        BY <1>2, <3>2, MarkFacts DEF Statuses
      <4> QED BY <1>1, <1>3, <1>5, <2>2, <3>2, <4>1, ClosedKept, ReturnBounded
    <3>3. CASE Return /\ UNCHANGED mem
      BY <1>1, <1>3, <1>5, <2>2, <3>1, <3>3, ClosedKept, ReturnBounded
    <3>4. CASE pc' \in {"sweep", "reset"} /\ UNCHANGED <<mem, swept>>
      <4>1. Closed(mem) => Closed(mem)'
        BY <1>1, <1>3, <3>1, <3>4, ClosedKept
      <4> QED BY <1>1, <2>3, <3>4, <4>1 DEF Recording, Step
    <3> QED BY <2>1, <2>4, <3>2, <3>3, <3>4 DEF Look, WriteOff, LookAmiss
  <2>5. CASE Sweep
    <3>1. Mark("tracked") /\ pc' = "reset" /\ swept' = TRUE
      BY <2>1, <2>5 DEF Sweep
    <3>2. mem'.success = mem.success
      BY <1>2, <3>1, MarkFacts DEF Statuses
    <3>3. mem.success = epoch \/ asset = "usdc"
      BY <2>3 DEF Closed
    <3> QED BY <1>1, <3>1, <3>2, <3>3 DEF Closed, Recording, Step
  <2>6. CASE ResetLine
    <3>1. account' = account
      BY <2>6, <1>1 DEF ResetLine
    <3>2. asset = "usdc" => mem.status[cur] # "awaiting_manual_funding"
      BY <2>6 DEF Route, ResetLine, Step
    <3>3. ASSUME mem' = mem \/ Mark("tracked")
          PROVE  Closed(mem) => Closed(mem)'
      <4>1. mem'.success = mem.success /\ \A w \in Wallets \ {cur} : mem'.status[w] = mem.status[w]
        BY <1>2, <3>3, MarkFacts DEF Statuses
      <4> QED BY <1>1, <1>3, <3>1, <3>2, <4>1 DEF Closed
    <3>4. CASE Mark("tracked") /\ Return
      BY <1>1, <1>5, <2>2, <3>3, <3>4, ReturnBounded
    <3>5. CASE Goto("delete") /\ mem' = mem
      BY <1>1, <2>3, <3>3, <3>5 DEF Goto, callVars, Recording, Step
    <3> QED BY <2>1, <2>6, <3>4, <3>5 DEF ResetLine
  <2>7. CASE Delete
    <3>1. asset = "usdc" => mem.status[cur] # "awaiting_manual_funding"
      BY <2>7 DEF Route, Delete, Step
    <3>2. Return /\ \E status \in Statuses : Mark(status) \/ mem' = mem
      BY <2>1, <2>7 DEF Delete, WriteOff, NotDeleted, Statuses
    <3>3. mem'.success = mem.success /\ \A w \in Wallets \ {cur} : mem'.status[w] = mem.status[w]
      BY <1>2, <3>2, MarkFacts
    <3>4. Closed(mem) => Closed(mem)'
      BY <1>1, <1>3, <3>1, <3>3 DEF Closed
    <3> QED BY <1>1, <1>5, <2>2, <3>2, <3>4, ReturnBounded
  <2> QED BY <2>4, <2>5, <2>6, <2>7 DEF RecoverWallet
<1> QED BY <1>1, <1>4, <1>5, BoundedKept

\* A cooldown that passes makes room.
LEMMA WorldBounded ==
    ASSUME Inv, Bounded, Known', World
    PROVE  Bounded'
<1>1. CASE Cool
  <2>1. epoch' = epoch + 1 /\ UNCHANGED <<asset, account, asked, faults>>
    BY <1>1 DEF Cool, ledgerVars
  <2>2. Claimed' = Claimed
    BY <2>1, SameClaims
  <2>3. Spare'
    BY <2>1, <2>2, ClaimedFacts DEF Bounded, Spare
  <2> QED BY <2>1, <2>2, <2>3, ClaimedFacts, SpareSuffices
<1>2. ASSUME NEW w \in Wallets, Deliver(w) \/ Ask(w) \/ Ripen(w)
      PROVE  Bounded'
  <2>1. /\ UNCHANGED <<asset, account, epoch, faults, file, mem, pc, next, swept>>
        /\ asset = "rlusd" => asked' = asked
    BY <1>2 DEF Deliver, Ask, Ripen, callVars
  <2>2. Claimed' = Claimed
    BY <2>1, SameClaims
  <2>3. Closed(mem)' = Closed(mem) /\ Closed(Load)' = Closed(Load)
    BY <2>1 DEF Closed, Load
  <2>4. Step' = Step /\ Recording' = Recording
    BY <2>1 DEF Step, Recording
  <2> QED BY <2>1, <2>2, <2>3, <2>4, BoundedKept DEF Bounded
<1> QED BY <1>1, <1>2 DEF World

\* A command that ends without a fault leaves on disk what it knew.
LEMMA TurnBounded ==
    ASSUME Inv, Route, Bounded, Known', Start \/ Write \/ Recover \/ Bridge \/ Crash \/ Replace
    PROVE  Bounded'
<1>1. /\ UNCHANGED <<asset, account, asked, epoch>>
      /\ Fault \/ UNCHANGED faults
  BY DEF Start, Write, Recover, Bridge, Crash, Replace, ledgerVars
<1>2. Claimed' = Claimed
  BY <1>1, SameClaims
<1>3. TypeOK /\ CommandOK
  BY Halves DEF Inv
<1>4. ASSUME ~Spare, UNCHANGED faults
      PROVE  /\ Step' \notin {"trust", "mint"}
             /\ IF pc' = "idle" THEN Closed(Load)' ELSE Closed(mem)' \/ Recording'
  <2>1. ~Fault
    BY <1>3, <1>4 DEF Fault, TypeOK
  <2>2. CASE Start
    <3>1. pc = "idle" /\ pc' = "recover" /\ mem' = Load
      BY <2>2 DEF Start
    <3>2. Closed(mem)'
      BY <1>1, <1>4, <3>1 DEF Bounded, Closed
    <3> QED BY <3>1, <3>2 DEF Step
  <2>3. CASE Write
    <3>1. pc = "write" /\ pc' = next /\ next # "write" /\ UNCHANGED <<mem, next, swept>>
      BY <1>3, <2>3 DEF Write, Goto, callVars, CommandOK
    <3>2. Step' = Step /\ pc' # "idle"
      BY <3>1 DEF Step, Inv, AtWork
    <3>3. Closed(mem)' = Closed(mem) /\ Recording' = Recording
      BY <1>1, <3>1, <3>2 DEF Closed, Recording
    <3> QED BY <1>4, <3>1, <3>2, <3>3 DEF Bounded
  <2>4. CASE Recover
    <3>1. Closed(mem) \/ (asset = "usdc" /\ swept)
      BY <1>4, <2>4 DEF Recover, Bounded, Recording, Step
    <3>2. CASE pc' = "look" /\ UNCHANGED <<mem, swept>>
      BY <1>1, <3>1, <3>2 DEF Closed, Recording, Step
    <3>3. CASE mem' = Succeeded /\ Save("topup")
      BY <1>1, <3>3 DEF Succeeded, Save, Closed, Step
    <3>4. CASE ~(asset = "usdc" /\ swept) /\ Goto("topup") /\ mem' = mem
      BY <1>1, <3>1, <3>4 DEF Goto, Closed, Step
    <3> QED BY <2>4, <3>2, <3>3, <3>4 DEF Recover
  <2>5. CASE Bridge
    <3>1. pc = "bridge" /\ pc' = "idle" /\ file' = file
      BY <2>5 DEF Bridge, Stop
    <3>2. Closed(Load)
      BY <1>4, <3>1 DEF Bounded, Recording, Step, Route
    <3>3. Closed(Load)'
      BY <1>1, <3>1, <3>2 DEF Closed, Load
    <3> QED BY <3>1, <3>3 DEF Step
  <2> QED BY <2>1, <2>2, <2>3, <2>4, <2>5 DEF Crash, Replace
<1> QED BY <1>1, <1>2, <1>4, BoundedKept

\* A claim is only begun when there is room for it, and a fault before its
\* success is recorded makes room for the next.
LEMMA ClaimBounded ==
    ASSUME Inv, Inv', Route, Bounded, Known', Claim
    PROVE  Bounded'
<1>1. TypeOK /\ CommandOK /\ LedgerOK /\ asset \in {"rlusd", "usdc"}
  BY Halves, ClaimedFacts DEF Inv
<1>2. CASE TopUp
  <2>1. pc = "topup" /\ UNCHANGED <<asset, epoch, faults>>
    BY <1>2 DEF TopUp
  <2>2. Spare \/ Closed(mem)
    BY <2>1 DEF Bounded, Recording, Step
  <2>3. CASE Goto("bridge") /\ UNCHANGED <<ledgerVars, mem>>
    <3>1. pc' = "bridge" /\ UNCHANGED <<asked, account, mem>>
      BY <2>3 DEF Goto, ledgerVars
    <3>2. Claimed' = Claimed
      BY <2>1, <3>1, SameClaims
    <3> QED BY <2>1, <2>2, <3>1, <3>2, BoundedKept DEF Closed, Step
  <2>4. ASSUME NEW w \in Wallets, ~Cooling, Generate(w), asset = "rlusd", Track("trust")
        PROVE  Bounded'
    <3>1. asked' = asked
      BY <2>4 DEF Generate
    <3>2. Claimed' = Claimed
      BY <2>1, <2>4, <3>1, SameClaims
    <3>3. Spare
      BY <2>2, <2>4 DEF Closed, Cooling
    <3> QED BY <2>1, <3>2, <3>3, BoundedKept
  <2>5. ASSUME NEW w \in Wallets, ~Cooling, Generate(w), asset = "usdc", ~Pending, Track("bridge"),
               mem' = [mem EXCEPT !.status[w] = "awaiting_manual_funding"]
        PROVE  Bounded'
    <3>1. Spare
      BY <2>2, <2>5 DEF Closed, Cooling, Pending
    <3>2. account' = [account EXCEPT ![w] = "open"] /\ pc' = "write" /\ next' = "bridge"
      BY <2>5 DEF Generate, Track
    <3>3. Claimed' <= Claimed + 1 /\ Claimed' \in Nat
      BY <2>1, <2>5, <3>2, OneMore
    <3>4. Claimed' <= 1 + epoch' + faults'
      BY <2>1, <3>1, <3>3, ClaimedFacts DEF Spare
    <3>5. mem'.status[w] = "awaiting_manual_funding" /\ account'[w] = "open"
      BY <1>1, <2>5, <3>2 DEF CommandOK, LedgerOK, State
    <3>6. Closed(mem)'
      BY <2>1, <2>5, <3>5 DEF Closed
    <3> QED BY <3>2, <3>4, <3>6 DEF Bounded, Step
  <2> QED BY <1>2, <2>3, <2>4, <2>5 DEF TopUp
<1>3. CASE Trust
  <2>1. /\ pc = "trust" /\ UNCHANGED <<asset, account, asked, epoch>>
        /\ Fault \/ UNCHANGED faults
    BY <1>3 DEF Trust
  <2>2. Claimed' = Claimed
    BY <2>1, SameClaims
  <2>3. Spare
    BY <2>1 DEF Bounded, Step
  <2> QED BY <2>1, <2>2, <2>3, BoundedKept
<1>4. CASE Mint
  <2>1. pc = "mint" /\ UNCHANGED <<asset, account, epoch>> /\ asset = "rlusd" /\ Busy
    BY <1>4 DEF Mint, Route, Step, Busy
  <2>2. Spare /\ cur \in Wallets
    BY <2>1, BusyFacts DEF Bounded, Step
  <2>3. CASE asked' = asked /\ UNCHANGED faults
    <3>1. Claimed' = Claimed
      BY <2>1, <2>3, SameClaims
    <3> QED BY <2>1, <2>2, <2>3, <3>1, BoundedKept
  <2>4. CASE asked' = [asked EXCEPT ![cur] = TRUE]
    <3>1. Claimed' <= Claimed + 1 /\ Claimed' \in Nat
      BY <2>1, <2>2, <2>4, OneMore
    <3>2. CASE Save("wait") /\ UNCHANGED faults
      <4>1. Claimed' <= 1 + epoch' + faults'
        BY <2>1, <2>2, <3>1, <3>2, ClaimedFacts DEF Spare
      <4>2. pc' = "write" /\ Step' = "wait"
        BY <3>2 DEF Save, Step
      <4>3. Recording'
        BY <2>1, <4>2 DEF Recording
      <4> QED BY <4>1, <4>2, <4>3 DEF Bounded
    <3>3. CASE Fault
      <4>1. Spare'
        BY <2>1, <2>2, <3>1, <3>3, ClaimedFacts DEF Spare, Fault
      <4> QED BY <2>1, <3>1, <3>3, <4>1, ClaimedFacts, SpareSuffices DEF Fault
    <3> QED BY <1>4, <2>3, <3>2, <3>3 DEF Mint
  <2> QED BY <1>4, <2>3, <2>4 DEF Mint
<1>5. CASE Wait
  <2>1. /\ pc = "wait" /\ UNCHANGED <<asset, account, asked, epoch>>
        /\ Fault \/ UNCHANGED faults
    BY <1>5 DEF Wait, ledgerVars
  <2>2. Claimed' = Claimed
    BY <2>1, SameClaims
  <2>3. ASSUME ~Spare, UNCHANGED faults
        PROVE  pc' = "write" /\ next' = "look" /\ Closed(mem)'
    <3>1. ~Fault
      BY <1>1, <2>3 DEF Fault, TypeOK
    <3>2. mem' = Succeeded /\ Save("look")
      BY <1>5, <3>1 DEF Wait
    <3> QED BY <2>1, <3>2 DEF Succeeded, Save, Closed
  <2> QED BY <2>1, <2>2, <2>3, BoundedKept DEF Step
<1> QED BY <1>2, <1>3, <1>4, <1>5 DEF Claim

\* Every step.
LEMMA BoundedStep ==
    ASSUME Inv, Inv', Route, Bounded, [Next]_vars
    PROVE  Bounded'
<1>1. Known' /\ asset' = asset
  BY KnownStep DEF Bounded
<1>2. CASE UNCHANGED vars
  <2>1. UNCHANGED <<asset, account, asked, file, mem, pc, next, swept, epoch, faults>>
    BY <1>2 DEF vars, ledgerVars, callVars
  <2>2. Claimed' = Claimed
    BY <2>1, SameClaims
  <2>3. Closed(mem)' = Closed(mem) /\ Closed(Load)' = Closed(Load) /\ Step' = Step
    BY <2>1 DEF Closed, Load, Step
  <2>4. Recording' = Recording
    BY <2>1, <2>3 DEF Recording
  <2> QED BY <1>1, <2>1, <2>2, <2>3, <2>4, BoundedKept DEF Bounded
<1> QED BY <1>1, <1>2, WorldBounded, TurnBounded, RecoverWalletBounded, ClaimBounded
        DEF Next, Command

\* At first nothing is claimed.
LEMMA InitBounded == Init => Route /\ Bounded
<1> SUFFICES ASSUME Init PROVE Route /\ Bounded
  OBVIOUS
<1>1. Inv
  BY InitInv
<1>2. Claims = {}
  BY DEF Init, Claims
<1>3. Claimed = 0 /\ Spare
  BY <1>2, FS_EmptySet DEF Claimed, Spare, Init
<1>4. Known
  BY DEF Init, Known
<1> QED BY <1>3, <1>4 DEF Init, Route, Bounded, Step

\* The second layer of the inductive invariant.
LEMMA ClaimsInvariance == Spec => [](Inv /\ Route /\ Bounded)
<1>1. Inv /\ Inv' /\ Route /\ Bounded /\ [Next]_vars => Route' /\ Bounded'
  BY RouteStep, BoundedStep
<1> QED BY <1>1, InitBounded, Invariance, PTL DEF Spec

(***************************************************************************)
(* The faucet is asked once in each cooldown, and once more for each fault *)
(* that kept a run from recording its success: whatever crashes, and       *)
(* however late a user follows a message printed cooldowns ago             *)
(* (live_testnet_support.py:907).                                         *)
(***************************************************************************)
THEOREM WalletsCooldown == Spec => []CooldownKept
<1>1. Inv /\ Bounded => CooldownKept
  <2> SUFFICES ASSUME Inv, Bounded PROVE CooldownKept
    OBVIOUS
  <2> DEFINE A == {w \in Wallets : asked[w]}
  <2>1. A \subseteq Claims
    BY ClaimedFacts DEF Bounded, Known, Claims
  <2>2. IsFiniteSet(A) /\ Cardinality(A) <= Claimed
    <3> HIDE DEF A
    <3> QED BY <2>1, ClaimedFacts, FS_Subset DEF Claimed
  <2>3. Cardinality(A) \in Nat
    BY <2>2, FS_CardinalityType
  <2> HIDE DEF A
  <2>4. Cardinality(A) <= 1 + epoch + faults
    BY <2>2, <2>3, ClaimedFacts DEF Bounded
  <2> QED BY <2>4 DEF A, CooldownKept
<1> QED BY <1>1, ClaimsInvariance, PTL
=============================================================================
