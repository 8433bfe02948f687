# Verification of the XRPL MPP stack

TLA+ models of the parts of this repository that decide who has paid for what,
the TLC runs that check them and the TLAPS proofs about them. Paths below are
relative to the repository; `facilitator/`, `core/` and so on stand for
`packages/<name>/src/xrpl_mpp_<name>/`.

## The system

A buyer pays for HTTP requests or MCP tool calls on the XRP Ledger. A seller's
**middleware** answers an unpaid request with 402 and signed *challenges*; the
buyer's **client** answers with a *credential*; the middleware hands that to a
**facilitator**, which verifies and settles it on the ledger, and then runs the
application. There are two ways to pay:

- a **charge**: one Payment per challenge, either signed by the buyer and
  submitted by the facilitator (*pull*) or submitted by the buyer, who sends its
  hash (*push*);
- a **session** over an XRPL payment channel: the buyer opens a channel, then
  signs claims (*vouchers*) for ever larger cumulative amounts, each covering
  the price of one request, and in the end the channel is *closed*; a
  *redemption worker* collects what is outstanding in between.

Facilitators are replicated. Replicas share one Redis: the *replay markers* of
charges, the single-use *challenge claims* of sessions, the *channel records*
and the *redemption leases*. Each replica is an asyncio process: handlers
interleave at every `await`.

### Inventory

| Component | State | Operations | What is hard | What makes it correct |
|---|---|---|---|---|
| core: voucher transition (`core/paychannel.py`) | none | `evaluate_high_water`, `require_high_water_advance` | equal, lower and short amounts | a claim is accepted only if it covers the price |
| core: models, codecs, binding (`core/models.py`, `helpers.py`, `binding.py`, ...) | none | parse, format, HMAC | - | a challenge cannot be altered or moved to another route |
| facilitator: PayChannel store (`paychannel_store.py`) | channel records, redemption leases | `create`, `advance`, `mark_redeemed`, `finalize`, `claim_redemption`, `release_redemption` | compare-and-set under races, lease expiry | records go forward only |
| facilitator: PayChannel service (`paychannel_service.py`) | coroutines | `open`, `voucher`, `close` | reads before awaits, partial failure | served is paid; single use; close settles first |
| facilitator: redemption worker (`paychannel_worker.py`) | coroutine | `run_once`: sweep, settle, idle close | stale scans, crashes between claim and booking | books match the ledger; value is eventually redeemed |
| facilitator: charge settlement (`xrpl_service.py`) | coroutines | `charge` pull and push | ambiguous submissions, timeouts, retries | sold once, paid once |
| facilitator: replay store (`replay_store.py`) | markers with expiry | `reserve`, `mark_processed`, `release_pending`, `claim_challenge` | expiry against challenge life, unconditional writes | markers outlive what they guard |
| facilitator: HTTP, auth, config (`factory.py`, `gateway_auth.py`, `config.py`) | settings | routes | - | failures map to the right status |
| client (`client/httpx.py`, `policy.py`) | channels and cumulative counters, by route; registered open transactions | request, retry with credential, close | lost and overtaken responses, concurrent requests, desynchronised counters | never ahead of the facilitator, no claim beyond one request |
| client: signing, path finding | none | build and sign | - | the amount claimed is the recorded one and the price |
| middleware (`middleware/middleware.py`, `client.py`) | readiness | challenge, check, post, forward, receipt | gateway timeout shorter than settlement; application failure after payment | the application runs once, after a bound receipt, on the route paid for; an unknown outcome is not called a refusal |
| middleware: hooks, relay, discovery | hook results | dispatch | fail-closed order | a deny wins |
| payer, proxy, MCP (`payer/payer.py`, `proxy.py`, `receipts.py`, `mcp.py`) | channels, the receipts file | pay, close, budget | partial failure between receipt and channel, bounded history | the budget is what was spent |
| mcp processor (`mcp/processor.py`, `binding.py`) | session pool | paid operation | operation fails after payment | one operation per payment |
| devtools: RLUSD funding (`devtools/rlusd_fund.py`) | journal on disk, file lock | sign, submit, reconcile, ask the faucet | crash between journal, submission and result; a server that lags, or answers with an error that reads as a balance of zero | no shortfall is bought twice, nothing forgotten |
| devtools: top-ups (`devtools/live_testnet_support.py`, `rlusd_topup.py`, `usdc_topup.py`) | claim-state file: the seeds of disposable wallets | claim, sweep, reset the trust line, delete, bridge | crash or failure between any two ledger steps; a faucet that pays late; an error answer that reads as a deleted account | no claimed token is stranded |

`PROJECT.json` lists each component with what is modelled of it, and the hazards
with the properties that cover them.

## The modules

`PayChannelRecord` - the durable record of one channel and the four mutations
that stores apply to it, as operators. A mutation is atomic in both stores (a
lock; Redis `WATCH`/`MULTI`), so the two are one. A claim signature is abstracted
to the amount it signs: `-1` stands for the empty or placeholder signature, `-2`
(in the service) for one that does not verify.

`PayChannelService` - **one channel**: any number of deliveries of credentials
(`Requests`) and workers, the shared Redis state and the ledger. All shared state
of the code is keyed by channel and nothing relates two channels, so one is
enough. A *request* is one delivery of a credential; a retry is another delivery.
Each step of a handler is the code between two awaits:

| Code | Actions |
|---|---|
| `_verify_open`, `_submit_open_channel` | `Arrive`, `SubmitOpen`, `PollOpen`, `ClaimChallenge`, `OpenRecord`, `AdvanceRecord` |
| `_verify_claim_action` | `Lookup`, `Import`, `Create`, `Verify`, `ClaimChallenge`, `AdvanceRecord`; for a close then `ClaimLease`, `Reload`, `Abandon`, `SubmitClaim`, `AwaitClaim`, `MarkRedeemed`, `ReleaseLease`, `Finalize` |
| `run_once` of the worker | `Scan`, then the same settlement steps |
| Redis key expiry, process death, lost connections | `ExpireLease`, `Crash`, `LoseContact`, `SettleFails` |
| the ledger (external) | `ValidateClaim`, `RefuseClaim`, `DropClaim`, `ValidateOpen`, `FailOpen`, `Fund`, `RunDown` |

`record`, `lease` and `claimed` are the Redis keys; `pc` and `local` the
coroutines; `base`, `charged` and `grants` are history variables that only the
properties read.

`MeteredChannel` - what a seller is promised of a session, without any of that:
cumulative amounts grow, service is sold against the growth, no more is collected
than was authorised, and a session closes for good, fully collected when the
seller collects online. `ImplementsMetered` maps the service to it: the record's
high-water mark is what was authorised, the ledger's balance what was collected.

`ChargeSettlement` - **one challenge**: deliveries of pull and push credentials
with several payments, the replay marker and its expiry, submission, polling,
failing Redis writes and crashes. Time is counted in ledger intervals. The code
keeps one key for the invoice and one for the blob or hash, always written
together and with one lifetime; a payment names its invoice, so one marker stands
for both.

`PaidGateway` - the middleware between any number of a buyer's calls and the
application, with the facilitator reduced to its verdicts and the state they
depend on (the detail is in the two modules above). A call has at most one request
on its way. The gateway's steps are the code between two awaits, with two
contractions: what it does with an arriving request before it posts is one step
with the arrival, and the application's run is one step with the verdict that
lets the request through, since nothing but the answer depends on when it runs.

| Code | Definitions |
|---|---|
| `__call__` | `SendChallenge`, `Present` with `ChallengeMatchesRequest` |
| `XRPLFacilitatorClient._request`, `_settlement_pending_error`, `_validate_receipt_binding` | `Post`, `Paid`, `StopWaiting` with `TimeoutAnswer` |
| `_handle_charge`, `_handle_session`, `_forward_paid_request` | `HearVerdict`, `RunApplication` |
| facilitator (`factory.py`, and what it serves) | `DecideCharge` with `SubmitCharge`, `DecideOpen`, `DecideVoucher`, `DecideClose`, `RefuseProof`, `FacilitatorFails`, `Verdict` |
| the ledger (external) | `LedgerSettles`, `LedgerOpens` |

`wire[c]` is the request of call `c` as the buyer and the gateway see it, `post[c]`
the facilitator's side: it goes on deciding when the gateway has stopped waiting.
`channel`, `used`, `owing` are the facilitator's record, its claimed challenges
and reservations, and the charges whose outcome it does not know; `taken`,
`disowned`, `resumed` and `ran` are history. `disowned` are the charges the facilitator
refuses after submitting them although the ledger may still take them (a provisional
result) or has taken them (in another amount than asked for).

`PayingClient` - extends `PaidGateway` with both buyers: the HTTPX transport, kept
for many requests, and the `XRPLPayer`, which inspects the first answer and drives
a fresh transport once.

| Code | Definitions |
|---|---|
| `register_channel`, `register_open_transaction` | `Register`, `RegisterOpen` |
| `handle_async_request`, `close_session` | `TransportRequest`, `TransportClose`, then `Sign` or `Abandon`, then `TransportCapture`, `Unpaid` or `LoseAnswer` |
| `XRPLPayer.pay`, `close_channel` | `PayerPay`, `PayerClose`, then `Sign` (with `Registered`) or `Abandon`, then `PayerRecord`, `Unpaid` or `LoseAnswer` |
| `policy.py`, `signer.py` | `Authorized`, `ChargeCredential`, `OpenCredential`, `ClaimCredential` |
| `proxy.py` | `CallerHint`: only a caller sends hint headers on the payer's behalf |
| `receipts.py` | `receipts`, `Recent`, `Spent`, `BudgetSummary` |
| a buyer that presents a credential again | `PresentAgain` |

`known[u][k]` is `_sessions` of the transport and `_channels` of the payer, by
route. A call reads it when it begins and when it signs, and writes it when its
answer is in: overlapping calls do so in any order.

`FundingJournal` - several invocations of the RLUSD funding command over one
journal file, rerun after crashes (`Begin`, `Crash`); each step is the code up to
the next call of the network or write of the journal (`Lookup`, `Age`, `Submit`,
`Await`, `Sign`, `Balance`, `Faucet`, `Request`, `Credited`, `TrustLine`, `Need`,
`FinalCheck`). The ledger, the faucet, the wallet's own payments and those that other
commands make to it move beside them (`CloseLedger`, `Drip`, `Spend`, `Credit`). The
command believes what it reads of the balance (`Reading`), and what it reads may be
anything up to what has come in (`Answers`): an earlier balance, or zero for an error.

`ClaimWallets` - the RLUSD and the USDC top-up command over disposable wallets
(`TopUp`, `Trust`, `Mint`, `Wait`, `Bridge`), the recovery that each run begins with
(`Recover`, `Look`, `Sweep`, `ResetLine`, `Delete`), the claim-state file (`Write`, and
`Load`, to which a `Void` file reads as an empty one) and the ledger and the faucet (`Ask`,
`Deliver`, `Ripen`). The file is void after a `Crash` in a write, or when a fresh merchant
wallet replaces the one it names (`Replace`); all it held is lost (`Discard`). An error
answer in the place of an account writes the wallet off (`WriteOff`, in `Look` and
`Delete`); in the place of a balance it reads as zero (`LookAmiss`). The history variable
`lost` holds the wallets that the code loses in these two ways.

`PayChannelRecordProofs`, `PayChannelServiceTypes`, `PayChannelServiceProofs`,
`PayChannelRefinementProofs`, `ChargeSettlementProofs`, `PayingClientProofs`,
`FundingJournalProofs`, `ClaimWalletsProofs` - the proofs. `MC...` modules give the constants
values.

### Assumptions of the models

- Only the facilitator's replicas submit claims on a channel once its record
  exists. (The recipient could submit one by hand; then the books would lag
  behind the ledger, as in the finding `lost`.)
- Checks that depend on the credential alone (binding, decoding, expiry, network)
  leave no trace when they fail, so modelled credentials pass them. The claim
  signature, checked late in the code, may be bad.
- Redis operations are atomic and durable. A Redis *write* that fails after it was
  applied is modelled where the code handles it (`MarkFails`).
- The ledger refuses a claim that asks for no more than the balance, for more
  than the channel holds, or whose signature is for another amount.
- The close path of the code is the same with and without a signer;
  `HasSettler` chooses.
- In `PaidGateway` all the metered routes are paid from one channel, which one
  signed PaymentChannelCreate opens: the relation between routes that matters is
  that they share a high-water mark. Every intent and price of a route is fixed.
- A receipt of the facilitator is bound to the credential it was given; the checks
  of `_validate_receipt_binding` on both sides guard against another facilitator.
- A charge that the facilitator refuses after submitting it may be validated at any later
  time: `PaidGateway` has no clock, `ChargeSettlement` has.
- Any balance that the funding command reads may be late or an error's zero. In
  `ClaimWallets` each error answer is a fault; answers are not late there, since the
  command waits for validated results and nobody else moves the money of its wallets.
- One top-up command runs at a time, as nothing in the code makes two safe.
- Reading a record, finding none and reading it again after a create conflict
  is one step (`OpenRecord`, `Create`): a record never disappears.

## The runs

| Run | Instance | What it shows |
|---|---|---|
| `races` | 3 deliveries of opens, vouchers and closes over 3 challenges, amounts 0-2, channel fresh or used before; no signer | `TypeOK`, `ServedIsPaid`, `OneGrantPerChallenge`, `OutstandingIsSigned` |
| `faults` | 2 vouchers or closes, a worker, leases that expire at any moment, 1 fault | `FinalizedIsRedeemed`, `OnlyForward`, `ImplementsMetered` |
| `leases` | 1 voucher or close, 2 workers, leases long enough for a settlement, 1 fault, used channel, funding while used, two prices | `OneClaimInFlight`, `BooksMatchLedger`, `ServedIsPaid` |
| `progress` | a close and 2 workers, no faults, fair | `EventuallyRedeemed` |
| `lost` (violation) | a close and a worker, 1 fault, fair | a validated claim that was never booked is never booked |
| `charges` | 3 deliveries, 2 payments, one outliving the challenge, 1 fault | `TypeOK`, `SoldOnce`, `PaidOnce`, `MarkerKept`, `RefusalIsDefinitive` |
| `refused` (violation) | 2 deliveries, refusals provisional | a released payment that can still be validated |
| `retry` (violation) | 2 deliveries | the advertised retry is refused as a replay |
| `payments` | 2 overlapping calls of a transport and a payer; two metered routes of prices 1 and 2 on one channel of 3 drops, one charged route; 2 challenges, 2 faults, 1 repetition, a budget window of 2 receipts | `TypeOK`, `GrantsAddUp`, `ServedOnce`, `RefusedIsDecided`, `NeverAhead`, `ExposureBounded`, `BudgetTrue` |
| `named` (violation) | a payer whose callers send no hint headers | a payment from a named channel stops at the challenge |
| `funding` | 2 invocations with targets 1 and 2 and different caps, 2 transactions, 2 ledgers, 1 payment to or from the wallet, 2 faults, fair | `TypeOK`, `LiveIsJournaled`, `NothingForgotten`, `FaucetSpared`, `NeverBoughtTwice`, `EventuallyResolved` |
| `topups` | either command, 2 wallets, 2 cooldowns, 2 faults, fair | `TypeOK`, `Tracked`, `DeletedIsGone`, `CooldownKept`, `EventuallyCollected`, `EventuallyDeleted` |

**Bounds.** Two deliveries are what a race takes, the third is a bystander that
can invalidate what the two agree on; two workers compete for a lease. With
amounts 0-2 and price 1 a voucher can be equal, short, exact and exhausting;
unequal prices 1 and 2 make *short but growing* possible. A channel of 2 drops
can be used before, and `MaxFunding` 3 lets it be funded while funding is read.
One fault is enough for each crash, lost response or dropped claim to meet each
interleaving; its retry then runs without faults. For charges, a lifetime of 2
ledgers, a retention and TTL of 1 and a clock of 3 let markers expire before and
after the challenge; the payment with `LastLedger` 3 outlives it. `MaxFunding`,
`MaxFaults` and `MaxTime` are guards, named in the modules. Deadlock is not
checked: every handler ends, payments are final and the clock stops.

For the payments two challenges are what two overlapping calls need, or an open
and the voucher that follows it; a channel may also be open and registered for
every route at the start, so that stale records meet. Two faults are a timeout and
the failure or lost answer that matters after it; a third challenge or fault
multiplies the states and no property relates three calls. `Funding` 3 lets one claim
of each price through and refuses the next. A window of 2 receipts is full when
two payments are recorded; that a longer file is summed short is what
`BudgetTrue` says by its condition. For the funding, two transactions are a trust line and a
conversion, or a conversion and the one that would buy the same shortfall again; with a
last ledger one ahead, 2 ledgers let a transaction validate late, expire and be
looked up, and a second one follow. One payment is enough for a reading to be overtaken
in either direction; whatever a server hides of the balance it hides without a
fault. Two wallets are one that is recovered while the other is claimed to; two faults
are a lost or failing call, or an error answer, and a crash on top of it.

**Fairness** (`FairSpec`). Weak fairness of handlers and workers is the event
loop; of `Scan`, the worker's endless loop; of `ExpireLease`, Redis; of
`ResolveClaims`, that a claim is validated or refused before its
`LastLedgerSequence`. Nothing forces a buyer to send anything, nor a fault to
occur. In `FundingJournal` the operator reruns the command and ledgers close, both
weakly fair; a lookup on a server that has the full history is strongly fair: it
answers now and then, which is all a journaled transaction needs. In
`ClaimWallets` the command is rerun and finishes its steps, the faucet pays what
was asked of it, and a wallet grows old enough to be deleted. `PayingClient`
has no liveness property: a buyer may stop at any point. Leases are assumed long enough only where `LeaseOutlivesSettlement` is
TRUE: the default lease, 75 s, exceeds the time in which a claim resolves, but no
step of the code enforces that while a settlement runs, so `faults` and the
proofs do without it; only `OneClaimInFlight` is stated under it.

**Mutants.** Every property of a passing run is violated by some plausible bug,
written next to the definition it replaces (comments `Mutant: ...`).

## The proofs

For any number of requests, workers, challenges, prices, amounts and faults, and
leases that may expire at any moment, from `ProcsAssumption` (names are distinct;
workers only run with a signer) and `AmountsAssumption` (amounts are naturals):

- `TypeCorrect`, `BooksAlwaysMatch`, `OutstandingAlwaysSigned`, `ServedAlwaysPaid`,
  `GrantedOnce`, `FinalizedOnlyRedeemed`, `ClaimsOneAtATime`
  (`PayChannelServiceProofs`): the safety invariants of the runs;
- `NothingTakenBack`, `MeteredImplemented` (`PayChannelRefinementProofs`):
  the action property and the refinement.

None of the properties is inductive: they rest on what coroutines remember across
awaits. The invariant `Inv` says what they may rely on:

- `LocalOK(p)`: a validated claim's amount is at most the ledger's balance when it
  is booked; what a settling process read is at most the present high-water mark;
  a process about to release its lease or finalize, with a signer, has seen
  redeemed what it read; an import about to be created matches the ledger's
  balance unless a record has appeared since.
- `CredOK(r)`: past the checks, a credential is signed; past the claim on its
  challenge, the marker is its own; in settlement it settles its own amount.
- `ClaimsOK`: claims before the ledger never ask for more than was accepted, and a
  waiting process waits for its one claim.
- `Books`: the stored accounting, the ledger's, and how they agree.
- `GrantsOK`: who was granted a challenge still holds the claim on it.

The proof that a step keeps it separates the process that moves from the others:
`Progress` says what no step takes back, `StayOK` that all a standing process knows
survives any such step, `MoverOK` leaves one process to look at, and `QuietMove` /
`WriteInv` leave for each action only what it can disturb. The refinement then
classifies each step by its effect on the books (`StepForward`).

`ClaimsOneAtATime` is the one theorem that needs leases long enough, and says so as a
hypothesis of the property. Its invariant `LeaseOK`, kept on top of `Inv`, says that a
claim before the ledger has its lease, though its submitter may be gone, and that a
process that has the lease and is to give it back (`Holding`) is waiting for that claim
or finds none before the ledger. A process that lost contact leaves both behind; the
lease then protects the claim until it is resolved, and that it is free tells whoever
takes it next that no claim is on its way.

For any number of deliveries and payments, any lifetimes, timeouts and faults, from
`DeliveriesAssumption` and `TimesAssumption`:

- `ChargeTypeCorrect`, `ChargeSoldOnce`, `ChargePaidOnce`, `ChargeMarkerKept`,
  `ChargeRefusalDefinitive` (`ChargeSettlementProofs`); the last, like `PaidOnce` by
  its own condition, if the ledger's refusals are final.

A marker is only reserved while the challenge lives, and `Lasting` and `Retained` say
that it outlives the challenge. So `Kept`: while the challenge lives the marker is
that of the one delivery at work, or processed. A delivery that finds it free hence
finds nobody at work and nothing sold (`Alone`), and nothing submitted that a
ledger can still take (`OneViable`): such a payment is the only one, and at most the
handler that polls for it is at work. This is where the floor that the code puts under
the configured lifetimes is needed.

For any number of calls, routes, users, challenges, repetitions and faults, from
`GatewayAssumption` (intents and prices of routes; the channel can pay for any one
request), `ClientAssumption` and `NoneAssumption` (`None` is none of the values it stands
beside):

- `TypesKept`, `Served`, `RefusedDecided`, `ClientsBehind`, `Exposure`, `GrantsPaid`,
  `BudgetKept` (`PayingClientProofs`): the types, `ServedOnce`, `RefusedIsDecided`,
  `NeverAhead`, `ExposureBounded`, `GrantsAddUp`, `BudgetTrue`.

These rest on what a credential in flight implies. `IInv` adds to them

- `SentOK`: a credential's challenge was issued; two credentials never share one;
  a challenge that is used was signed for; what was taken was used, or is a charge
  given up;
- `WireOK`, `PostOK`, `CallOK` for each call: a verdict the gateway has yet to hear
  agrees with what became of the challenge ("ok" is taken and has not run, "refused" of
  a first presentation is neither taken nor owing, unless disowned); a post without a waiting
  gateway is still being decided; a call that waits for its challenge has signed
  nothing;
- `Apart`: two calls never hold the same credential or the same challenge.

Without `Apart` a second presentation could be served by the verdict on the first.
`RefusedDecided` does not say that a 402 means unpaid: the code has two cases in which
it does not, and `disowned` is exactly these. It says that there is no third, in particular
that a timeout, which the gateway meets while the facilitator goes on, never ends there.
`Forward` and `Undisturbed` separate the call that moves from the others, as
above.

The sums come on top. That the mark is what the granted requests cost takes both sides:
the facilitator's guard (`Covers`) lets it rise by at least the price, and what the
clients may have signed (`ExposureBounded`) by at most that, so it rises by exactly
the price (`Accounting`); `MeteredOK` keeps charges and metered payments apart. For the
budget, `ReceiptsOK` says that a receipt, and every answer that can still become one,
stands for a payment taken or a close resumed, and that a call under way has none yet.
`SumFunction` of the community modules folds over a set in an order it chooses. That its
value does not depend on the order is proved from the definition with finite sets
and no induction theorem: two totals that differ would differ on a smallest set
(`SmallestSet`, `TotalAgrees`). `SumTotal`, `SumRemoved`, `SumAdded` and `SumReindexed` are
what the rest uses.

For any runs, targets, caps, quotes, windows and bounds, from `RunsAssumption` and
`BoundsAssumption`:

- `FundingTypeCorrect`, `FundingLiveIsJournaled`, `FundingNothingForgotten`,
  `FundingNeverBoughtTwice`, `FundingFaucetSpared` (`FundingJournalProofs`).

The strengthening (`PhaseOK`, `RoomOK`, `AbsentOK`) says that whoever runs holds the lock, what its local variables say of
the balance and the pending transaction, and that a transaction that is live, or has been
applied without being recorded, is the pending one; it is what makes a lookup's
"authoritatively absent" safe to believe. `FaucetSpared` needs in addition that the
journal's last attempt is the last request.

The command does not promise a balance: it computes what it buys from an answer that may
hide any part of the balance, and others may pay in before the purchase validates. `slack` is
the sum of the two since the last conversion was computed, and `NeverBoughtTwice` says
that nothing else lifts the balance over the target. For that, `RoomOK` says of the one
amount about to be bought, signed or live, that balance and amount together
exceed the target by at most `slack`; a conversion submitted again or validated after its run
has ended is still that one.

For any number of disposable wallets, cooldowns and faults, from `BoundsAssumption` of
`ClaimWallets`:

- `WalletsTypeCorrect`, `WalletsTracked`, `WalletsDeletedGone`, `WalletsCooldown`
  (`ClaimWalletsProofs`).

`Tracked` is not inductive: what the command has in memory will overwrite the file. `Kept`
says that both records name every wallet with a trust line that is not lost, unless nobody
was told of it (`Untold`), and that between two writes the command knows of no wallet that the file
does not name; so one is on disk before the faucet or the user learns of it, and a
crash at the wrong moment strands at most an empty wallet. A void file loses every wallet there is; a crash before a write-off reaches the
file takes it back. `StatusOK` and `AtWork` carry what
is written off, and which wallet the command is busy with. `WalletStep` reduces the
steps about one wallet to what they do to it (`Touches`) and how they go on (`GoesOn`).

`CooldownKept` counts the wallets for which the faucet was asked. The user of the USDC
command may follow its printed message at any later time, so `Claims` counts for USDC
every wallet generated, asked or not. There is room for one claim more (`Spare`),
or every command that goes by the file (or by its copy in memory) knows that it must not
claim (`Closed`: it has recorded a success in this cooldown, or a wallet awaits its
funding), or the command at work is about to record its success (`Recording`).
`Route` says which command is at which step with what in its copy. A fault that
loses the record pays for the claim that may follow it.

Every invariant and every action property that a passing run checks is so proved, and
the refinement. Only model-checked are the four liveness properties,
`EventuallyRedeemed`, `EventuallyResolved`, `EventuallyCollected` and
`EventuallyDeleted`: they need fairness, hence `ENABLED`, which the prover does not
handle. The findings are counterexamples of TLC.

## Findings

1. `lost`: a PaymentChannelClaim that validates while its submitter crashes or
   loses the response is never booked. Every retry repeats the same cumulative
   claim, which the ledger refuses for asking nothing new, so `mark_redeemed` and
   `finalize` are never reached, although `docs/configuration.md:82` promises a retry
   after lease expiry. The money is collected; the record says it is not, and the
   session never closes unless a higher voucher arrives. A new voucher is checked
   against the ledger's balance, but no path brings the record up to that balance.
2. `refused`: every result but four (`tesSUCCESS`, `terQUEUED`, `tefALREADY`,
   `tefPAST_SEQ`) counts as a definitive refusal and releases the reservation, although
   `ter` and `tec` results are provisional.
3. `retry`: a pull charge that times out leaves its reservation pending for longer than the
   challenge lives, so the retry that `README.md:147` prescribes is refused as a
   replay.
4. `named`: `packages/payer/README.md:24` shows how to pay from a channel named on
   the command line. The payer's first request carries no hint headers, so the
   gateway's challenge names no channel, and `pay` raises before it signs anything
   (`payer.py:519`); `close` with a named channel (`:25`) ends the same way. Only a
   caller that sends the hint headers itself gets further.

What else the models made visible, without a promise that it breaks:

- An answer that arrives late overwrites the transport's record whatever came
  after it, and can bring back a session that another call has closed. The record
  is then behind, never ahead (`NeverAhead`): the next voucher is refused, and so is
  every later one until the channel is registered again.
- A voucher whose answer is lost leaves the client behind in the same way; no code
  path learns the facilitator's mark.
- An application that answers a paid request outside 2xx gets no receipt added and no
  payment reference: the buyer paid and holds nothing to show for it. If it raises
  before answering, the reference is there.
- A close presented again after its settlement failed resumes the stored voucher. The
  payer's budget counts it as a payment, though nothing new was taken; `BudgetTrue`
  admits these.
- The budget reads the last 10,000 receipts of all currencies together.
- A 402 is not proof that nothing was paid. After a provisional result
  (`xrpl_service.py:912-935`) the payment can still validate, and after a
  validated payment in another amount (`:958-965`) it has; the buyer is offered fresh
  challenges in both cases.
- The funding command's target is a floor. An `AccountLines` error has no lines and reads as a
  balance of zero (`live_testnet_support.py:299-323`), so the command buys the whole
  target on top of what is there; what another command pays in meanwhile comes on top
  too. `CHANGELOG.md:11` speaks of an exact target balance, `docs/asset-guides/rlusd.md:55`
  of a rerun that is a no-op.
- An answer to account_info without account data, a server's error included, reads as
  a deleted account (`live_testnet_support.py:271-275`). A claim wallet that is
  alive and funded is then recorded as deleted (`:1697-1700`, `:1769-1771`; USDC
  `:1540-1543`, `:1629-1636`), and no later recovery looks at it.
- The same answer about the merchant wallet has it replaced (`:2015-2017`). The
  claim-state file then names another accumulator and reads as empty (`:723-739`,
  `:795-809`), and the next write discards the seeds of all disposable wallets.
- `live_testnet_support.py` overwrites its claim-state file in place, and a half-written
  file reads as an empty one: the seeds are lost likewise. `rlusd_fund.py` replaces its
  journal atomically.

## Not modelled

- Parsing, formatting, cryptography and DIDs (pure); what the handlers rely on of
  them is a guard.
- Start-up of the middleware (`startup`, `_validate_route_support`): it succeeds
  once before the first payment, or every request fails.
- Hooks and their relay (`hooks.py`, `relay.py`): observers without state that a
  payment depends on. Discovery documents, CLIs, MCP tools of the payer: I/O.
- `close_channel` with an explicit channel: the close of a channel that was just
  registered. `pay` with `dry_run` changes nothing. A push charge of the client is
  in `ChargeSettlement`.
- The MCP processor: the gateway's order of checks over another transport; its
  session pool belongs to the caller.
- `demo_rebalance.py`, `demo_trace.py`, `demo_env.py`: one scripted sequence each.
- Conformance suites and examples (tests).
