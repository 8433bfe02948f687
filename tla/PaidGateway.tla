----------------------------- MODULE PaidGateway -----------------------------
(***************************************************************************)
(* The gateway (middleware.py) and its facilitator client (client.py)      *)
(* between a buyer and an application: an unpaid request is answered with  *)
(* a challenge; a request with a credential is checked, handed to the      *)
(* facilitator, and forwarded to the application once it is paid.          *)
(*                                                                         *)
(* The facilitator is reduced to its verdict on a credential and the state *)
(* the verdict depends on; ChargeSettlement and PayChannelService hold the *)
(* detail.  It goes on deciding after the gateway has stopped waiting.     *)
(*                                                                         *)
(* One call of the buyer has one request on its way at a time.  All the    *)
(* metered routes are paid from one PayChannel, opened by one signed       *)
(* PaymentChannelCreate.                                                   *)
(***************************************************************************)
EXTENDS Integers, FiniteSets, Sequences, SequencesExt

CONSTANTS
    None,
    Calls,          \* the buyer's calls that may be under way together
    Keys,           \* routes: a method and a resource
    Intent,         \* Intent[k]: "charge" or "session"
    Price,          \* Price[k]: what one request costs
    Funding,        \* what the PayChannel holds: enough for any one request
    MaxChallenges,  \* bound: challenges answered with a credential
    MaxFaults       \* bound: failures, timeouts and lost answers

ASSUME GatewayAssumption ==
    /\ Intent \in [Keys -> {"charge", "session"}]
    /\ Price \in [Keys -> Nat \ {0}]
    /\ Funding \in Nat /\ \A k \in Keys : Price[k] <= Funding
    /\ MaxChallenges \in Nat
    /\ MaxFaults \in Nat

VARIABLES
    channel,   \* the PayChannel: its life, and the facilitator's high-water mark
    used,      \* challenges the facilitator has reserved or claimed
    taken,     \* challenges whose payment was taken
    owing,     \* charges submitted to the ledger, outcome not yet known
    disowned,  \* history: charges that were submitted and then refused although
               \* the ledger may yet take them, or took them in another amount
    resumed,   \* closes accepted as the exact repetition of the stored voucher
    issued,    \* the challenges, in the order they were issued
    expired,   \* challenges found to have expired
    wire,      \* wire[c]: the request of call c and how far the gateway has got
    post,      \* post[c]: what the facilitator does with the credential
    ran,       \* ran[i][k]: how often route k ran for challenge i
    faults

gatewayVars == <<channel, used, taken, owing, disowned, resumed, issued, expired,
                 wire, post, ran, faults>>

Ids == 1 .. MaxChallenges

\* A challenge names its route; one for a session also the channel and the
\* cumulative amount the buyer's hint headers gave, or nothing.
Challenge == [key : Keys, hint : {None} \cup 0 .. Funding]

Credential == [id : Ids,
               action : {"charge", "open", "voucher", "close"},
               amount : 0 .. 2 * Funding]

\* The answers: "ok" carries a receipt; "unknown" is a 503 and "app_failed" a
\* 500, both with the payment's reference; "refused" is a 402 with fresh
\* challenges; "protocol" is a 502; "app_error" is the application's own
\* answer outside 2xx, to which no receipt is added.
Request == [step   : {"idle", "waiting", "answered"},
            key    : Keys \cup {None},
            cred   : Credential \cup {None},
            answer : {None, "challenge", "ok", "refused", "unknown",
                      "protocol", "app_error", "app_failed"},
            offer  : Ids \cup {None}]

Post == [cred    : Credential \cup {None},
         verdict : {"none", "working", "ok", "refused", "pending", "error", "rejected"}]

ASSUME NoneAssumption ==
    None \notin Credential \cup {"challenge", "ok", "refused"}

Quiet == [step |-> "idle", key |-> None, cred |-> None,
          answer |-> None, offer |-> None]

NoPost == [cred |-> None, verdict |-> "none"]

GatewayTypeOK ==
    /\ channel \in [life : {"none", "pending", "expired", "open", "final"}, mark : 0 .. Funding]
    /\ used \subseteq Ids
    /\ taken \subseteq Ids
    /\ owing \subseteq Ids
    /\ disowned \subseteq Ids
    /\ resumed \subseteq Ids
    /\ expired \subseteq Ids
    /\ issued \in Seq(Challenge) /\ Len(issued) <= MaxChallenges
    /\ wire \in [Calls -> Request]
    /\ post \in [Calls -> Post]
    /\ ran \in [Ids -> [Keys -> Nat]]
    /\ faults \in 0 .. MaxFaults

GatewayInit ==
    /\ channel \in {[life |-> l, mark |-> 0] : l \in {"none", "open"}}
    /\ used = {}
    /\ taken = {}
    /\ owing = {}
    /\ disowned = {}
    /\ resumed = {}
    /\ issued = <<>>
    /\ expired = {}
    /\ wire = [c \in Calls |-> Quiet]
    /\ post = [c \in Calls |-> NoPost]
    /\ ran = [i \in Ids |-> [k \in Keys |-> 0]]
    /\ faults = 0

Key(i) == issued[i].key

Cred(c) == wire[c].cred

Fault ==
    /\ faults < MaxFaults
    /\ faults' = faults + 1

Reply(c, a) ==
    wire' = [wire EXCEPT ![c] = [@ EXCEPT !.step = "answered", !.answer = a]]

-----------------------------------------------------------------------------
(***************************************************************************)
(* A request arrives; what the gateway does before it has to wait for      *)
(* anyone is one step with the arrival.                                    *)
(***************************************************************************)

\* No credential: a challenge that echoes the hint headers.
SendChallenge(c, k, hint) ==
    /\ Len(issued) < MaxChallenges
    /\ issued' = Append(issued, [key  |-> k,
                                 hint |-> IF Intent[k] = "session" THEN hint ELSE None])
    /\ wire' = [wire EXCEPT ![c] = [step |-> "answered", key |-> k, cred |-> None,
                                    answer |-> "challenge", offer |-> Len(issued')]]
    /\ UNCHANGED <<channel, used, taken, owing, disowned, resumed, expired, post, ran, faults>>

\* Mutant: a credential is good for any route.
AnyRoute(k, cred) == TRUE

\* The challenge was issued for this method, path and query.
ChallengeMatchesRequest(k, cred) == Key(cred.id) = k

\* The gateway refuses a challenge that has expired or was issued for another
\* resource, and takes any other credential to the facilitator.
Present(c, k, cred) ==
    LET request(step, answer) == [step |-> step, key |-> k, cred |-> cred,
                                  answer |-> answer, offer |-> None]
    IN
    /\ \/ /\ ChallengeMatchesRequest(k, cred)
          /\ cred.id \notin expired
          /\ wire' = [wire EXCEPT ![c] = request("waiting", None)]
          /\ post' = [post EXCEPT ![c] = [cred |-> cred, verdict |-> "working"]]
          /\ UNCHANGED <<expired, faults>>
       \/ /\ \/ ~ChallengeMatchesRequest(k, cred) /\ UNCHANGED <<expired, faults>>
             \/ cred.id \in expired /\ UNCHANGED <<expired, faults>>
             \/ Fault /\ expired' = expired \cup {cred.id}
          /\ wire' = [wire EXCEPT ![c] = request("answered", "refused")]
          /\ post' = post
    /\ UNCHANGED <<channel, used, taken, owing, disowned, resumed, issued, ran>>

-----------------------------------------------------------------------------
(***************************************************************************)
(* The facilitator's verdict.                                              *)
(***************************************************************************)

\* The credential the facilitator works on.
Posted(c) == post[c].cred

Working(c) == post[c].verdict = "working"

\* The verdict is heard only by a gateway that still waits.
Verdict(c, v) ==
    post' = [post EXCEPT ![c] = IF wire[c].step = "waiting"
                                THEN [@ EXCEPT !.verdict = v] ELSE NoPost]

\* Mutant: reservations are not checked.
ReusableAlways(i) == TRUE

\* The challenge, and with it the payment, is not reserved.
Unused(i) == i \notin used

\* The payment is submitted under a reservation, which is given up again when
\* the submission is turned down, if only for now, or the payment fails.
SubmitCharge(c, i) ==
    \/ /\ taken' = taken \cup {i}             \* validated
       /\ used' = used \cup {i}
       /\ owing' = owing \ {i}
       /\ \/ Verdict(c, "ok") /\ UNCHANGED disowned
          \/ Verdict(c, "refused") /\ disowned' = disowned \cup {i}  \* another amount
    \/ /\ owing' = owing \cup {i}             \* undecided when polling ends
       /\ used' = used \cup {i}
       /\ Verdict(c, "pending")
       /\ UNCHANGED <<taken, disowned>>
    \/ /\ \E live \in {{}, {i}} :             \* turned down, for good or for now
            owing' = owing \cup live /\ disowned' = disowned \cup live
       /\ Verdict(c, "refused")
       /\ UNCHANGED <<used, taken>>

\* A charge: a replay is refused.
DecideCharge(c) ==
    /\ Working(c)
    /\ Posted(c).action = "charge"
    /\ \/ Unused(Posted(c).id) /\ SubmitCharge(c, Posted(c).id)
       \/ /\ ~Unused(Posted(c).id)
          /\ Verdict(c, "refused")
          /\ UNCHANGED <<used, taken, owing, disowned>>
    /\ UNCHANGED <<channel, resumed, issued, expired, wire, ran, faults>>

\* The undecided payment is validated after all, or never will be.
LedgerSettles(i) ==
    /\ i \in owing
    /\ owing' = owing \ {i}
    /\ taken' \in {taken, taken \cup {i}}
    /\ UNCHANGED <<channel, used, disowned, resumed, issued, expired, wire, post, ran, faults>>

\* Mutant: a voucher need only exceed the high-water mark.
CoversAnything(c) == Posted(c).amount > channel.mark

\* A claim pays for its request on top of everything claimed before.
Covers(c) == Posted(c).amount >= channel.mark + Price[Key(Posted(c).id)]

\* The signed PaymentChannelCreate: undecided when the facilitator stops
\* polling, expired, or validated, now or by an earlier submission.  Only then
\* is the challenge claimed, and next the record, which may have advanced.
DecideOpen(c) ==
    LET i == Posted(c).id
        advances == channel.life # "final" /\ Covers(c) /\ Unused(i)
    IN
    /\ Working(c)
    /\ Posted(c).action = "open"
    /\ \/ /\ channel.life = "expired"
          /\ Verdict(c, "refused")
          /\ UNCHANGED <<channel, used, taken>>
       \/ /\ channel.life \in {"none", "pending"}
          /\ channel' = [channel EXCEPT !.life = "pending"]
          /\ Verdict(c, "pending")
          /\ UNCHANGED <<used, taken>>
       \/ /\ channel.life # "expired" /\ advances
          /\ channel' = [life |-> "open", mark |-> Posted(c).amount]
          /\ used' = used \cup {i}
          /\ taken' = taken \cup {i}
          /\ Verdict(c, "ok")
       \/ /\ channel.life # "expired" /\ ~advances
          /\ used' = used \cup {i}
          /\ Verdict(c, "refused")
          /\ UNCHANGED <<channel, taken>>
    /\ UNCHANGED <<owing, disowned, resumed, issued, expired, wire, ran, faults>>

\* The pending PaymentChannelCreate is validated, or expires.
LedgerOpens ==
    /\ channel.life = "pending"
    /\ channel' \in {[channel EXCEPT !.life = l] : l \in {"expired", "open"}}
    /\ UNCHANGED <<used, taken, owing, disowned, resumed, issued, expired, wire, post, ran, faults>>

\* Mutant: the channel's balance is not compared with the claim.
ExaminedUnfunded(c) == channel.life = "open" /\ Unused(Posted(c).id)

\* A claim the facilitator examines: an open channel that can pay it, and a
\* challenge not claimed before.
Examined(c) ==
    /\ channel.life = "open"
    /\ Posted(c).amount <= Funding
    /\ Unused(Posted(c).id)

DecideVoucher(c) ==
    LET i == Posted(c).id IN
    /\ Working(c)
    /\ Posted(c).action = "voucher"
    /\ \/ /\ ~Examined(c)
          /\ Verdict(c, "refused")
          /\ UNCHANGED <<channel, used, taken>>
       \/ /\ Examined(c)
          /\ used' = used \cup {i}          \* spent, whether or not it covers
          /\ IF Covers(c)
             THEN /\ taken' = taken \cup {i}
                  /\ channel' = [channel EXCEPT !.mark = Posted(c).amount]
                  /\ Verdict(c, "ok")
             ELSE Verdict(c, "refused") /\ UNCHANGED <<channel, taken>>
    /\ UNCHANGED <<owing, disowned, resumed, issued, expired, wire, ran, faults>>

\* The close voucher advances the mark, or repeats the stored one exactly.
\* Settling it may fail or stay undecided after that; only a settled close
\* finalizes.
DecideClose(c) ==
    LET i == Posted(c).id
        repeats == Posted(c).amount = channel.mark /\ channel.mark > 0
    IN
    /\ Working(c)
    /\ Posted(c).action = "close"
    /\ \/ /\ ~Examined(c)
          /\ Verdict(c, "refused")
          /\ UNCHANGED <<channel, used, taken, resumed>>
       \/ /\ Examined(c) /\ ~Covers(c) /\ ~repeats
          /\ used' = used \cup {i}
          /\ Verdict(c, "refused")
          /\ UNCHANGED <<channel, taken, resumed>>
       \/ /\ Examined(c) /\ (Covers(c) \/ repeats)
          /\ used' = used \cup {i}
          /\ taken' = IF Covers(c) THEN taken \cup {i} ELSE taken
          /\ resumed' = IF Covers(c) THEN resumed ELSE resumed \cup {i}
          /\ \/ /\ channel' = [life |-> "final", mark |-> Posted(c).amount]
                /\ Verdict(c, "ok")
             \/ /\ channel' = [channel EXCEPT !.mark = Posted(c).amount]
                /\ \E v \in {"refused", "pending"} : Verdict(c, v)
    /\ UNCHANGED <<owing, disowned, issued, expired, wire, ran, faults>>

\* The proof is found wanting, or its ledger lookup fails, before anything is
\* reserved.
RefuseProof(c) ==
    /\ Working(c)
    /\ Fault
    /\ Verdict(c, "refused")
    /\ UNCHANGED <<channel, used, taken, owing, disowned, resumed, issued, expired, wire, ran>>

\* The facilitator answers 500 or cannot be reached ("error"), or turns the
\* gateway away with 401 or 429 ("rejected").
FacilitatorFails(c) ==
    /\ Working(c)
    /\ Fault
    /\ \E v \in {"error", "rejected"} : Verdict(c, v)
    /\ UNCHANGED <<channel, used, taken, owing, disowned, resumed, issued, expired, wire, ran>>

Facilitator(c) ==
    \/ DecideCharge(c)
    \/ DecideOpen(c)
    \/ DecideVoucher(c)
    \/ DecideClose(c)
    \/ RefuseProof(c)
    \/ FacilitatorFails(c)

-----------------------------------------------------------------------------
(***************************************************************************)
(* The gateway hears the verdict, or stops waiting.                        *)
(***************************************************************************)

\* Mutant: a settlement in progress is forwarded as if it were paid.
ForwardPending(v) == v \in {"ok", "pending"}

\* Only a receipt bound to the credential lets the request through.
Paid(v) == v = "ok"

\* The application's run is one step with the verdict that lets the request
\* through: it succeeds, answers with an error of its own, or raises.
RunApplication(c) ==
    /\ ran' = [ran EXCEPT ![Cred(c).id][wire[c].key] = @ + 1]
    /\ \/ Reply(c, "ok") /\ faults' = faults
       \/ Fault /\ \E a \in {"app_error", "app_failed"} : Reply(c, a)

\* A paid close is answered by the gateway itself.
HearVerdict(c) ==
    LET v == post[c].verdict IN
    /\ wire[c].step = "waiting"
    /\ v \in {"ok", "refused", "pending", "error", "rejected"}
    /\ post' = [post EXCEPT ![c] = NoPost]
    /\ \/ Paid(v) /\ Cred(c).action # "close" /\ RunApplication(c)
       \/ /\ \/ Paid(v) /\ Cred(c).action = "close" /\ Reply(c, "ok")
             \/ v = "refused" /\ Reply(c, "refused")
             \/ v \in {"pending", "error"} /\ ~Paid(v) /\ Reply(c, "unknown")
             \/ v = "rejected" /\ Reply(c, "protocol")
          /\ UNCHANGED <<ran, faults>>
    /\ UNCHANGED <<channel, used, taken, owing, disowned, resumed, issued, expired>>

\* Mutant: a timeout counts as a refusal.
TimeoutRefused == "refused"

\* A timeout says nothing of the payment.
TimeoutAnswer == "unknown"

\* After 10 seconds the gateway answers; the facilitator may still settle.
StopWaiting(c) ==
    /\ wire[c].step = "waiting"
    /\ Fault
    /\ Reply(c, TimeoutAnswer)
    /\ post' = [post EXCEPT ![c] = IF Working(c) THEN @ ELSE NoPost]
    /\ UNCHANGED <<channel, used, taken, owing, disowned, resumed, issued, expired, ran>>

Gateway(c) ==
    \/ HearVerdict(c)
    \/ StopWaiting(c)

ServerNext ==
    \/ \E c \in Calls : Gateway(c) \/ Facilitator(c)
    \/ \E i \in Ids : LedgerSettles(i)
    \/ LedgerOpens

-----------------------------------------------------------------------------
(***************************************************************************)
(* Properties of the server side.                                          *)
(***************************************************************************)

\* The sum of the prices of the challenges in S.
PriceOf(S) == SumFunction([i \in S |-> Price[Key(i)]])

\* The facilitator's high-water mark is what the granted requests cost, no
\* more: neither a voucher presented twice, nor two vouchers built from the
\* same state, nor one for another route, nor a resumed close charges the
\* buyer for something it was not granted (paychannel_service.py:840).
GrantsAddUp ==
    channel.mark = PriceOf({i \in taken : Intent[Key(i)] = "session"})

\* The application runs at most once for a payment, only after it was taken,
\* and only on the route it was paid for, however often and wherever the
\* credential is presented and whatever became of the first run
\* (middleware.py:461).
ServedOnce ==
    \A i \in Ids, k \in Keys :
        /\ ran[i][k] <= 1
        /\ ran[i][k] = 1 => i \in taken /\ Key(i) = k
=============================================================================
