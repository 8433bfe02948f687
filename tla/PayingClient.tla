----------------------------- MODULE PayingClient -----------------------------
(***************************************************************************)
(* The buyer's side, composed with the gateway: the HTTPX transport        *)
(* (client/httpx.py), used directly and kept for many requests, and the    *)
(* XRPLPayer (payer/payer.py) behind the CLI, the proxy and the MCP tools, *)
(* which inspects the first answer itself, then drives a fresh transport   *)
(* once and keeps the channel's state and the receipts.                    *)
(*                                                                         *)
(* known[u][k] is what u has recorded of the channel for route k: the      *)
(* transport's _sessions, the payer's _channels.  Each reads it before the *)
(* request leaves and writes it when the answer is in, and calls overlap.  *)
(***************************************************************************)
EXTENDS PaidGateway

CONSTANTS
    Users,          \* "transport", "payer"
    Routes,         \* Routes[u]: the routes u is used for
    Cap,            \* Cap[u]: the policy's max_amount, the payer's spend cap
    Currency,       \* Currency[k]: what route k is paid in
    OpenRoutes,     \* routes for which a signed create is at hand
    CallerHints,    \* the payer's callers may pass hint headers of their own
    Window,         \* how many receipts budget_summary reads (10,000)
    MaxRepeats      \* bound: credentials presented again

ASSUME ClientAssumption ==
    /\ Users \subseteq {"transport", "payer"}
    /\ Routes \in [Users -> SUBSET Keys]
    /\ Cap \in [Users -> Nat]
    /\ DOMAIN Currency = Keys
    /\ OpenRoutes \subseteq Keys
    /\ CallerHints \in BOOLEAN
    /\ Window \in Nat \ {0}
    /\ MaxRepeats \in Nat

VARIABLES
    call,        \* call[c]: what the caller of call c waits for
    known,
    openTx,      \* the transport's registered open transactions, by route
    receipts,    \* the payer's receipts file: challenges, oldest first
    sent,        \* the credentials signed so far
    repeats      \* how many were presented again

clientVars == <<call, known, openTx, receipts, sent, repeats>>
vars == <<gatewayVars, clientVars>>

Amount == 0 .. 2 * Funding

\* named: the cumulative amount given with an explicit channel_id, or None.
\* state: the cumulative amount a close was begun with.
CallState == [stage : {"idle", "probe", "paying"},
              user  : Users \cup {None},
              kind  : {None, "pay", "close", "again"},
              named : Amount \cup {None},
              state : Amount \cup {None}]

NoCall == [stage |-> "idle", user |-> None, kind |-> None,
           named |-> None, state |-> None]

TypeOK ==
    /\ GatewayTypeOK
    /\ call \in [Calls -> CallState]
    /\ known \in [Users -> [Keys -> Amount \cup {None}]]
    /\ openTx \subseteq Keys
    /\ receipts \in Seq(Ids)
    /\ sent \subseteq Credential
    /\ repeats \in 0 .. MaxRepeats

Metered(k) == Intent[k] = "session"

\* The channel is yet to be opened, or was opened and registered for every
\* metered route before.
Init ==
    /\ GatewayInit
    /\ call = [c \in Calls |-> NoCall]
    /\ known = [u \in Users |-> [k \in Keys |->
                   IF channel.life = "open" /\ Metered(k) /\ k \in Routes[u] THEN 0 ELSE None]]
    /\ openTx = OpenRoutes
    /\ receipts = <<>>
    /\ sent = {}
    /\ repeats = 0

Recorded(c) == known[call[c].user][wire[c].key]

Free(c) == call[c].stage = "idle" /\ wire[c].step = "idle" /\ post[c] = NoPost

ServerUnchanged ==
    UNCHANGED <<channel, used, taken, owing, disowned, resumed, issued, expired, post, ran>>

-----------------------------------------------------------------------------
(***************************************************************************)
(* A call begins with an unpaid request.                                   *)
(***************************************************************************)

\* The operator resumes the channel for a route, with the cumulative amount
\* the facilitator holds or with register_channel's default of 0.
Register(u, k) ==
    /\ Fault
    /\ Metered(k) /\ k \in Routes[u]
    /\ channel.life \in {"open", "final"}
    /\ \E amount \in {0, channel.mark} : known' = [known EXCEPT ![u][k] = amount]
    /\ UNCHANGED <<channel, used, taken, owing, disowned, resumed, issued, expired, wire, post, ran>>
    /\ UNCHANGED <<call, openTx, receipts, sent, repeats>>

\* The signed create is registered with the transport once more.
RegisterOpen(k) ==
    /\ Fault
    /\ k \in OpenRoutes \ openTx
    /\ openTx' = openTx \cup {k}
    /\ UNCHANGED <<channel, used, taken, owing, disowned, resumed, issued, expired, wire, post, ran>>
    /\ UNCHANGED <<call, known, receipts, sent, repeats>>

Begin(c, u, kind, k, hint, named, state) ==
    /\ Free(c)
    /\ SendChallenge(c, k, hint)
    /\ call' = [call EXCEPT ![c] = [stage |-> "probe", user |-> u, kind |-> kind,
                                    named |-> named, state |-> state]]
    /\ UNCHANGED <<known, openTx, receipts, sent, repeats>>

\* handle_async_request: the recorded state goes into the hint headers.
TransportRequest(c, k) == Begin(c, "transport", "pay", k, known["transport"][k], None, None)

\* close_session works to its end on the state it reads here.
TransportClose(c, k) ==
    /\ known["transport"][k] # None
    /\ Begin(c, "transport", "close", k, known["transport"][k], None, known["transport"][k])

\* The payer sends no hint headers of its own; its caller may.
CallerHint(amount) == IF CallerHints THEN amount ELSE None

\* pay, with an explicit channel_id and cumulative_amount or without.
PayerPay(c, k) ==
    \/ Begin(c, "payer", "pay", k, CallerHint(known["payer"][k]), None, None)
    \/ /\ Metered(k)
       /\ Begin(c, "payer", "pay", k, CallerHint(channel.mark), channel.mark, None)

\* close_channel, for the recorded channel.
PayerClose(c, k) ==
    /\ known["payer"][k] # None
    /\ Begin(c, "payer", "close", k, CallerHint(known["payer"][k]), None, known["payer"][k])

-----------------------------------------------------------------------------
(***************************************************************************)
(* The challenge is in: sign a credential and repeat the request, or stop. *)
(***************************************************************************)
Challenged(c) == call[c].stage = "probe"

\* An explicit channel replaces what the payer had recorded, before it is
\* compared with the challenge.
Registered(c) ==
    IF call[c].named # None /\ issued[wire[c].offer].hint # None
    THEN [known EXCEPT ![call[c].user][wire[c].key] = call[c].named]
    ELSE known

\* The challenge is for the channel state the client holds now.
MatchingState(c, hint) ==
    hint = IF call[c].kind = "close" THEN call[c].state
           ELSE Registered(c)[call[c].user][wire[c].key]

\* The signed create may be presented: still registered with the transport;
\* given to the payer, whose spend cap covers the whole funding.
MayOpen(c) ==
    IF call[c].user = "transport"
    THEN wire[c].key \in openTx
    ELSE wire[c].key \in OpenRoutes /\ call[c].named = None /\ Funding <= Cap["payer"]

Offered(c) == issued[wire[c].offer]

Due(c) == Price[wire[c].key]

\* The challenge asks for no more than the policy allows.
Authorized(c) == Due(c) <= Cap[call[c].user]

ChargeCredential(c, x) ==
    /\ ~Metered(wire[c].key)
    /\ x.action = "charge" /\ x.amount = 0

\* A challenge that names no channel is paid with the create and a first claim.
OpenCredential(c, x) ==
    /\ Metered(wire[c].key) /\ Offered(c).hint = None
    /\ call[c].kind = "pay" /\ MayOpen(c)
    /\ x.action = "open" /\ x.amount = Due(c)

\* The claim adds the price to the recorded cumulative amount.
ClaimCredential(c, x) ==
    /\ Metered(wire[c].key) /\ Offered(c).hint # None
    /\ MatchingState(c, Offered(c).hint)
    /\ x.action = IF call[c].kind = "close" THEN "close" ELSE "voucher"
    /\ x.amount = Offered(c).hint + Due(c)

\* The credential the client signs for its challenge, if any.
Credentials(c) ==
    {x \in [action : {"voucher", "close", "open", "charge"},
            id : {wire[c].offer}, amount : Amount] :
        /\ Authorized(c)
        /\ ChargeCredential(c, x) \/ OpenCredential(c, x) \/ ClaimCredential(c, x)}

Sign(c) ==
    /\ Challenged(c)
    /\ \E cred \in Credentials(c) :
        /\ Present(c, wire[c].key, cred)
        /\ sent' = sent \cup {cred}
    /\ call' = [call EXCEPT ![c].stage = "paying"]
    /\ known' = Registered(c)
    /\ UNCHANGED <<openTx, receipts, repeats>>

Ended(c) ==
    /\ call' = [call EXCEPT ![c] = NoCall]
    /\ wire' = [wire EXCEPT ![c] = Quiet]
    /\ ServerUnchanged

\* The call raises, or returns the 402, before anything is signed.  The
\* payer's caller need not have given it the signed create.
Abandon(c) ==
    /\ Challenged(c)
    /\ \/ Credentials(c) = {}
       \/ call[c].user = "payer" /\ \A x \in Credentials(c) : x.action = "open"
    /\ Ended(c)
    /\ known' = Registered(c)
    /\ UNCHANGED <<faults, openTx, receipts, sent, repeats>>

-----------------------------------------------------------------------------
(***************************************************************************)
(* The answer to the paid request.                                         *)
(***************************************************************************)
Answered(c) == call[c].stage = "paying" /\ wire[c].step = "answered"

\* Mutant: the state is recorded whatever the answer was.
AnyAnswer(c) == call[c].kind # "again"

\* A 2xx answer whose receipt is bound to the credential.
Receipted(c) == wire[c].answer = "ok" /\ call[c].kind # "again"

\* What the client records of the channel once its payment is receipted.
Captured(c) ==
    LET x == Cred(c) IN
    IF x.action = "charge" THEN known
    ELSE [known EXCEPT ![call[c].user][wire[c].key] =
             IF x.action = "close" THEN None ELSE x.amount]

TransportCapture(c) ==
    /\ Answered(c) /\ Receipted(c)
    /\ call[c].user = "transport"
    /\ known' = Captured(c)
    /\ openTx' = IF Cred(c).action = "open" THEN openTx \ {wire[c].key} ELSE openTx
    /\ Ended(c)
    /\ UNCHANGED <<faults, receipts, sent, repeats>>

\* The receipt is stored first; if that fails the channel is not updated.
PayerRecord(c) ==
    /\ Answered(c) /\ Receipted(c)
    /\ call[c].user = "payer"
    /\ \/ /\ receipts' = Append(receipts, Cred(c).id)
          /\ known' = Captured(c)
          /\ faults' = faults
       \/ Fault /\ UNCHANGED <<receipts, known>>
    /\ Ended(c)
    /\ UNCHANGED <<openTx, sent, repeats>>

\* An answer without a receipt leaves the state as it was.
Unpaid(c) ==
    /\ Answered(c) /\ ~Receipted(c)
    /\ Ended(c)
    /\ UNCHANGED <<faults, known, openTx, receipts, sent, repeats>>

\* The answer is lost, or the caller has stopped waiting for it.
LoseAnswer(c) ==
    /\ Answered(c)
    /\ Fault
    /\ Ended(c)
    /\ UNCHANGED <<known, openTx, receipts, sent, repeats>>

\* The buyer presents a credential again, perhaps to another route.
PresentAgain(c, k) ==
    /\ Free(c)
    /\ repeats < MaxRepeats
    /\ repeats' = repeats + 1
    /\ \E cred \in sent :
        /\ \A d \in Calls : cred \notin {wire[d].cred, post[d].cred}
        /\ Present(c, k, cred)
    /\ call' = [call EXCEPT ![c] = [NoCall EXCEPT !.stage = "paying", !.kind = "again"]]
    /\ UNCHANGED <<known, openTx, receipts, sent>>

-----------------------------------------------------------------------------
Client(c) ==
    \/ Sign(c)
    \/ Abandon(c)
    \/ TransportCapture(c)
    \/ PayerRecord(c)
    \/ Unpaid(c)
    \/ LoseAnswer(c)

Caller(c, k) ==
    \/ "transport" \in Users /\ k \in Routes["transport"] /\ (TransportRequest(c, k) \/ TransportClose(c, k))
    \/ "payer" \in Users /\ k \in Routes["payer"] /\ (PayerPay(c, k) \/ PayerClose(c, k))
    \/ PresentAgain(c, k)

Next ==
    \/ ServerNext /\ UNCHANGED clientVars
    \/ \E c \in Calls : Client(c)
    \/ \E c \in Calls, k \in Keys : Caller(c, k)
    \/ \E u \in Users, k \in Keys : Register(u, k)
    \/ \E k \in Keys : RegisterOpen(k)

Spec == Init /\ [][Next]_vars

-----------------------------------------------------------------------------
(***************************************************************************)
(* Properties.                                                             *)
(***************************************************************************)

\* What a client has recorded of the channel is never ahead of the
\* facilitator's high-water mark, whatever answers are lost, late, or overtake
\* one another, and whoever else pays from the channel (httpx.py:311).  A
\* client ahead of the mark would give claims away.
NeverAhead ==
    \A u \in Users, k \in Keys :
        known[u][k] # None => known[u][k] <= channel.mark

\* A 402 with fresh challenges, to a buyer who presents a credential once, is
\* the facilitator's own decision: nothing was taken and nothing will be, but
\* for a charge the facilitator itself gave up or took in another amount.  An
\* outcome the gateway does not know, for one because it stopped waiting
\* before the facilitator did, is never answered 402 (client.py:219).  A close
\* is exempt: its voucher counts although its settlement fails.
RefusedIsDecided ==
    \A c \in Calls :
        /\ wire[c].answer = "refused"
        /\ call[c].kind = "pay"
        => /\ Cred(c).id \in taken \cup owing => Cred(c).id \in disowned
           /\ post[c] = NoPost

\* The recipient never holds a claim for more than what was granted and the
\* one request the claim was signed for.
ExposureBounded ==
    \A x \in sent : x.action # "charge" => x.amount <= channel.mark + Price[Key(x.id)]

\* The places of the newest n receipts in the file.
Recent(n) == {j \in 1 .. Len(receipts) : Len(receipts) - n < j}

\* budget_summary over the receipts of one currency.
Spent(currency, n) ==
    LET counted == {j \in Recent(n) : Currency[Key(receipts[j])] = currency}
    IN  SumFunction([j \in counted |-> Price[Key(receipts[j])]])

\* Mutant: the oldest receipt of a full window is left out.
SummaryShort(currency) == Spent(currency, Window - 1)

BudgetSummary(currency) == Spent(currency, Window)

\* The budget counts payments that were taken, and each of them once, or a
\* close that repeated a stored voucher; it counts all of them as long as the
\* file holds no more receipts than the summary reads (receipts.py:88).
BudgetTrue ==
    /\ IsInjective(receipts)
    /\ \A n \in 1 .. Len(receipts) : receipts[n] \in taken \cup resumed
    /\ Len(receipts) <= Window =>
        \A currency \in {Currency[k] : k \in Keys} :
            BudgetSummary(currency) =
                PriceOf({i \in ToSet(receipts) : Currency[Key(i)] = currency})

\* A payer that is given a channel and the cumulative amount its facilitator
\* holds, and whose caps cover the request, does not stop at the challenge
\* (packages/payer/README.md:24).
NamedChannelPays ==
    [][\A c \in Calls :
        /\ Challenged(c)
        /\ call[c].kind = "pay"
        /\ call[c].named = channel.mark
        /\ channel.life = "open"
        /\ Price[wire[c].key] <= Cap["payer"]
        => call'[c].stage # "idle"]_vars
=============================================================================
