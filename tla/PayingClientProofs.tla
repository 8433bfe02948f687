-------------------------- MODULE PayingClientProofs --------------------------
(***************************************************************************)
(* The safety of the composition of clients, gateway and facilitator,      *)
(* proved for any number of overlapping calls, routes, prices, challenges  *)
(* and faults: a payment is served once and on its own route, a 402 is     *)
(* never the answer to an unknown outcome, no client gets ahead of the     *)
(* facilitator, and the mark, the grants and the receipts add up.          *)
(***************************************************************************)
EXTENDS PayingClient, FiniteSetTheorems, TLAPS

-----------------------------------------------------------------------------
(***************************************************************************)
(* The inductive invariant, in parts.                                      *)
(***************************************************************************)

\* A challenge is answered by at most one credential; only signed ones are
\* reserved, and only reserved ones, or charges given up, are paid.
SentOK ==
    /\ \A x \in sent : /\ x.id <= Len(issued)
                       /\ x.action = "open" => x.amount = Price[Key(x.id)]
    /\ \A x, y \in sent : x.id = y.id => x = y
    /\ \A i \in used \cup disowned : \E x \in sent : x.id = i
    /\ \A x \in sent : x.id \in disowned => x.action = "charge"
    /\ taken \cup owing \subseteq used \cup disowned
    /\ \A i \in Ids, k \in Keys : ran[i][k] # 0 => i \in used

\* What the gateway and the client know of the request of call c.
WireOK(c) ==
    /\ wire[c].step = "waiting" =>
        /\ call[c].stage = "paying"
        /\ post[c].cred = Cred(c)
        /\ post[c].verdict # "none"
        /\ wire[c].answer = None
        /\ Key(Cred(c).id) = wire[c].key
    /\ wire[c].answer = "ok" /\ Cred(c).action # "charge" => Cred(c).amount <= channel.mark
    /\ wire[c].answer = "refused" /\ call[c].kind = "pay" =>
        /\ Cred(c).id \in taken \cup owing => Cred(c).id \in disowned
        /\ post[c] = NoPost

\* What the facilitator does, or did, with the credential of call c.
PostOK(c) ==
    /\ post[c].verdict # "none" => Posted(c) \in sent
    /\ post[c].verdict = "none" => post[c] = NoPost
    /\ post[c].verdict \notin {"none", "working"} => wire[c].step = "waiting"
    /\ post[c].verdict = "ok" =>
        /\ Posted(c).action # "close" =>
            /\ Posted(c).id \in taken \cap used
            /\ \A k \in Keys : ran[Posted(c).id][k] = 0
        /\ Posted(c).action # "charge" => Posted(c).amount <= channel.mark
    /\ wire[c].step = "waiting" /\ call[c].kind = "pay" =>
        /\ post[c].verdict = "working" => Posted(c).id \notin used \cup disowned
        /\ post[c].verdict = "refused" =>
              (Posted(c).id \in taken \cup owing => Posted(c).id \in disowned)

\* Where call c is.
CallOK(c) ==
    /\ call[c].stage = "idle" => call[c] = NoCall /\ wire[c] = Quiet
    /\ call[c].stage = "probe" =>
        /\ wire[c].step = "answered" /\ wire[c].answer = "challenge" /\ Cred(c) = None
        /\ wire[c].offer \in 1 .. Len(issued)
        /\ Key(wire[c].offer) = wire[c].key
        /\ post[c] = NoPost
        /\ call[c].user \in Users /\ call[c].kind \in {"pay", "close"}
        /\ \A x \in sent : x.id # wire[c].offer
    /\ call[c].stage = "paying" =>
        /\ Cred(c) \in sent
        /\ wire[c].answer # "challenge"
        /\ wire[c].key \in Keys
        /\ call[c].kind # "again" => call[c].user \in Users
        /\ call[c].kind = "pay" => Cred(c).action # "close"
    /\ call[c].named # None => call[c].named <= channel.mark
    /\ call[c].state # None => call[c].state <= channel.mark

CallInv(c) == WireOK(c) /\ PostOK(c) /\ CallOK(c)

\* Two calls hold different challenges, and different credentials.
Apart ==
    \A c, d \in Calls : c # d =>
        /\ call[c].stage = "probe" /\ call[d].stage = "probe" => wire[c].offer # wire[d].offer
        /\ \A x \in {Cred(c), Posted(c)} \cap sent : x \notin {Cred(d), Posted(d)}

IInv ==
    /\ TypeOK
    /\ SentOK
    /\ \A c \in Calls : CallInv(c)
    /\ Apart
    /\ ServedOnce
    /\ NeverAhead
    /\ ExposureBounded

-----------------------------------------------------------------------------
(***************************************************************************)
(* What a step leaves alone: the books only grow, and call d is disturbed  *)
(* by a step of its own only.                                              *)
(***************************************************************************)
Forward ==
    /\ channel'.mark \in Nat /\ channel.mark <= channel'.mark
    /\ sent \subseteq sent'
    /\ taken \subseteq taken' /\ used \subseteq used' /\ disowned \subseteq disowned'
    /\ Len(issued) <= Len(issued')
    /\ \A i \in 1 .. Len(issued) : issued'[i] = issued[i]

Holds(d, i) == \E x \in {Cred(d), Posted(d)} \cap sent : x.id = i

Undisturbed(d) ==
    /\ wire'[d] = wire[d]
    /\ post'[d] = post[d]
    /\ call'[d] = call[d]
    /\ \A x \in sent' \ sent : call[d].stage = "probe" => x.id # wire[d].offer
    /\ \A i \in (used' \ used) \cup (disowned' \ disowned) : ~Holds(d, i)
    /\ \A i \in (taken' \cup owing') \ (taken \cup owing) : ~Holds(d, i)
    /\ \A i \in Ids, k \in Keys : ran'[i][k] # ran[i][k] => ~Holds(d, i)

\* A call no step disturbs stays where it is.
LEMMA Kept ==
    ASSUME TypeOK, SentOK, Forward,
           NEW d \in Calls, CallInv(d), Undisturbed(d)
    PROVE  CallInv(d)'
<1> USE DEF Key, Cred, Posted
<1>1. /\ wire'[d] = wire[d] /\ post'[d] = post[d] /\ call'[d] = call[d]
      /\ wire[d] \in Request /\ post[d] \in Post /\ call[d] \in CallState
  BY DEF Undisturbed, TypeOK, GatewayTypeOK
<1>2. ASSUME NEW x \in {Cred(d), Posted(d)} \cap sent
      PROVE  /\ x \in Credential
             /\ x.id \in Ids
             /\ x.id \in 1 .. Len(issued)
             /\ issued'[x.id].key = issued[x.id].key
             /\ x.id \in used' => x.id \in used
             /\ x.id \in disowned' <=> x.id \in disowned
             /\ x.id \in taken' \cup owing' => x.id \in taken \cup owing
             /\ \A k \in Keys : ran'[x.id][k] = ran[x.id][k]
  <2>1. x \in Credential /\ x.id \in Ids
    BY DEF TypeOK, Credential
  <2>2. x.id \in 1 .. Len(issued)
    BY <2>1 DEF SentOK, Ids
  <2>3. Holds(d, x.id)
    BY DEF Holds
  <2> QED BY <2>1, <2>2, <2>3 DEF Undisturbed, Forward
<1>3. /\ channel.mark \in Nat /\ channel'.mark \in Nat /\ channel.mark <= channel'.mark
      /\ Len(issued) \in Nat /\ Len(issued') \in Nat /\ Len(issued) <= Len(issued')
  <2>1. issued \in Seq(Challenge)
    BY DEF TypeOK, GatewayTypeOK
  <2> QED BY <2>1 DEF Forward, TypeOK, GatewayTypeOK
<1>4. wire[d].step = "waiting" \/ wire[d].answer \in {"ok", "refused"} => Cred(d) \in sent
  <2>1. call[d].stage \in {"idle", "probe", "paying"}
    BY <1>1 DEF CallState
  <2> QED BY <2>1, NoneAssumption DEF CallInv, CallOK, Quiet
<1>5. WireOK(d)'
  <2>1. (wire[d].step = "waiting")' =>
            (/\ call[d].stage = "paying"
             /\ post[d].cred = Cred(d)
             /\ post[d].verdict # "none"
             /\ wire[d].answer = None
             /\ Key(Cred(d).id) = wire[d].key)'
    BY <1>1, <1>2, <1>4 DEF CallInv, WireOK
  <2>2. (wire[d].answer = "ok" /\ Cred(d).action # "charge" => Cred(d).amount <= channel.mark)'
    <3>1. ASSUME Cred(d) \in sent PROVE Cred(d).amount \in Int
      BY <3>1, <1>2 DEF Credential
    <3> QED BY <1>1, <1>3, <1>4, <3>1 DEF CallInv, WireOK
  <2>3. (wire[d].answer = "refused" /\ call[d].kind = "pay" =>
            /\ Cred(d).id \in taken \cup owing => Cred(d).id \in disowned
            /\ post[d] = NoPost)'
    BY <1>1, <1>2, <1>4 DEF CallInv, WireOK
  <2> QED BY <2>1, <2>2, <2>3 DEF WireOK
<1>6. PostOK(d)'
  <2>1. post[d].verdict # "none" => Posted(d) \in sent
    BY DEF CallInv, PostOK
  <2>2. (post[d].verdict # "none" => Posted(d) \in sent)'
    BY <1>1, <2>1 DEF Forward
  <2>3. (/\ post[d].verdict = "none" => post[d] = NoPost
         /\ post[d].verdict \notin {"none", "working"} => wire[d].step = "waiting")'
    BY <1>1 DEF CallInv, PostOK
  <2>4. (post[d].verdict = "ok" =>
            (Posted(d).action # "close" =>
                /\ Posted(d).id \in taken \cap used
                /\ \A k \in Keys : ran[Posted(d).id][k] = 0))'
    <3> SUFFICES ASSUME post[d].verdict = "ok", Posted(d).action # "close"
                 PROVE  /\ Posted(d).id \in taken' \cap used'
                        /\ \A k \in Keys : ran'[Posted(d).id][k] = 0
      BY <1>1
    <3>1. Posted(d).id \in taken \cap used /\ \A k \in Keys : ran[Posted(d).id][k] = 0
      BY DEF CallInv, PostOK
    <3> QED BY <1>2, <2>1, <3>1 DEF Forward
  <2>5. (post[d].verdict = "ok" /\ Posted(d).action # "charge" => Posted(d).amount <= channel.mark)'
    <3>1. ASSUME Posted(d) \in sent PROVE Posted(d).amount \in Int
      BY <3>1, <1>2 DEF Credential
    <3> QED BY <1>1, <1>3, <2>1, <3>1 DEF CallInv, PostOK
  <2>6. (wire[d].step = "waiting" /\ call[d].kind = "pay" =>
            /\ post[d].verdict = "working" => Posted(d).id \notin used \cup disowned
            /\ post[d].verdict = "refused" =>
                  (Posted(d).id \in taken \cup owing => Posted(d).id \in disowned))'
    BY <1>1, <1>2, <2>1 DEF CallInv, PostOK
  <2> QED BY <2>2, <2>3, <2>4, <2>5, <2>6 DEF PostOK
<1>7. CallOK(d)'
  <2>1. (call[d].stage = "idle" => call[d] = NoCall /\ wire[d] = Quiet)'
    BY <1>1 DEF CallInv, CallOK
  <2>2. (call[d].stage = "probe" =>
            /\ wire[d].step = "answered" /\ wire[d].answer = "challenge" /\ Cred(d) = None
            /\ wire[d].offer \in 1 .. Len(issued)
            /\ Key(wire[d].offer) = wire[d].key
            /\ post[d] = NoPost
            /\ call[d].user \in Users /\ call[d].kind \in {"pay", "close"}
            /\ \A x \in sent : x.id # wire[d].offer)'
    BY <1>1, <1>3 DEF CallInv, CallOK, Forward, Undisturbed
  <2>3. (call[d].stage = "paying" =>
            /\ Cred(d) \in sent
            /\ wire[d].answer # "challenge"
            /\ wire[d].key \in Keys
            /\ call[d].kind # "again" => call[d].user \in Users
            /\ call[d].kind = "pay" => Cred(d).action # "close")'
    BY <1>1 DEF CallInv, CallOK, Forward
  <2>4. (/\ call[d].named # None => call[d].named <= channel.mark
         /\ call[d].state # None => call[d].state <= channel.mark)'
    <3>1. /\ call[d].named # None => call[d].named \in Int
          /\ call[d].state # None => call[d].state \in Int
      BY <1>1 DEF CallState, Amount
    <3> QED BY <1>1, <1>3, <3>1 DEF CallInv, CallOK
  <2> QED BY <2>1, <2>2, <2>3, <2>4 DEF CallOK
<1> QED BY <1>5, <1>6, <1>7 DEF CallInv

\* A call whose credential is decided stays where it is.
LEMMA Lasting ==
    ASSUME TypeOK, SentOK, Forward, NEW c \in Calls, CallInv(c), Working(c),
           wire'[c] = wire[c], call'[c] = call[c], sent' = sent
    PROVE  /\ CallOK(c)'
           /\ (wire[c].answer = "ok" /\ Cred(c).action # "charge" =>
                  Cred(c).amount <= channel.mark)'
<1> USE DEF Cred
<1>1. wire[c] \in Request /\ call[c] \in CallState /\ sent \subseteq Credential
  BY DEF TypeOK, GatewayTypeOK
<1>2. channel.mark \in Nat /\ channel'.mark \in Nat /\ channel.mark <= channel'.mark
  BY DEF TypeOK, GatewayTypeOK, Forward
<1>3. call[c].stage # "probe"
  BY DEF CallInv, CallOK, Working, NoPost
<1>4. /\ call[c].named # None => call[c].named \in Nat
      /\ call[c].state # None => call[c].state \in Nat
  BY <1>1 DEF CallState, Amount
<1>5. CallOK(c)'
  BY <1>2, <1>3, <1>4 DEF CallInv, CallOK
<1>6. ASSUME wire[c].answer = "ok", Cred(c).action # "charge"
      PROVE  Cred(c).amount <= channel'.mark
  <2>1. call[c].stage = "paying"
    BY <1>1, <1>3, <1>6, NoneAssumption DEF CallState, CallInv, CallOK, Quiet
  <2>2. Cred(c).amount \in Nat
    BY <1>1, <2>1 DEF CallInv, CallOK, Credential
  <2>3. Cred(c).amount <= channel.mark
    BY <1>6 DEF CallInv, WireOK
  <2> QED BY <1>2, <2>2, <2>3
<1> QED BY <1>5, <1>6

\* No other call holds a challenge this one holds.
LEMMA Distinct ==
    ASSUME SentOK, Apart,
           NEW c \in Calls, NEW d \in Calls, c # d,
           NEW x \in {Cred(c), Posted(c)} \cap sent
    PROVE  ~Holds(d, x.id)
BY DEF Apart, SentOK, Holds

\* As long as the mark only rises, clients that record and sign nothing stay
\* behind it.
LEMMA Behind ==
    ASSUME TypeOK, SentOK, NeverAhead, ExposureBounded, Forward,
           UNCHANGED <<known, sent>>
    PROVE  NeverAhead' /\ ExposureBounded'
<1>1. channel.mark \in Nat /\ channel'.mark \in Nat /\ channel.mark <= channel'.mark
  BY DEF TypeOK, GatewayTypeOK, Forward
<1>2. NeverAhead'
  <2> SUFFICES ASSUME NEW u \in Users, NEW k \in Keys, known[u][k] # None
               PROVE  known[u][k] <= channel'.mark
    BY DEF NeverAhead
  <2>1. known[u][k] \in Nat
    BY DEF TypeOK, Amount
  <2>2. known[u][k] <= channel.mark
    BY DEF NeverAhead
  <2> QED BY <1>1, <2>1, <2>2
<1>3. ExposureBounded'
  <2> SUFFICES ASSUME NEW x \in sent, x.action # "charge"
               PROVE  x.amount <= channel'.mark + Price[issued'[x.id].key]
    BY DEF ExposureBounded, Key
  <2>1. x.amount \in Int /\ x.id \in 1 .. Len(issued)
    BY DEF TypeOK, SentOK, Credential, Ids
  <2>2. issued[x.id].key \in Keys
    <3>1. issued \in Seq(Challenge)
      BY DEF TypeOK, GatewayTypeOK
    <3>2. issued[x.id] \in Challenge
      BY <2>1, <3>1
    <3> QED BY <3>2 DEF Challenge
  <2>3. issued'[x.id] = issued[x.id] /\ Price[issued[x.id].key] \in Nat
    BY <2>1, <2>2, GatewayAssumption DEF Forward
  <2>4. x.amount <= channel.mark + Price[issued[x.id].key]
    BY DEF ExposureBounded, Key
  <2> QED BY <1>1, <2>1, <2>3, <2>4
<1> QED BY <1>2, <1>3

-----------------------------------------------------------------------------
(***************************************************************************)
(* The facilitator decides, in general.                                    *)
(***************************************************************************)
LEMMA Decision ==
    ASSUME IInv,
           NEW c \in Calls, Working(c),
           NEW v \in {"ok", "refused", "pending", "error", "rejected"}, Verdict(c, v),
           used \subseteq used', used' \subseteq used \cup {Posted(c).id},
           taken \subseteq taken', taken' \subseteq taken \cup {Posted(c).id},
           owing' \subseteq owing \cup {Posted(c).id},
           disowned \subseteq disowned', disowned' \subseteq disowned \cup {Posted(c).id},
           UNCHANGED disowned \/ Posted(c).action = "charge",
           taken' \cup owing' \subseteq used' \cup disowned',
           resumed' \subseteq resumed \cup {Posted(c).id},
           channel' \in [life : {"none", "pending", "expired", "open", "final"},
                        mark : 0 .. Funding],
           channel.mark <= channel'.mark,
           v = "ok" /\ Posted(c).action # "close" =>
               Posted(c).id \in taken' \cap used' /\ Posted(c).id \notin used,
           v = "ok" /\ Posted(c).action # "charge" => Posted(c).amount <= channel'.mark,
           v = "refused" /\ Posted(c).action # "close" =>
               UNCHANGED <<taken, owing>> \/ Posted(c).id \in disowned',
           faults' \in 0 .. MaxFaults,
           UNCHANGED <<issued, expired, wire, ran, call, known, openTx, receipts, sent, repeats>>
    PROVE  IInv'
<1> USE DEF Cred, Posted
<1> DEFINE x == post[c].cred
<1>1. /\ TypeOK /\ SentOK /\ CallInv(c) /\ Apart /\ ServedOnce /\ NeverAhead /\ ExposureBounded
      /\ \A d \in Calls : CallInv(d)
  BY DEF IInv
<1>2. x \in sent /\ x \in Credential /\ x.id \in Ids
  BY <1>1 DEF CallInv, PostOK, Working, TypeOK, Credential
<1>3. Forward
  BY <1>1, <1>2 DEF Forward, TypeOK, GatewayTypeOK
<1>4. /\ post \in [Calls -> Post] /\ wire \in [Calls -> Request]
      /\ post' = [post EXCEPT ![c] = IF wire[c].step = "waiting"
                                     THEN [cred |-> x, verdict |-> v] ELSE NoPost]
  <2>1. post \in [Calls -> Post] /\ wire \in [Calls -> Request]
    BY <1>1 DEF TypeOK, GatewayTypeOK
  <2>2. [post[c] EXCEPT !.verdict = v] = [cred |-> x, verdict |-> v]
    BY <2>1 DEF Post
  <2> QED BY <2>1, <2>2 DEF Verdict
<1>5. TypeOK'
  <2>1. post' \in [Calls -> Post]
    BY <1>2, <1>4 DEF Post, NoPost
  <2>2. /\ used' \subseteq Ids /\ taken' \subseteq Ids /\ owing' \subseteq Ids
        /\ disowned' \subseteq Ids /\ resumed' \subseteq Ids
    BY <1>1, <1>2 DEF TypeOK, GatewayTypeOK
  <2> QED BY <1>1, <2>1, <2>2 DEF TypeOK, GatewayTypeOK
<1>6. SentOK'
  BY <1>1, <1>2 DEF SentOK, Key
<1>7. ASSUME NEW d \in Calls PROVE CallInv(d)'
  <2>1. CASE d # c
    <3>1. ~Holds(d, x.id)
      BY <1>1, <1>2, <2>1, Distinct
    <3>2. Undisturbed(d)
      BY <1>4, <2>1, <3>1 DEF Undisturbed
    <3> QED BY <1>1, <1>3, <3>2, Kept
  <2>2. CASE d = c
    <3>1. CASE wire[c].step # "waiting"
      <4>1. post'[c] = NoPost
        BY <1>4, <3>1
      <4>2. call[c].kind = "pay" => wire[c].answer # "refused"
        BY <1>1 DEF CallInv, WireOK, Working, NoPost
      <4>3. WireOK(c)'
        BY <1>1, <1>3, <3>1, <4>2, Lasting DEF WireOK
      <4>4. PostOK(c)'
        BY <3>1, <4>1 DEF PostOK, NoPost
      <4>5. CallOK(c)'
        BY <1>1, <1>3, Lasting
      <4> QED BY <2>2, <4>3, <4>4, <4>5 DEF CallInv
    <3>2. CASE wire[c].step = "waiting"
      <4>1. post'[c] = [cred |-> x, verdict |-> v]
        BY <1>4, <3>2
      <4>2. /\ call[c].stage = "paying" /\ wire[c].cred = x /\ wire[c].answer = None
            /\ Key(x.id) = wire[c].key
        BY <1>1, <3>2 DEF CallInv, WireOK
      <4>3. WireOK(c)'
        BY <3>2, <4>1, <4>2, NoneAssumption DEF WireOK, Key
      <4>4. PostOK(c)'
        <5>1. v = "ok" /\ x.action # "close" => \A k \in Keys : ran[x.id][k] = 0
          <6> SUFFICES ASSUME v = "ok", x.action # "close", NEW k \in Keys
                       PROVE  ran[x.id][k] = 0
            OBVIOUS
          <6>1. ran[x.id][k] \in Nat
            BY <1>1, <1>2 DEF TypeOK, GatewayTypeOK
          <6> QED BY <1>1, <1>2, <6>1 DEF SentOK
        <5>2. call[c].kind = "pay" => x.action # "close" /\ x.id \notin used \cup disowned
          BY <1>1, <3>2, <4>2 DEF CallInv, CallOK, PostOK, Working
        <5>3. call[c].kind = "pay" => x.id \notin taken \cup owing
          BY <1>1, <5>2 DEF SentOK
        <5> QED BY <1>2, <3>2, <4>1, <5>1, <5>2, <5>3 DEF PostOK
      <4>5. CallOK(c)'
        BY <1>1, <1>3, Lasting
      <4> QED BY <2>2, <4>3, <4>4, <4>5 DEF CallInv
    <3> QED BY <3>1, <3>2
  <2> QED BY <2>1, <2>2
<1>8. Apart'
  <2>1. \A d \in Calls : wire'[d].cred = wire[d].cred /\ wire'[d].offer = wire[d].offer
    OBVIOUS
  <2>2. \A d \in Calls : post'[d].cred \in {None, post[d].cred}
    BY <1>4 DEF NoPost
  <2>3. None \notin sent
    BY <1>1, NoneAssumption DEF TypeOK
  <2> QED BY <1>1, <2>1, <2>2, <2>3 DEF Apart
<1>9. ServedOnce'
  BY <1>1 DEF ServedOnce, Key
<1> QED BY <1>1, <1>3, <1>5, <1>6, <1>7, <1>8, <1>9, Behind DEF IInv
\* What is known of a credential the facilitator works on.
LEMMA PostedFacts ==
    ASSUME IInv, NEW c \in Calls, Working(c)
    PROVE  /\ Posted(c) \in sent /\ Posted(c) \in Credential /\ Posted(c).id \in Ids
           /\ Posted(c).amount \in Nat
           /\ Price[Key(Posted(c).id)] \in 1 .. Funding
           /\ Posted(c).action = "open" => Posted(c).amount = Price[Key(Posted(c).id)]
           /\ taken \cup owing \subseteq used \cup disowned
           /\ channel \in [life : {"none", "pending", "expired", "open", "final"},
                           mark : 0 .. Funding]
           /\ faults \in 0 .. MaxFaults /\ MaxFaults \in Nat /\ Funding \in Nat
<1> DEFINE x == Posted(c)
<1>1. TypeOK /\ SentOK /\ CallInv(c)
  BY DEF IInv
<1>2. x \in sent /\ x \in Credential
  BY <1>1 DEF CallInv, PostOK, Working, TypeOK, Posted
<1>3. x.id \in Ids /\ x.amount \in Nat
  BY <1>2 DEF Credential
<1>4. issued[x.id] \in Challenge
  <2>1. issued \in Seq(Challenge) /\ x.id \in 1 .. Len(issued)
    BY <1>1, <1>2, <1>3 DEF SentOK, TypeOK, GatewayTypeOK, Ids
  <2> QED BY <2>1
<1>5. Price[Key(x.id)] \in 1 .. Funding
  BY <1>4, GatewayAssumption DEF Key, Challenge
<1>6. x.action = "open" => x.amount = Price[Key(x.id)]
  BY <1>1, <1>2 DEF SentOK
<1> QED
  BY <1>1, <1>2, <1>3, <1>5, <1>6, GatewayAssumption DEF SentOK, TypeOK, GatewayTypeOK

LEMMA ChargeStep ==
    ASSUME IInv, UNCHANGED clientVars, NEW c \in Calls, DecideCharge(c)
    PROVE  IInv'
<1> USE DEF clientVars, DecideCharge
<1> DEFINE i == Posted(c).id
<1>1. Working(c) /\ Posted(c).action = "charge"
  OBVIOUS
<1>2. CASE Unused(i) /\ SubmitCharge(c, i)
  <2>1. /\ UNCHANGED <<channel, resumed, issued, expired, wire, ran, faults>>
        /\ used \subseteq used' /\ used' \subseteq used \cup {i}
        /\ taken \subseteq taken' /\ taken' \subseteq taken \cup {i}
        /\ owing' \subseteq owing \cup {i}
        /\ disowned \subseteq disowned' /\ disowned' \subseteq disowned \cup {i}
    BY <1>2 DEF SubmitCharge
  <2>2. taken' \cup owing' \subseteq used' \cup disowned'
    <3>1. taken \cup owing \subseteq used \cup disowned
      BY <1>1, PostedFacts
    <3> QED BY <1>2, <3>1 DEF SubmitCharge
  <2>3. PICK v \in {"ok", "refused", "pending"} :
            /\ Verdict(c, v)
            /\ v = "ok" => i \in taken' \cap used'
            /\ v = "refused" => UNCHANGED <<taken, owing>> \/ i \in disowned'
    BY <1>2 DEF SubmitCharge
  <2>4. v = "ok" => i \notin used
    BY <1>2 DEF Unused
  <2> QED BY <1>1, <2>1, <2>2, <2>3, <2>4, PostedFacts, Decision
<1>3. CASE Verdict(c, "refused") /\ UNCHANGED <<used, taken, owing, disowned>>
  BY <1>1, <1>3, PostedFacts, Decision
<1> QED BY <1>2, <1>3

LEMMA OpenStep ==
    ASSUME IInv, UNCHANGED clientVars, NEW c \in Calls, DecideOpen(c)
    PROVE  IInv'
<1> USE DEF clientVars, DecideOpen, Unused
<1>1. Working(c) /\ Posted(c).action = "open"
  OBVIOUS
<1>2. CASE Verdict(c, "refused") /\ UNCHANGED <<channel, used, taken>>
  BY <1>1, <1>2, PostedFacts, Decision
<1>3. CASE channel' = [channel EXCEPT !.life = "pending"] /\ Verdict(c, "pending")
           /\ UNCHANGED <<used, taken>>
  BY <1>1, <1>3, PostedFacts, Decision
<1>4. CASE /\ Covers(c) /\ Unused(Posted(c).id)
           /\ channel' = [life |-> "open", mark |-> Posted(c).amount]
           /\ used' = used \cup {Posted(c).id}
           /\ taken' = taken \cup {Posted(c).id}
           /\ Verdict(c, "ok")
  <2>1. Posted(c).amount \in 0 .. Funding /\ channel.mark <= Posted(c).amount
    BY <1>1, <1>4, PostedFacts DEF Covers
  <2> QED BY <1>1, <1>4, <2>1, PostedFacts, Decision
<1>5. CASE used' = used \cup {Posted(c).id} /\ Verdict(c, "refused") /\ UNCHANGED <<channel, taken>>
  BY <1>1, <1>5, PostedFacts, Decision
<1> QED BY <1>2, <1>3, <1>4, <1>5

LEMMA VoucherStep ==
    ASSUME IInv, UNCHANGED clientVars, NEW c \in Calls, DecideVoucher(c)
    PROVE  IInv'
<1> USE DEF clientVars, DecideVoucher, Unused
<1>1. Working(c) /\ Posted(c).action = "voucher"
  OBVIOUS
<1>2. CASE Verdict(c, "refused") /\ UNCHANGED <<channel, used, taken>>
  BY <1>1, <1>2, PostedFacts, Decision
<1>3. CASE /\ Examined(c) /\ Covers(c)
           /\ used' = used \cup {Posted(c).id}
           /\ taken' = taken \cup {Posted(c).id}
           /\ channel' = [channel EXCEPT !.mark = Posted(c).amount]
           /\ Verdict(c, "ok")
  <2>1. /\ Posted(c).amount \in 0 .. Funding /\ channel.mark <= Posted(c).amount
        /\ Posted(c).id \notin used
    BY <1>3, PostedFacts DEF Covers, Examined
  <2> QED BY <1>1, <1>3, <2>1, PostedFacts, Decision
<1>4. CASE used' = used \cup {Posted(c).id} /\ Verdict(c, "refused") /\ UNCHANGED <<channel, taken>>
  BY <1>1, <1>4, PostedFacts, Decision
<1> QED BY <1>2, <1>3, <1>4

LEMMA CloseStep ==
    ASSUME IInv, UNCHANGED clientVars, NEW c \in Calls, DecideClose(c)
    PROVE  IInv'
<1> USE DEF clientVars, DecideClose, Unused
<1>1. Working(c) /\ Posted(c).action = "close"
  OBVIOUS
<1>2. CASE Verdict(c, "refused") /\ UNCHANGED <<channel, used, taken, resumed>>
  BY <1>1, <1>2, PostedFacts, Decision
<1>3. CASE used' = used \cup {Posted(c).id} /\ Verdict(c, "refused")
           /\ UNCHANGED <<channel, taken, resumed>>
  BY <1>1, <1>3, PostedFacts, Decision
<1>4. CASE /\ Examined(c)
           /\ Covers(c) \/ Posted(c).amount = channel.mark
           /\ used' = used \cup {Posted(c).id}
           /\ taken' = IF Covers(c) THEN taken \cup {Posted(c).id} ELSE taken
           /\ resumed' = IF Covers(c) THEN resumed ELSE resumed \cup {Posted(c).id}
           /\ \/ /\ channel' = [life |-> "final", mark |-> Posted(c).amount]
                 /\ Verdict(c, "ok")
              \/ /\ channel' = [channel EXCEPT !.mark = Posted(c).amount]
                 /\ \E v \in {"refused", "pending"} : Verdict(c, v)
  <2>1. Posted(c).amount \in 0 .. Funding /\ channel.mark <= Posted(c).amount
    BY <1>4, PostedFacts DEF Covers, Examined
  <2>2. PICK v \in {"ok", "refused", "pending"} : Verdict(c, v)
    BY <1>4
  <2>3. /\ channel' \in [life : {"none", "pending", "expired", "open", "final"},
                         mark : 0 .. Funding]
        /\ channel'.mark = Posted(c).amount
    BY <1>1, <1>4, <2>1, PostedFacts
  <2>4. taken \subseteq taken' /\ taken' \subseteq taken \cup {Posted(c).id}
        /\ taken' \subseteq used' \cup disowned'
    BY <1>1, <1>4, PostedFacts
  <2>5. resumed' \subseteq resumed \cup {Posted(c).id}
    BY <1>4
  <2> QED BY <1>1, <1>4, <2>1, <2>2, <2>3, <2>4, <2>5, PostedFacts, Decision
<1> QED BY <1>2, <1>3, <1>4

LEMMA FailStep ==
    ASSUME IInv, UNCHANGED clientVars, NEW c \in Calls,
           RefuseProof(c) \/ FacilitatorFails(c)
    PROVE  IInv'
<1>1. Working(c) /\ UNCHANGED <<channel, used, taken, owing, disowned, resumed, issued, expired, wire, ran>>
  BY DEF RefuseProof, FacilitatorFails
<1>2. PICK v \in {"error", "rejected", "refused"} : Verdict(c, v)
  BY DEF RefuseProof, FacilitatorFails
<1>3. faults' \in 0 .. MaxFaults
  BY <1>1, PostedFacts DEF RefuseProof, FacilitatorFails, Fault
<1> QED BY <1>1, <1>2, <1>3, PostedFacts, Decision DEF clientVars
-----------------------------------------------------------------------------
(***************************************************************************)
(* The gateway answers, in general; and the ledger decides late.           *)
(***************************************************************************)
Heard(c) ==
    \/ post' = post /\ Working(c)
    \/ post' = [post EXCEPT ![c] = NoPost]

RunsOnce(c) ==
    /\ post[c].verdict = "ok" /\ Cred(c).action # "close"
    /\ ran' = [ran EXCEPT ![Cred(c).id][wire[c].key] = @ + 1]

LEMMA Answering ==
    ASSUME IInv,
           NEW c \in Calls, wire[c].step = "waiting",
           NEW a \in {"ok", "refused", "unknown", "protocol", "app_error", "app_failed"},
           Reply(c, a),
           Heard(c),
           a = "ok" => post[c].verdict = "ok",
           a = "refused" => post[c].verdict = "refused",
           ran' = ran \/ RunsOnce(c),
           faults' \in 0 .. MaxFaults,
           UNCHANGED <<channel, used, taken, owing, disowned, resumed, issued, expired>>,
           UNCHANGED <<call, known, openTx, receipts, sent, repeats>>
    PROVE  IInv'
<1> USE DEF Cred, Posted
<1> DEFINE x == wire[c].cred
<1>1. /\ TypeOK /\ SentOK /\ CallInv(c) /\ Apart /\ ServedOnce /\ NeverAhead /\ ExposureBounded
      /\ \A d \in Calls : CallInv(d)
  BY DEF IInv
<1>2. /\ call[c].stage = "paying" /\ x = post[c].cred
      /\ x \in sent /\ x \in Credential /\ x.id \in Ids
      /\ wire[c].key \in Keys /\ issued[x.id].key = wire[c].key
  BY <1>1 DEF CallInv, WireOK, CallOK, TypeOK, Credential, Key
<1>3. Forward
  BY <1>1 DEF Forward, TypeOK, GatewayTypeOK
<1>4. /\ post \in [Calls -> Post] /\ wire \in [Calls -> Request]
      /\ ran \in [Ids -> [Keys -> Nat]]
  BY <1>1 DEF TypeOK, GatewayTypeOK
<1>5. wire' = [wire EXCEPT ![c] = [step |-> "answered", key |-> wire[c].key, cred |-> x,
                                   answer |-> a, offer |-> wire[c].offer]]
  <2>1. [wire[c] EXCEPT !.step = "answered"]
            = [step |-> "answered", key |-> wire[c].key, cred |-> x,
               answer |-> wire[c].answer, offer |-> wire[c].offer]
    BY <1>4 DEF Request
  <2>2. [[step |-> "answered", key |-> wire[c].key, cred |-> x,
          answer |-> wire[c].answer, offer |-> wire[c].offer] EXCEPT !.answer = a]
            = [step |-> "answered", key |-> wire[c].key, cred |-> x,
               answer |-> a, offer |-> wire[c].offer]
    OBVIOUS
  <2> QED BY <2>1, <2>2, Zenon DEF Reply
<1>12. /\ \/ post'[c] = post[c] /\ Working(c)
         \/ post'[c] = NoPost
      /\ \A d \in Calls \ {c} : post'[d] = post[d]
  BY <1>4 DEF Heard
<1>6. ASSUME NEW i \in Ids, NEW k \in Keys, ran'[i][k] # ran[i][k]
      PROVE  /\ i = x.id /\ k = wire[c].key /\ ran'[i][k] = ran[i][k] + 1
             /\ post[c].verdict = "ok" /\ x.action # "close"
  BY <1>2, <1>4, <1>6 DEF RunsOnce
<1>7. TypeOK'
  <2>1. post' \in [Calls -> Post]
    <3>1. NoPost \in Post
      BY DEF NoPost, Post
    <3> QED BY <1>4, <3>1 DEF Heard
  <2>2. wire' \in [Calls -> Request]
    BY <1>4, <1>5 DEF Request
  <2>3. ran' \in [Ids -> [Keys -> Nat]]
    BY <1>2, <1>4 DEF RunsOnce
  <2> QED BY <1>1, <2>1, <2>2, <2>3 DEF TypeOK, GatewayTypeOK
<1>8. SentOK'
  <2>1. ASSUME NEW i \in Ids, NEW k \in Keys, ran'[i][k] # 0 PROVE i \in used
    BY <1>1, <1>2, <1>6, <2>1 DEF SentOK, CallInv, PostOK
  <2> QED BY <1>1, <2>1 DEF SentOK, Key
<1>9. ASSUME NEW d \in Calls PROVE CallInv(d)'
  <2>1. CASE d # c
    <3>1. ~Holds(d, x.id)
      BY <1>1, <1>2, <2>1, Distinct
    <3>2. Undisturbed(d)
      BY <1>4, <1>5, <1>6, <1>12, <2>1, <3>1 DEF Undisturbed
    <3> QED BY <1>1, <1>3, <3>2, Kept
  <2>2. CASE d = c
    <3>1. /\ wire'[c].step = "answered" /\ wire'[c].cred = x
          /\ wire'[c].answer = a /\ wire'[c].key = wire[c].key
          /\ post'[c] = NoPost \/ (post'[c] = post[c] /\ Working(c))
      BY <1>12, <1>4, <1>5
    <3>2. WireOK(c)'
      <4>1. a = "ok" /\ x.action # "charge" => x.amount <= channel.mark
        BY <1>1, <1>2 DEF CallInv, PostOK
      <4>2. a = "refused" /\ call[c].kind = "pay" =>
                (x.id \in taken \cup owing => x.id \in disowned)
        BY <1>1, <1>2 DEF CallInv, PostOK
      <4>3. a = "refused" => post'[c] = NoPost
        BY <3>1 DEF Working
      <4> QED BY <3>1, <4>1, <4>2, <4>3 DEF WireOK
    <3>3. PostOK(c)'
      BY <1>1, <3>1 DEF CallInv, PostOK, NoPost, Working
    <3>4. CallOK(c)'
      BY <1>1, <1>2, <3>1 DEF CallInv, CallOK
    <3> QED BY <2>2, <3>2, <3>3, <3>4 DEF CallInv
  <2> QED BY <2>1, <2>2
<1>10. Apart'
  <2>1. \A d \in Calls : wire'[d].cred = wire[d].cred /\ wire'[d].offer = wire[d].offer
    BY <1>4, <1>5
  <2>2. \A d \in Calls : post'[d].cred \in {None, post[d].cred}
    BY <1>12 DEF NoPost
  <2>3. None \notin sent
    BY <1>1, NoneAssumption DEF TypeOK
  <2> QED BY <1>1, <2>1, <2>2, <2>3 DEF Apart
<1>11. ServedOnce'
  <2> SUFFICES ASSUME NEW i \in Ids, NEW k \in Keys
               PROVE  /\ ran'[i][k] <= 1
                      /\ ran'[i][k] = 1 => i \in taken /\ issued[i].key = k
    BY DEF ServedOnce, Key
  <2>1. CASE ran'[i][k] = ran[i][k]
    BY <1>1, <2>1 DEF ServedOnce, Key
  <2>2. CASE ran'[i][k] # ran[i][k]
    <3>1. i = x.id /\ k = wire[c].key /\ post[c].verdict = "ok" /\ x.action # "close"
      BY <1>6, <2>2
    <3>2. ran[i][k] = 0 /\ i \in taken
      BY <1>1, <1>2, <3>1 DEF CallInv, PostOK
    <3> QED BY <1>2, <1>6, <2>2, <3>1, <3>2
  <2> QED BY <2>1, <2>2
<1> QED BY <1>1, <1>3, <1>7, <1>8, <1>9, <1>10, <1>11, Behind DEF IInv

LEMMA HearStep ==
    ASSUME IInv, UNCHANGED clientVars, NEW c \in Calls, HearVerdict(c)
    PROVE  IInv'
<1> USE DEF HearVerdict, Paid
<1> DEFINE v == post[c].verdict
<1>1. /\ wire[c].step = "waiting" /\ Heard(c)
      /\ UNCHANGED <<channel, used, taken, owing, disowned, resumed, issued, expired>>
  BY DEF Heard
<1>2. faults \in 0 .. MaxFaults /\ MaxFaults \in Nat
  BY GatewayAssumption DEF IInv, TypeOK, GatewayTypeOK
<1>3. CASE v = "ok" /\ Cred(c).action # "close" /\ RunApplication(c)
  <2>1. PICK a \in {"ok", "app_error", "app_failed"} : Reply(c, a)
    BY <1>3 DEF RunApplication
  <2>2. RunsOnce(c)
    BY <1>3 DEF RunApplication, RunsOnce
  <2>3. faults' \in 0 .. MaxFaults
    BY <1>2, <1>3 DEF RunApplication, Fault
  <2> QED BY <1>1, <1>3, <2>1, <2>2, <2>3, Answering DEF clientVars
<1>4. CASE /\ \/ v = "ok" /\ Reply(c, "ok")
              \/ v = "refused" /\ Reply(c, "refused")
              \/ Reply(c, "unknown")
              \/ Reply(c, "protocol")
           /\ UNCHANGED <<ran, faults>>
  <2>1. PICK a \in {"ok", "refused", "unknown", "protocol"} :
            /\ Reply(c, a)
            /\ a = "ok" => v = "ok"
            /\ a = "refused" => v = "refused"
    BY <1>4
  <2> QED BY <1>1, <1>2, <1>4, <2>1, Answering DEF clientVars
<1> QED BY <1>3, <1>4

LEMMA StopStep ==
    ASSUME IInv, UNCHANGED clientVars, NEW c \in Calls, StopWaiting(c)
    PROVE  IInv'
<1>1. /\ wire[c].step = "waiting" /\ Reply(c, "unknown") /\ Heard(c)
      /\ UNCHANGED <<channel, used, taken, owing, disowned, resumed, issued, expired, ran>>
  <2>1. post \in [Calls -> Post]
    BY DEF IInv, TypeOK, GatewayTypeOK
  <2>2. CASE Working(c)
    BY <2>1, <2>2 DEF StopWaiting, TimeoutAnswer, Heard
  <2>3. CASE ~Working(c)
    BY <2>3 DEF StopWaiting, TimeoutAnswer, Heard
  <2> QED BY <2>2, <2>3
<1>2. faults' \in 0 .. MaxFaults
  BY GatewayAssumption DEF IInv, TypeOK, GatewayTypeOK, StopWaiting, Fault
<1> QED BY <1>1, <1>2, Answering DEF clientVars

LEMMA SettleStep ==
    ASSUME IInv, UNCHANGED clientVars, NEW i \in Ids, LedgerSettles(i)
    PROVE  IInv'
<1> USE DEF LedgerSettles, clientVars
<1>1. /\ TypeOK /\ SentOK /\ Apart /\ ServedOnce /\ NeverAhead /\ ExposureBounded
      /\ \A d \in Calls : CallInv(d)
  BY DEF IInv
<1>2. Forward
  BY <1>1 DEF Forward, TypeOK, GatewayTypeOK
<1>3. TypeOK'
  BY <1>1 DEF TypeOK, GatewayTypeOK
<1>4. SentOK'
  BY <1>1 DEF SentOK, Key
<1>5. ASSUME NEW d \in Calls PROVE CallInv(d)'
  BY <1>1, <1>2, Kept DEF Undisturbed
<1>6. Apart' /\ ServedOnce'
  BY <1>1 DEF Apart, ServedOnce, Cred, Posted, Key
<1> QED BY <1>1, <1>2, <1>3, <1>4, <1>5, <1>6, Behind DEF IInv

LEMMA OpensStep ==
    ASSUME IInv, UNCHANGED clientVars, LedgerOpens
    PROVE  IInv'
<1> USE DEF LedgerOpens, clientVars
<1>1. /\ TypeOK /\ SentOK /\ Apart /\ ServedOnce /\ NeverAhead /\ ExposureBounded
      /\ \A d \in Calls : CallInv(d)
  BY DEF IInv
<1>2. TypeOK' /\ channel'.mark = channel.mark
  BY <1>1 DEF TypeOK, GatewayTypeOK
<1>3. Forward
  BY <1>1, <1>2 DEF Forward, TypeOK, GatewayTypeOK
<1>4. SentOK'
  BY <1>1 DEF SentOK, Key
<1>5. ASSUME NEW d \in Calls PROVE CallInv(d)'
  BY <1>1, <1>3, Kept DEF Undisturbed
<1>6. Apart' /\ ServedOnce'
  BY <1>1 DEF Apart, ServedOnce, Cred, Posted, Key
<1> QED BY <1>1, <1>2, <1>3, <1>4, <1>5, <1>6, Behind DEF IInv
-----------------------------------------------------------------------------
(***************************************************************************)
(* The clients.                                                            *)
(***************************************************************************)

\* What a client is about to record does not run ahead of the mark.
LEMMA RegisteredBehind ==
    ASSUME IInv, NEW c \in Calls, Challenged(c), UNCHANGED channel
    PROVE  /\ Registered(c) \in [Users -> [Keys -> Amount \cup {None}]]
           /\ \A u \in Users, k \in Keys :
                Registered(c)[u][k] # None => Registered(c)[u][k] <= channel.mark
           /\ call[c].user \in Users /\ wire[c].key \in Keys
           /\ wire[c].offer \in Ids /\ wire[c].offer \in 1 .. Len(issued)
           /\ issued[wire[c].offer] \in Challenge
           /\ issued[wire[c].offer].key = wire[c].key
<1>1. TypeOK /\ NeverAhead /\ CallInv(c)
  BY DEF IInv
<1>2. /\ call[c].user \in Users /\ wire[c].offer \in 1 .. Len(issued)
      /\ issued[wire[c].offer].key = wire[c].key
      /\ call[c].named # None => call[c].named <= channel.mark
  BY <1>1 DEF CallInv, CallOK, Challenged, Key
<1>3. issued \in Seq(Challenge) /\ Len(issued) <= MaxChallenges /\ Len(issued) \in Nat
  BY <1>1 DEF TypeOK, GatewayTypeOK
<1>4. issued[wire[c].offer] \in Challenge /\ wire[c].offer \in Ids
  BY <1>2, <1>3, GatewayAssumption DEF Ids
<1>5. wire[c].key \in Keys
  BY <1>2, <1>4 DEF Challenge
<1>6. /\ known \in [Users -> [Keys -> Amount \cup {None}]]
      /\ call[c].named \in Amount \cup {None}
  BY <1>1 DEF TypeOK, CallState
<1>7. Registered(c) \in [Users -> [Keys -> Amount \cup {None}]]
  BY <1>2, <1>5, <1>6 DEF Registered
<1>8. ASSUME NEW u \in Users, NEW k \in Keys, Registered(c)[u][k] # None
      PROVE  Registered(c)[u][k] <= channel.mark
  <2>1. \/ Registered(c)[u][k] = known[u][k]
        \/ call[c].named # None /\ Registered(c)[u][k] = call[c].named
    BY <1>2, <1>5, <1>6 DEF Registered
  <2> QED BY <1>1, <1>2, <1>8, <2>1 DEF NeverAhead
<1> QED BY <1>2, <1>4, <1>5, <1>7, <1>8

\* A call ends.
LEMMA Ending ==
    ASSUME IInv, NEW c \in Calls, Ended(c), wire[c].step = "answered",
           known' \in [Users -> [Keys -> Amount \cup {None}]],
           NeverAhead',
           openTx' \subseteq Keys, receipts' \in Seq(Ids), faults' \in 0 .. MaxFaults,
           UNCHANGED <<sent, repeats>>
    PROVE  IInv'
<1> USE DEF Cred, Posted
<1>1. /\ TypeOK /\ SentOK /\ CallInv(c) /\ Apart /\ ServedOnce /\ ExposureBounded
      /\ \A d \in Calls : CallInv(d)
  BY DEF IInv
<1>2. /\ call \in [Calls -> CallState] /\ wire \in [Calls -> Request]
  BY <1>1 DEF TypeOK, GatewayTypeOK
<1>3. /\ call' = [call EXCEPT ![c] = NoCall] /\ wire' = [wire EXCEPT ![c] = Quiet]
      /\ UNCHANGED <<channel, used, taken, owing, disowned, resumed, issued, expired, post, ran>>
  BY DEF Ended, ServerUnchanged
<1>4. TypeOK'
  <2>1. call' \in [Calls -> CallState]
    BY <1>2, <1>3 DEF CallState, NoCall
  <2>2. wire' \in [Calls -> Request]
    BY <1>2, <1>3 DEF Request, Quiet
  <2> QED BY <1>1, <1>3, <2>1, <2>2 DEF TypeOK, GatewayTypeOK
<1>5. Forward
  BY <1>1, <1>3 DEF Forward, TypeOK, GatewayTypeOK
<1>6. SentOK'
  BY <1>1, <1>3 DEF SentOK, Key
<1>7. ASSUME NEW d \in Calls PROVE CallInv(d)'
  <2>1. CASE d # c
    <3>1. Undisturbed(d)
      BY <1>2, <1>3, <2>1 DEF Undisturbed
    <3> QED BY <1>1, <1>5, <3>1, Kept
  <2>2. CASE d = c
    <3>1. call'[c] = NoCall /\ wire'[c] = Quiet /\ post'[c] = post[c]
      BY <1>2, <1>3
    <3>2. WireOK(c)'
      BY <3>1, NoneAssumption DEF WireOK, Quiet
    <3>3. PostOK(c)'
      <4>1. post[c].verdict \in {"none", "working"}
        BY <1>1 DEF CallInv, PostOK
      <4> QED BY <1>1, <1>3, <3>1, <4>1 DEF CallInv, PostOK, Quiet
    <3>4. CallOK(c)'
      BY <3>1 DEF CallOK, NoCall
    <3> QED BY <2>2, <3>2, <3>3, <3>4 DEF CallInv
  <2> QED BY <2>1, <2>2
<1>8. Apart'
  <2>1. \A d \in Calls : /\ wire'[d].cred \in {None, wire[d].cred}
                         /\ call'[d].stage = "probe" => /\ call[d].stage = "probe"
                                                        /\ wire'[d].offer = wire[d].offer
    BY <1>2, <1>3 DEF Quiet, NoCall
  <2>2. None \notin sent
    BY <1>1, NoneAssumption DEF TypeOK
  <2> QED BY <1>1, <1>3, <2>1, <2>2 DEF Apart
<1>9. ServedOnce' /\ ExposureBounded'
  BY <1>1, <1>3 DEF ServedOnce, ExposureBounded, Key
<1> QED BY <1>4, <1>6, <1>7, <1>8, <1>9 DEF IInv

LEMMA AbandonStep ==
    ASSUME IInv, NEW c \in Calls, Abandon(c)
    PROVE  IInv'
<1>1. /\ Ended(c) /\ Challenged(c) /\ known' = Registered(c)
      /\ UNCHANGED <<faults, openTx, receipts, sent, repeats>>
  BY DEF Abandon
<1>2. wire[c].step = "answered"
  BY <1>1 DEF IInv, CallInv, CallOK, Challenged
<1>3. channel' = channel
  BY <1>1 DEF Ended, ServerUnchanged
<1>4. NeverAhead' /\ known' \in [Users -> [Keys -> Amount \cup {None}]]
  BY <1>1, <1>3, RegisteredBehind DEF NeverAhead
<1>5. openTx' \subseteq Keys /\ receipts' \in Seq(Ids) /\ faults' \in 0 .. MaxFaults
  BY <1>1 DEF IInv, TypeOK, GatewayTypeOK
<1> QED BY <1>1, <1>2, <1>4, <1>5, Ending

\* What a client records of a receipted payment is what was granted.
LEMMA CapturedBehind ==
    ASSUME IInv, NEW c \in Calls, Answered(c), Receipted(c), UNCHANGED channel,
           NEW r, r = Captured(c)
    PROVE  /\ r \in [Users -> [Keys -> Amount \cup {None}]]
           /\ known' = r => NeverAhead'
           /\ Cred(c).id \in Ids
<1> DEFINE x == Cred(c)
<1>1. TypeOK /\ NeverAhead /\ CallInv(c)
  BY DEF IInv
<1>2. /\ x \in sent /\ wire[c].key \in Keys /\ call[c].user \in Users
      /\ x.action # "charge" => x.amount <= channel.mark
  BY <1>1 DEF CallInv, CallOK, WireOK, Answered, Receipted
<1>3. x \in Credential
  BY <1>1, <1>2 DEF TypeOK
<1>4. x.id \in Ids /\ x.amount \in Amount
  BY <1>3 DEF Credential, Amount
<1>5. known \in [Users -> [Keys -> Amount \cup {None}]]
  BY <1>1 DEF TypeOK
<1>6. r \in [Users -> [Keys -> Amount \cup {None}]]
  BY <1>2, <1>4, <1>5 DEF Captured
<1>7. ASSUME NEW u \in Users, NEW k \in Keys
      PROVE  \/ r[u][k] = known[u][k]
             \/ r[u][k] = None
             \/ r[u][k] = x.amount /\ x.action # "charge"
  BY <1>2, <1>4, <1>5 DEF Captured
<1>8. known' = r => NeverAhead'
  BY <1>1, <1>2, <1>7 DEF NeverAhead
<1> QED BY <1>4, <1>6, <1>8

LEMMA CaptureStep ==
    ASSUME IInv, NEW c \in Calls, TransportCapture(c)
    PROVE  IInv'
<1>1. /\ Ended(c) /\ Answered(c) /\ Receipted(c) /\ known' = Captured(c)
      /\ UNCHANGED <<faults, receipts, sent, repeats>> /\ openTx' \subseteq openTx
  BY DEF TransportCapture
<1>2. wire[c].step = "answered" /\ channel' = channel
  BY <1>1 DEF Answered, Ended, ServerUnchanged
<1>3. NeverAhead' /\ known' \in [Users -> [Keys -> Amount \cup {None}]]
  BY <1>1, <1>2, CapturedBehind
<1>4. openTx' \subseteq Keys /\ receipts' \in Seq(Ids) /\ faults' \in 0 .. MaxFaults
  BY <1>1 DEF IInv, TypeOK, GatewayTypeOK
<1> QED BY <1>1, <1>2, <1>3, <1>4, Ending

LEMMA RecordStep ==
    ASSUME IInv, NEW c \in Calls, PayerRecord(c)
    PROVE  IInv'
<1>1. /\ Ended(c) /\ Answered(c) /\ Receipted(c)
      /\ UNCHANGED <<openTx, sent, repeats>>
  BY DEF PayerRecord
<1>2. wire[c].step = "answered" /\ channel' = channel
  BY <1>1 DEF Answered, Ended, ServerUnchanged
<1>3. /\ TypeOK /\ NeverAhead /\ openTx \subseteq Keys /\ receipts \in Seq(Ids)
      /\ faults \in 0 .. MaxFaults /\ known \in [Users -> [Keys -> Amount \cup {None}]]
      /\ MaxFaults \in Nat
  BY GatewayAssumption DEF IInv, TypeOK, GatewayTypeOK
<1>4. faults' \in 0 .. MaxFaults
  BY <1>3 DEF PayerRecord, Fault
<1>5. CASE receipts' = Append(receipts, Cred(c).id) /\ known' = Captured(c)
  <2>1. NeverAhead' /\ known' \in [Users -> [Keys -> Amount \cup {None}]] /\ Cred(c).id \in Ids
    BY <1>1, <1>2, <1>5, CapturedBehind
  <2>2. receipts' \in Seq(Ids)
    BY <1>3, <1>5, <2>1
  <2> QED BY <1>1, <1>2, <1>3, <1>4, <2>1, <2>2, Ending
<1>6. CASE UNCHANGED <<receipts, known>>
  <2>1. NeverAhead'
    BY <1>2, <1>3, <1>6 DEF NeverAhead
  <2> QED BY <1>1, <1>2, <1>3, <1>4, <1>6, <2>1, Ending
<1> QED BY <1>5, <1>6 DEF PayerRecord

LEMMA NothingRecordedStep ==
    ASSUME IInv, NEW c \in Calls, Unpaid(c) \/ LoseAnswer(c)
    PROVE  IInv'
<1>1. /\ Ended(c) /\ Answered(c) /\ UNCHANGED <<known, openTx, receipts, sent, repeats>>
  BY DEF Unpaid, LoseAnswer
<1>2. wire[c].step = "answered" /\ channel' = channel
  BY <1>1 DEF Answered, Ended, ServerUnchanged
<1>3. /\ NeverAhead /\ openTx \subseteq Keys /\ receipts \in Seq(Ids)
      /\ faults \in 0 .. MaxFaults /\ known \in [Users -> [Keys -> Amount \cup {None}]]
      /\ MaxFaults \in Nat
  BY GatewayAssumption DEF IInv, TypeOK, GatewayTypeOK
<1>4. faults' \in 0 .. MaxFaults
  BY <1>3 DEF Unpaid, LoseAnswer, Fault
<1>5. NeverAhead'
  BY <1>1, <1>2, <1>3 DEF NeverAhead
<1> QED BY <1>1, <1>2, <1>3, <1>4, <1>5, Ending
\* A call begins, on what the client has recorded.
LEMMA Beginning ==
    ASSUME IInv, NEW c \in Calls, NEW k \in Keys, NEW u \in Users, NEW kind \in {"pay", "close"},
           NEW hint \in {None} \cup 0 .. channel.mark,
           NEW named \in {None} \cup 0 .. channel.mark,
           NEW state \in {None} \cup 0 .. channel.mark,
           Begin(c, u, kind, k, hint, named, state)
    PROVE  IInv'
<1> USE DEF Cred, Posted
<1> DEFINE i == Len(issued) + 1
           entry == [key |-> k, hint |-> IF Intent[k] = "session" THEN hint ELSE None]
           asked == [step |-> "answered", key |-> k, cred |-> None,
                     answer |-> "challenge", offer |-> i]
           begun == [stage |-> "probe", user |-> u, kind |-> kind,
                     named |-> named, state |-> state]
<1>1. /\ TypeOK /\ SentOK /\ CallInv(c) /\ Apart /\ ServedOnce /\ NeverAhead /\ ExposureBounded
      /\ \A d \in Calls : CallInv(d)
  BY DEF IInv
<1>2. /\ call \in [Calls -> CallState] /\ wire \in [Calls -> Request]
      /\ issued \in Seq(Challenge) /\ Len(issued) \in Nat /\ MaxChallenges \in Nat
      /\ channel.mark \in 0 .. Funding /\ Funding \in Nat
  BY <1>1, GatewayAssumption DEF TypeOK, GatewayTypeOK
<1>3. /\ Len(issued) < MaxChallenges /\ issued' = Append(issued, entry)
      /\ UNCHANGED <<channel, used, taken, owing, disowned, resumed, expired, post, ran, faults>>
      /\ UNCHANGED <<known, openTx, receipts, sent, repeats>>
      /\ call' = [call EXCEPT ![c] = begun]
      /\ post[c] = NoPost
  BY DEF Begin, SendChallenge, Free
<1>4. entry \in Challenge
  BY <1>2 DEF Challenge
<1>5. /\ issued' \in Seq(Challenge) /\ Len(issued') = i /\ issued'[i] = entry
      /\ \A j \in 1 .. Len(issued) : issued'[j] = issued[j]
  BY <1>2, <1>3, <1>4
<1>6. wire' = [wire EXCEPT ![c] = asked]
  BY <1>5 DEF Begin, SendChallenge
<1>7. TypeOK'
  <2>1. call' \in [Calls -> CallState]
    BY <1>2, <1>3 DEF CallState, Amount
  <2>2. wire' \in [Calls -> Request]
    BY <1>2, <1>3, <1>6 DEF Request, Ids
  <2> QED BY <1>1, <1>2, <1>3, <1>5, <2>1, <2>2 DEF TypeOK, GatewayTypeOK
<1>8. Forward
  BY <1>1, <1>2, <1>3, <1>5 DEF Forward, TypeOK, GatewayTypeOK
<1>9. \A x \in sent : x.id \in 1 .. Len(issued)
  BY <1>1, <1>2 DEF SentOK, TypeOK, Credential, Ids
<1>10. SentOK'
  <2>1. \A x \in sent : x.id <= Len(issued')
    BY <1>2, <1>5, <1>9
  <2>2. \A x \in sent : x.action = "open" => x.amount = Price[issued'[x.id].key]
    BY <1>1, <1>5, <1>9 DEF SentOK, Key
  <2> QED BY <1>1, <1>3, <2>1, <2>2 DEF SentOK, Key
<1>11. ASSUME NEW d \in Calls PROVE CallInv(d)'
  <2>1. CASE d # c
    <3>1. Undisturbed(d)
      BY <1>2, <1>3, <1>6, <2>1 DEF Undisturbed
    <3> QED BY <1>1, <1>8, <3>1, Kept
  <2>2. CASE d = c
    <3>1. call'[c] = begun /\ wire'[c] = asked /\ post'[c] = NoPost
      BY <1>2, <1>3, <1>6
    <3>2. WireOK(c)'
      BY <3>1, NoneAssumption DEF WireOK
    <3>3. PostOK(c)'
      BY <3>1 DEF PostOK, NoPost
    <3>4. CallOK(c)'
      <4>1. \A x \in sent' : x.id # i
        BY <1>2, <1>3, <1>9
      <4>2. i \in 1 .. Len(issued') /\ issued'[i].key = k
        BY <1>2, <1>5
      <4> QED BY <1>2, <1>3, <3>1, <4>1, <4>2 DEF CallOK, Key
    <3> QED BY <2>2, <3>2, <3>3, <3>4 DEF CallInv
  <2> QED BY <2>1, <2>2
<1>12. Apart'
  <2>1. \A d \in Calls : wire'[d].cred \in {None, wire[d].cred}
    BY <1>2, <1>6
  <2>2. None \notin sent
    BY <1>1, NoneAssumption DEF TypeOK
  <2>3. ASSUME NEW d \in Calls, NEW e \in Calls, d # e,
               call'[d].stage = "probe", call'[e].stage = "probe"
        PROVE  wire'[d].offer # wire'[e].offer
    <3>1. \A f \in Calls \ {c} : call'[f] = call[f] /\ wire'[f] = wire[f]
      BY <1>2, <1>3, <1>6
    <3>2. \A f \in Calls \ {c} : call[f].stage = "probe" => wire[f].offer \in 1 .. Len(issued)
      BY <1>1 DEF CallInv, CallOK
    <3>3. wire'[c].offer = i
      BY <1>2, <1>6
    <3>4. CASE d # c /\ e # c
      BY <1>1, <2>3, <3>1, <3>4 DEF Apart
    <3>5. CASE d = c
      BY <1>2, <2>3, <3>1, <3>2, <3>3, <3>5
    <3>6. CASE e = c
      BY <1>2, <2>3, <3>1, <3>2, <3>3, <3>6
    <3> QED BY <3>4, <3>5, <3>6
  <2>4. ASSUME NEW d \in Calls, NEW e \in Calls, d # e,
               NEW x \in {wire'[d].cred, post'[d].cred} \cap sent'
        PROVE  x \notin {wire'[e].cred, post'[e].cred}
    <3>1. x \in {wire[d].cred, post[d].cred} \cap sent /\ x # None
      BY <1>3, <2>1, <2>2
    <3>2. x \notin {wire[e].cred, post[e].cred}
      BY <1>1, <2>4, <3>1 DEF Apart
    <3> QED BY <1>3, <2>1, <3>1, <3>2
  <2> QED BY <2>3, <2>4 DEF Apart
<1>13. ServedOnce'
  <2>1. \A j \in taken : j \in 1 .. Len(issued)
    BY <1>1, <1>9 DEF SentOK
  <2> QED BY <1>1, <1>3, <1>5, <2>1 DEF ServedOnce, Key
<1> QED BY <1>1, <1>3, <1>7, <1>8, <1>10, <1>11, <1>12, <1>13, Behind DEF IInv

LEMMA BeginSteps ==
    ASSUME IInv, NEW c \in Calls, NEW k \in Keys,
           \/ "transport" \in Users /\ (TransportRequest(c, k) \/ TransportClose(c, k))
           \/ "payer" \in Users /\ (PayerPay(c, k) \/ PayerClose(c, k))
    PROVE  IInv'
<1>1. channel.mark \in Nat
  BY DEF IInv, TypeOK, GatewayTypeOK
<1>2. ASSUME NEW u \in Users PROVE known[u][k] \in {None} \cup 0 .. channel.mark
  <2>1. known[u][k] \in Amount \cup {None}
    BY DEF IInv, TypeOK
  <2> QED BY <1>1, <2>1 DEF IInv, NeverAhead, Amount
<1>3. CASE "transport" \in Users /\ (TransportRequest(c, k) \/ TransportClose(c, k))
  BY <1>2, <1>3, Beginning DEF TransportRequest, TransportClose
<1>4. CASE "payer" \in Users /\ PayerPay(c, k)
  <2>1. CallerHint(known["payer"][k]) \in {None} \cup 0 .. channel.mark
    BY <1>2, <1>4 DEF CallerHint
  <2>2. CallerHint(channel.mark) \in {None} \cup 0 .. channel.mark
    BY <1>1 DEF CallerHint
  <2>3. channel.mark \in {None} \cup 0 .. channel.mark
    BY <1>1
  <2> QED BY <1>4, <2>1, <2>2, <2>3, Beginning DEF PayerPay
<1>5. CASE "payer" \in Users /\ PayerClose(c, k)
  <2>1. CallerHint(known["payer"][k]) \in {None} \cup 0 .. channel.mark
    BY <1>2, <1>5 DEF CallerHint
  <2> QED BY <1>2, <1>5, <2>1, Beginning DEF PayerClose
<1> QED BY <1>3, <1>4, <1>5
\* A credential is presented, for the first time or again.
Presenting(c, k, x) ==
    /\ Present(c, k, x)
    /\ post[c] = NoPost
    /\ sent' = sent \cup {x}
    /\ UNCHANGED receipts
    /\ \A d \in Calls \ {c} : /\ x \notin {Cred(d), Posted(d)}
                              /\ call[d].stage = "probe" => wire[d].offer # x.id

LEMMA Presented ==
    ASSUME IInv, NEW c \in Calls, NEW k \in Keys, NEW x \in Credential, Presenting(c, k, x),
           NEW cl \in CallState, call' = [call EXCEPT ![c] = cl],
           cl.stage = "paying",
           cl.kind # "again" => cl.user \in Users,
           cl.kind = "pay" => x.action # "close" /\ x.id \notin used \cup disowned,
           cl.named # None => cl.named <= channel.mark,
           cl.state # None => cl.state <= channel.mark,
           x.id <= Len(issued),
           x.action = "open" => x.amount = Price[Key(x.id)],
           x.action # "charge" => x.amount <= channel.mark + Price[Key(x.id)],
           \A y \in sent : y.id = x.id => y = x,
           known' \in [Users -> [Keys -> Amount \cup {None}]], NeverAhead',
           openTx' = openTx, repeats' \in 0 .. MaxRepeats
    PROVE  IInv'
<1> USE DEF Cred, Posted
<1>1. /\ TypeOK /\ SentOK /\ Apart /\ ServedOnce /\ ExposureBounded
      /\ \A d \in Calls : CallInv(d)
  BY DEF IInv
<1>2. /\ call \in [Calls -> CallState] /\ wire \in [Calls -> Request] /\ post \in [Calls -> Post]
      /\ faults \in 0 .. MaxFaults /\ MaxFaults \in Nat /\ expired \subseteq Ids
      /\ None \notin sent' /\ sent' = sent \cup {x} /\ sent' \subseteq Credential
  BY <1>1, GatewayAssumption, NoneAssumption DEF TypeOK, GatewayTypeOK, Presenting
<1>3. x.id \in Ids
  BY DEF Credential
<1>4. UNCHANGED <<channel, used, taken, owing, disowned, resumed, issued, ran, receipts, openTx>>
  BY DEF Presenting, Present
<1>5. \/ /\ Key(x.id) = k
         /\ wire' = [wire EXCEPT ![c] = [step |-> "waiting", key |-> k, cred |-> x,
                                         answer |-> None, offer |-> None]]
         /\ post' = [post EXCEPT ![c] = [cred |-> x, verdict |-> "working"]]
      \/ /\ wire' = [wire EXCEPT ![c] = [step |-> "answered", key |-> k, cred |-> x,
                                         answer |-> "refused", offer |-> None]]
         /\ post' = post
  BY DEF Presenting, Present, ChallengeMatchesRequest
<1>6. expired' \subseteq Ids /\ faults' \in 0 .. MaxFaults
  BY <1>2, <1>3 DEF Presenting, Present, Fault
<1>7. TypeOK'
  <2>1. call' \in [Calls -> CallState]
    BY <1>2
  <2>2. wire' \in [Calls -> Request]
    BY <1>2, <1>5 DEF Request
  <2>3. post' \in [Calls -> Post]
    BY <1>2, <1>5 DEF Post
  <2> QED BY <1>1, <1>2, <1>4, <1>6, <2>1, <2>2, <2>3 DEF TypeOK, GatewayTypeOK
<1>8. Forward
  BY <1>1, <1>2, <1>4 DEF Forward, TypeOK, GatewayTypeOK
<1>9. SentOK'
  <2>1. \A y \in sent' : y.id <= Len(issued) /\ (y.action = "open" => y.amount = Price[Key(y.id)])
    BY <1>1, <1>2 DEF SentOK
  <2>2. \A y, z \in sent' : y.id = z.id => y = z
    BY <1>1, <1>2 DEF SentOK
  <2>3. \A y \in sent' : y.id \in disowned => y.action = "charge"
    BY <1>1, <1>2 DEF SentOK
  <2> QED BY <1>1, <1>2, <1>4, <2>1, <2>2, <2>3 DEF SentOK, Key
<1>10. ASSUME NEW d \in Calls PROVE CallInv(d)'
  <2>1. CASE d # c
    <3>1. Undisturbed(d)
      BY <1>2, <1>4, <1>5, <2>1 DEF Undisturbed, Presenting
    <3> QED BY <1>1, <1>8, <3>1, Kept
  <2>2. CASE d = c
    <3>1. /\ call'[c] = cl /\ wire'[c].cred = x /\ wire'[c].key = k
          /\ \/ /\ Key(x.id) = k
                /\ wire'[c].step = "waiting" /\ wire'[c].answer = None
                /\ post'[c] = [cred |-> x, verdict |-> "working"]
             \/ /\ wire'[c].step = "answered" /\ wire'[c].answer = "refused"
                /\ post'[c] = NoPost
      BY <1>2, <1>5 DEF Presenting
    <3>2. cl.kind = "pay" => x.id \notin taken \cup owing
      BY <1>1 DEF SentOK
    <3>3. WireOK(c)'
      BY <1>4, <3>1, <3>2, NoneAssumption DEF WireOK, Key
    <3>4. PostOK(c)'
      BY <1>2, <1>4, <3>1 DEF PostOK, NoPost
    <3>5. CallOK(c)'
      BY <1>2, <1>4, <3>1, NoneAssumption DEF CallOK
    <3> QED BY <2>2, <3>3, <3>4, <3>5 DEF CallInv
  <2> QED BY <2>1, <2>2
<1>11. Apart'
  <2>1. ASSUME NEW d \in Calls, NEW e \in Calls, d # e,
               NEW y \in {wire'[d].cred, post'[d].cred} \cap sent'
        PROVE  y \notin {wire'[e].cred, post'[e].cred}
    <3>1. \A f \in Calls \ {c} : wire'[f] = wire[f] /\ post'[f] = post[f]
      BY <1>2, <1>5
    <3>2. wire'[c].cred = x /\ post'[c].cred \in {x, None}
      BY <1>2, <1>5 DEF Presenting, NoPost
    <3>3. y # None
      BY <1>2
    <3>4. CASE d = c
      BY <2>1, <3>1, <3>2, <3>3, <3>4 DEF Presenting
    <3>5. CASE e = c
      BY <2>1, <3>1, <3>2, <3>3, <3>5 DEF Presenting
    <3>6. CASE d # c /\ e # c
      <4>1. y \in {wire[d].cred, post[d].cred} /\ y # x
        BY <3>1, <3>6 DEF Presenting
      <4>2. y \in sent
        BY <1>2, <4>1
      <4>3. y \notin {wire[e].cred, post[e].cred}
        BY <1>1, <2>1, <4>1, <4>2 DEF Apart
      <4> QED BY <3>1, <3>6, <4>3
    <3> QED BY <3>4, <3>5, <3>6
  <2>2. ASSUME NEW d \in Calls, NEW e \in Calls, d # e,
               call'[d].stage = "probe", call'[e].stage = "probe"
        PROVE  wire'[d].offer # wire'[e].offer
    <3>1. d # c /\ e # c
      BY <1>2, <2>2
    <3> QED BY <1>1, <1>2, <1>5, <2>2, <3>1 DEF Apart
  <2> QED BY <2>1, <2>2 DEF Apart
<1>12. ServedOnce' /\ ExposureBounded'
  <2>1. \A y \in sent' : y.action # "charge" => y.amount <= channel.mark + Price[Key(y.id)]
    BY <1>1, <1>2 DEF ExposureBounded
  <2> QED BY <1>1, <1>4, <2>1 DEF ServedOnce, ExposureBounded, Key
<1> QED BY <1>7, <1>9, <1>10, <1>11, <1>12 DEF IInv

\* What another call holds was signed before.
LEMMA HeldIsSent ==
    ASSUME IInv, NEW d \in Calls
    PROVE  {Cred(d), Posted(d)} \subseteq sent \cup {None}
<1>1. CallInv(d) /\ call[d].stage \in {"idle", "probe", "paying"}
  BY DEF IInv, TypeOK, CallState
<1> QED BY <1>1 DEF CallInv, CallOK, PostOK, Quiet, NoPost, Cred, Posted
LEMMA SignStep ==
    ASSUME IInv, NEW c \in Calls, Sign(c)
    PROVE  IInv'
<1> DEFINE i == wire[c].offer
           k == wire[c].key
           hint == issued[i].hint
           cl == [stage |-> "paying", user |-> call[c].user, kind |-> call[c].kind,
                  named |-> call[c].named, state |-> call[c].state]
<1>1. /\ TypeOK /\ SentOK /\ CallInv(c) /\ Apart /\ \A d \in Calls : CallInv(d)
  BY DEF IInv
<1>2. Challenged(c) /\ known' = Registered(c) /\ UNCHANGED <<openTx, receipts, repeats>>
  BY DEF Sign
<1>3. PICK x \in Credentials(c) : Present(c, k, x) /\ sent' = sent \cup {x}
  BY DEF Sign
<1>4. channel' = channel
  BY <1>3 DEF Present
<1>5. /\ Registered(c) \in [Users -> [Keys -> Amount \cup {None}]]
      /\ \A u \in Users, q \in Keys :
            Registered(c)[u][q] # None => Registered(c)[u][q] <= channel.mark
      /\ call[c].user \in Users /\ k \in Keys /\ i \in Ids /\ i \in 1 .. Len(issued)
      /\ issued[i] \in Challenge /\ Key(i) = k
  BY <1>2, <1>4, RegisteredBehind DEF Key
<1>6. /\ call[c].kind \in {"pay", "close"} /\ post[c] = NoPost
      /\ \A y \in sent : y.id # i
      /\ call[c].named # None => call[c].named <= channel.mark
      /\ call[c].state # None => call[c].state <= channel.mark
  BY <1>1, <1>2 DEF CallInv, CallOK, Challenged
<1>7. /\ x.id = i /\ x \in Credential
      /\ \/ x.action = "charge"
         \/ x.action = "open" /\ x.amount = Price[k]
         \/ /\ hint # None /\ MatchingState(c, hint)
            /\ x.action = IF call[c].kind = "close" THEN "close" ELSE "voucher"
            /\ x.amount = hint + Price[k]
  <2>1. x \in [action : {"voucher", "close", "open", "charge"}, id : {i}, amount : Amount]
    BY <1>3 DEF Credentials
  <2>2. x \in Credential /\ x.id = i
    BY <1>5, <2>1 DEF Credential, Amount
  <2> QED BY <1>3, <2>2 DEF Credentials, ChargeCredential, OpenCredential, ClaimCredential, Offered, Due
<1>8. x.action # "charge" => x.amount <= channel.mark + Price[k]
  <2>1. channel.mark \in Nat /\ Price[k] \in Nat /\ (hint # None => hint \in Nat)
    BY <1>1, <1>5, GatewayAssumption DEF TypeOK, GatewayTypeOK, Challenge
  <2>2. hint # None /\ MatchingState(c, hint) => hint <= channel.mark
    BY <1>5, <1>6 DEF MatchingState
  <2> QED BY <1>7, <2>1, <2>2
<1>9. call' = [call EXCEPT ![c] = cl] /\ cl \in CallState
  <2>1. call \in [Calls -> CallState]
    BY <1>1 DEF TypeOK
  <2>2. [call[c] EXCEPT !.stage = "paying"] = cl
    BY <2>1 DEF CallState
  <2>3. call' = [call EXCEPT ![c] = cl]
    BY <2>2 DEF Sign
  <2>4. cl \in CallState
    BY <2>1 DEF CallState
  <2> QED BY <2>3, <2>4
<1>10. x.id \notin used \cup disowned
  BY <1>1, <1>6, <1>7 DEF SentOK
<1>11. Presenting(c, k, x)
  <2>1. ASSUME NEW d \in Calls \ {c} PROVE x \notin {Cred(d), Posted(d)}
    BY <1>6, <1>7, HeldIsSent, NoneAssumption
  <2>2. \A d \in Calls \ {c} : call[d].stage = "probe" => wire[d].offer # x.id
    BY <1>1, <1>2, <1>7 DEF Apart, Challenged
  <2> QED BY <1>2, <1>3, <1>6, <2>1, <2>2 DEF Presenting
<1>12. NeverAhead' /\ known' \in [Users -> [Keys -> Amount \cup {None}]]
  BY <1>2, <1>4, <1>5 DEF NeverAhead
<1>13. x.id <= Len(issued) /\ (x.action = "open" => x.amount = Price[Key(x.id)])
  BY <1>5, <1>7
<1>14. repeats' \in 0 .. MaxRepeats
  BY <1>1, <1>2 DEF TypeOK
<1>15. cl.kind = "pay" => x.action # "close"
  BY <1>7
<1> QED BY <1>2, <1>5, <1>6, <1>7, <1>8, <1>9, <1>10, <1>11, <1>12, <1>13, <1>14, <1>15, Presented

LEMMA AgainStep ==
    ASSUME IInv, NEW c \in Calls, NEW k \in Keys, PresentAgain(c, k)
    PROVE  IInv'
<1> DEFINE cl == [stage |-> "paying", user |-> None, kind |-> "again",
                  named |-> None, state |-> None]
<1>1. TypeOK /\ SentOK /\ ExposureBounded /\ NeverAhead /\ CallInv(c)
      /\ \A d \in Calls : CallInv(d)
  BY DEF IInv
<1>2. PICK x \in sent : /\ \A d \in Calls : x \notin {wire[d].cred, post[d].cred}
                        /\ Present(c, k, x)
  BY DEF PresentAgain
<1>3. /\ UNCHANGED <<known, openTx, receipts, sent>> /\ post[c] = NoPost
      /\ repeats < MaxRepeats /\ repeats' = repeats + 1
  BY DEF PresentAgain, Free
<1>4. call' = [call EXCEPT ![c] = cl] /\ cl \in CallState
  <2>1. [NoCall EXCEPT !.stage = "paying"]
            = [stage |-> "paying", user |-> None, kind |-> None, named |-> None, state |-> None]
    BY DEF NoCall
  <2>2. [[stage |-> "paying", user |-> None, kind |-> None, named |-> None, state |-> None]
            EXCEPT !.kind = "again"] = cl
    OBVIOUS
  <2>3. call' = [call EXCEPT ![c] = cl]
    BY <2>1, <2>2, Zenon DEF PresentAgain
  <2>4. cl \in CallState
    BY DEF CallState
  <2> QED BY <2>3, <2>4
<1>5. x \in Credential /\ x.id <= Len(issued)
      /\ (x.action = "open" => x.amount = Price[Key(x.id)])
      /\ (\A y \in sent : y.id = x.id => y = x)
      /\ (x.action # "charge" => x.amount <= channel.mark + Price[Key(x.id)])
  BY <1>1 DEF TypeOK, SentOK, ExposureBounded
<1>6. channel' = channel
  BY <1>2 DEF Present
<1>7. Presenting(c, k, x)
  <2>1. \A d \in Calls \ {c} : call[d].stage = "probe" => wire[d].offer # x.id
    BY <1>1 DEF CallInv, CallOK
  <2> QED BY <1>2, <1>3, <2>1 DEF Presenting, Cred, Posted
<1>8. NeverAhead' /\ known' \in [Users -> [Keys -> Amount \cup {None}]]
  BY <1>1, <1>3, <1>6 DEF NeverAhead, TypeOK
<1>9. repeats' \in 0 .. MaxRepeats
  BY <1>1, <1>3, ClientAssumption DEF TypeOK
<1> QED BY <1>3, <1>4, <1>5, <1>7, <1>8, <1>9, Presented

LEMMA RegisterStep ==
    ASSUME IInv, NEW u \in Users, NEW k \in Keys, Register(u, k)
    PROVE  IInv'
<1> USE DEF Register
<1>1. /\ TypeOK /\ SentOK /\ Apart /\ ServedOnce /\ NeverAhead /\ ExposureBounded
      /\ \A d \in Calls : CallInv(d)
  BY DEF IInv
<1>2. PICK amount \in {0, channel.mark} : known' = [known EXCEPT ![u][k] = amount]
  OBVIOUS
<1>3. /\ channel.mark \in 0 .. Funding /\ Funding \in Nat /\ amount \in Amount
      /\ known \in [Users -> [Keys -> Amount \cup {None}]]
      /\ faults' \in 0 .. MaxFaults
  BY <1>1, <1>2, GatewayAssumption DEF TypeOK, GatewayTypeOK, Amount, Fault
<1>4. known' \in [Users -> [Keys -> Amount \cup {None}]]
  BY <1>2, <1>3
<1>5. /\ UNCHANGED <<channel, used, taken, owing, disowned, resumed, issued, expired, wire, post, ran>>
      /\ UNCHANGED <<call, openTx, receipts, sent, repeats>>
  OBVIOUS
<1>6. TypeOK'
  BY <1>1, <1>3, <1>4, <1>5 DEF TypeOK, GatewayTypeOK
<1>7. Forward
  BY <1>1, <1>5 DEF Forward, TypeOK, GatewayTypeOK
<1>8. ASSUME NEW d \in Calls PROVE CallInv(d)'
  BY <1>1, <1>5, <1>7, Kept DEF Undisturbed
<1>9. NeverAhead'
  <2> SUFFICES ASSUME NEW w \in Users, NEW q \in Keys, known'[w][q] # None
               PROVE  known'[w][q] <= channel.mark
    BY <1>5 DEF NeverAhead
  <2>1. known'[w][q] = known[w][q] \/ known'[w][q] = amount
    BY <1>2, <1>3
  <2> QED BY <1>1, <1>3, <2>1 DEF NeverAhead
<1>10. SentOK' /\ Apart' /\ ServedOnce' /\ ExposureBounded'
  BY <1>1, <1>5 DEF SentOK, Apart, ServedOnce, ExposureBounded, Cred, Posted, Key
<1> QED BY <1>6, <1>8, <1>9, <1>10 DEF IInv

\* Another registration of the signed create touches nothing else.
LEMMA RegisterOpenStep ==
    ASSUME IInv, NEW k \in Keys, RegisterOpen(k)
    PROVE  IInv'
<1>1. /\ TypeOK /\ SentOK /\ Apart /\ ServedOnce /\ NeverAhead /\ ExposureBounded
      /\ \A d \in Calls : CallInv(d)
  BY DEF IInv
<1>2. /\ UNCHANGED <<channel, used, taken, owing, disowned, resumed, issued, expired, wire, post, ran>>
      /\ UNCHANGED <<call, known, receipts, sent, repeats>>
      /\ openTx' = openTx \cup {k}
      /\ faults' \in 0 .. MaxFaults
  BY <1>1, GatewayAssumption DEF RegisterOpen, TypeOK, GatewayTypeOK, Fault
<1>3. TypeOK'
  BY <1>1, <1>2 DEF TypeOK, GatewayTypeOK
<1>4. Forward
  BY <1>1, <1>2 DEF Forward, TypeOK, GatewayTypeOK
<1>5. ASSUME NEW d \in Calls PROVE CallInv(d)'
  BY <1>1, <1>2, <1>4, Kept DEF Undisturbed
<1>6. SentOK' /\ Apart' /\ ServedOnce' /\ NeverAhead' /\ ExposureBounded'
  BY <1>1, <1>2 DEF SentOK, Apart, ServedOnce, NeverAhead, ExposureBounded, Cred, Posted, Key
<1> QED BY <1>3, <1>5, <1>6 DEF IInv

-----------------------------------------------------------------------------
(***************************************************************************)
(* The theorems.                                                           *)
(***************************************************************************)
LEMMA InitIInv == Init => IInv
<1> SUFFICES ASSUME Init PROVE IInv
  OBVIOUS
<1> USE DEF Init, GatewayInit
<1>1. /\ channel.life \in {"none", "open"} /\ channel.mark = 0
      /\ channel \in [life : {"none", "pending", "expired", "open", "final"}, mark : 0 .. Funding]
  BY GatewayAssumption
<1>2. TypeOK
  <2>1. Quiet \in Request /\ NoPost \in Post /\ NoCall \in CallState
    BY DEF Quiet, Request, NoPost, Post, NoCall, CallState
  <2>2. wire \in [Calls -> Request] /\ post \in [Calls -> Post] /\ call \in [Calls -> CallState]
    BY <2>1
  <2>3. known \in [Users -> [Keys -> Amount \cup {None}]]
    BY GatewayAssumption DEF Amount
  <2>4. ran \in [Ids -> [Keys -> Nat]] /\ issued \in Seq(Challenge) /\ Len(issued) = 0
        /\ receipts \in Seq(Ids)
    OBVIOUS
  <2> QED BY <1>1, <2>2, <2>3, <2>4, GatewayAssumption, ClientAssumption DEF TypeOK, GatewayTypeOK
<1>3. ASSUME NEW c \in Calls PROVE CallInv(c)
  <2>1. wire[c] = Quiet /\ post[c] = NoPost /\ call[c] = NoCall
    OBVIOUS
  <2>2. WireOK(c)
    BY <2>1, NoneAssumption DEF WireOK, Quiet
  <2>3. PostOK(c)
    BY <2>1 DEF PostOK, NoPost, Quiet
  <2>4. CallOK(c)
    BY <2>1 DEF CallOK, NoCall
  <2> QED BY <2>2, <2>3, <2>4 DEF CallInv
<1>4. SentOK /\ Apart /\ ExposureBounded
  BY DEF SentOK, Apart, ExposureBounded, NoCall
<1>5. ServedOnce
  BY DEF ServedOnce
<1>6. NeverAhead
  BY <1>1 DEF NeverAhead
<1> QED BY <1>2, <1>3, <1>4, <1>5, <1>6 DEF IInv

LEMMA StepIInv == IInv /\ [Next]_vars => IInv'
<1> SUFFICES ASSUME IInv, [Next]_vars PROVE IInv'
  OBVIOUS
<1>1. CASE ServerNext /\ UNCHANGED clientVars
  <2>1. ASSUME NEW c \in Calls, Gateway(c) \/ Facilitator(c) PROVE IInv'
    BY <1>1, <2>1, HearStep, StopStep, ChargeStep, OpenStep, VoucherStep, CloseStep, FailStep
       DEF Gateway, Facilitator
  <2>2. ASSUME NEW i \in Ids, LedgerSettles(i) PROVE IInv'
    BY <1>1, <2>2, SettleStep
  <2>3. CASE LedgerOpens
    BY <1>1, <2>3, OpensStep
  <2> QED BY <1>1, <2>1, <2>2, <2>3 DEF ServerNext
<1>2. ASSUME NEW c \in Calls, Client(c) PROVE IInv'
  BY <1>2, SignStep, AbandonStep, CaptureStep, RecordStep, NothingRecordedStep DEF Client
<1>3. ASSUME NEW c \in Calls, NEW k \in Keys, Caller(c, k) PROVE IInv'
  BY <1>3, BeginSteps, AgainStep DEF Caller
<1>4. ASSUME NEW u \in Users, NEW k \in Keys, Register(u, k) PROVE IInv'
  BY <1>4, RegisterStep
<1>5. ASSUME NEW k \in Keys, RegisterOpen(k) PROVE IInv'
  BY <1>5, RegisterOpenStep
<1>6. CASE UNCHANGED vars
  <2>1. /\ UNCHANGED <<channel, used, taken, owing, disowned, resumed, issued, expired, wire, post, ran, faults>>
        /\ UNCHANGED <<call, known, openTx, receipts, sent, repeats>>
    BY <1>6 DEF vars, gatewayVars, clientVars
  <2>2. TypeOK' /\ SentOK' /\ Apart' /\ ServedOnce' /\ NeverAhead' /\ ExposureBounded'
    BY <2>1 DEF IInv, TypeOK, GatewayTypeOK, SentOK, Apart, ServedOnce, NeverAhead,
                ExposureBounded, Cred, Posted, Key
  <2>3. ASSUME NEW c \in Calls PROVE CallInv(c)'
    BY <2>1 DEF IInv, CallInv, WireOK, PostOK, CallOK, Cred, Posted, Key
  <2> QED BY <2>2, <2>3 DEF IInv
<1> QED BY <1>1, <1>2, <1>3, <1>4, <1>5, <1>6 DEF Next

\* Every reachable state satisfies the inductive invariant.
THEOREM Invariance == Spec => []IInv
<1> QED BY InitIInv, StepIInv, PTL DEF Spec

\* The state of clients, gateway and facilitator is well formed; the mark
\* never exceeds what the channel holds (paychannel_service.py:840).
THEOREM TypesKept == Spec => []TypeOK
<1>1. IInv => TypeOK
  BY DEF IInv
<1> QED BY <1>1, Invariance, PTL

\* However often and wherever a credential is presented, the application runs
\* at most once for it, for a payment taken, on its route (middleware.py:461).
THEOREM Served == Spec => []ServedOnce
<1>1. IInv => ServedOnce
  BY DEF IInv
<1> QED BY <1>1, Invariance, PTL

\* A first presentation is answered 402 only when nothing was taken and nothing
\* will be, or when the facilitator itself gave the submitted charge up or was
\* paid another amount, never because the outcome is unknown (client.py:219).
THEOREM RefusedDecided == Spec => []RefusedIsDecided
<1>1. IInv => RefusedIsDecided
  BY DEF IInv, CallInv, WireOK, RefusedIsDecided
<1> QED BY <1>1, Invariance, PTL

\* No client runs ahead of the facilitator's high-water mark (httpx.py:311).
THEOREM ClientsBehind == Spec => []NeverAhead
<1>1. IInv => NeverAhead
  BY DEF IInv
<1> QED BY <1>1, Invariance, PTL

-----------------------------------------------------------------------------
(***************************************************************************)
(* Sums over finite sets. The sum of the community modules chooses the      *)
(* element it takes next; that the choice does not matter is proved from a  *)
(* smallest set that would be a counterexample.                             *)
(***************************************************************************)

\* g is the table of partial sums of f over the subsets of D.
IsTotal(g, f, D) ==
    g = [s \in SUBSET D |-> IF s = {} THEN 0
                            ELSE LET x == CHOOSE x \in s : TRUE IN f[x] + g[s \ {x}]]

\* Among sets of subsets of a finite set there is a smallest one.
LEMMA SmallestSet ==
    ASSUME NEW D, IsFiniteSet(D), NEW T \in SUBSET SUBSET D, T # {}
    PROVE  \E U \in T : \A V \in T : V \subseteq U => V = U
<1>1. IsWellFoundedOn(StrictSubsetOrdering(D), SUBSET D)
  BY FS_StrictSubsetOrderingWellFounded, FS_FiniteSubsetsOfFinite, Zenon
<1>2. PICK U \in T : \A V \in T : <<V, U>> \notin StrictSubsetOrdering(D)
  BY <1>1, WFMin, Zenon
<1>3. ASSUME NEW V \in T, V \subseteq U
      PROVE  V = U
  <2>1. V \in SUBSET D /\ U \in SUBSET D
    OBVIOUS
  <2> QED BY <1>2, <1>3, <2>1 DEF StrictSubsetOrdering
<1> QED BY <1>3

\* Two tables agree on a set where the summands agree.
LEMMA TotalAgrees ==
    ASSUME NEW f, NEW g, NEW D, IsTotal(g, f, D),
           NEW e, NEW h, NEW E, IsTotal(h, e, E),
           NEW S \in SUBSET (D \cap E), IsFiniteSet(S), \A x \in S : f[x] = e[x]
    PROVE  g[S] = h[S]
<1> DEFINE T == {U \in SUBSET S : g[U] # h[U]}
<1>1. SUFFICES ASSUME T # {} PROVE FALSE
  OBVIOUS
<1>2. PICK U \in T : \A V \in T : V \subseteq U => V = U
  <2>1. T \in SUBSET SUBSET S
    OBVIOUS
  <2> HIDE DEF T
  <2> QED BY <1>1, <2>1, SmallestSet
<1> DEFINE x == CHOOSE x \in U : TRUE
<1>3. /\ g[U] = IF U = {} THEN 0 ELSE f[x] + g[U \ {x}]
      /\ h[U] = IF U = {} THEN 0 ELSE e[x] + h[U \ {x}]
  BY DEF IsTotal
<1>4. U # {}
  BY <1>3
<1>5. x \in U
  BY <1>4
<1>6. g[U \ {x}] = h[U \ {x}]
  BY <1>2, <1>5
<1> QED BY <1>3, <1>4, <1>5, <1>6

\* Every finite set has its table.
LEMMA TotalExists ==
    ASSUME NEW f, NEW D, IsFiniteSet(D)
    PROVE  \E g : IsTotal(g, f, D)
<1> DEFINE T == {U \in SUBSET D : ~ \E g : IsTotal(g, f, U)}
           G(U) == CHOOSE g : IsTotal(g, f, U)
<1>1. SUFFICES ASSUME T # {} PROVE FALSE
  OBVIOUS
<1>2. PICK U \in T : \A V \in T : V \subseteq U => V = U
  <2>1. T \in SUBSET SUBSET D
    OBVIOUS
  <2> HIDE DEF T
  <2> QED BY <1>1, <2>1, SmallestSet
<1>3. \A V \in SUBSET U : V # U => IsTotal(G(V), f, V)
  BY <1>2
<1> DEFINE g == [s \in SUBSET U |-> IF s = {} THEN 0
                  ELSE LET x == CHOOSE x \in s : TRUE IN f[x] + G(s \ {x})[s \ {x}]]
<1>4. ASSUME NEW s \in SUBSET U, s # U
      PROVE  g[s] = G(s)[s]
  <2>1. CASE s = {}
    <3>1. IsTotal(G(s), f, s)
      BY <1>3, <1>4
    <3> HIDE DEF G
    <3>2. G(s)[s] = 0
      BY <3>1, <2>1 DEF IsTotal
    <3> QED BY <2>1, <3>2
  <2>2. CASE s # {}
    <3> DEFINE x == CHOOSE x \in s : TRUE
               t == s \ {x}
    <3>1. x \in s /\ t \in SUBSET s /\ t # s
      BY <2>2
    <3>2. IsTotal(G(s), f, s) /\ IsTotal(G(t), f, t)
      BY <1>3, <1>4, <3>1
    <3>3. IsFiniteSet(t)
      BY FS_Subset
    <3> HIDE DEF G, x, t
    <3>4. G(s)[t] = G(t)[t]
      BY <3>1, <3>2, <3>3, TotalAgrees, t \in SUBSET (s \cap t)
    <3>5. G(s)[s] = f[x] + G(s)[t]
      BY <2>2, <3>2 DEF IsTotal, x, t
    <3>6. g[s] = f[x] + G(t)[t]
      BY <2>2 DEF x, t
    <3> QED BY <3>4, <3>5, <3>6
  <2> QED BY <2>1, <2>2
<1>5. ASSUME NEW s \in SUBSET U
      PROVE  g[s] = IF s = {} THEN 0 ELSE LET x == CHOOSE x \in s : TRUE IN f[x] + g[s \ {x}]
  <2>1. CASE s = {}
    BY <2>1
  <2>2. CASE s # {}
    <3> DEFINE x == CHOOSE x \in s : TRUE
               t == s \ {x}
    <3>1. x \in s /\ t \in SUBSET U /\ t # U
      BY <2>2
    <3> HIDE DEF G
    <3>2. g[t] = G(t)[t]
      <4> HIDE DEF g, t
      <4> QED BY <1>4, <3>1
    <3>3. g[s] = f[x] + G(t)[t]
      BY <2>2
    <3> QED BY <2>2, <3>2, <3>3
  <2> QED BY <2>1, <2>2
<1>6. IsTotal(g, f, U)
  <2> DEFINE k == [s \in SUBSET U |-> IF s = {} THEN 0
                  ELSE LET x == CHOOSE x \in s : TRUE IN f[x] + g[s \ {x}]]
  <2>1. \A s \in SUBSET U : g[s] = k[s]
    <3> HIDE DEF g
    <3> QED BY <1>5
  <2>2. g = k
    BY <2>1
  <2> HIDE DEF g
  <2> QED BY <2>2 DEF IsTotal
<1> QED BY <1>2, <1>6

\* The sum is the last entry of the table.
LEMMA SumTotal ==
    ASSUME NEW f, NEW D, IsFiniteSet(D)
    PROVE  \E g : IsTotal(g, f, D) /\ SumFunctionOnSet(f, D) = g[D]
<1>1. SumFunctionOnSet(f, D) = (CHOOSE g : IsTotal(g, f, D))[D]
  BY DEF SumFunctionOnSet, FoldFunctionOnSet, MapThenFoldSet, IsTotal
<1> QED BY <1>1, TotalExists

\* A sum depends on nothing but its summands.
LEMMA SumExtensional ==
    ASSUME NEW f, NEW e, NEW S, IsFiniteSet(S), \A x \in S : f[x] = e[x]
    PROVE  SumFunctionOnSet(f, S) = SumFunctionOnSet(e, S)
<1>1. PICK g : IsTotal(g, f, S) /\ SumFunctionOnSet(f, S) = g[S]
  BY SumTotal
<1>2. PICK h : IsTotal(h, e, S) /\ SumFunctionOnSet(e, S) = h[S]
  BY SumTotal
<1> QED BY <1>1, <1>2, TotalAgrees

\* The sum over nothing.
LEMMA SumEmpty ==
    ASSUME NEW f
    PROVE  SumFunctionOnSet(f, {}) = 0
<1>1. IsFiniteSet({})
  BY FS_EmptySet
<1>2. PICK g : IsTotal(g, f, {}) /\ SumFunctionOnSet(f, {}) = g[{}]
  BY <1>1, SumTotal
<1>3. g[{}] = 0
  BY <1>2, {} \in SUBSET {} DEF IsTotal
<1> QED BY <1>2, <1>3

\* Some element can be taken out of the sum.
LEMMA SumChosen ==
    ASSUME NEW f, NEW S, IsFiniteSet(S), S # {}
    PROVE  \E x \in S : SumFunctionOnSet(f, S) = f[x] + SumFunctionOnSet(f, S \ {x})
<1> DEFINE x == CHOOSE x \in S : TRUE
           t == S \ {x}
<1>1. PICK g : IsTotal(g, f, S) /\ SumFunctionOnSet(f, S) = g[S]
  BY SumTotal
<1>2. IsFiniteSet(t)
  BY FS_Subset
<1>3. PICK h : IsTotal(h, f, t) /\ SumFunctionOnSet(f, t) = h[t]
  BY <1>2, SumTotal
<1>4. g[t] = h[t]
  <2> HIDE DEF t
  <2> QED BY <1>1, <1>2, <1>3, TotalAgrees, t \in SUBSET (S \cap t) DEF t
<1>5. g[S] = f[x] + g[t]
  BY <1>1 DEF IsTotal
<1> QED BY <1>1, <1>3, <1>4, <1>5

\* A sum of naturals is one.
LEMMA SumNatural ==
    ASSUME NEW f, NEW S, IsFiniteSet(S), \A x \in S : f[x] \in Nat
    PROVE  SumFunctionOnSet(f, S) \in Nat
<1> DEFINE Sum(U) == SumFunctionOnSet(f, U)
           T == {U \in SUBSET S : Sum(U) \notin Nat}
<1>1. SUFFICES ASSUME T # {} PROVE FALSE
  OBVIOUS
<1>2. PICK U \in T : \A V \in T : V \subseteq U => V = U
  <2>1. T \in SUBSET SUBSET S
    OBVIOUS
  <2> HIDE DEF T
  <2> QED BY <1>1, <2>1, SmallestSet
<1>3. U # {}
  BY SumEmpty
<1>4. PICK x \in U : Sum(U) = f[x] + Sum(U \ {x})
  BY <1>3, SumChosen, FS_Subset
<1>5. Sum(U \ {x}) \in Nat
  BY <1>2
<1> HIDE DEF Sum
<1> QED BY <1>4, <1>5

\* Any element can be taken out of the sum.
LEMMA SumRemoved ==
    ASSUME NEW f, NEW S, IsFiniteSet(S), \A x \in S : f[x] \in Nat, NEW z \in S
    PROVE  SumFunctionOnSet(f, S) = f[z] + SumFunctionOnSet(f, S \ {z})
<1> DEFINE Sum(U) == SumFunctionOnSet(f, U)
           T == {U \in SUBSET S : \E x \in U : Sum(U) # f[x] + Sum(U \ {x})}
<1>1. SUFFICES ASSUME T # {} PROVE FALSE
  OBVIOUS
<1>2. PICK U \in T : \A V \in T : V \subseteq U => V = U
  <2>1. T \in SUBSET SUBSET S
    OBVIOUS
  <2> HIDE DEF T
  <2> QED BY <1>1, <2>1, SmallestSet
<1>3. \A V \in SUBSET S : IsFiniteSet(V) /\ Sum(V) \in Nat
  BY FS_Subset, SumNatural
<1>4. PICK x \in U : Sum(U) # f[x] + Sum(U \ {x})
  BY <1>2
<1>5. PICK y \in U : Sum(U) = f[y] + Sum(U \ {y})
  BY <1>2, <1>3, SumChosen
<1> HIDE DEF Sum
<1>6. y # x
  BY <1>4, <1>5
<1>7. Sum(U \ {y}) = f[x] + Sum((U \ {y}) \ {x})
  BY <1>2, <1>5, <1>6
<1>8. Sum(U \ {x}) = f[y] + Sum((U \ {x}) \ {y})
  BY <1>2, <1>5, <1>6
<1>9. (U \ {y}) \ {x} = (U \ {x}) \ {y}
  OBVIOUS
<1>10. Sum((U \ {x}) \ {y}) \in Nat /\ f[x] \in Nat /\ f[y] \in Nat
  BY <1>3
<1> QED BY <1>4, <1>5, <1>7, <1>8, <1>9, <1>10

\* An element added is counted once.
LEMMA SumAdded ==
    ASSUME NEW f, NEW S, IsFiniteSet(S), NEW z, z \notin S, \A x \in S \cup {z} : f[x] \in Nat
    PROVE  SumFunctionOnSet(f, S \cup {z}) = SumFunctionOnSet(f, S) + f[z]
<1> DEFINE U == S \cup {z}
<1>1. IsFiniteSet(U) /\ z \in U /\ U \ {z} = S
  BY FS_AddElement
<1>2. SumFunctionOnSet(f, U) = f[z] + SumFunctionOnSet(f, U \ {z})
  <2> HIDE DEF U
  <2> QED BY <1>1, SumRemoved DEF U
<1>3. SumFunctionOnSet(f, S) \in Nat /\ f[z] \in Nat
  BY SumNatural
<1>4. SumFunctionOnSet(f, U) = f[z] + SumFunctionOnSet(f, S)
  BY <1>1, <1>2, Zenon
<1> QED BY <1>3, <1>4

\* h names the elements of J by those of S, one each; e counts under a name
\* what f counts.
Renames(h, S, f, J, e) ==
    /\ \A x, y \in S : h[x] = h[y] => x = y
    /\ \A x \in S : h[x] \in J /\ f[x] \in Nat /\ e[h[x]] = f[x]
    /\ \A y \in J : \E x \in S : h[x] = y

\* Counting under other names gives the same sum.
LEMMA SumReindexed ==
    ASSUME NEW S, IsFiniteSet(S), NEW h, NEW f, NEW J, NEW e, Renames(h, S, f, J, e)
    PROVE  SumFunctionOnSet(f, S) = SumFunctionOnSet(e, J)
<1> USE DEF Renames
<1> DEFINE Sum(U) == SumFunctionOnSet(f, U)
           Image(U) == {h[x] : x \in U}
           Other(U) == SumFunctionOnSet(e, Image(U))
           T == {U \in SUBSET S : Sum(U) # Other(U)}
<1>1. J = Image(S)
  OBVIOUS
<1>2. SUFFICES ASSUME T # {} PROVE FALSE
  BY <1>1
<1>3. PICK U \in T : \A V \in T : V \subseteq U => V = U
  <2>1. T \in SUBSET SUBSET S
    OBVIOUS
  <2> HIDE DEF T
  <2> QED BY <1>2, <2>1, SmallestSet
<1>4. U # {}
  <2>1. Image({}) = {}
    OBVIOUS
  <2> QED BY <2>1, SumEmpty
<1>5. PICK x \in U : TRUE
  BY <1>4
<1> DEFINE V == U \ {x}
<1>6. V \in SUBSET S /\ x \notin V /\ U = V \cup {x} /\ V # U
  OBVIOUS
<1>7. Sum(V) = Other(V)
  BY <1>3, <1>6
<1>8. IsFiniteSet(V) /\ IsFiniteSet(Image(V))
  <2>1. IsFiniteSet(V)
    BY <1>6, FS_Subset
  <2>2. [y \in V |-> h[y]] \in Surjection(V, Image(V))
    BY DEF Surjection
  <2> HIDE DEF V, Image
  <2> QED BY <2>1, <2>2, FS_Surjection
<1>9. Sum(U) = Sum(V) + f[x]
  <2> HIDE DEF V
  <2> QED BY <1>6, <1>8, SumAdded
<1>10. Other(U) = Other(V) + e[h[x]]
  <2>1. Image(U) = Image(V) \cup {h[x]}
    BY <1>6
  <2>2. h[x] \notin Image(V)
    BY <1>6
  <2>3. \A y \in Image(V) \cup {h[x]} : e[y] \in Nat
    BY <1>6
  <2> DEFINE I == Image(V)
  <2>4. IsFiniteSet(I) /\ h[x] \notin I /\ (\A y \in I \cup {h[x]} : e[y] \in Nat)
    BY <1>8, <2>2, <2>3
  <2> HIDE DEF I
  <2>5. SumFunctionOnSet(e, I \cup {h[x]}) = SumFunctionOnSet(e, I) + e[h[x]]
    BY <2>4, SumAdded
  <2> QED BY <2>1, <2>5 DEF I
<1> QED BY <1>7, <1>9, <1>10

-----------------------------------------------------------------------------
(***************************************************************************)
(* What the grants add up to. The mark moves with a metered payment only    *)
(* and by the price of its route: up by at least that for the guard of the  *)
(* facilitator, by at most that for what the clients have signed.           *)
(***************************************************************************)

\* Charges are signed and owed for charge routes only, metered actions for
\* metered routes only.
MeteredOK ==
    /\ \A x \in sent : x.action = "charge" <=> Intent[Key(x.id)] = "charge"
    /\ \A i \in owing : Intent[Key(i)] = "charge"

\* The metered challenges among those whose payment was taken.
Sessions == {i \in taken : Intent[Key(i)] = "session"}

\* Nothing costs nothing.
LEMMA PriceEmpty == PriceOf({}) = 0
<1>1. DOMAIN [i \in {} |-> Price[Key(i)]] = {}
  OBVIOUS
<1> QED BY <1>1, SumEmpty DEF PriceOf, SumFunction

\* One more challenge costs its price more.
LEMMA PriceAdded ==
    ASSUME NEW S, IsFiniteSet(S), NEW z, z \notin S, \A i \in S \cup {z} : Price[Key(i)] \in Nat
    PROVE  PriceOf(S \cup {z}) = PriceOf(S) + Price[Key(z)]
<1> DEFINE U == S \cup {z}
           f == [i \in U |-> Price[Key(i)]]
           g == [i \in S |-> Price[Key(i)]]
<1>1. DOMAIN f = U /\ DOMAIN g = S /\ (\A i \in U : f[i] = Price[Key(i)])
      /\ (\A i \in S : g[i] = f[i])
  OBVIOUS
<1>2. PriceOf(U) = SumFunctionOnSet(f, U) /\ PriceOf(S) = SumFunctionOnSet(g, S)
  BY <1>1 DEF PriceOf, SumFunction
<1> HIDE DEF f, g
<1>3. SumFunctionOnSet(f, U) = SumFunctionOnSet(f, S) + f[z]
  BY <1>1, SumAdded
<1>4. SumFunctionOnSet(g, S) = SumFunctionOnSet(f, S)
  BY <1>1, SumExtensional
<1> QED BY <1>1, <1>2, <1>3, <1>4

\* A challenge keeps its route.
LEMMA IssuedKept ==
    ASSUME IInv, [Next]_vars
    PROVE  /\ issued \in Seq(Challenge) /\ Len(issued) \in Nat
           /\ Len(issued) <= Len(issued')
           /\ \A i \in 1 .. Len(issued) : issued'[i] = issued[i] /\ Key(i)' = Key(i)
           /\ \A i \in 1 .. Len(issued) : Key(i) \in Keys
<1>1. issued \in Seq(Challenge) /\ Len(issued) \in Nat
  BY DEF IInv, TypeOK, GatewayTypeOK
<1>2. issued' = issued \/ \E x : issued' = Append(issued, x)
  <2>1. CASE UNCHANGED vars
    BY <2>1 DEF vars, gatewayVars
  <2>2. CASE ServerNext
    BY <2>2 DEF ServerNext, Gateway, Facilitator, HearVerdict, StopWaiting, DecideCharge, DecideOpen,
                DecideVoucher, DecideClose, RefuseProof, FacilitatorFails, LedgerSettles, LedgerOpens
  <2>3. ASSUME NEW c \in Calls, Client(c) PROVE issued' = issued
    BY <2>3 DEF Client, Sign, Present, Abandon, TransportCapture, PayerRecord, Unpaid, LoseAnswer, Ended,
                ServerUnchanged
  <2>4. ASSUME NEW c \in Calls, NEW k \in Keys, Caller(c, k)
        PROVE  issued' = issued \/ \E x : issued' = Append(issued, x)
    <3>1. CASE PresentAgain(c, k)
      BY <3>1 DEF PresentAgain, Present
    <3>2. ASSUME NEW u, NEW kind, NEW hint, NEW named, NEW state, Begin(c, u, kind, k, hint, named, state)
          PROVE  \E x : issued' = Append(issued, x)
      BY <3>2 DEF Begin, SendChallenge
    <3> QED BY <2>4, <3>1, <3>2 DEF Caller, TransportRequest, TransportClose, PayerPay, PayerClose
  <2>5. ASSUME NEW u \in Users, NEW k \in Keys, Register(u, k) \/ RegisterOpen(k)
        PROVE  issued' = issued
    BY <2>5 DEF Register, RegisterOpen
  <2>6. ASSUME NEW k \in Keys, RegisterOpen(k)
        PROVE  issued' = issued
    BY <2>6 DEF RegisterOpen
  <2> QED BY <2>1, <2>2, <2>3, <2>4, <2>5, <2>6 DEF Next
<1>3. /\ Len(issued) <= Len(issued')
      /\ \A i \in 1 .. Len(issued) : issued'[i] = issued[i]
  BY <1>1, <1>2
<1>4. ASSUME NEW i \in 1 .. Len(issued) PROVE Key(i) \in Keys
  <2>1. issued[i] \in Challenge
    BY <1>1
  <2> QED BY <2>1 DEF Challenge, Key
<1> QED BY <1>1, <1>3, <1>4 DEF Key

\* A step takes the metered payment x.
Takes(x) ==
    /\ x.id \notin used /\ x.action # "charge"
    /\ taken' = taken \cup {x.id}
    /\ channel'.mark = x.amount
    /\ channel.mark + Price[Key(x.id)] <= x.amount

\* A step takes one metered payment and moves the mark to its amount, or it
\* takes charges and leaves the mark alone.
LEMMA Accounting ==
    ASSUME IInv, MeteredOK, [Next]_vars
    PROVE  /\ \/ /\ channel'.mark = channel.mark
                 /\ taken \subseteq taken'
                 /\ \A i \in taken' \ taken : i \in 1 .. Len(issued) /\ Intent[Key(i)] = "charge"
              \/ \E x \in sent : Takes(x)
           /\ \A i \in owing' \ owing : i \in 1 .. Len(issued) /\ Intent[Key(i)] = "charge"
           /\ \A x \in sent' \ sent : /\ x.id \in 1 .. Len(issued)
                                      /\ x.action = "charge" <=> Intent[Key(x.id)] = "charge"
<1> DEFINE Idle == UNCHANGED <<channel, taken, owing, sent>>
<1>1. /\ \A x \in sent : x.id \in Ids /\ x.id \in 1 .. Len(issued)
      /\ \A i \in owing \cup taken \cup used \cup disowned : i \in 1 .. Len(issued)
  BY DEF IInv, TypeOK, SentOK, Credential, Ids
<1>2. ASSUME NEW c \in Calls, DecideCharge(c), sent' = sent
      PROVE  /\ channel' = channel /\ taken \subseteq taken'
             /\ \A i \in (taken' \ taken) \cup (owing' \ owing) :
                    i \in 1 .. Len(issued) /\ Intent[Key(i)] = "charge"
  <2>1. Posted(c).id \in 1 .. Len(issued) /\ Intent[Key(Posted(c).id)] = "charge"
    BY <1>2, <1>1, PostedFacts DEF DecideCharge, MeteredOK
  <2> QED BY <1>2, <2>1 DEF DecideCharge, SubmitCharge
<1>3. ASSUME NEW i \in Ids, LedgerSettles(i), sent' = sent
      PROVE  /\ channel' = channel /\ taken \subseteq taken' /\ owing' \subseteq owing
             /\ \A j \in taken' \ taken : j \in 1 .. Len(issued) /\ Intent[Key(j)] = "charge"
  BY <1>1, <1>3 DEF LedgerSettles, MeteredOK
<1>4. ASSUME NEW c \in Calls, DecideOpen(c) \/ DecideVoucher(c) \/ DecideClose(c), sent' = sent
      PROVE  /\ \/ channel'.mark = channel.mark /\ taken' = taken
                \/ \E x \in sent : Takes(x)
             /\ owing' = owing
  <2>1. Posted(c) \in sent /\ Posted(c).amount \in Nat
        /\ channel \in [life : {"none", "pending", "expired", "open", "final"}, mark : 0 .. Funding]
    BY <1>4, PostedFacts DEF DecideOpen, DecideVoucher, DecideClose
  <2>2. CASE DecideOpen(c)
    BY <2>1, <2>2 DEF DecideOpen, Takes, Covers, Unused
  <2>3. CASE DecideVoucher(c)
    BY <2>1, <2>3 DEF DecideVoucher, Takes, Covers, Examined, Unused
  <2>4. CASE DecideClose(c)
    BY <2>1, <2>4 DEF DecideClose, Takes, Covers, Examined, Unused
  <2> QED BY <1>4, <2>2, <2>3, <2>4
<1>5. CASE LedgerOpens /\ sent' = sent
  <2>1. channel \in [life : {"none", "pending", "expired", "open", "final"}, mark : 0 .. Funding]
    BY DEF IInv, TypeOK, GatewayTypeOK
  <2> QED BY <1>5, <2>1 DEF LedgerOpens
<1>6. ASSUME NEW c \in Calls,
             Gateway(c) \/ RefuseProof(c) \/ FacilitatorFails(c), sent' = sent
      PROVE  Idle
  BY <1>6 DEF Gateway, HearVerdict, StopWaiting, RefuseProof, FacilitatorFails
<1>7. ASSUME NEW c \in Calls, Sign(c)
      PROVE  /\ UNCHANGED <<channel, taken, owing>>
             /\ \A x \in sent' \ sent : /\ x.id \in 1 .. Len(issued)
                                        /\ x.action = "charge" <=> Intent[Key(x.id)] = "charge"
  <2>1. /\ wire[c].offer \in 1 .. Len(issued)
        /\ Key(wire[c].offer) = wire[c].key
        /\ wire[c].key \in Keys
    BY <1>7, IssuedKept DEF IInv, CallInv, CallOK, Sign, Challenged
  <2>2. PICK x \in Credentials(c) : sent' = sent \cup {x}
    BY <1>7 DEF Sign
  <2>3. x.id = wire[c].offer
    BY <2>2 DEF Credentials
  <2>4. x.action = "charge" <=> Intent[wire[c].key] = "charge"
    <3>1. Intent[wire[c].key] \in {"charge", "session"}
      BY <2>1, GatewayAssumption
    <3> QED BY <2>2, <3>1 DEF Credentials, ChargeCredential, OpenCredential, ClaimCredential, Metered
  <2> QED BY <1>7, <2>1, <2>2, <2>3, <2>4 DEF Sign, Present
<1>8. ASSUME NEW c \in Calls, Client(c), ~Sign(c)
      PROVE  Idle
  BY <1>8 DEF Client, Abandon, TransportCapture, PayerRecord, Unpaid, LoseAnswer, Ended, ServerUnchanged
<1>9. ASSUME NEW c \in Calls, NEW k \in Keys, Caller(c, k)
      PROVE  Idle
  <2>1. CASE PresentAgain(c, k)
    BY <2>1 DEF PresentAgain, Present
  <2>2. ASSUME NEW u, NEW kind, NEW hint, NEW named, NEW state, Begin(c, u, kind, k, hint, named, state)
        PROVE  Idle
    BY <2>2 DEF Begin, SendChallenge
  <2> QED BY <1>9, <2>1, <2>2 DEF Caller, TransportRequest, TransportClose, PayerPay, PayerClose
<1>10. ASSUME NEW k \in Keys, RegisterOpen(k) \/ \E u \in Users : Register(u, k)
      PROVE  Idle
  BY <1>10 DEF Register, RegisterOpen
<1>11. CASE UNCHANGED vars
  BY <1>11 DEF vars, gatewayVars, clientVars
<1>12. CASE ServerNext /\ UNCHANGED clientVars
  <2>1. sent' = sent
    BY <1>12 DEF clientVars
  <2>2. ASSUME NEW c \in Calls, Gateway(c) \/ Facilitator(c)
        PROVE  /\ \/ /\ channel'.mark = channel.mark
                     /\ taken \subseteq taken'
                     /\ \A i \in taken' \ taken :
                            i \in 1 .. Len(issued) /\ Intent[Key(i)] = "charge"
                  \/ \E x \in sent : Takes(x)
               /\ \A i \in owing' \ owing : i \in 1 .. Len(issued) /\ Intent[Key(i)] = "charge"
    BY <1>2, <1>4, <1>6, <2>1, <2>2 DEF Facilitator
  <2> QED BY <1>3, <1>5, <1>12, <2>1, <2>2 DEF ServerNext
<1>13. CASE \E c \in Calls : Client(c)
  BY <1>7, <1>8, <1>13
<1> QED BY <1>9, <1>10, <1>11, <1>12, <1>13 DEF Next

\* Every step keeps the mark at the price of what was granted.
LEMMA GrantsStep ==
    ASSUME IInv, IInv', MeteredOK, GrantsAddUp, [Next]_vars
    PROVE  MeteredOK' /\ GrantsAddUp'
<1>1. /\ TypeOK /\ SentOK /\ ExposureBounded
      /\ taken \in SUBSET Ids /\ Ids \subseteq Nat
      /\ sent \subseteq Credential /\ channel.mark \in Nat
      /\ \A i \in owing \cup taken \cup used \cup disowned : i \in 1 .. Len(issued)
      /\ \A x \in sent : x.id \in 1 .. Len(issued) /\ x.id \in Ids
  <2>1. TypeOK /\ SentOK /\ ExposureBounded /\ Len(issued) \in Nat
    BY IssuedKept DEF IInv
  <2>2. sent \subseteq Credential /\ taken \in SUBSET Ids /\ channel.mark \in Nat
    BY <2>1 DEF TypeOK, GatewayTypeOK
  <2>3. \A x \in sent : x.id \in 1 .. Len(issued) /\ x.id \in Ids
    BY <2>1, <2>2 DEF SentOK, Credential, Ids
  <2> QED BY <2>1, <2>2, <2>3 DEF SentOK, Ids
<1>2. MeteredOK'
  <2>1. ASSUME NEW x \in sent'
        PROVE  x.action = "charge" <=> Intent[Key(x.id)'] = "charge"
    <3>1. x.id \in 1 .. Len(issued) /\ (x.action = "charge" <=> Intent[Key(x.id)] = "charge")
      BY <1>1, Accounting DEF MeteredOK
    <3> QED BY <3>1, IssuedKept
  <2>2. ASSUME NEW i \in owing'
        PROVE  Intent[Key(i)'] = "charge"
    <3>1. i \in 1 .. Len(issued) /\ Intent[Key(i)] = "charge"
      BY <1>1, Accounting DEF MeteredOK
    <3> QED BY <3>1, IssuedKept
  <2> QED BY <2>1, <2>2 DEF MeteredOK, Key
<1>3. ASSUME NEW S \in SUBSET (1 .. Len(issued))
      PROVE  SumFunction([i \in S |-> Price[Key(i)']]) = PriceOf(S)
  <2>1. [i \in S |-> Price[Key(i)']] = [i \in S |-> Price[Key(i)]]
    BY <1>3, IssuedKept
  <2> QED BY <2>1 DEF PriceOf
<1>4. /\ IsFiniteSet(Sessions) /\ Sessions \subseteq taken
      /\ \A i \in 1 .. Len(issued) : Price[Key(i)] \in Nat
  <2>1. IsFiniteSet(Ids)
    BY FS_Interval, GatewayAssumption DEF Ids
  <2>2. Sessions \in SUBSET Ids
    BY <1>1 DEF Sessions
  <2> QED BY <2>1, <2>2, FS_Subset, IssuedKept, GatewayAssumption DEF Sessions
<1>5. channel.mark = PriceOf(Sessions)
  BY DEF GrantsAddUp, Sessions
<1>6. CASE /\ channel'.mark = channel.mark
           /\ taken \subseteq taken'
           /\ \A i \in taken' \ taken : i \in 1 .. Len(issued) /\ Intent[Key(i)] = "charge"
  <2>1. \A i \in taken' : i \in 1 .. Len(issued)
    BY <1>1, <1>6
  <2>2. \A i \in taken' : Intent[Key(i)'] = Intent[Key(i)]
    BY <2>1, IssuedKept
  <2>3. {i \in taken' : Intent[Key(i)'] = "session"} = Sessions
    BY <1>6, <2>2 DEF Sessions
  <2>4. Sessions \in SUBSET (1 .. Len(issued))
    BY <1>1, <1>4
  <2> QED BY <1>2, <1>3, <1>5, <1>6, <2>3, <2>4 DEF GrantsAddUp, PriceOf
<1>7. ASSUME NEW x \in sent, Takes(x)
      PROVE  GrantsAddUp'
  <2>1. /\ x.amount = channel.mark + Price[Key(x.id)]
        /\ x.id \notin Sessions
        /\ Intent[Key(x.id)] = "session"
    <3>1. x.amount <= channel.mark + Price[Key(x.id)] /\ x.amount \in Nat
      BY <1>1, <1>7 DEF ExposureBounded, Takes, Credential
    <3>2. Intent[Key(x.id)] \in {"charge", "session"} /\ Price[Key(x.id)] \in Nat
      BY <1>1, <1>4, IssuedKept, GatewayAssumption
    <3>3. channel.mark + Price[Key(x.id)] <= x.amount /\ channel.mark \in Nat
      BY <1>1, <1>7 DEF Takes
    <3>4. x.amount = channel.mark + Price[Key(x.id)]
      BY <3>1, <3>2, <3>3
    <3>5. x.id \notin Sessions
      BY <1>1, <1>4, <1>7 DEF Takes, SentOK
    <3>6. Intent[Key(x.id)] = "session"
      BY <1>7, <3>2 DEF Takes, MeteredOK
    <3> QED BY <3>4, <3>5, <3>6
  <2>2. \A i \in taken' : i \in 1 .. Len(issued) /\ Intent[Key(i)'] = Intent[Key(i)]
    BY <1>1, <1>7, IssuedKept DEF Takes
  <2>3. {i \in taken' : Intent[Key(i)'] = "session"} = Sessions \cup {x.id}
    BY <1>7, <2>1, <2>2 DEF Sessions, Takes
  <2>4. Sessions \cup {x.id} \in SUBSET (1 .. Len(issued))
    BY <1>1, <1>4
  <2>5. PriceOf(Sessions \cup {x.id}) = PriceOf(Sessions) + Price[Key(x.id)]
    BY <1>4, <2>1, <2>4, PriceAdded
  <2> QED BY <1>3, <1>5, <1>7, <2>1, <2>3, <2>4, <2>5 DEF GrantsAddUp, PriceOf, Takes
<1> QED BY <1>2, <1>6, <1>7, Accounting

-----------------------------------------------------------------------------
(***************************************************************************)
(* What the receipts add up to. A receipt is written for an answer "ok" to a*)
(* payment not receipted before, and every such answer stands for a payment *)
(* taken or a close that was resumed.                                       *)
(***************************************************************************)

\* What call c may still write to the receipts.
ReceiptedOK(c) ==
    /\ post[c].verdict = "ok" => Posted(c).id \in taken \cup resumed
    /\ wire[c].answer = "ok" => Cred(c).id \in taken \cup resumed
    /\ call[c].stage = "paying" /\ call[c].kind # "again" => Cred(c).id \notin Range(receipts)

\* The receipts, and what may be added to them.
ReceiptsOK ==
    /\ \A c \in Calls : ReceiptedOK(c)
    /\ \A i \in Range(receipts) : i \in taken \cup resumed /\ \E x \in sent : x.id = i
    /\ IsInjective(receipts)

\* A step that writes no receipt and keeps the calls it touches in order.
LEMMA ReceiptsKept ==
    ASSUME ReceiptsOK, taken \subseteq taken', resumed \subseteq resumed', sent \subseteq sent',
           receipts' = receipts,
           \A c \in Calls :
              \/ UNCHANGED <<post[c], wire[c], call[c]>>
              \/ ReceiptedOK(c)'
    PROVE  ReceiptsOK'
BY DEF ReceiptsOK, ReceiptedOK, Posted, Cred, Range

\* The facilitator says ok of payments it took only.
LEMMA DecisionReceipts ==
    ASSUME IInv, ReceiptsOK, UNCHANGED clientVars, NEW c \in Calls, NEW v, Working(c), Verdict(c, v),
           wire' = wire, taken \subseteq taken', resumed \subseteq resumed',
           v = "ok" => Posted(c).id \in taken' \cup resumed'
    PROVE  ReceiptsOK'
<1>1. post \in [Calls -> Post]
  BY DEF IInv, TypeOK, GatewayTypeOK
<1>2. /\ \A d \in Calls \ {c} : post'[d] = post[d]
      /\ post'[c].verdict = "ok" => post'[c].cred.id \in taken' \cup resumed'
  BY <1>1 DEF Verdict, NoPost, Post, Posted
<1>3. UNCHANGED <<call, receipts, sent>>
  BY DEF clientVars
<1>4. ReceiptedOK(c)'
  BY <1>2, <1>3 DEF ReceiptsOK, ReceiptedOK, Posted, Cred
<1> QED BY <1>2, <1>3, <1>4, ReceiptsKept

\* Every step keeps the receipts true.
LEMMA ReceiptsStep ==
    ASSUME IInv, IInv', ReceiptsOK, [Next]_vars
    PROVE  ReceiptsOK'
<1>1. /\ TypeOK /\ SentOK /\ Apart /\ \A c \in Calls : CallInv(c)
      /\ post \in [Calls -> Post] /\ wire \in [Calls -> Request] /\ call \in [Calls -> CallState]
  BY DEF IInv, TypeOK, GatewayTypeOK
<1>2. ASSUME NEW c \in Calls, Facilitator(c), UNCHANGED clientVars
      PROVE  ReceiptsOK'
  <2>1. CASE DecideCharge(c)
    BY <1>2, <2>1, DecisionReceipts DEF DecideCharge, SubmitCharge
  <2>2. CASE DecideOpen(c)
    BY <1>2, <2>2, DecisionReceipts DEF DecideOpen
  <2>3. CASE DecideVoucher(c)
    BY <1>2, <2>3, DecisionReceipts DEF DecideVoucher
  <2>4. CASE DecideClose(c)
    BY <1>2, <2>4, DecisionReceipts DEF DecideClose
  <2>5. CASE RefuseProof(c) \/ FacilitatorFails(c)
    BY <1>2, <2>5, DecisionReceipts DEF RefuseProof, FacilitatorFails
  <2> QED BY <1>2, <2>1, <2>2, <2>3, <2>4, <2>5 DEF Facilitator
<1>3. ASSUME NEW c \in Calls, HearVerdict(c), UNCHANGED clientVars
      PROVE  ReceiptsOK'
  <2>1. /\ post'[c] = NoPost /\ wire'[c].cred = wire[c].cred
        /\ wire'[c].answer = "ok" => post[c].verdict = "ok"
        /\ \A d \in Calls \ {c} : post'[d] = post[d] /\ wire'[d] = wire[d]
        /\ UNCHANGED <<taken, resumed, call, receipts, sent>>
    <3>1. PICK a : Reply(c, a) /\ (a = "ok" => post[c].verdict = "ok")
      BY <1>3 DEF HearVerdict, RunApplication, Paid
    <3>2. wire' = [wire EXCEPT ![c] = [wire[c] EXCEPT !.step = "answered", !.answer = a]]
      BY <3>1 DEF Reply
    <3>3. wire'[c].cred = wire[c].cred /\ wire'[c].answer = a
      BY <1>1, <3>2 DEF Request
    <3>4. post' = [post EXCEPT ![c] = NoPost] /\ UNCHANGED <<taken, resumed, call, receipts, sent>>
      BY <1>3 DEF HearVerdict, clientVars
    <3> QED BY <1>1, <3>1, <3>2, <3>3, <3>4
  <2>2. post[c].cred = Cred(c)
    BY <1>1, <1>3 DEF HearVerdict, CallInv, WireOK
  <2>3. ReceiptedOK(c)'
    BY <2>1, <2>2 DEF ReceiptsOK, ReceiptedOK, NoPost, Posted, Cred
  <2> QED BY <2>1, <2>3, ReceiptsKept
<1>4. ASSUME NEW c \in Calls, StopWaiting(c), UNCHANGED clientVars
      PROVE  ReceiptsOK'
  <2>1. /\ post'[c] = post[c] \/ post'[c] = NoPost
        /\ wire'[c].answer = "unknown" /\ wire'[c].cred = wire[c].cred
        /\ \A d \in Calls \ {c} : post'[d] = post[d] /\ wire'[d] = wire[d]
        /\ UNCHANGED <<taken, resumed, call, receipts, sent>>
    <3>1. wire' = [wire EXCEPT ![c] = [wire[c] EXCEPT !.step = "answered", !.answer = "unknown"]]
      BY <1>4 DEF StopWaiting, Reply, TimeoutAnswer
    <3>2. post' = [post EXCEPT ![c] = IF Working(c) THEN post[c] ELSE NoPost]
          /\ UNCHANGED <<taken, resumed, call, receipts, sent>>
      BY <1>4 DEF StopWaiting, clientVars
    <3>3. wire'[c].cred = wire[c].cred /\ wire'[c].answer = "unknown"
      BY <1>1, <3>1 DEF Request
    <3> QED BY <1>1, <3>1, <3>2, <3>3
  <2>2. ReceiptedOK(c)'
    BY <2>1 DEF ReceiptsOK, ReceiptedOK, NoPost, Posted, Cred
  <2> QED BY <2>1, <2>2, ReceiptsKept
<1>5. ASSUME LedgerOpens \/ \E i \in Ids : LedgerSettles(i), UNCHANGED clientVars
      PROVE  ReceiptsOK'
  BY <1>5, ReceiptsKept DEF LedgerSettles, LedgerOpens, clientVars
<1>6. ASSUME NEW c \in Calls, NEW k, NEW x, Present(c, k, x), post[c] = NoPost,
             receipts' = receipts, sent \subseteq sent',
             \A d \in Calls \ {c} : call'[d] = call[d],
             call'[c].kind = "again" \/ x.id \notin Range(receipts)
      PROVE  ReceiptsOK'
  <2>1. /\ wire'[c].cred = x /\ wire'[c].answer # "ok"
        /\ post'[c].verdict # "ok"
        /\ \A d \in Calls \ {c} : post'[d] = post[d] /\ wire'[d] = wire[d]
        /\ UNCHANGED <<taken, resumed>>
    BY <1>1, <1>6, NoneAssumption DEF Present, NoPost
  <2>2. ReceiptedOK(c)'
    BY <1>6, <2>1 DEF ReceiptedOK, Cred
  <2> QED BY <1>6, <2>1, <2>2, ReceiptsKept
<1>7. ASSUME NEW c \in Calls, Sign(c)
      PROVE  ReceiptsOK'
  <2>1. PICK x \in Credentials(c) : Present(c, wire[c].key, x) /\ sent' = sent \cup {x}
    BY <1>7 DEF Sign
  <2>2. x.id = wire[c].offer
    BY <2>1 DEF Credentials
  <2>3. post[c] = NoPost /\ x.id \notin Range(receipts)
    BY <1>1, <1>7, <2>2 DEF ReceiptsOK, CallInv, CallOK, Sign, Challenged
  <2>4. receipts' = receipts /\ \A d \in Calls \ {c} : call'[d] = call[d]
    BY <1>1, <1>7 DEF Sign
  <2> QED BY <1>6, <2>1, <2>3, <2>4
<1>8. ASSUME NEW c \in Calls, NEW k \in Keys, PresentAgain(c, k)
      PROVE  ReceiptsOK'
  <2>1. PICK x : Present(c, k, x)
    BY <1>8 DEF PresentAgain
  <2>2. call'[c].kind = "again" /\ \A d \in Calls \ {c} : call'[d] = call[d]
    <3>1. [NoCall EXCEPT !.stage = "paying", !.kind = "again"].kind = "again"
      BY DEF NoCall
    <3> QED BY <1>1, <1>8, <3>1 DEF PresentAgain
  <2> QED BY <1>6, <1>8, <2>1, <2>2 DEF PresentAgain, Free
<1>9. ASSUME NEW c \in Calls, NEW u, NEW kind, NEW k, NEW hint, NEW named, NEW state,
              Begin(c, u, kind, k, hint, named, state)
      PROVE  ReceiptsOK'
  <2>1. /\ wire'[c].answer = "challenge" /\ call'[c].stage = "probe"
        /\ post[c] = NoPost /\ post' = post
        /\ \A d \in Calls \ {c} : call'[d] = call[d] /\ wire'[d] = wire[d]
        /\ UNCHANGED <<taken, resumed, receipts, sent>>
    BY <1>1, <1>9 DEF Begin, SendChallenge, Free
  <2>2. ReceiptedOK(c)'
    BY <2>1 DEF ReceiptedOK, NoPost, Posted
  <2> QED BY <2>1, <2>2, ReceiptsKept
<1>10. ASSUME NEW c \in Calls, Ended(c), UNCHANGED <<receipts, sent>>
      PROVE  ReceiptsOK'
  <2>1. /\ call'[c] = NoCall /\ wire'[c] = Quiet /\ post' = post
        /\ \A d \in Calls \ {c} : call'[d] = call[d] /\ wire'[d] = wire[d]
        /\ UNCHANGED <<taken, resumed>>
    BY <1>1, <1>10 DEF Ended, ServerUnchanged
  <2>2. ReceiptedOK(c)'
    BY <2>1, NoneAssumption DEF ReceiptsOK, ReceiptedOK, NoCall, Quiet, Posted
  <2> QED BY <1>10, <2>1, <2>2, ReceiptsKept
<1>11. ASSUME NEW c \in Calls, PayerRecord(c), receipts' # receipts
      PROVE  ReceiptsOK'
  <2> DEFINE i == Cred(c).id
  <2>1. /\ Cred(c) \in sent /\ i \in Ids /\ i \in taken \cup resumed /\ i \notin Range(receipts)
        /\ receipts \in Seq(Ids) /\ receipts' = Append(receipts, i)
        /\ call[c].stage = "paying" /\ call[c].kind # "again"
    BY <1>1, <1>11 DEF PayerRecord, Answered, Receipted, ReceiptsOK, ReceiptedOK, CallInv, CallOK,
                      TypeOK, Credential
  <2>2. /\ call'[c] = NoCall /\ wire'[c] = Quiet /\ post' = post
        /\ \A d \in Calls \ {c} : call'[d] = call[d] /\ wire'[d] = wire[d]
        /\ UNCHANGED <<taken, resumed, sent>>
    BY <1>1, <1>11 DEF PayerRecord, Ended, ServerUnchanged
  <2>3. Range(receipts') = Range(receipts) \cup {i} /\ IsInjective(receipts')
    <3>1. /\ DOMAIN receipts' = 1 .. Len(receipts) + 1 /\ DOMAIN receipts = 1 .. Len(receipts)
          /\ Len(receipts) \in Nat
          /\ \A n \in 1 .. Len(receipts) : receipts'[n] = receipts[n]
          /\ receipts'[Len(receipts) + 1] = i
      BY <2>1
    <3>2. IsInjective(receipts)
      BY DEF ReceiptsOK
    <3> QED BY <2>1, <3>1, <3>2 DEF Range, IsInjective
  <2>4. ASSUME NEW d \in Calls
        PROVE  ReceiptedOK(d)'
    <3>1. CASE d = c
      BY <2>2, <3>1, NoneAssumption DEF ReceiptsOK, ReceiptedOK, NoCall, Quiet, Posted
    <3>2. CASE d # c /\ call[d].stage = "paying" /\ call[d].kind # "again"
      <4>1. Cred(d) \in sent /\ Cred(d) # Cred(c)
        BY <1>1, <2>1, <3>2 DEF Apart, CallInv, CallOK
      <4>2. Cred(d).id # i
        BY <1>1, <2>1, <4>1 DEF SentOK
      <4> QED BY <2>2, <2>3, <3>2, <4>2 DEF ReceiptsOK, ReceiptedOK, Posted, Cred
    <3>3. CASE d # c /\ ~(call[d].stage = "paying" /\ call[d].kind # "again")
      BY <2>2, <3>3 DEF ReceiptsOK, ReceiptedOK, Posted, Cred
    <3> QED BY <3>1, <3>2, <3>3
  <2> QED BY <2>1, <2>2, <2>3, <2>4 DEF ReceiptsOK
<1>12. ASSUME NEW c \in Calls, Client(c)
      PROVE  ReceiptsOK'
  BY <1>7, <1>10, <1>11, <1>12 DEF Client, Abandon, TransportCapture, PayerRecord, Unpaid, LoseAnswer
<1>13. ASSUME NEW c \in Calls, NEW k \in Keys, Caller(c, k)
       PROVE  ReceiptsOK'
  BY <1>8, <1>9, <1>13 DEF Caller, TransportRequest, TransportClose, PayerPay, PayerClose
<1>14. CASE UNCHANGED vars \/ \E k \in Keys : RegisterOpen(k) \/ \E u \in Users : Register(u, k)
  BY <1>14, ReceiptsKept DEF vars, gatewayVars, clientVars, Register, RegisterOpen
<1>15. CASE ServerNext /\ UNCHANGED clientVars
  BY <1>2, <1>3, <1>4, <1>5, <1>15 DEF ServerNext, Gateway
<1> QED BY <1>12, <1>13, <1>14, <1>15 DEF Next

\* True receipts add up to what was paid, whatever their order in the file.
LEMMA BudgetAdds ==
    ASSUME IInv, ReceiptsOK
    PROVE  BudgetTrue
<1>1. /\ receipts \in Seq(Ids) /\ Len(receipts) \in Nat /\ DOMAIN receipts = 1 .. Len(receipts)
      /\ IsInjective(receipts)
      /\ \A n \in 1 .. Len(receipts) : receipts[n] \in taken \cup resumed
  <2>1. receipts \in Seq(Ids)
    BY DEF IInv, TypeOK
  <2> QED BY <2>1 DEF ReceiptsOK, Range
<1>2. ASSUME NEW n \in 1 .. Len(receipts)
      PROVE  Price[Key(receipts[n])] \in Nat
  <2>1. TypeOK /\ SentOK /\ issued \in Seq(Challenge)
    BY DEF IInv, TypeOK, GatewayTypeOK
  <2>2. PICK x \in sent : x.id = receipts[n]
    BY <1>1 DEF ReceiptsOK, Range
  <2>3. x.id \in Ids /\ x.id <= Len(issued)
    BY <2>1, <2>2 DEF TypeOK, SentOK, Credential
  <2>4. issued[x.id] \in Challenge
    BY <2>1, <2>3 DEF Ids
  <2> QED BY <2>2, <2>4, GatewayAssumption DEF Key, Challenge
<1>3. ASSUME Len(receipts) <= Window, NEW currency
      PROVE  BudgetSummary(currency)
                = PriceOf({i \in ToSet(receipts) : Currency[Key(i)] = currency})
  <2> DEFINE S == {j \in Recent(Window) : Currency[Key(receipts[j])] = currency}
             I == {i \in ToSet(receipts) : Currency[Key(i)] = currency}
             f == [j \in S |-> Price[Key(receipts[j])]]
             e == [i \in I |-> Price[Key(i)]]
  <2>1. Recent(Window) = 1 .. Len(receipts)
    BY <1>1, <1>3, ClientAssumption DEF Recent
  <2>2. S \subseteq 1 .. Len(receipts) /\ IsFiniteSet(S)
    <3>1. IsFiniteSet(1 .. Len(receipts)) /\ S \in SUBSET (1 .. Len(receipts))
      BY <1>1, <2>1, FS_Interval
    <3> QED BY <3>1, FS_Subset
  <2>3. I = {receipts[j] : j \in S}
    BY <1>1, <2>1 DEF ToSet
  <2>4. \A j, k \in S : receipts[j] = receipts[k] => j = k
    BY <1>1, <2>2 DEF IsInjective
  <2>5. \A j \in S : f[j] \in Nat /\ e[receipts[j]] = f[j]
    BY <1>2, <2>2, <2>3
  <2>6. BudgetSummary(currency) = SumFunctionOnSet(f, S) /\ PriceOf(I) = SumFunctionOnSet(e, I)
    <3>1. DOMAIN f = S /\ DOMAIN e = I
      OBVIOUS
    <3> QED BY <3>1 DEF BudgetSummary, Spent, PriceOf, SumFunction
  <2> HIDE DEF S, I, f, e
  <2>7. SumFunctionOnSet(f, S) = SumFunctionOnSet(e, I)
    <3>1. (\A j \in S : receipts[j] \in I) /\ (\A i \in I : \E j \in S : receipts[j] = i)
      BY <2>3
    <3>2. Renames(receipts, S, f, I, e)
      BY <2>4, <2>5, <3>1 DEF Renames
    <3> QED BY <2>2, <3>2, SumReindexed
  <2>8. BudgetSummary(currency) = PriceOf(I)
    BY <2>6, <2>7
  <2> QED BY <2>8 DEF I
<1> QED BY <1>1, <1>3 DEF BudgetTrue

\* The books of the facilitator and of the payer, along every behaviour.
LEMMA BooksInvariance == Spec => [](IInv /\ MeteredOK /\ GrantsAddUp /\ ReceiptsOK)
<1>1. Init => MeteredOK /\ GrantsAddUp /\ ReceiptsOK
  <2> SUFFICES ASSUME Init PROVE MeteredOK /\ GrantsAddUp /\ ReceiptsOK
    OBVIOUS
  <2>1. MeteredOK
    BY DEF Init, GatewayInit, MeteredOK
  <2>2. GrantsAddUp
    <3>1. channel.mark = 0 /\ taken = {}
      BY DEF Init, GatewayInit
    <3>2. {i \in taken : Intent[Key(i)] = "session"} = {}
      BY <3>1
    <3> QED BY <3>1, <3>2, PriceEmpty DEF GrantsAddUp
  <2>3. ReceiptsOK
    BY NoneAssumption DEF Init, GatewayInit, ReceiptsOK, ReceiptedOK, Range, IsInjective,
                          Quiet, NoPost, NoCall
  <2> QED BY <2>1, <2>2, <2>3
<1>2. IInv /\ IInv' /\ MeteredOK /\ GrantsAddUp /\ ReceiptsOK /\ [Next]_vars
        => MeteredOK' /\ GrantsAddUp' /\ ReceiptsOK'
  BY GrantsStep, ReceiptsStep
<1> QED BY <1>1, <1>2, Invariance, PTL DEF Spec

\* The facilitator's high-water mark is the price of the requests it granted,
\* whatever was presented twice, on another route, or after a lost answer
\* (paychannel_service.py:840).
THEOREM GrantsPaid == Spec => []GrantsAddUp
<1> QED BY BooksInvariance, PTL

\* The payer's budget counts payments that were taken, each of them once, and
\* all of them while the file is no longer than the summary reads
\* (receipts.py:88).
THEOREM BudgetKept == Spec => []BudgetTrue
<1>1. IInv /\ ReceiptsOK => BudgetTrue
  BY BudgetAdds
<1> QED BY <1>1, BooksInvariance, PTL

\* No claim a client signs exceeds what was granted by more than the request
\* it was signed for (httpx.py:311).
THEOREM Exposure == Spec => []ExposureBounded
<1>1. IInv => ExposureBounded
  BY DEF IInv
<1> QED BY <1>1, Invariance, PTL
=============================================================================
