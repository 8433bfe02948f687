----------------------- MODULE PayChannelRecordProofs -----------------------
(***************************************************************************)
(* What the mutations of a channel record do, for every record and every   *)
(* argument.                                                               *)
(***************************************************************************)
EXTENDS PayChannelRecord, TLAPS

\* Records as open and the ledger import create them (paychannel_service.py,
\* xrpl_service.py) are records, with nothing outstanding and not finalized.
LEMMA NewRecords ==
    /\ NoRecord \in Record /\ ~Exists(NoRecord)
    /\ \A n \in Nat \ {0} :
        /\ FreshRecord(n) \in Record
        /\ ValidAccounting(FreshRecord(n))
        /\ FreshRecord(n).funded = n
        /\ FreshRecord(n).cumulative = 0
        /\ FreshRecord(n).redeemed = 0
        /\ ~FreshRecord(n).finalized
    /\ \A a, b \in Nat :
        /\ ImportedRecord(a, b) \in Record
        /\ ImportedRecord(a, b).funded = a
        /\ ImportedRecord(a, b).cumulative = b
        /\ ImportedRecord(a, b).redeemed = b
        /\ ~ImportedRecord(a, b).finalized
<1>0. NoRecord.cumulative = 0 /\ NoRecord.redeemed = 0 /\ NoRecord.finalized = FALSE
  BY DEF NoRecord
<1>1. NoRecord \in Record /\ ~Exists(NoRecord)
  BY DEF NoRecord, Record, NoSignature, Exists
<1>2. ASSUME NEW n \in Nat \ {0}
      PROVE  /\ FreshRecord(n) \in Record
             /\ ValidAccounting(FreshRecord(n))
             /\ FreshRecord(n).funded = n
             /\ FreshRecord(n).cumulative = 0
             /\ FreshRecord(n).redeemed = 0
             /\ ~FreshRecord(n).finalized
  <2>1. /\ FreshRecord(n) \in Record
        /\ FreshRecord(n).funded = n
        /\ FreshRecord(n).cumulative = NoRecord.cumulative
        /\ FreshRecord(n).redeemed = NoRecord.redeemed
        /\ FreshRecord(n).finalized = NoRecord.finalized
    BY <1>1 DEF FreshRecord, Record
  <2> QED
    BY <1>0, <2>1 DEF ValidAccounting
<1>3. ASSUME NEW a \in Nat, NEW b \in Nat
      PROVE  /\ ImportedRecord(a, b) \in Record
             /\ ImportedRecord(a, b).funded = a
             /\ ImportedRecord(a, b).cumulative = b
             /\ ImportedRecord(a, b).redeemed = b
             /\ ~ImportedRecord(a, b).finalized
  <2>1. /\ ImportedRecord(a, b) \in Record
        /\ ImportedRecord(a, b).funded = a
        /\ ImportedRecord(a, b).cumulative = b
        /\ ImportedRecord(a, b).redeemed = b
        /\ ImportedRecord(a, b).finalized = NoRecord.finalized
    BY <1>1 DEF ImportedRecord, Record
  <2> QED
    BY <1>0, <2>1
<1> QED
  BY <1>1, <1>2, <1>3

\* advance moves the high-water mark by at least the price, within the
\* funding, or not at all; it never touches what is redeemed or finalized.
LEMMA AdvancedFacts ==
    ASSUME NEW rec \in Record, NEW cumulative \in Nat, NEW requested \in Nat,
           NEW signature \in Int, NEW funded \in Nat
    PROVE  LET status == AdvanceStatus(rec, cumulative, requested, funded)
               new    == Advanced(rec, cumulative, requested, signature, funded)
           IN  /\ new \in Record
               /\ new.redeemed = rec.redeemed
               /\ new.finalized = rec.finalized
               /\ rec.funded <= new.funded
               /\ new.funded \in {rec.funded, funded}
               /\ ~Exists(rec) => status # "advanced" /\ new = rec
               /\ status = "advanced" =>
                    /\ ~rec.finalized
                    /\ new.cumulative = cumulative
                    /\ new.signature = signature
                    /\ rec.cumulative < cumulative
                    /\ rec.cumulative + requested <= cumulative
                    /\ cumulative <= new.funded
               /\ status # "advanced" =>
                    /\ new.cumulative = rec.cumulative
                    /\ new.signature = rec.signature
               /\ status = "replay" => Exists(rec) /\ ~rec.finalized /\ cumulative = rec.cumulative
<1> DEFINE status == AdvanceStatus(rec, cumulative, requested, funded)
           new    == Advanced(rec, cumulative, requested, signature, funded)
<1>1. AdoptedFunding(rec, funded) \in Nat /\ AdoptedFunding(rec, funded) \in {rec.funded, funded}
  BY DEF AdoptedFunding, Record
<1>2. CASE status = "advanced"
  <2>1. /\ Exists(rec) /\ ~rec.finalized
        /\ rec.funded <= AdoptedFunding(rec, funded)
        /\ cumulative <= AdoptedFunding(rec, funded)
        /\ HighWater(rec.cumulative, cumulative, requested) = "advanced"
    BY <1>1, <1>2 DEF AdvanceStatus, Record
  <2>2. rec.cumulative < cumulative /\ rec.cumulative + requested <= cumulative
    BY <2>1 DEF HighWater, Record
  <2>3. new = [rec EXCEPT !.funded     = AdoptedFunding(rec, funded),
                          !.cumulative = cumulative,
                          !.signature  = signature]
    BY <1>2 DEF Advanced
  <2>4. /\ new \in Record
        /\ new.redeemed = rec.redeemed
        /\ new.finalized = rec.finalized
        /\ new.funded = AdoptedFunding(rec, funded)
        /\ new.cumulative = cumulative
        /\ new.signature = signature
    BY <1>1, <2>3 DEF Record
  <2> QED
    BY <1>1, <1>2, <2>1, <2>2, <2>4
<1>3. CASE status \in {"replay", "regressed", "short"}
  <2>1. Exists(rec) /\ rec.funded <= AdoptedFunding(rec, funded) /\ ~rec.finalized
    BY <1>1, <1>3 DEF AdvanceStatus, Record
  <2>2. status = "replay" => cumulative = rec.cumulative
    BY <1>3, <2>1 DEF AdvanceStatus, HighWater
  <2>3. new = [rec EXCEPT !.funded = AdoptedFunding(rec, funded)]
    BY <1>3 DEF Advanced
  <2>4. /\ new \in Record
        /\ new.redeemed = rec.redeemed
        /\ new.finalized = rec.finalized
        /\ new.funded = AdoptedFunding(rec, funded)
        /\ new.cumulative = rec.cumulative
        /\ new.signature = rec.signature
    BY <1>1, <2>3 DEF Record
  <2> QED
    BY <1>1, <1>3, <2>1, <2>2, <2>4
<1>4. CASE status \notin {"advanced", "replay", "regressed", "short"}
  <2>1. new = rec
    BY <1>4 DEF Advanced
  <2> QED
    BY <1>4, <2>1 DEF Record
<1> QED
  BY <1>2, <1>3, <1>4

\* mark_redeemed changes one field, under its condition.
LEMMA RedeemedFacts ==
    ASSUME NEW rec \in Record, NEW amount \in Nat, CanRedeem(rec, amount)
    PROVE  LET new == Redeemed(rec, amount)
           IN  /\ new \in Record
               /\ new.funded = rec.funded
               /\ new.cumulative = rec.cumulative
               /\ new.signature = rec.signature
               /\ new.finalized = rec.finalized
               /\ new.redeemed = amount
               /\ rec.redeemed <= amount
               /\ amount <= rec.cumulative
               /\ Exists(rec)
BY DEF Redeemed, CanRedeem, Record

\* finalize sets one flag, under its expected cumulative amount.
LEMMA FinalizedFacts ==
    ASSUME NEW rec \in Record, NEW expected
    PROVE  LET new == Finalized(rec, expected)
           IN  /\ new \in Record
               /\ new.funded = rec.funded
               /\ new.cumulative = rec.cumulative
               /\ new.signature = rec.signature
               /\ new.redeemed = rec.redeemed
               /\ rec.finalized => new.finalized
               /\ new.finalized /\ ~rec.finalized => Exists(rec) /\ rec.cumulative = expected
BY DEF Finalized, CanFinalize, Record
=============================================================================
