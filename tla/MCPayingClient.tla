--------------------------- MODULE MCPayingClient ---------------------------
(***************************************************************************)
(* Two metered routes of different prices paid from one channel, and a     *)
(* route sold by the charge.                                               *)
(***************************************************************************)
EXTENDS PayingClient

CONSTANTS a, b, tick, chunk, item

MCIntent == [k \in Keys |-> IF k = item THEN "charge" ELSE "session"]
MCPrice == [k \in Keys |-> IF k = chunk THEN 2 ELSE 1]
MCCurrency == [k \in Keys |-> IF k = item THEN "RLUSD" ELSE "XRP"]
Symmetry == Permutations(Calls)
MCRoutes == [u \in Users |-> {tick, IF u = "payer" THEN item ELSE chunk}]
MCCap == [u \in Users |-> 3]
=============================================================================
