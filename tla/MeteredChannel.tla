--------------------------- MODULE MeteredChannel ---------------------------
(***************************************************************************)
(* What a seller may rely on, whatever facilitators, workers and the       *)
(* ledger do: a payer authorises ever larger cumulative amounts, service   *)
(* is sold only against their growth, the seller collects no more than was *)
(* authorised, and a session closes for good, when the seller collects     *)
(* online only with everything collected.                                  *)
(***************************************************************************)
EXTENDS Integers

CONSTANT CollectsOnline   \* a session is closed only when fully collected

VARIABLES
    authorised,   \* the cumulative amount the payer has authorised
    sold,         \* the price of everything sold against it
    collected,    \* the cumulative amount the ledger has paid
    closed        \* the session has ended

mvars == <<authorised, sold, collected, closed>>

MInit ==
    /\ authorised = 0
    /\ sold = 0
    /\ collected = 0
    /\ closed = FALSE

\* A channel that was used before is taken over as paid up.
TakeOver ==
    /\ authorised = 0 /\ sold = 0 /\ collected = 0 /\ ~closed
    /\ authorised' > 0
    /\ collected' = authorised'
    /\ UNCHANGED <<sold, closed>>

\* The payer authorises more, and is served for no more than that.
Sell ==
    /\ ~closed
    /\ authorised' > authorised
    /\ sold' - sold \in 0 .. authorised' - authorised
    /\ UNCHANGED <<collected, closed>>

Collect ==
    /\ collected' > collected
    /\ collected' <= authorised
    /\ UNCHANGED <<authorised, sold, closed>>

Close ==
    /\ ~closed
    /\ CollectsOnline => collected = authorised
    /\ closed' = TRUE
    /\ UNCHANGED <<authorised, sold, collected>>

MNext == TakeOver \/ Sell \/ Collect \/ Close

MSpec == MInit /\ [][MNext]_mvars
=============================================================================
