------------------------ MODULE MCPayChannelService ------------------------
(***************************************************************************)
(* Instances of PayChannelService for TLC.  Deliveries and challenges of   *)
(* one kind are interchangeable, which the symmetry set of the safety      *)
(* runs uses.                                                              *)
(***************************************************************************)
EXTENDS PayChannelService, TLC

CONSTANTS o1, v1, v2   \* challenges: one for an open, two for an open channel

MCChallenges == {o1, v1, v2}
MCOpenChallenges == {o1}
MCPrice == [c \in MCChallenges |-> 1]
MCClaimChallenges == {v1, v2}
MCClaimPrice == [c \in MCClaimChallenges |-> 1]
MCUnequalPrice == (v1 :> 1) @@ (v2 :> 2)

WorkerSymmetry == Permutations(Workers)
Symmetry == Permutations(Requests) \cup Permutations({v1, v2})
=============================================================================
