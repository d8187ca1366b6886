---------------------------- MODULE MCMembership ----------------------------
(* Membership with three people, one of them named in INITIAL_ADMIN_IDS; the *)
(* two others play the same part.                                            *)
EXTENDS Membership, TLC

CONSTANTS ali, reza, sara

MCSymmetry == Permutations({ali, reza})
=============================================================================
