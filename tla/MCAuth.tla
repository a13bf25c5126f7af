------------------------------ MODULE MCAuth ------------------------------
(***************************************************************************)
(* A small instance of Auth.                                               *)
(***************************************************************************)
EXTENDS Auth, TLC

AuthSymmetry ==
    Permutations(Agent) \cup Permutations(Jti) \cup Permutations(Client)
=============================================================================
