------------------------------ MODULE MCOutbox ------------------------------
(* Instances of Outbox for TLC.                                            *)
EXTENDS Outbox, TLC

(* Passes and tokens are interchangeable (safety runs only).               *)
Symmetry == Permutations(Pass) \union Permutations(Token)
=============================================================================
