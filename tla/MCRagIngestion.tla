--------------------------- MODULE MCRagIngestion ---------------------------
(* Instances of RagIngestion for TLC.                                      *)
EXTENDS RagIngestion, TLC

(* Workers and chunks are interchangeable; so are they with nothing else.  *)
Symmetry == Permutations(Worker) \union Permutations(Chunk)
=============================================================================
