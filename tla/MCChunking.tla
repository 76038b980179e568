----------------------------- MODULE MCChunking -----------------------------
(* Instances of Chunking for TLC.                                          *)
EXTENDS Chunking

CONSTANTS MaxLen, Targets, Overlaps, Limits

(* Every normalised text of letters and blanks up to MaxLen.               *)
AllTexts ==
  {<<>>} \union
  {t \in UNION {[1..n -> {"x", Blank}] : n \in 1..MaxLen} :
     t[1] # Blank /\ t[Len(t)] # Blank}

AllOptions ==
  {o \in [target : Targets, overlap : Overlaps, maxChunks : Limits] : o.overlap < o.target}
=============================================================================
