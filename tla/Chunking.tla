------------------------------ MODULE Chunking ------------------------------
(***************************************************************************)
(* chunkText: how the text of a knowledge document is cut into the chunks  *)
(* that are embedded and searched.  One step is one round of its loop.     *)
(*                                                                         *)
(* The text has been normalised: it neither starts nor ends with a blank   *)
(* (a space or a newline), and all that matters of a character is whether  *)
(* it is one.  Offsets are those of the code: 0 is the first character.    *)
(***************************************************************************)
EXTENDS Integers, Sequences

CONSTANTS
  Char,      \* characters
  Blank,     \* a space or a newline
  Texts,     \* the texts considered
  Options    \* the options: target, overlap, maxChunks

ASSUME ChunkingAssumption ==
  /\ Texts \subseteq Seq(Char)
  /\ \A t \in Texts : t # <<>> => t[1] # Blank /\ t[Len(t)] # Blank
  /\ Options \subseteq [target : Nat \ {0}, overlap : Nat, maxChunks : Nat \ {0}]
  /\ \A o \in Options : o.overlap < o.target

VARIABLES
  text,     \* the normalised text
  opts,     \* ChunkerOptions
  start,    \* where the next chunk starts
  chunks,   \* the chunks so far: sourceStart and sourceEnd
  state     \* "cutting", "done", or "refused" when there are too many

vars == <<text, opts, start, chunks, state>>

Offset == 0..Len(text)

TypeOK ==
  /\ text \in Texts
  /\ opts \in Options
  /\ start \in Nat
  /\ chunks \in Seq([from : Nat, to : Nat])
  /\ state \in {"cutting", "done", "refused"}

Init ==
  /\ text \in Texts
  /\ opts \in Options
  /\ start = 0
  /\ chunks = <<>>
  /\ state = IF text = <<>> THEN "done" ELSE "cutting"

IsBlank(i) == text[i + 1] = Blank
Ink(a, b) == {i \in a..(b - 1) : ~ IsBlank(i)}

Least(S)    == CHOOSE i \in S : \A j \in S : i <= j
Greatest(S) == CHOOSE i \in S : \A j \in S : i >= j

Larger(a, b) == IF a > b THEN a ELSE b

(* Mutant: one character too far.                                          *)
HardEndPast ==
  IF start + opts.target + 1 < Len(text) THEN start + opts.target + 1 ELSE Len(text)

HardEnd ==
  IF start + opts.target < Len(text) THEN start + opts.target ELSE Len(text)

(* The blanks a chunk may end at: behind the first 60 % of it, up to and   *)
(* including the character at the hard end.                                *)
Breaks ==
  {i \in (start + (opts.target * 6) \div 10 + 1)..HardEnd :
     HardEnd < Len(text) /\ IsBlank(i)}

End == IF Breaks = {} THEN HardEnd ELSE Greatest(Breaks)

Step == opts.target - opts.overlap

(* Mutants: no overlap; no minimum step; the step taken back.              *)
NextStartAfter == Larger(start + opts.target, End)
NextStartBack == Larger(0, End - opts.overlap)
NextStartPast == start - Step

NextStart == Larger(start + Step, End - opts.overlap)

(* slice(start, end).trim()                                                *)
Content == Ink(start, End)

Cut ==
  /\ state = "cutting"
  /\ Len(chunks) < opts.maxChunks
  /\ chunks' = IF Content = {} THEN chunks
               ELSE Append(chunks, [from |-> Least(Content), to |-> Greatest(Content) + 1])
  /\ IF End < Len(text) /\ NextStart < Len(text)
     THEN start' = NextStart /\ UNCHANGED state
     ELSE state' = "done" /\ UNCHANGED start
  /\ UNCHANGED <<text, opts>>

(* Document exceeds the maximum of maxChunks chunks                        *)
Refuse ==
  /\ state = "cutting"
  /\ Len(chunks) >= opts.maxChunks
  /\ state' = "refused"
  /\ UNCHANGED <<text, opts, start, chunks>>

Next == Cut \/ Refuse

Spec == Init /\ [][Next]_vars
-----------------------------------------------------------------------------
(* Every chunk has text, no more than the target, and lies in the source.  *)
ChunksBounded ==
  \A n \in 1..Len(chunks) :
    /\ 0 <= chunks[n].from
    /\ chunks[n].from < chunks[n].to
    /\ chunks[n].to <= Len(text)
    /\ chunks[n].to - chunks[n].from <= opts.target

(* Only a document that needs more than maxChunks steps of the window is   *)
(* refused: overlap and blanks never make the loop stand still.            *)
RefusedOnlyIfLong ==
  state = "refused" => Len(text) > opts.maxChunks * Step

Kept(i) == \E n \in 1..Len(chunks) : chunks[n].from <= i /\ i < chunks[n].to

(* No word is longer than the overlap: a window of one character more      *)
(* always holds a blank.                                                   *)
ShortWords ==
  \A i \in Offset : i + opts.overlap < Len(text)
    => \E k \in i..(i + opts.overlap) : IsBlank(k)

(* Text in which no word is longer than the overlap is kept whole.         *)
ShortWordsKept ==
  state = "done" /\ ShortWords => \A i \in Ink(0, Len(text)) : Kept(i)

(* rag.spec.ts:35 says of any text "produces stable bounded chunks with    *)
(* overlap": from one chunk to the next, nothing is left out.              *)
AllKept == state = "done" => \A i \in Ink(0, Len(text)) : Kept(i)
=============================================================================
