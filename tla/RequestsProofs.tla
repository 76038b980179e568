---------------------------- MODULE RequestsProofs ----------------------------
(***************************************************************************)
(* Proofs about MCRequests, of which each behaviour runs one part: about   *)
(* Chunking, what chunkText guarantees for every text and every option -   *)
(* the chunks are bounded, only long documents are refused, and text whose *)
(* words are no longer than the overlap is kept whole - and what follows   *)
(* of all parts from the proofs about the other components, which are in   *)
(* TenantsProofs and AnswersProofs.                                        *)
(***************************************************************************)
EXTENDS MCRequests, TenantsProofs, AnswersProofs, TLAPS

-----------------------------------------------------------------------------
(* The chunker.                                                            *)

(***************************************************************************)
(* The invariant.  While the loop runs, it is inside the text, every chunk *)
(* has moved it by a whole step, and what lies behind it has been kept.    *)
(***************************************************************************)
Covered == IF state = "done" THEN Len(text) ELSE start

KeptSoFar ==
  ShortWords /\ state # "refused" => \A i \in Ink(0, Covered) : Kept(i)

ChunkingInv ==
  /\ TypeOK
  /\ ChunksBounded
  /\ state # "done" => start < Len(text)
  /\ state # "done" => Len(chunks) * Step <= start
  /\ state = "refused" => Len(chunks) >= opts.maxChunks
  /\ KeptSoFar

(* A non-empty set of naturals has a least element, which Least returns.   *)
LEMMA LeastIsLeast ==
  ASSUME NEW S \in SUBSET Nat, S # {}
  PROVE  Least(S) \in S /\ \A j \in S : Least(S) <= j
<1>1. \E i \in S : \A j \in S : i <= j
  BY LeastExists
<1> QED
  BY <1>1 DEF Least

(* A non-empty bounded set of naturals has a greatest element.             *)
LEMMA GreatestIsGreatest ==
  ASSUME NEW b \in Nat, NEW S \in SUBSET (0..b), S # {}
  PROVE  Greatest(S) \in S /\ \A j \in S : Greatest(S) >= j
<1> DEFINE T == {b - i : i \in S}
<1>0. \A i \in S : i \in Nat /\ i <= b /\ b - i \in Nat
  OBVIOUS
<1>1. T \in SUBSET Nat /\ T # {}
  <2>1. \A n \in T : n \in Nat
    BY <1>0
  <2>2. PICK i \in S : TRUE
    OBVIOUS
  <2>3. b - i \in T
    BY <2>2
  <2> QED
    BY <2>1, <2>3
<1>2. PICK m \in T : \A n \in T : m <= n
  BY <1>1, LeastExists
<1>3. PICK i \in S : m = b - i
  BY <1>2
<1>4. \A j \in S : b - j \in T
  OBVIOUS
<1>5. ASSUME NEW j \in S
      PROVE  i >= j
  <2>1. m <= b - j
    BY <1>2, <1>4
  <2> QED
    BY <1>0, <1>3, <2>1
<1>6. \E k \in S : \A j \in S : k >= j
  BY <1>5
<1> QED
  BY <1>6 DEF Greatest

(* The types of what the loop computes with.                               *)
LEMMA Types ==
  ASSUME TypeOK
  PROVE  /\ text \in Seq(Char) /\ Len(text) \in Nat
         /\ opts.target \in Nat \ {0} /\ opts.overlap \in Nat
         /\ opts.maxChunks \in Nat \ {0}
         /\ Step \in Nat \ {0} /\ Step = opts.target - opts.overlap
         /\ start \in Nat /\ Len(chunks) \in Nat
<1>1. text \in Seq(Char)
  BY ChunkingAssumption DEF TypeOK
<1>2. opts \in [target : Nat \ {0}, overlap : Nat, maxChunks : Nat \ {0}]
       /\ opts.overlap < opts.target
  BY ChunkingAssumption DEF TypeOK
<1> QED
  BY <1>1, <1>2 DEF TypeOK, Step

(* The end of a chunk lies behind its start, in the text and in the target.*)
LEMMA EndBounds ==
  ASSUME TypeOK, start < Len(text)
  PROVE  /\ End \in Nat
         /\ start < End /\ End <= Len(text) /\ End <= start + opts.target
         /\ ShortWords => End = Len(text) \/ start + Step <= End
<1> USE Types
<1> DEFINE least == start + (opts.target * 6) \div 10 + 1
<1>1. HardEnd \in Nat /\ start < HardEnd /\ HardEnd <= Len(text)
       /\ HardEnd <= start + opts.target
       /\ (HardEnd < Len(text) => HardEnd = start + opts.target)
  BY DEF HardEnd
<1>2. (opts.target * 6) \div 10 \in Nat
  <2>1. \A m \in Nat : (m * 6) \div 10 \in Nat
    OBVIOUS
  <2>2. opts.target \in Nat
    OBVIOUS
  <2> QED
    BY <2>1, <2>2, Zenon
<1>3. least \in Nat /\ start < least
  <2>1. \A s, m \in Nat : s + m + 1 \in Nat /\ s < s + m + 1
    OBVIOUS
  <2>2. start \in Nat
    OBVIOUS
  <2> QED
    BY <1>2, <2>1, <2>2, Zenon
<1>4. Breaks \in SUBSET (0..HardEnd) /\ \A i \in Breaks : start < i /\ i <= HardEnd
  <2>1. Breaks \subseteq least..HardEnd
    BY DEF Breaks
  <2>2. \A s, l, h \in Nat : s < l => \A i \in l..h : i \in 0..h /\ s < i /\ i <= h
    OBVIOUS
  <2>3. start \in Nat /\ HardEnd \in Nat
    BY <1>1
  <2> HIDE DEF least
  <2>4. \A i \in least..HardEnd : i \in 0..HardEnd /\ start < i /\ i <= HardEnd
    BY <1>3, <2>2, <2>3, Zenon
  <2> QED
    BY <2>1, <2>4, Zenon
<1>5. CASE Breaks = {}
  <2>1. End = HardEnd
    BY <1>5 DEF End
  <2> QED
    BY <1>1, <2>1
<1>6. CASE Breaks # {}
  <2>1. End = Greatest(Breaks)
    BY <1>6 DEF End
  <2>2. End \in Breaks /\ \A j \in Breaks : End >= j
    BY <1>1, <1>4, <1>6, <2>1, GreatestIsGreatest
  <2>3. End \in Nat /\ start < End /\ End <= HardEnd
    BY <1>1, <1>4, <2>2
  <2>4. HardEnd = start + opts.target /\ HardEnd < Len(text)
    BY <1>1, <1>6 DEF Breaks
  <2>5. ASSUME ShortWords
        PROVE  start + Step <= End
    <3>1. HardEnd - opts.overlap \in Offset /\ (HardEnd - opts.overlap) + opts.overlap < Len(text)
      BY <2>4, SMTT(20) DEF Offset
    <3>2. PICK k \in (HardEnd - opts.overlap)..((HardEnd - opts.overlap) + opts.overlap) : IsBlank(k)
      BY <2>5, <3>1 DEF ShortWords
    <3>3. k \in Nat /\ start + Step <= k /\ k <= HardEnd
      BY <2>4, <3>2, SMTT(20)
    <3>4. CASE least <= k
      <4>1. k \in Breaks
        BY <1>1, <1>3, <2>4, <3>2, <3>3, <3>4 DEF Breaks
      <4> QED
        BY <2>2, <2>3, <3>3, <4>1
    <3>5. CASE k < least
      <4>1. least <= End
        BY <1>3, <2>2, <2>3 DEF Breaks
      <4> QED
        BY <1>3, <2>3, <3>3, <3>5, <4>1
    <3> QED
      BY <1>3, <3>3, <3>4, <3>5
  <2> QED
    BY <1>1, <2>3, <2>5
<1> QED
  BY <1>5, <1>6

(* Trimming: a chunk spans exactly from its first to its last ink.         *)
LEMMA ContentBounds ==
  ASSUME TypeOK, start < Len(text), Content # {}
  PROVE  /\ Least(Content) \in Nat /\ Greatest(Content) \in Nat
         /\ start <= Least(Content) /\ Least(Content) <= Greatest(Content)
         /\ Greatest(Content) < End
         /\ \A i \in Content : Least(Content) <= i /\ i <= Greatest(Content)
<1>1. End \in Nat /\ start < End /\ start \in Nat
  BY EndBounds, Types
<1>2. Content \in SUBSET (0..End) /\ Content \in SUBSET Nat
       /\ \A i \in Content : start <= i /\ i < End
  BY <1>1 DEF Content, Ink
<1>3. Least(Content) \in Content /\ \A j \in Content : Least(Content) <= j
  BY <1>2, LeastIsLeast
<1>4. Greatest(Content) \in Content /\ \A j \in Content : Greatest(Content) >= j
  BY <1>1, <1>2, GreatestIsGreatest
<1> QED
  BY <1>1, <1>2, <1>3, <1>4

(* Initially nothing is cut.                                               *)
LEMMA ChunkingInitInv == Init => ChunkingInv
<1> SUFFICES ASSUME Init PROVE ChunkingInv
  OBVIOUS
<1>1. TypeOK
  BY DEF Init, TypeOK
<1>2. Len(chunks) = 0 /\ start = 0
  BY DEF Init
<1>3. ChunksBounded
  BY <1>2 DEF ChunksBounded
<1>4. text # <<>> => 0 < Len(text)
  BY <1>1, Types
<1>5. text = <<>> => Len(text) = 0
  OBVIOUS
<1>6. Ink(0, 0) = {}
  BY DEF Ink
<1>7. Covered = 0
  BY <1>2, <1>5 DEF Init, Covered
<1>8. KeptSoFar
  BY <1>6, <1>7 DEF KeptSoFar
<1>9. Len(chunks) * Step <= start
  BY <1>1, <1>2, Types
<1> QED
  BY <1>1, <1>2, <1>3, <1>4, <1>8, <1>9 DEF ChunkingInv, Init

(* Refusing changes nothing but the state.                                 *)
LEMMA RefuseInv ==
  ASSUME ChunkingInv, Refuse
  PROVE  ChunkingInv'
<1>1. text' = text /\ opts' = opts /\ start' = start /\ chunks' = chunks
       /\ state = "cutting" /\ state' = "refused" /\ Len(chunks) >= opts.maxChunks
  BY DEF Refuse
<1>2. TypeOK'
  BY <1>1 DEF ChunkingInv, TypeOK
<1>3. ChunksBounded'
  BY <1>1 DEF ChunkingInv, ChunksBounded
<1>4. Step' = Step
  BY <1>1 DEF Step
<1> QED
  BY <1>1, <1>2, <1>3, <1>4 DEF ChunkingInv, KeptSoFar

(* Cutting a chunk.                                                        *)
LEMMA CutInv ==
  ASSUME ChunkingInv, Cut
  PROVE  ChunkingInv'
<1> DEFINE new == [from |-> Least(Content), to |-> Greatest(Content) + 1]
<1>1. TypeOK /\ state = "cutting" /\ start < Len(text)
       /\ text' = text /\ opts' = opts /\ Len(chunks) * Step <= start
  BY DEF ChunkingInv, Cut
<1> USE Types
<1>2. chunks' = IF Content = {} THEN chunks ELSE Append(chunks, new)
  BY DEF Cut
<1>3. NextStart \in Nat /\ start + Step <= NextStart
       /\ (NextStart = start + Step \/ NextStart = End - opts.overlap)
  <2>1. End \in Nat /\ start + Step \in Nat /\ End - opts.overlap \in Int
    <3>1. End \in Nat
      BY <1>1, EndBounds, Zenon
    <3>2. start \in Nat /\ Step \in Nat /\ opts.overlap \in Nat
      BY <1>1, Types
    <3>3. \A a, b, e, v \in Nat : a + b \in Nat /\ e - v \in Int
      OBVIOUS
    <3> QED
      BY <3>1, <3>2, <3>3, Zenon
  <2>2. NextStart = IF start + Step > End - opts.overlap THEN start + Step
                    ELSE End - opts.overlap
    BY DEF NextStart, Larger
  <2>3. \A a \in Nat, b \in Int :
          LET n == IF a > b THEN a ELSE b IN n \in Nat /\ a <= n /\ (n = a \/ n = b)
    OBVIOUS
  <2> QED
    BY <2>1, <2>2, <2>3, Zenon
<1>4. \/ End < Len(text) /\ NextStart < Len(text) /\ start' = NextStart /\ state' = "cutting"
      \/ ~ (End < Len(text) /\ NextStart < Len(text)) /\ start' = start /\ state' = "done"
  BY <1>1 DEF Cut
<1>5. Content # {} => new \in [from : Nat, to : Nat]
  BY <1>1, ContentBounds
<1>6. chunks' \in Seq([from : Nat, to : Nat])
  <2>1. chunks \in Seq([from : Nat, to : Nat])
    BY <1>1 DEF TypeOK
  <2> HIDE DEF new
  <2>2. CASE Content = {}
    <3>1. chunks' = chunks
      BY <1>2, <2>2
    <3> QED
      BY <2>1, <3>1
  <2>3. CASE Content # {}
    <3>1. chunks' = Append(chunks, new) /\ new \in [from : Nat, to : Nat]
      BY <1>2, <1>5, <2>3
    <3> DEFINE Pair == [from : Nat, to : Nat]
    <3>2. chunks \in Seq(Pair) /\ new \in Pair
      BY <2>1, <3>1
    <3> HIDE DEF Pair
    <3>3. Append(chunks, new) \in Seq(Pair)
      BY <3>2
    <3> QED
      BY <3>1, <3>3 DEF Pair
  <2> QED
    BY <2>2, <2>3
<1>7. TypeOK'
  BY <1>1, <1>3, <1>4, <1>6 DEF TypeOK
<1>8. /\ \A n \in 1..Len(chunks) : chunks'[n] = chunks[n]
      /\ Len(chunks') \in {Len(chunks), Len(chunks) + 1}
      /\ Content = {} => chunks' = chunks
      /\ Content # {} => Len(chunks') = Len(chunks) + 1 /\ chunks'[Len(chunks) + 1] = new
  <2>1. chunks \in Seq([from : Nat, to : Nat])
    BY <1>1 DEF TypeOK
  <2> HIDE DEF new
  <2>2. CASE Content = {}
    BY <1>1, <1>2, <2>2
  <2>3. CASE Content # {}
    <3>1. chunks' = Append(chunks, new) /\ new \in [from : Nat, to : Nat]
      BY <1>2, <1>5, <2>3
    <3> QED
      BY <2>1, <2>3, <3>1
  <2> QED
    BY <2>2, <2>3
<1>9. ChunksBounded'
  <2> SUFFICES ASSUME NEW n \in 1..Len(chunks')
               PROVE  /\ 0 <= chunks'[n].from
                      /\ chunks'[n].from < chunks'[n].to
                      /\ chunks'[n].to <= Len(text)
                      /\ chunks'[n].to - chunks'[n].from <= opts.target
    BY <1>1 DEF ChunksBounded
  <2>1. CASE n \in 1..Len(chunks)
    BY <1>8, <2>1 DEF ChunkingInv, ChunksBounded
  <2>2. CASE n \notin 1..Len(chunks)
    <3>1. Content # {} /\ chunks'[n] = new
      BY <1>1, <1>8, <2>2
    <3>2. new.from = Least(Content) /\ new.to = Greatest(Content) + 1
      OBVIOUS
    <3>3. /\ Least(Content) \in Nat /\ Greatest(Content) \in Nat
          /\ start <= Least(Content) /\ Least(Content) <= Greatest(Content)
          /\ Greatest(Content) < End
      BY <1>1, <3>1, ContentBounds
    <3>4. End \in Nat /\ End <= Len(text) /\ End <= start + opts.target
      BY <1>1, EndBounds
    <3>5. start \in Nat /\ opts.target \in Nat /\ Len(text) \in Nat
      BY <1>1
    <3>6. chunks'[n].from = Least(Content) /\ chunks'[n].to = Greatest(Content) + 1
      BY <3>1, <3>2
    <3> HIDE DEF new
    <3> QED
      BY <3>3, <3>4, <3>5, <3>6
  <2> QED
    BY <2>1, <2>2
<1>10. state' # "done" => start' < Len(text)' /\ Len(chunks)' * Step' <= start'
  <2> SUFFICES ASSUME state' # "done"
               PROVE  start' < Len(text) /\ Len(chunks') * Step <= start'
    BY <1>1 DEF Step
  <2>1. start' = NextStart /\ NextStart < Len(text)
    BY <1>4
  <2>2. \A n, s \in Nat : (n + 1) * s = n * s + s
    OBVIOUS
  <2>3. Len(chunks') * Step <= Len(chunks) * Step + Step
    <3>1. (Len(chunks) + 1) * Step = Len(chunks) * Step + Step
      BY <1>1, <2>2
    <3> QED
      BY <1>1, <1>8, <3>1
  <2>4. Len(chunks') * Step \in Nat /\ Len(chunks) * Step \in Nat
    <3>1. \A n, s \in Nat : n * s \in Nat
      OBVIOUS
    <3>2. Step \in Nat /\ Len(chunks) \in Nat /\ Len(chunks') \in Nat
      BY <1>1, <1>8
    <3> QED
      BY <3>1, <3>2, Zenon
  <2>5. \A a, b, s, m, n \in Nat : b <= a + s /\ a <= m /\ m + s <= n => b <= n
    OBVIOUS
  <2>6. Step \in Nat /\ start \in Nat /\ NextStart \in Nat /\ start + Step <= NextStart
    BY <1>1, <1>3
  <2>7. Len(chunks) * Step <= start
    BY <1>1
  <2>8. Len(chunks') * Step <= NextStart
    BY <2>3, <2>4, <2>5, <2>6, <2>7, Zenon
  <2> QED
    BY <2>1, <2>8
<1>11. KeptSoFar'
  <2> SUFFICES ASSUME ShortWords, NEW i \in Ink(0, Covered')
               PROVE  Kept(i)'
    BY <1>1 DEF KeptSoFar, ShortWords, Offset, IsBlank, Ink
  <2>1. Covered' <= End /\ Covered' \in Nat
    BY <1>1, <1>3, <1>4, EndBounds, SMTT(20) DEF Covered
  <2>2. i \in Nat /\ i < End /\ ~ IsBlank(i)
    <3>1. End \in Nat
      BY <1>1, EndBounds
    <3>2. i \in 0..(Covered' - 1) /\ ~ IsBlank(i)
      BY DEF Ink
    <3>3. \A c, e \in Nat : i \in 0..(c - 1) /\ c <= e => i \in Nat /\ i < e
      OBVIOUS
    <3> QED
      BY <2>1, <3>1, <3>2, <3>3, Zenon
  <2>3. CASE i < start
    <3>1. i \in Ink(0, start)
      BY <1>1, <2>2, <2>3 DEF Ink
    <3>2. Kept(i)
      BY <1>1, <3>1 DEF ChunkingInv, KeptSoFar, Covered
    <3>3. PICK n \in 1..Len(chunks) : chunks[n].from <= i /\ i < chunks[n].to
      BY <3>2 DEF Kept
    <3>4. n \in 1..Len(chunks') /\ chunks'[n] = chunks[n]
      BY <1>1, <1>8, <3>3
    <3> QED
      BY <3>3, <3>4 DEF Kept
  <2>4. CASE start <= i
    <3>1. i \in Content
      BY <1>1, <2>2, <2>4, EndBounds DEF Content, Ink
    <3>2. Least(Content) <= i /\ i < Greatest(Content) + 1
      BY <1>1, <2>2, <3>1, ContentBounds
    <3>3. Len(chunks) + 1 \in 1..Len(chunks') /\ chunks'[Len(chunks) + 1] = new
      BY <1>1, <1>8, <3>1
    <3> QED
      BY <3>2, <3>3 DEF Kept
  <2> QED
    BY <1>1, <2>2, <2>3, <2>4
<1> QED
  BY <1>4, <1>7, <1>9, <1>10, <1>11 DEF ChunkingInv

(* The invariant holds throughout.                                         *)
THEOREM ChunkingInvariance == Spec => []ChunkingInv
<1>1. ChunkingInv /\ [Next]_vars => ChunkingInv'
  <2> SUFFICES ASSUME ChunkingInv, [Next]_vars PROVE ChunkingInv'
    OBVIOUS
  <2>1. CASE Cut
    BY <2>1, CutInv
  <2>2. CASE Refuse
    BY <2>2, RefuseInv
  <2>3. CASE UNCHANGED vars
    BY <2>3 DEF vars, ChunkingInv, TypeOK, ChunksBounded, KeptSoFar, ShortWords, Kept,
                Covered, Step, Ink, IsBlank, Offset
  <2> QED
    BY <2>1, <2>2, <2>3 DEF Next
<1> QED
  BY <1>1, ChunkingInitInv, PTL DEF Spec

(* The loop keeps its types.                                               *)
THEOREM ChunkingTypeCorrect == Spec => []TypeOK
<1>1. ChunkingInv => TypeOK
  BY DEF ChunkingInv
<1> QED
  BY <1>1, ChunkingInvariance, PTL

(* Every chunk has text, in the source, of no more than the target.        *)
THEOREM BoundedChunks == Spec => []ChunksBounded
<1>1. ChunkingInv => ChunksBounded
  BY DEF ChunkingInv
<1> QED
  BY <1>1, ChunkingInvariance, PTL

(* Only documents longer than maxChunks steps of the window are refused.   *)
THEOREM OnlyLongRefused == Spec => []RefusedOnlyIfLong
<1>1. ASSUME NEW a \in Nat, NEW b \in Nat, NEW c \in Nat, a <= b
      PROVE  a * c <= b * c
  <2>1. b * c = a * c + (b - a) * c /\ b - a \in Nat
    BY <1>1
  <2>2. (b - a) * c \in Nat /\ a * c \in Nat
    BY <2>1
  <2> QED
    BY <2>1, <2>2
<1>2. ChunkingInv => RefusedOnlyIfLong
  <2> SUFFICES ASSUME ChunkingInv, state = "refused"
               PROVE  Len(text) > opts.maxChunks * Step
    BY DEF RefusedOnlyIfLong
  <2>1. Len(chunks) * Step <= start /\ start < Len(text) /\ opts.maxChunks <= Len(chunks)
         /\ TypeOK
    BY Types DEF ChunkingInv
  <2>2. opts.maxChunks * Step <= Len(chunks) * Step
    BY <1>1, <2>1, Types
  <2>3. opts.maxChunks * Step \in Nat /\ Len(chunks) * Step \in Nat
    BY <2>1, Types
  <2> QED
    BY <2>1, <2>2, <2>3, Types, SMTT(20)
<1> QED
  BY <1>2, ChunkingInvariance, PTL

(* Text whose words are no longer than the overlap is kept whole.          *)
THEOREM ShortWordsAreKept == Spec => []ShortWordsKept
<1>1. ChunkingInv => ShortWordsKept
  BY DEF ChunkingInv, KeptSoFar, Covered, ShortWordsKept
<1> QED
  BY <1>1, ChunkingInvariance, PTL

-----------------------------------------------------------------------------
(* Together.                                                               *)

(* A step of a part is a step of its component; the others rest.           *)
LEMMA PartSteps ==
  ASSUME [RequestsNext]_requestsVars
  PROVE  /\ [GhlNext]_ghlVars /\ [WebhookNext]_webhookVars /\ [KeysNext]_keyVars
         /\ [AccessNext]_accessVars /\ [MarketingNext]_marketingVars
         /\ [BudgetNext]_budgetVars /\ [ComparisonNext]_comparisonVars
         /\ [ReportingNext]_reportingVars /\ [ConversationNext]_conversationVars
         /\ [EvidenceNext]_evidenceVars /\ [SettingsNext]_settingsVars
         /\ [KnowledgeNext]_knowledgeVars /\ [ChatNext]_chatVars /\ [Next]_vars
<1>1. CASE UNCHANGED requestsVars
  BY <1>1 DEF requestsVars
<1>2. CASE RequestsNext
  <2>1. \/ GhlNext /\ Only("ghl")
        \/ WebhookNext /\ Only("webhooks")
        \/ KeysNext /\ Only("keys")
        \/ AccessNext /\ Only("access")
        \/ MarketingNext /\ Only("marketing")
        \/ BudgetNext /\ Only("budget")
        \/ ComparisonNext /\ Only("comparison")
        \/ ReportingNext /\ Only("reporting")
        \/ ConversationNext /\ Only("conversation")
        \/ EvidenceNext /\ Only("evidence")
        \/ SettingsNext /\ Only("settings")
        \/ KnowledgeNext /\ Only("knowledge")
        \/ ChatNext /\ Only("chat")
        \/ Next /\ Only("chunking")
    BY <1>2 DEF RequestsNext, ReportingNext, EvidenceNext, SettingsNext
  <2>2. CASE GhlNext /\ Only("ghl")
    BY <2>2 DEF Only
  <2>3. CASE WebhookNext /\ Only("webhooks")
    BY <2>3 DEF Only
  <2>4. CASE KeysNext /\ Only("keys")
    BY <2>4 DEF Only
  <2>5. CASE AccessNext /\ Only("access")
    BY <2>5 DEF Only
  <2>6. CASE MarketingNext /\ Only("marketing")
    BY <2>6 DEF Only
  <2>7. CASE BudgetNext /\ Only("budget")
    BY <2>7 DEF Only
  <2>8. CASE ComparisonNext /\ Only("comparison")
    BY <2>8 DEF Only
  <2>9. CASE ReportingNext /\ Only("reporting")
    BY <2>9 DEF Only
  <2>10. CASE ConversationNext /\ Only("conversation")
    BY <2>10 DEF Only
  <2>11. CASE EvidenceNext /\ Only("evidence")
    BY <2>11 DEF Only
  <2>12. CASE SettingsNext /\ Only("settings")
    BY <2>12 DEF Only
  <2>13. CASE KnowledgeNext /\ Only("knowledge")
    BY <2>13 DEF Only
  <2>14. CASE ChatNext /\ Only("chat")
    BY <2>14 DEF Only
  <2>15. CASE Next /\ Only("chunking")
    BY <2>15 DEF Only
  <2> QED
    BY <2>1, <2>2, <2>3, <2>4, <2>5, <2>6, <2>7, <2>8, <2>9, <2>10, <2>11, <2>12, <2>13, <2>14,
       <2>15
<1> QED
  BY <1>1, <1>2

TenantsInv == GhlInv /\ WebhookInv /\ KeysInv /\ AccessInv /\ MarketingInv

LEMMA TenantsInitInv == RequestsInit => TenantsInv
BY GhlInitInv, WebhookInitInv, KeysInitInv, AccessInitInv, MarketingInitInv
DEF RequestsInit, TenantsInv

LEMMA TenantsStep == ASSUME TenantsInv, [RequestsNext]_requestsVars PROVE TenantsInv'
<1>1. /\ [GhlNext]_ghlVars /\ [WebhookNext]_webhookVars /\ [KeysNext]_keyVars
      /\ [AccessNext]_accessVars /\ [MarketingNext]_marketingVars
  BY PartSteps
<1>2. GhlInv'
  BY <1>1, GhlStep DEF TenantsInv
<1>3. WebhookInv'
  BY <1>1, WebhookStep DEF TenantsInv
<1>4. KeysInv'
  BY <1>1, KeysStep DEF TenantsInv
<1>5. AccessInv'
  BY <1>1, AccessStep DEF TenantsInv
<1>6. MarketingInv'
  BY <1>1, MarketingStep DEF TenantsInv
<1> QED
  BY <1>2, <1>3, <1>4, <1>5, <1>6 DEF TenantsInv

LEMMA TenantsInvImplies == TenantsInv => TenantsKeptApart
<1> SUFFICES ASSUME TenantsInv PROVE TenantsKeptApart
  OBVIOUS
<1>1. StateUsedOnce /\ ConnectedHasCredentials /\ CredentialsFit /\ PresentedOnce
  BY GhlInvImplies DEF TenantsInv, GhlIsSafe
<1>2. PublishedOnce /\ AcceptedIsPublished
  BY DEF TenantsInv, WebhookInv
<1>3. PublishedIsLive /\ KeysAccounted
  BY KeysInvImplies DEF TenantsInv
<1>4. OwnerRemains
  BY DEF TenantsInv, AccessInv
<1>5. VisitKeepsToken
  BY MarketingInvImplies DEF TenantsInv
<1> QED
  BY <1>1, <1>2, <1>3, <1>4, <1>5 DEF TenantsKeptApart

(* TenantsKeptApart of every part: what belongs to one organization stays  *)
(* with it, and what lets one in is used as it was issued.                 *)
THEOREM RequestsKeepTenantsApart == RequestsSpec => []TenantsKeptApart
<1>1. TenantsInv /\ [RequestsNext]_requestsVars => TenantsInv'
  BY TenantsStep
<1> QED
  BY <1>1, TenantsInitInv, TenantsInvImplies, PTL DEF RequestsSpec

(* StepsKeepTheirBounds of every part: a live mapping is not taken over,   *)
(* every location of an agency is tried, an event goes to the tenant its   *)
(* reader saw, and only a manager of sufficient role changes one.          *)
HookStep ==
  \A n \in Notification, o \in Tenant :
    published'[n][o] > published[n][o] =>
      \E d \in Delivery : /\ delivery[d].note = n
                          /\ delivery[d].tenant = o
                          /\ delivery[d].genuine
RoleStep ==
  \A u \in User \ {Dashboard} :
    member[u] # NotMember /\ member'[u] # member[u] =>
      member[u] # "capere_admin" /\ orgLock # NoManager

THEOREM RequestsKeepTheirBounds == RequestsSpec => StepsKeepTheirBounds
<1>1. TenantsInv /\ [RequestsNext]_requestsVars => TenantsInv'
  BY TenantsStep
<1>2. RequestsSpec => []TenantsInv
  BY <1>1, TenantsInitInv, PTL DEF RequestsSpec
<1>3. TenantsInv /\ [RequestsNext]_requestsVars => [MappingStep]_ghlVars /\ [TriedStep]_ghlVars
  BY PartSteps, MappingKeeps, EachIsTried DEF TenantsInv
<1>4. TenantsInv /\ [RequestsNext]_requestsVars => [HookStep]_webhookVars
  BY PartSteps, PublishesForReader DEF TenantsInv, HookStep
<1>5. TenantsInv /\ [RequestsNext]_requestsVars => [RoleStep]_accessVars
  BY PartSteps, RolesChangeManaged DEF TenantsInv, RoleStep
<1>6. RequestsSpec => /\ [][MappingStep]_ghlVars /\ [][TriedStep]_ghlVars
                      /\ [][HookStep]_webhookVars /\ [][RoleStep]_accessVars
  BY <1>2, <1>3, <1>4, <1>5, PTL DEF RequestsSpec
<1>7. [][MappingStep]_ghlVars => LiveMappingKept
  BY DEF MappingStep, LiveMappingKept
<1>8. [][TriedStep]_ghlVars => EveryLocationTried
  BY DEF TriedStep, EveryLocationTried
<1>9. [][HookStep]_webhookVars => PublishedForReader
  BY DEF HookStep, PublishedForReader
<1>10. [][RoleStep]_accessVars => RolesAreManaged
  BY DEF RoleStep, RolesAreManaged
<1> QED
  BY <1>6, <1>7, <1>8, <1>9, <1>10 DEF StepsKeepTheirBounds

(* LimitsHold of every part: what costs money or has a limit stays within  *)
(* it, up to what the overlap of requests allows.                          *)
THEOREM RequestsKeepLimits == RequestsSpec => []LimitsHold
<1> DEFINE LimitsInv == BudgetInv /\ ComparisonInv /\ DraftInv
<1>1. RequestsInit => LimitsInv
  BY BudgetInitInv, ComparisonInitInv, DraftInitInv DEF RequestsInit
<1>2. LimitsInv /\ [RequestsNext]_requestsVars => LimitsInv'
  <2> SUFFICES ASSUME LimitsInv, [RequestsNext]_requestsVars PROVE LimitsInv'
    OBVIOUS
  <2>1. /\ [BudgetNext]_budgetVars /\ [ComparisonNext]_comparisonVars
        /\ [ReportingNext]_reportingVars
    BY PartSteps
  <2>2. BudgetInv'
    BY <2>1, BudgetStep
  <2>3. ComparisonInv'
    BY <2>1, ComparisonStep
  <2>4. DraftInv'
    BY <2>1, DraftStep
  <2> QED
    BY <2>2, <2>3, <2>4
<1>3. LimitsInv => LimitsHold
  <2>1. BudgetInv => OvershootBounded /\ AlertedWhenCrossed /\ NotifiedOnce
    BY BudgetInvImplies
  <2>2. ComparisonInv => CompetitorsWithinLimit /\ MetricsOfDomain /\ OpportunitiesAreLatest
    BY ComparisonInvImplies
  <2>3. DraftInv => DraftPaidOnce
    BY DEF DraftInv, DraftPaidOnce
  <2> QED
    BY <2>1, <2>2, <2>3 DEF LimitsHold
<1> HIDE DEF LimitsInv
<1> QED
  BY <1>1, <1>2, <1>3, PTL DEF RequestsSpec

(* What users and models are told, in every part.                          *)
ToldInv ==
  /\ ConversationInv /\ ChatInv /\ EvidenceInv /\ KnowledgeInv
  /\ SettingsInv /\ ReportingInv

LEMMA ToldInitInv == RequestsInit => ToldInv
BY ConversationInitInv, ChatInitInv, EvidenceInitInv, KnowledgeInitInv, SettingsInitInv,
   ReportingInitInv
DEF RequestsInit, ToldInv

LEMMA ToldStep == ASSUME ToldInv, [RequestsNext]_requestsVars PROVE ToldInv'
<1>1. /\ [ConversationNext]_conversationVars /\ [ChatNext]_chatVars
      /\ [EvidenceNext]_evidenceVars /\ [KnowledgeNext]_knowledgeVars
      /\ [SettingsNext]_settingsVars /\ [ReportingNext]_reportingVars
  BY PartSteps
<1>2. ConversationInv'
  BY <1>1, ConversationStep DEF ToldInv
<1>3. ChatInv'
  BY <1>1, ChatStep DEF ToldInv
<1>4. EvidenceInv'
  BY <1>1, EvidenceStep DEF ToldInv
<1>5. KnowledgeInv'
  BY <1>1, KnowledgeStep DEF ToldInv
<1>6. SettingsInv'
  BY <1>1, SettingsStep DEF ToldInv
<1>7. ReportingInv'
  BY <1>1, ReportingStep DEF ToldInv
<1> QED
  BY <1>2, <1>3, <1>4, <1>5, <1>6, <1>7 DEF ToldInv

LEMMA ToldInvImplies ==
  ASSUME ToldInv
  PROVE  /\ ConversationTypeOK /\ ChatTypeOK /\ EvidenceTypeOK /\ KnowledgeTypeOK
         /\ SettingsTypeOK /\ ReportingTypeOK
         /\ RoundsAreValid /\ TranscriptWellFormed /\ SourcesWereRead /\ GroundedIsFormatted
         /\ StreamEndsWell /\ DialogueIsClients /\ VerdictIsRight
         /\ ComparesLikeWithLike /\ CompleteIsComplete /\ OffersWereRead
         /\ SilenceMeansSearched /\ ToldWhatItMayKnow /\ FlagIsRecent /\ PromptIsComplete
         /\ WindowIsOneReading /\ PositionIsAverage
<1>1. /\ ConversationInv /\ ChatInv /\ EvidenceInv /\ KnowledgeInv
      /\ SettingsInv /\ ReportingInv
  BY DEF ToldInv
<1> QED
  BY <1>1, ConversationInvImplies, ChatInvImplies, EvidenceInvImplies, KnowledgeInvImplies,
     SettingsInvImplies, ReportingInvImplies

(* RequestsTypeOK of every part: every component's variables keep their    *)
(* types and shapes, and what their definitions tie together.              *)
THEOREM RequestsTypeCorrect == RequestsSpec => []RequestsTypeOK
<1> DEFINE AllInv == TenantsInv /\ BudgetInv /\ ComparisonInv /\ ToldInv
<1>1. RequestsInit => AllInv
  BY TenantsInitInv, BudgetInitInv, ComparisonInitInv, ToldInitInv DEF RequestsInit
<1>2. AllInv /\ [RequestsNext]_requestsVars => AllInv'
  <2> SUFFICES ASSUME AllInv, [RequestsNext]_requestsVars PROVE AllInv'
    OBVIOUS
  <2>1. [BudgetNext]_budgetVars /\ [ComparisonNext]_comparisonVars
    BY PartSteps
  <2>2. BudgetInv' /\ ComparisonInv'
    BY <2>1, BudgetStep, ComparisonStep
  <2>3. TenantsInv' /\ ToldInv'
    BY TenantsStep, ToldStep
  <2> QED
    BY <2>2, <2>3
<1>3. AllInv => RequestsTypeOK
  <2> SUFFICES ASSUME AllInv PROVE RequestsTypeOK
    OBVIOUS
  <2>1. GhlTypeOK
    BY GhlInvImplies DEF TenantsInv, GhlIsSafe
  <2>2. WebhookTypeOK /\ AccessTypeOK
    BY DEF TenantsInv, WebhookInv, AccessInv
  <2>3. KeysTypeOK /\ MarketingTypeOK
    BY KeysInvImplies, MarketingInvImplies DEF TenantsInv
  <2>4. BudgetTypeOK /\ ComparisonTypeOK
    BY BudgetInvImplies, ComparisonInvImplies
  <2> QED
    BY <2>1, <2>2, <2>3, <2>4, ToldInvImplies DEF RequestsTypeOK
<1> HIDE DEF AllInv
<1> QED
  BY <1>1, <1>2, <1>3, PTL DEF RequestsSpec

(* AnswersAreHonest of every part: what a user or the model is told is     *)
(* what the system knows.                                                  *)
THEOREM RequestsAnswerHonestly == RequestsSpec => []AnswersAreHonest
<1> DEFINE HonestInv == MarketingInv /\ ToldInv
<1>1. RequestsInit => HonestInv
  BY MarketingInitInv, ToldInitInv DEF RequestsInit
<1>2. HonestInv /\ [RequestsNext]_requestsVars => HonestInv'
  BY PartSteps, MarketingStep, ToldStep
<1>3. HonestInv => AnswersAreHonest
  BY MarketingInvImplies, ToldInvImplies DEF AnswersAreHonest
<1> HIDE DEF HonestInv
<1> QED
  BY <1>1, <1>2, <1>3, PTL DEF RequestsSpec

(* The chunks of every part: a behaviour of MCRequests is one of Chunking. *)
THEOREM RequestsChunkAlike ==
  RequestsSpec => [](TypeOK /\ ChunksBounded /\ RefusedOnlyIfLong /\ ShortWordsKept)
<1>1. RequestsInit => Init
  BY DEF RequestsInit
<1>2. [RequestsNext]_requestsVars => [Next]_vars
  BY PartSteps
<1>3. RequestsSpec => Spec
  BY <1>1, <1>2, PTL DEF RequestsSpec, Spec
<1> QED
  BY <1>3, ChunkingTypeCorrect, BoundedChunks, OnlyLongRefused, ShortWordsAreKept, PTL
===============================================================================
