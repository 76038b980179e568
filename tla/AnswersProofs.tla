---------------------------- MODULE AnswersProofs ----------------------------
(***************************************************************************)
(* Proofs about what users and models are told: the SEO page and content   *)
(* drafts of Reporting, Knowledge, Evidence, ChatEndpoint, Settings and    *)
(* Conversation, each for every interleaving of its actions and every      *)
(* value of its constants.                                                 *)
(*                                                                         *)
(* Each component has an inductive invariant (ReportingInv, KnowledgeInv,  *)
(* EvidenceInv, ChatInv, SettingsInv, ConversationInv) that holds of its   *)
(* initial states (...InitInv), is kept by its steps (...Step) and implies *)
(* its properties (...InvImplies).                                         *)
(***************************************************************************)
EXTENDS Conversation, Knowledge, Evidence, ChatEndpoint, Settings, Reporting,
        WellFoundedInduction, FiniteSetTheorems, SequenceTheorems, TLAPS

-----------------------------------------------------------------------------
(* Numbers and recursive functions.                                        *)

(* Every non-empty set of naturals has a least element.                    *)
LEMMA LeastExists ==
  ASSUME NEW S \in SUBSET Nat, S # {}
  PROVE  \E e \in S : \A d \in S : e <= d
<1>1. PICK e \in S : \A d \in S : ~ (<<d, e>> \in OpToRel(<, Nat))
  BY NatLessThanWellFounded, WFMin, Zenon
<1>2. \A c, d \in Nat : <<c, d>> \in OpToRel(<, Nat) <=> c < d
  BY DEF OpToRel
<1>3. \A d \in S : ~ (d < e)
  BY <1>1, <1>2, Zenon
<1> QED
  BY <1>3

-----------------------------------------------------------------------------
(* The SEO page.                                                           *)

(* A total is the last of its partial sums.                                *)
LEMMA TotalIs ==
  ASSUME NEW n \in Nat, NEW s \in [1..n -> Nat]
  PROVE  \E t \in [0..n -> Nat] :
           t[0] = 0 /\ (\A i \in 1..n : t[i] = t[i - 1] + s[i]) /\ Total(s) = t[n]
<1>1. Len(s) = n
  OBVIOUS
<1> DEFINE Sums(m, t) == t \in [0..m -> Nat] /\ t[0] = 0
                         /\ \A i \in 1..m : t[i] = t[i - 1] + s[i]
           Bad == {m \in 0..n : ~ \E t : Sums(m, t)}
<1>2. Bad = {}
  <2> SUFFICES ASSUME Bad # {} PROVE FALSE
    OBVIOUS
  <2>1. PICK m \in Bad : \A d \in Bad : m <= d
    <3>1. Bad \in SUBSET Nat
      OBVIOUS
    <3> HIDE DEF Bad
    <3> QED
      BY <3>1, LeastExists
  <2>2. CASE m = 0
    <3>1. Sums(0, [i \in 0..0 |-> 0])
      OBVIOUS
    <3> QED
      BY <3>1, <2>1, <2>2
  <2>3. CASE m # 0
    <3>1. m \in 0..n /\ m - 1 \in 0..n /\ m - 1 < m
      BY <2>1, <2>3
    <3>2. m - 1 \notin Bad
      <4> HIDE DEF Bad
      <4> QED
        BY <2>1, <3>1
    <3>3. PICK t : Sums(m - 1, t)
      <4> HIDE DEF Sums
      <4> QED
        BY <3>1, <3>2
    <3> DEFINE u == [i \in 0..m |-> IF i = m THEN t[m - 1] + s[m] ELSE t[i]]
    <3>4. m \in 1..n /\ t[m - 1] \in Nat /\ s[m] \in Nat
      BY <2>3, <3>1, <3>3
    <3>5. u \in [0..m -> Nat] /\ u[0] = 0
      BY <3>3, <3>4
    <3>6. \A i \in 1..m : u[i] = u[i - 1] + s[i]
      <4>1. u[m] = t[m - 1] + s[m] /\ \A i \in 0..m - 1 : u[i] = t[i]
        BY <3>4
      <4>2. \A i \in 1..m - 1 : t[i] = t[i - 1] + s[i]
        BY <3>3
      <4> HIDE DEF u
      <4>3. ASSUME NEW i \in 1..m PROVE u[i] = u[i - 1] + s[i]
        <5>1. CASE i = m
          BY <3>4, <4>1, <5>1
        <5>2. CASE i # m
          <6>1. i \in 0..m - 1 /\ i - 1 \in 0..m - 1 /\ i \in 1..m - 1
            BY <3>4, <5>2
          <6> QED
            BY <4>1, <4>2, <6>1
        <5> QED
          BY <5>1, <5>2
      <4> QED
        BY <4>3
    <3> HIDE DEF u
    <3>7. Sums(m, u)
      BY <3>5, <3>6, Zenon
    <3> HIDE DEF Sums
    <3> QED
      BY <3>7, <2>1
  <2> QED
    BY <2>2, <2>3
<1>3. PICK t : Sums(n, t)
  <2> HIDE DEF Sums
  <2>1. n \in 0..n
    OBVIOUS
  <2> QED
    BY <1>2, <2>1
<1>4. t = [i \in 0..n |-> IF i = 0 THEN 0 ELSE t[i - 1] + s[i]]
  BY <1>3
<1> DEFINE Rec(g) == g = [i \in 0..n |-> IF i = 0 THEN 0 ELSE g[i - 1] + s[i]]
           c == CHOOSE g : Rec(g)
<1>5. Rec(c)
  BY <1>4
<1>6. Total(s) = c[n]
  BY <1>1 DEF Total
<1> DEFINE Diff == {i \in 0..n : c[i] # t[i]}
<1>7. Diff = {}
  <2> SUFFICES ASSUME Diff # {} PROVE FALSE
    OBVIOUS
  <2>1. PICK m \in Diff : \A d \in Diff : m <= d
    <3>1. Diff \in SUBSET Nat
      OBVIOUS
    <3> HIDE DEF Diff
    <3> QED
      BY <3>1, LeastExists
  <2> HIDE DEF c
  <2>2. m # 0
    BY <2>1, <1>3, <1>5
  <2>3. m - 1 \in 0..n /\ c[m - 1] = t[m - 1]
    BY <2>1, <2>2
  <2>4. c[m] = c[m - 1] + s[m] /\ t[m] = t[m - 1] + s[m]
    BY <2>1, <2>2, <1>3, <1>5
  <2> QED
    BY <2>1, <2>3, <2>4
<1> HIDE DEF c
<1>8. Total(s) = t[n]
  BY <1>6, <1>7
<1> QED
  BY <1>3, <1>8

LEMMA ProductsCompare ==
  ASSUME NEW p \in 1..3, NEW q \in 1..3, p <= q, NEW w \in Nat
  PROVE  p * w <= q * w /\ p * w \in Nat
<1>1. 1 * w = w /\ 2 * w = w + w /\ 3 * w = w + w + w
  OBVIOUS
<1>2. p \in {1, 2, 3} /\ q \in {1, 2, 3}
  OBVIOUS
<1> QED
  BY <1>1, <1>2

LEMMA ProductsAdd ==
  ASSUME NEW p \in 1..3, NEW v \in Nat, NEW w \in Nat
  PROVE  p * (v + w) = p * v + p * w
<1>1. p = 1 \/ p = 2 \/ p = 3
  OBVIOUS
<1> QED
  BY <1>1

LEMMA AverageMoves ==
  ASSUME NEW low \in 1..3, NEW p \in 1..3, NEW high \in 1..3, low <= p, p <= high,
         NEW t \in Nat, NEW u \in Nat, NEW s \in Nat, low * t <= u, u <= high * t
  PROVE  low * (t + s) <= u + p * s /\ u + p * s <= high * (t + s)
<1>1. PICK a \in Nat : a = low * t
  BY ProductsCompare
<1>2. PICK b \in Nat : b = low * s
  BY ProductsCompare
<1>3. PICK c \in Nat : c = p * s
  BY ProductsCompare
<1>4. PICK d \in Nat : d = high * t
  BY ProductsCompare
<1>5. PICK e \in Nat : e = high * s
  BY ProductsCompare
<1>6. low * (t + s) = a + b /\ high * (t + s) = d + e
  BY <1>1, <1>2, <1>4, <1>5, ProductsAdd
<1>7. b <= c /\ c <= e
  BY <1>2, <1>3, <1>5, ProductsCompare
<1> QED
  BY <1>1, <1>3, <1>4, <1>6, <1>7

LEMMA LeastAndGreatest ==
  ASSUME NEW n \in Nat \ {0}, NEW p \in [1..n -> 1..3]
  PROVE  \E i, j \in 1..n : \A k \in 1..n : p[i] <= p[k] /\ p[k] <= p[j]
<1>1. PICK i \in 1..n : \A k \in 1..n : p[i] <= p[k]
  <2> DEFINE P == {p[k] : k \in 1..n}
  <2>1. P \in SUBSET Nat
    OBVIOUS
  <2>2. p[1] \in P
    OBVIOUS
  <2>3. PICK e \in P : \A d \in P : e <= d
    <3> HIDE DEF P
    <3> QED
      BY <2>1, <2>2, LeastExists
  <2>4. PICK i \in 1..n : e = p[i]
    OBVIOUS
  <2>5. \A k \in 1..n : p[k] \in P
    OBVIOUS
  <2> HIDE DEF P
  <2> QED
    BY <2>3, <2>4, <2>5
<1>2. PICK j \in 1..n : \A k \in 1..n : p[k] <= p[j]
  <2> DEFINE P == {3 - p[k] : k \in 1..n}
  <2>1. P \in SUBSET Nat
    OBVIOUS
  <2>2. 3 - p[1] \in P
    OBVIOUS
  <2>3. PICK e \in P : \A d \in P : e <= d
    <3> HIDE DEF P
    <3> QED
      BY <2>1, <2>2, LeastExists
  <2>4. PICK j \in 1..n : e = 3 - p[j]
    OBVIOUS
  <2>5. \A k \in 1..n : 3 - p[k] \in P
    OBVIOUS
  <2>6. \A k \in 1..n : p[k] \in 1..3
    OBVIOUS
  <2> HIDE DEF P
  <2>7. \A k \in 1..n : 3 - p[j] <= 3 - p[k]
    BY <2>3, <2>4, <2>5
  <2> SUFFICES ASSUME NEW k \in 1..n PROVE p[k] <= p[j]
    OBVIOUS
  <2>8. PICK a \in 1..3, b \in 1..3 : a = p[k] /\ b = p[j]
    BY <2>6
  <2>9. 3 - b <= 3 - a
    BY <2>7, <2>8
  <2>10. a <= b
    BY <2>9
  <2> QED
    BY <2>8, <2>10
<1> QED
  BY <1>1, <1>2

LEMMA Averages ==
  ASSUME NEW n \in Nat \ {0}, NEW p \in [1..n -> 1..3], NEW s \in [1..n -> 1..2],
         NEW t \in [0..n -> Nat], NEW u \in [0..n -> Nat], t[0] = 0, u[0] = 0,
         \A i \in 1..n : t[i] = t[i - 1] + s[i],
         \A i \in 1..n : u[i] = u[i - 1] + p[i] * s[i]
  PROVE  /\ t[n] > 0
         /\ \E i, j \in 1..n : p[i] * t[n] <= u[n] /\ u[n] <= p[j] * t[n]
<1>1. PICK i \in 1..n, j \in 1..n : \A k \in 1..n : p[i] <= p[k] /\ p[k] <= p[j]
  BY LeastAndGreatest
<1> DEFINE Bounded(m) == p[i] * t[m] <= u[m] /\ u[m] <= p[j] * t[m]
           Bad == {m \in 0..n : ~ Bounded(m)}
<1>2. Bad = {}
  <2> SUFFICES ASSUME Bad # {} PROVE FALSE
    OBVIOUS
  <2>1. PICK m \in Bad : \A d \in Bad : m <= d
    <3>1. Bad \in SUBSET Nat
      OBVIOUS
    <3> HIDE DEF Bad
    <3> QED
      BY <3>1, LeastExists
  <2>2. m \in 0..n /\ ~ Bounded(m)
    OBVIOUS
  <2>3. m # 0
    <3>1. \A k \in 1..3 : k * 0 = 0
      OBVIOUS
    <3>2. p[i] * 0 = 0 /\ p[j] * 0 = 0
      BY <3>1
    <3> QED
      BY <2>2, <3>2
  <2>4. m \in 1..n /\ m - 1 \in 0..n /\ m - 1 < m
    BY <2>2, <2>3
  <2>5. Bounded(m - 1)
    <3>1. m - 1 \notin Bad
      <4> HIDE DEF Bad
      <4> QED
        BY <2>1, <2>4
    <3> HIDE DEF Bounded
    <3> QED
      BY <2>4, <3>1
  <2>6. /\ t[m - 1] \in Nat /\ u[m - 1] \in Nat /\ s[m] \in Nat
        /\ p[i] \in 1..3 /\ p[m] \in 1..3 /\ p[j] \in 1..3
        /\ p[i] <= p[m] /\ p[m] <= p[j]
    <3>1. t[m - 1] \in Nat /\ u[m - 1] \in Nat
      BY <2>4
    <3>2. s[m] \in 1..2 /\ p[m] \in 1..3
      BY <2>4
    <3>3. p[i] \in 1..3 /\ p[j] \in 1..3
      OBVIOUS
    <3>4. s[m] \in Nat
      <4>1. \A c \in 1..2 : c \in Nat
        OBVIOUS
      <4> QED
        BY <4>1, <3>2, Zenon
    <3>5. p[i] <= p[m] /\ p[m] <= p[j]
      BY <2>4, <1>1
    <3> QED
      BY <3>1, <3>2, <3>3, <3>4, <3>5
  <2>7. /\ p[i] * (t[m - 1] + s[m]) <= u[m - 1] + p[m] * s[m]
        /\ u[m - 1] + p[m] * s[m] <= p[j] * (t[m - 1] + s[m])
    BY <2>5, <2>6, AverageMoves
  <2>8. t[m] = t[m - 1] + s[m] /\ u[m] = u[m - 1] + p[m] * s[m]
    BY <2>4
  <2> QED
    BY <2>2, <2>7, <2>8
<1>3. Bounded(n)
  <2>1. n \in 0..n
    OBVIOUS
  <2> HIDE DEF Bounded
  <2> QED
    BY <1>2, <2>1
<1>4. t[n] > 0
  <2>1. n \in 1..n /\ n - 1 \in 0..n
    OBVIOUS
  <2>2. t[n] = t[n - 1] + s[n] /\ s[n] \in 1..2 /\ t[n - 1] \in Nat
    BY <2>1
  <2> QED
    BY <2>2
<1> QED
  BY <1>3, <1>4

(* The weighted positions of days that have impressions, beside the best   *)
(* and the worst of them.                                                  *)
LEMMA AverageIsBetween ==
  ASSUME NEW n \in Nat \ {0}, NEW rows \in [1..n -> QueryRow]
  PROVE  /\ Impressions(rows) \in Nat /\ Weighted(rows) \in Nat
         /\ (\A i \in 1..n : rows[i].impressions > 0) =>
              \E i, j \in 1..n :
                /\ rows[i].position * AtLeastOne(Impressions(rows)) <= Weighted(rows)
                /\ Weighted(rows) <= rows[j].position * AtLeastOne(Impressions(rows))
<1> DEFINE p == [i \in 1..n |-> rows[i].position]
           s == [i \in 1..n |-> rows[i].impressions]
           w == [i \in 1..n |-> rows[i].position * Weight(rows[i])]
<1>1. \A i \in 1..n : /\ rows[i].impressions \in 0..2 /\ rows[i].position \in 1..3
                      /\ Weight(rows[i]) \in Nat
                      /\ rows[i].impressions > 0 => Weight(rows[i]) = rows[i].impressions
  BY DEF QueryRow, Weight, AtLeastOne
<1>2. p \in [1..n -> 1..3] /\ s \in [1..n -> Nat]
  BY <1>1
<1>3. w \in [1..n -> Nat]
  <2>1. ASSUME NEW i \in 1..n PROVE rows[i].position * Weight(rows[i]) \in Nat
    <3>1. rows[i].position \in 1..3 /\ Weight(rows[i]) \in Nat
      BY <1>1
    <3> QED
      BY <3>1, ProductsCompare
  <2> QED
    BY <2>1
<1>4. Impressions(rows) = Total(s) /\ Weighted(rows) = Total(w)
  BY DEF Impressions, Weighted
<1>5. \A i \in 1..n : /\ p[i] = rows[i].position /\ s[i] = rows[i].impressions
                      /\ w[i] = rows[i].position * Weight(rows[i])
  OBVIOUS
<1> HIDE DEF p, s, w
<1>6. PICK t \in [0..n -> Nat] :
        t[0] = 0 /\ (\A i \in 1..n : t[i] = t[i - 1] + s[i]) /\ Total(s) = t[n]
  BY <1>2, TotalIs
<1>7. PICK u \in [0..n -> Nat] :
        u[0] = 0 /\ (\A i \in 1..n : u[i] = u[i - 1] + w[i]) /\ Total(w) = u[n]
  BY <1>3, TotalIs
<1>8. t[n] \in Nat /\ u[n] \in Nat
  BY <1>6, <1>7
<1>9. ASSUME \A i \in 1..n : rows[i].impressions > 0
      PROVE  \E i, j \in 1..n :
                /\ rows[i].position * AtLeastOne(t[n]) <= u[n]
                /\ u[n] <= rows[j].position * AtLeastOne(t[n])
  <2>1. \A i \in 1..n : w[i] = p[i] * s[i]
    BY <1>9, <1>1, <1>5
  <2>2. s = [i \in 1..n |-> s[i]]
    BY <1>2
  <2>3. ASSUME NEW i \in 1..n PROVE s[i] \in 1..2
    <3>1. s[i] = rows[i].impressions /\ rows[i].impressions > 0 /\ rows[i].impressions \in 0..2
      BY <1>9, <1>1, <1>5
    <3> QED
      BY <3>1
  <2>4. s \in [1..n -> 1..2]
    BY <2>2, <2>3
  <2>5. \A i \in 1..n : u[i] = u[i - 1] + p[i] * s[i]
    BY <2>1, <1>7
  <2>6. t[n] > 0 /\ \E i, j \in 1..n : p[i] * t[n] <= u[n] /\ u[n] <= p[j] * t[n]
    BY <2>4, <2>5, <1>2, <1>6, <1>7, Averages
  <2>7. AtLeastOne(t[n]) = t[n]
    BY <2>6, <1>8 DEF AtLeastOne
  <2> QED
    BY <2>6, <2>7, <1>5
<1> QED
  BY <1>4, <1>6, <1>7, <1>8, <1>9

-----------------------------------------------------------------------------
(* The mart and the refreshes.                                             *)
Busy == {r \in Refresher : refresher[r].at # "idle"}
InWindow(d, end) == d \in WindowStart(end)..end
GoneOf(f) == IF f.at = "deleted" THEN f.gone ELSE {}

(* A metric was stored when it was read, and a stored day stays.           *)
MetricFits(x) ==
  /\ x.dimension = "" /\ x.source \in DailySource
  /\ x.dashboard \in DashboardsOf(x.source)
  /\ ReadOn(x.day, x) /\ daily[<<x.source, x.day>>] # 0
RowFits(x) ==
  /\ x.day \in Day /\ x.until \in Day /\ x.reading \in 1..moves
  /\ x.name = "sessions" => MetricFits(x)
RowsFit ==
  /\ \A m \in mart : RowFits(m)
  /\ \A r \in Busy : \A n \in refresher[r].rows :
       RowFits(n) /\ n.reading = refresher[r].reading /\ n.until = refresher[r].end

(* Readings are numbered in their order, in which the windows advance.     *)
RefreshesFit ==
  /\ refresher = [r \in Refresher |-> refresher[r]]
  /\ \A r \in Refresher : refresher[r].at \in {"idle", "read", "ready", "deleted"}
  /\ \A r \in Busy : /\ refresher[r].end \in Day /\ refresher[r].end <= today
                     /\ refresher[r].reading \in 1..moves
                     /\ \A x \in GoneOf(refresher[r]) :
                          /\ x.day >= WindowStart(refresher[r].end)
                          /\ x.reading \in 1..moves
  /\ \A r, s \in Busy : refresher[r].reading < refresher[s].reading
                          => refresher[r].end <= refresher[s].end

(* A reading is one refresh's, whose rows nobody sees before it ends.      *)
ReadingsApart ==
  \A r \in Busy :
    /\ \A s \in Busy : refresher[r].reading = refresher[s].reading => r = s
    /\ \A m \in mart : m.reading # refresher[r].reading
    /\ \A s \in Busy : \A x \in GoneOf(refresher[s]) : x.reading # refresher[r].reading

(* What was there to read is there for every later reading.                *)
Has(rows, x) == \E y \in rows : Identity(y) = Identity(x)
LaterReadsToo ==
  \A a \in Busy :
    /\ \A r \in Busy : \A n \in Metrics(refresher[r].rows) :
         n.reading < refresher[a].reading /\ InWindow(n.day, refresher[a].end)
           => Has(refresher[a].rows, n)
    /\ \A m \in Metrics(mart) :
         m.reading < refresher[a].reading /\ InWindow(m.day, refresher[a].end)
           => Has(refresher[a].rows, m)

(* A refresh whose rows would stand beside those of a later reading meets  *)
(* the identity of one: the later one wrote it, and whoever deleted that   *)
(* deleted the other row too, or began behind it and wrote it again.       *)
Outlasts(x, m) ==
  \A s \in Busy : x \in GoneOf(refresher[s]) =>
    m \in refresher[s].gone \/ m.day < WindowStart(refresher[s].end)
EarlierMeetsIt ==
  \A r \in Busy : \A n \in Metrics(refresher[r].rows) : \A m \in Metrics(mart) :
    m \notin GoneOf(refresher[r]) /\ refresher[r].reading < m.reading
      /\ InWindow(m.day, refresher[r].end) /\ InWindow(n.day, m.until)
      => \E x \in mart : /\ x \notin GoneOf(refresher[r])
                         /\ Identity(x) = Identity(n) /\ Outlasts(x, m)

LEMMA RefresherMoves ==
  ASSUME NEW r \in Refresher, NEW to, RefreshesFit, RefresherGoes(r, to)
  PROVE  /\ refresher' = [s \in Refresher |-> refresher'[s]]
         /\ refresher'[r] = to
         /\ \A s \in Refresher : s # r => refresher'[s] = refresher[s]
BY DEF RefreshesFit, RefresherGoes

LEMMA DailyRowIs ==
  ASSUME NEW end, NEW reading, NEW x \in DailyRows(end, reading), WindowDays \in Nat
  PROVE  /\ x.name = "sessions" /\ x.dimension = "" /\ x.reading = reading /\ x.until = end
         /\ x.source \in DailySource /\ x.day \in Day /\ x.dashboard \in DashboardsOf(x.source)
         /\ daily[<<x.source, x.day>>] # 0 /\ InWindow(x.day, end)
<1>1. PICK y \in (DailySource \X Day) \X {"seo", "executive", "revenue"} :
        /\ daily[y[1]] # 0 /\ y[2] \in DashboardsOf(y[1][1])
        /\ y[1][2] \in WindowStart(end)..end
        /\ x = [dashboard |-> y[2], day |-> y[1][2], name |-> "sessions", dimension |-> "",
                source |-> y[1][1], value |-> daily[y[1]], from |-> y[1][1],
                reading |-> reading, until |-> end]
  BY DEF DailyRows
<1>2. y[1] = <<y[1][1], y[1][2]>> /\ y[1][1] \in DailySource /\ y[1][2] \in Day
  OBVIOUS
<1> QED
  BY <1>1, <1>2 DEF InWindow

LEMMA DailyRowOf ==
  ASSUME NEW end, NEW reading, NEW n, MetricFits(n), n.name = "sessions",
         n.day \in Day, InWindow(n.day, end)
  PROVE  Has(DailyRows(end, reading), n)
<1> DEFINE y == <<<<n.source, n.day>>, n.dashboard>>
<1>1. n.dashboard \in {"seo", "executive", "revenue"}
  BY DEF MetricFits, DashboardsOf
<1>2. y \in (DailySource \X Day) \X {"seo", "executive", "revenue"}
  BY <1>1 DEF MetricFits
<1>3. daily[y[1]] # 0 /\ y[2] \in DashboardsOf(y[1][1]) /\ y[1][2] \in WindowStart(end)..end
  BY DEF MetricFits, InWindow
<1> DEFINE x == [dashboard |-> y[2], day |-> y[1][2], name |-> "sessions", dimension |-> "",
                source |-> y[1][1], value |-> daily[y[1]], from |-> y[1][1],
                reading |-> reading, until |-> end]
<1>4. x \in DailyRows(end, reading)
  BY <1>2, <1>3 DEF DailyRows
<1>5. Identity(x) = Identity(n)
  BY DEF Identity, MetricFits
<1> QED
  BY <1>4, <1>5 DEF Has

LEMMA InsightRowIs ==
  ASSUME NEW end, NEW reading, NEW x \in InsightRows(end, reading)
  PROVE  /\ x.name = "active_insights" /\ x.day = end /\ x.until = end
         /\ x.reading = reading
<1>1. PICK i \in active :
        x = [dashboard |-> InsightDashboard(i.category), day |-> end,
             name |-> "active_insights", dimension |-> i.severity,
             source |-> "insights_engine", from |-> i.category, reading |-> reading,
             until |-> end, value |-> Cardinality({j \in active : j.category = i.category
                                           /\ j.severity = i.severity})]
  BY DEF InsightRows
<1> QED
  BY <1>1

MartCore ==
  /\ today \in Day /\ moves \in 0..MaxMoves /\ daily \in [DailySource \X Day -> 0..2]
  /\ RefreshesFit /\ RowsFit /\ ReadingsApart /\ LaterReadsToo /\ EarlierMeetsIt

LEMMA RowFitsStill ==
  ASSUME moves \in Int, moves' \in Int, moves <= moves',
         \A k \in DailySource \X Day : daily[k] # 0 => daily'[k] # 0
  PROVE  \A x : RowFits(x) => RowFits(x)'
<1> TAKE x
<1> HAVE RowFits(x)
<1>1. x.reading \in 1..moves'
  BY DEF RowFits
<1>2. x.name = "sessions" => MetricFits(x)'
  <2> HAVE x.name = "sessions"
  <2>1. <<x.source, x.day>> \in DailySource \X Day
    BY DEF RowFits, MetricFits
  <2> QED
    BY <2>1 DEF RowFits, MetricFits, ReadOn, WindowStart
<1> QED
  BY <1>1, <1>2 DEF RowFits

(* A step that leaves the mart and the refreshes alone.                    *)
LEMMA OthersKeepMart ==
  ASSUME MartCore, today' \in Day, today <= today', moves' \in 0..MaxMoves, moves <= moves',
         daily' \in [DailySource \X Day -> 0..2],
         \A k \in DailySource \X Day : daily[k] # 0 => daily'[k] # 0,
         UNCHANGED <<mart, refresher>>
  PROVE  MartCore'
<1> USE DEF MartCore
<1>1. Busy' = Busy /\ moves \in Int /\ moves' \in Int /\ today \in Int /\ today' \in Int
  BY DEF Busy, Day
<1>2. \A x : RowFits(x) => RowFits(x)'
  BY <1>1, RowFitsStill
<1>3. RefreshesFit'
  BY <1>1 DEF RefreshesFit, Busy, GoneOf, WindowStart, Day
<1>4. RowsFit'
  BY <1>1, <1>2 DEF RowsFit, Busy
<1>5. ReadingsApart'
  BY <1>1 DEF ReadingsApart, Busy, GoneOf
<1>6. LaterReadsToo'
  BY <1>1 DEF LaterReadsToo, Busy, GoneOf, Metrics, InWindow, WindowStart, Has, Identity
<1>7. EarlierMeetsIt'
  BY <1>1 DEF EarlierMeetsIt, Outlasts, Busy, GoneOf, Metrics, InWindow, WindowStart, Has, Identity
<1> QED
  BY <1>3, <1>4, <1>5, <1>6, <1>7

(* A refresh begins: its reading is the last one so far.                   *)
LEMMA BeginsKeepsMart ==
  ASSUME MartCore, NEW r \in Refresher, ReadDaily(r), UNCHANGED <<mart, daily, today>>
  PROVE  MartCore'
<1> USE DEF MartCore
<1>0. PICK rd : rd = moves'
  OBVIOUS
<1> DEFINE rows == DailyRows(today, rd)
<1>1. PICK to : to = [at |-> "read", end |-> today, reading |-> moves', rows |-> rows]
  OBVIOUS
<1>2. to.at = "read" /\ to.end = today /\ to.reading = moves' /\ to.rows = rows
  BY <1>1
<1>3. RefresherGoes(r, to) /\ refresher[r].at = "idle"
  BY <1>0, <1>1 DEF ReadDaily
<1>4. /\ refresher' = [s \in Refresher |-> refresher'[s]]
      /\ refresher'[r] = to
      /\ \A s \in Refresher : s # r => refresher'[s] = refresher[s]
  BY <1>3, RefresherMoves
<1>5. moves' = moves + 1 /\ moves' \in 1..MaxMoves /\ moves \in Int /\ MaxMoves \in Nat
      /\ today \in Int /\ WindowDays \in Nat
  BY ReportingAssumption DEF ReadDaily, Moved, Day
<1>6. /\ Busy' = Busy \union {r} /\ r \notin Busy
      /\ \A s \in Busy : refresher'[s] = refresher[s] /\ s # r
      /\ GoneOf(to) = {}
  BY <1>2, <1>3, <1>4 DEF Busy, GoneOf
<1>7. \A x : RowFits(x) => RowFits(x)'
  BY <1>5, RowFitsStill
<1>8. ASSUME NEW n \in rows PROVE RowFits(n)' /\ n.reading = moves' /\ n.until = today
  <2>1. /\ n.name = "sessions" /\ n.dimension = "" /\ n.reading = rd /\ n.until = today
        /\ n.source \in DailySource /\ n.day \in Day /\ n.dashboard \in DashboardsOf(n.source)
        /\ daily[<<n.source, n.day>>] # 0 /\ InWindow(n.day, today)
    BY <1>5, DailyRowIs DEF rows
  <2>2. ReadOn(n.day, n)
    BY <2>1 DEF ReadOn, InWindow
  <2>3. MetricFits(n)'
    BY <2>1, <2>2 DEF MetricFits, ReadOn, WindowStart
  <2>4. n.reading \in 1..moves' /\ n.until \in Day
    <3>1. n.until \in Day
      BY <2>1
    <3>2. moves' \in 1..moves'
      BY <1>5
    <3> QED
      BY <3>1, <3>2, <2>1, <1>0
  <2> QED
    BY <2>1, <2>3, <2>4, <1>0 DEF RowFits
<1> HIDE DEF rows
<1>9. RefreshesFit'
  <2>1. \A s \in Refresher : refresher'[s].at \in {"idle", "read", "ready", "deleted"}
    BY <1>2, <1>4 DEF RefreshesFit
  <2>2. \A s \in Busy' : /\ refresher'[s].end \in Day /\ refresher'[s].end <= today
                     /\ refresher'[s].reading \in 1..moves'
                     /\ \A x \in GoneOf(refresher'[s]) :
                          /\ x.day >= WindowStart(refresher'[s].end)
                          /\ x.reading \in 1..moves'
    <3> TAKE s \in Busy'
    <3>1. CASE s = r
      BY <3>1, <1>2, <1>4, <1>5, <1>6
    <3>2. CASE s \in Busy
      BY <3>2, <1>5, <1>6 DEF RefreshesFit
    <3> QED
      BY <3>1, <3>2, <1>6
  <2>3. \A q, s \in Busy' : refresher'[q].reading < refresher'[s].reading
                          => refresher'[q].end <= refresher'[s].end
    <3> TAKE q, s \in Busy'
    <3>1. CASE s = r /\ q = r
      BY <3>1, <1>2, <1>4, <1>5
    <3>2. CASE s = r /\ q \in Busy
      BY <3>2, <1>2, <1>4, <1>5, <1>6 DEF RefreshesFit
    <3>3. CASE s \in Busy /\ q = r
      <4>1. refresher'[s].reading \in 1..moves /\ refresher'[q].reading = moves'
        BY <3>3, <1>2, <1>4, <1>6 DEF RefreshesFit
      <4> QED
        BY <4>1, <1>5
    <3>4. CASE s \in Busy /\ q \in Busy
      BY <3>4, <1>6 DEF RefreshesFit
    <3> QED
      BY <3>1, <3>2, <3>3, <3>4, <1>6
  <2> QED
    BY <1>4, <2>1, <2>2, <2>3 DEF RefreshesFit, WindowStart, GoneOf, Busy
<1>10. RowsFit'
  <2>1. \A m \in mart' : RowFits(m)'
    BY <1>7 DEF RowsFit
  <2>2. \A s \in Busy' : \A n \in refresher'[s].rows :
       RowFits(n)' /\ n.reading = refresher'[s].reading /\ n.until = refresher'[s].end
    <3> TAKE s \in Busy'
    <3>1. CASE s = r
      BY <3>1, <1>2, <1>4, <1>8
    <3>2. CASE s \in Busy
      BY <3>2, <1>6, <1>7 DEF RowsFit
    <3> QED
      BY <3>1, <3>2, <1>6
  <2> QED
    BY <2>1, <2>2 DEF RowsFit
<1>11. ReadingsApart'
  <2>1. \A m \in mart : m.reading \in 1..moves
    BY DEF RowsFit, RowFits
  <2>2. \A s \in Busy : refresher[s].reading \in 1..moves
    BY DEF RefreshesFit
  <2>3. \A s \in Busy : \A x \in GoneOf(refresher[s]) : x.reading # moves'
    BY <1>5 DEF RefreshesFit
  <2> QED
    BY <2>1, <2>2, <2>3, <1>2, <1>4, <1>5, <1>6 DEF ReadingsApart
<1>12. \A s \in Busy : refresher[s].reading \in 1..moves
  BY DEF RefreshesFit
<1>13. LaterReadsToo'
  <2>1. ASSUME NEW n, RowFits(n), n.name = "sessions", InWindow(n.day, today)
        PROVE  Has(rows, n)
    <3>1. n.day \in Day /\ MetricFits(n)
      BY <2>1 DEF RowFits
    <3> QED
      BY <2>1, <3>1, DailyRowOf DEF rows
  <2>2. ASSUME NEW a \in Busy', NEW q \in Busy', NEW n \in Metrics(refresher'[q].rows),
               n.reading < refresher'[a].reading, InWindow(n.day, refresher'[a].end)
        PROVE  Has(refresher'[a].rows, n)
    <3>1. n \in refresher'[q].rows /\ n.name = "sessions"
      BY <2>2 DEF Metrics
    <3>2. n.reading = refresher'[q].reading
      BY <2>2, <3>1, <1>10 DEF RowsFit
    <3>3. CASE a = r /\ q = r
      BY <3>3, <3>2, <2>2, <1>2, <1>4, <1>5
    <3>4. CASE a = r /\ q \in Busy
      <4>1. RowFits(n)
        BY <3>4, <3>1, <1>6 DEF RowsFit
      <4> QED
        BY <3>4, <4>1, <3>1, <2>1, <2>2, <1>2, <1>4
    <3>5. CASE a \in Busy /\ q = r
      <4>1. refresher'[a].reading \in 1..moves /\ n.reading = moves'
        BY <3>5, <3>2, <1>2, <1>4, <1>6, <1>12
      <4> QED
        BY <4>1, <2>2, <1>5
    <3>6. CASE a \in Busy /\ q \in Busy
      BY <3>6, <2>2, <1>6 DEF LaterReadsToo
    <3> QED
      BY <3>3, <3>4, <3>5, <3>6, <1>6
  <2>3. ASSUME NEW a \in Busy', NEW n \in Metrics(mart),
               n.reading < refresher'[a].reading, InWindow(n.day, refresher'[a].end)
        PROVE  Has(refresher'[a].rows, n)
    <3>1. n \in mart /\ n.name = "sessions" /\ RowFits(n)
      BY <2>3 DEF Metrics, RowsFit
    <3>2. CASE a = r
      BY <3>2, <3>1, <2>1, <2>3, <1>2, <1>4
    <3>3. CASE a \in Busy
      BY <3>3, <2>3, <1>6 DEF LaterReadsToo
    <3> QED
      BY <3>2, <3>3, <1>6
  <2> QED
    BY <2>2, <2>3 DEF LaterReadsToo, Has, Identity, InWindow, WindowStart, Metrics
<1>14. EarlierMeetsIt'
  <2> SUFFICES ASSUME NEW q \in Busy', NEW n \in Metrics(refresher'[q].rows),
                      NEW m \in Metrics(mart), m \notin GoneOf(refresher'[q]),
                      refresher'[q].reading < m.reading,
                      InWindow(m.day, refresher'[q].end), InWindow(n.day, m.until)
               PROVE  \E x \in mart : /\ x \notin GoneOf(refresher'[q])
                                      /\ Identity(x) = Identity(n)
                                      /\ Outlasts(x, m)'
    BY DEF EarlierMeetsIt, GoneOf, Identity, InWindow, WindowStart, Metrics
  <2>1. m.reading \in 1..moves
    BY DEF Metrics, RowsFit, RowFits
  <2>2. q \in Busy
    BY <2>1, <1>2, <1>4, <1>5, <1>6
  <2>3. PICK x \in mart : /\ x \notin GoneOf(refresher[q])
                          /\ Identity(x) = Identity(n) /\ Outlasts(x, m)
    BY <2>2, <1>6 DEF EarlierMeetsIt
  <2>4. Outlasts(x, m)'
    <3>1. \A s \in Busy' : x \in GoneOf(refresher'[s]) => s \in Busy
      BY <1>2, <1>4, <1>6
    <3> QED
      BY <3>1, <2>3, <1>6 DEF Outlasts, GoneOf, WindowStart
  <2> QED
    BY <2>2, <2>3, <2>4, <1>6
<1> QED
  BY <1>5, <1>9, <1>10, <1>11, <1>13, <1>14

(* A refresh reads on or deletes: its metrics stay, and what it deletes is *)
(* in the mart.                                                            *)
LEMMA GoesOnKeepsMart ==
  ASSUME MartCore, NEW r \in Busy, NEW to, RefresherGoes(r, to),
         to.at \in {"read", "ready", "deleted"},
         to.end = refresher[r].end, to.reading = refresher[r].reading,
         refresher[r].rows \subseteq to.rows,
         \A n \in to.rows : n \in refresher[r].rows
           \/ (RowFits(n) /\ n.name # "sessions" /\ n.reading = to.reading /\ n.until = to.end),
         \A x \in GoneOf(to) : x \in mart /\ x.day >= WindowStart(to.end),
         UNCHANGED <<mart, daily, today, moves>>
  PROVE  /\ RefreshesFit' /\ RowsFit' /\ ReadingsApart' /\ LaterReadsToo'
         /\ r \in Refresher /\ Busy' = Busy
         /\ refresher'[r] = to /\ \A s \in Refresher : s # r => refresher'[s] = refresher[s]
         /\ \A q \in Busy : Metrics(refresher'[q].rows) = Metrics(refresher[q].rows)
<1> USE DEF MartCore
<1>1. r \in Refresher /\ refresher[r].at # "idle"
  BY DEF Busy
<1>2. /\ refresher' = [s \in Refresher |-> refresher'[s]]
      /\ refresher'[r] = to
      /\ \A s \in Refresher : s # r => refresher'[s] = refresher[s]
  BY <1>1, RefresherMoves
<1>3. Busy' = Busy
  BY <1>1, <1>2 DEF Busy
<1>4. \A s \in Busy : /\ s \in Refresher
                      /\ refresher'[s].end = refresher[s].end
                      /\ refresher'[s].reading = refresher[s].reading
                      /\ refresher[s].rows \subseteq refresher'[s].rows
  BY <1>2 DEF Busy
<1>5. \A q \in Busy : Metrics(refresher'[q].rows) = Metrics(refresher[q].rows)
  BY <1>2, <1>4 DEF Metrics
<1>6. RefreshesFit'
  <2>1. \A s \in Refresher : refresher'[s].at \in {"idle", "read", "ready", "deleted"}
    BY <1>2 DEF RefreshesFit
  <2>2. \A x \in GoneOf(to) : x.reading \in 1..moves
    BY DEF RowsFit, RowFits
  <2>3. \A s \in Busy : \A x \in GoneOf(refresher'[s]) :
          x.day >= WindowStart(refresher[s].end) /\ x.reading \in 1..moves
    <3> TAKE s \in Busy
    <3>1. CASE s = r
      BY <3>1, <2>2, <1>2
    <3>2. CASE s # r
      BY <3>2, <1>2, <1>4 DEF RefreshesFit
    <3> QED
      BY <3>1, <3>2
  <2> QED
    BY <2>1, <2>3, <1>2, <1>3, <1>4 DEF RefreshesFit, GoneOf, WindowStart
<1>7. RowsFit'
  <2>1. \A x : RowFits(x)' <=> RowFits(x)
    BY DEF RowFits, MetricFits, ReadOn, WindowStart
  <2>2. \A q \in Busy : \A n \in refresher'[q].rows :
          RowFits(n) /\ n.reading = refresher'[q].reading /\ n.until = refresher'[q].end
    <3> TAKE q \in Busy
    <3>1. CASE q = r
      BY <3>1, <1>2 DEF RowsFit
    <3>2. CASE q # r
      BY <3>2, <1>2, <1>4 DEF RowsFit
    <3> QED
      BY <3>1, <3>2
  <2> QED
    BY <2>1, <2>2, <1>3 DEF RowsFit
<1>8. ReadingsApart'
  <2>1. \A q \in Busy : \A s \in Busy : \A x \in GoneOf(refresher'[s]) :
          x.reading # refresher[q].reading
    BY <1>2, <1>4 DEF ReadingsApart
  <2> QED
    BY <2>1, <1>3, <1>4 DEF ReadingsApart, GoneOf
<1>9. LaterReadsToo'
  <2>1. \A x : \A a \in Busy : Has(refresher[a].rows, x) => Has(refresher'[a].rows, x)
    BY <1>4 DEF Has
  <2> QED
    BY <2>1, <1>3, <1>4, <1>5
    DEF LaterReadsToo, InWindow, WindowStart, Metrics, Has, Identity
<1> QED
  BY <1>1, <1>2, <1>3, <1>5, <1>6, <1>7, <1>8, <1>9

LEMMA ReadInsightsKeepsMart ==
  ASSUME MartCore, NEW r \in Refresher, ReadInsights(r)
  PROVE  MartCore'
<1> USE DEF MartCore
<1> DEFINE f == refresher[r]
<1>1. PICK to : to = [f EXCEPT !.at = "ready", !.rows = @ \union InsightRows(f.end, f.reading)]
  OBVIOUS
<1>2. f.at = "read" /\ RefresherGoes(r, to) /\ UNCHANGED <<mart, daily, today, moves>>
  BY <1>1 DEF ReadInsights
<1>3. r \in Busy
  BY <1>2 DEF Busy
<1>4. /\ to.at = "ready" /\ to.end = f.end /\ to.reading = f.reading
      /\ to.rows = f.rows \union InsightRows(f.end, f.reading)
  BY <1>1
<1>5. GoneOf(to) = {} /\ GoneOf(f) = {}
  BY <1>2, <1>4 DEF GoneOf
<1>6. \A n \in InsightRows(f.end, f.reading) :
        RowFits(n) /\ n.name # "sessions" /\ n.reading = f.reading /\ n.until = f.end
  <2> TAKE n \in InsightRows(f.end, f.reading)
  <2>1. /\ n.name = "active_insights" /\ n.day = f.end /\ n.until = f.end
        /\ n.reading = f.reading
    BY InsightRowIs
  <2> QED
    BY <2>1, <1>3 DEF RowFits, RefreshesFit
<1>7. /\ RefreshesFit' /\ RowsFit' /\ ReadingsApart' /\ LaterReadsToo'
      /\ Busy' = Busy
      /\ refresher'[r] = to /\ \A s \in Refresher : s # r => refresher'[s] = refresher[s]
      /\ \A q \in Busy : Metrics(refresher'[q].rows) = Metrics(refresher[q].rows)
  <2>1. \A n \in to.rows : n \in f.rows
          \/ (RowFits(n) /\ n.name # "sessions" /\ n.reading = to.reading /\ n.until = to.end)
    <3> TAKE n \in to.rows
    <3>1. CASE n \in f.rows
      BY <3>1
    <3>2. CASE n \in InsightRows(f.end, f.reading)
      BY <3>2, <1>4, <1>6
    <3> QED
      BY <3>1, <3>2, <1>4
  <2>2. f.rows \subseteq to.rows /\ to.at \in {"read", "ready", "deleted"}
    BY <1>4
  <2>3. \A x \in GoneOf(to) : x \in mart /\ x.day >= WindowStart(to.end)
    BY <1>4, <1>5, <1>6
  <2> QED
    BY <2>1, <2>2, <2>3, <1>2, <1>3, <1>4, GoesOnKeepsMart
<1>8. \A s \in Busy : /\ GoneOf(refresher'[s]) = GoneOf(refresher[s])
                      /\ refresher'[s].end = refresher[s].end
                      /\ refresher'[s].reading = refresher[s].reading
  BY <1>4, <1>5, <1>7 DEF Busy
<1>9. \A x, m : Outlasts(x, m) => Outlasts(x, m)'
  <2>1. \A s \in Busy : \A x \in GoneOf(refresher[s]) : refresher'[s].gone = refresher[s].gone
    BY <1>2, <1>7 DEF GoneOf, Busy
  <2> QED
    BY <2>1, <1>7, <1>8 DEF Outlasts, GoneOf, WindowStart
<1>10. EarlierMeetsIt'
  BY <1>2, <1>7, <1>8, <1>9
  DEF EarlierMeetsIt, InWindow, WindowStart, Metrics, Has, Identity, GoneOf
<1> QED
  BY <1>2, <1>7, <1>10

LEMMA DeleteWindowKeepsMart ==
  ASSUME MartCore, NEW r \in Refresher, DeleteWindow(r)
  PROVE  MartCore'
<1> USE DEF MartCore
<1> DEFINE f == refresher[r]
<1>1. PICK to : to = [at |-> "deleted", end |-> f.end, reading |-> f.reading, rows |-> f.rows,
        gone |-> Deleted(f),
        behind |-> {s \in Refresher : /\ refresher[s].at = "deleted"
                                      /\ refresher[s].gone \cap Deleted(f) # {}}]
  OBVIOUS
<1>2. f.at = "ready" /\ RefresherGoes(r, to) /\ UNCHANGED <<mart, daily, today, moves>>
  BY <1>1 DEF DeleteWindow
<1>3. r \in Busy
  BY <1>2 DEF Busy
<1>4. /\ to.at = "deleted" /\ to.end = f.end /\ to.reading = f.reading
      /\ to.rows = f.rows /\ to.gone = Deleted(f)
  BY <1>1
<1>5. GoneOf(to) = Deleted(f) /\ GoneOf(f) = {}
  BY <1>2, <1>4 DEF GoneOf
<1>6. \A x \in Deleted(f) : x \in mart /\ x.day >= WindowStart(f.end)
  BY DEF Deleted
<1>7. /\ RefreshesFit' /\ RowsFit' /\ ReadingsApart' /\ LaterReadsToo'
      /\ Busy' = Busy
      /\ refresher'[r] = to /\ \A s \in Refresher : s # r => refresher'[s] = refresher[s]
      /\ \A q \in Busy : Metrics(refresher'[q].rows) = Metrics(refresher[q].rows)
  <2>1. \A n \in to.rows : n \in f.rows
          \/ (RowFits(n) /\ n.name # "sessions" /\ n.reading = to.reading /\ n.until = to.end)
    BY <1>4
  <2>2. f.rows \subseteq to.rows /\ to.at \in {"read", "ready", "deleted"}
    BY <1>4
  <2>3. \A x \in GoneOf(to) : x \in mart /\ x.day >= WindowStart(to.end)
    BY <1>4, <1>5, <1>6
  <2> QED
    BY <2>1, <2>2, <2>3, <1>2, <1>3, <1>4, GoesOnKeepsMart
<1>8. ASSUME NEW x \in mart, NEW m \in mart, Outlasts(x, m) PROVE Outlasts(x, m)'
  <2>1. x \in Deleted(f) => m \in Deleted(f) \/ m.day < WindowStart(f.end)
    <3>1. m.day \in Int
      BY DEF RowsFit, RowFits, Day
    <3>2. f.end \in Int /\ WindowDays \in Int
      BY <1>3, ReportingAssumption DEF RefreshesFit, Day
    <3> QED
      BY <3>1, <3>2 DEF Deleted, WindowStart
  <2>2. \A s \in Busy : x \in GoneOf(refresher'[s]) =>
          m \in refresher'[s].gone \/ m.day < WindowStart(refresher'[s].end)
    BY <2>1, <1>4, <1>5, <1>7, <1>8 DEF Outlasts, Busy
  <2> QED
    BY <2>2, <1>7 DEF Outlasts, GoneOf, WindowStart
<1>9. EarlierMeetsIt'
  <2> SUFFICES ASSUME NEW q \in Busy, NEW n \in Metrics(refresher[q].rows),
                      NEW m \in Metrics(mart), m \notin GoneOf(refresher'[q]),
                      refresher'[q].reading < m.reading,
                      InWindow(m.day, refresher'[q].end), InWindow(n.day, m.until)
               PROVE  \E x \in mart : /\ x \notin GoneOf(refresher'[q])
                                      /\ Identity(x) = Identity(n)
                                      /\ Outlasts(x, m)'
    BY <1>2, <1>7 DEF EarlierMeetsIt, GoneOf, Identity, InWindow, WindowStart, Metrics
  <2>1. m \in mart
    BY DEF Metrics
  <2>2. q # r
    BY <2>1, <1>4, <1>5, <1>7 DEF Deleted, InWindow
  <2>3. refresher'[q] = refresher[q]
    BY <2>2, <1>7 DEF Busy
  <2>4. PICK x \in mart : /\ x \notin GoneOf(refresher[q])
                          /\ Identity(x) = Identity(n) /\ Outlasts(x, m)
    BY <2>3 DEF EarlierMeetsIt
  <2> QED
    BY <2>1, <2>3, <2>4, <1>8
<1> QED
  BY <1>2, <1>7, <1>9

(* A refresh ends.                                                         *)
LEMMA EndsBusy ==
  ASSUME RefreshesFit, NEW r \in Refresher, RefresherGoes(r, NotRunning)
  PROVE  /\ refresher' = [s \in Refresher |-> refresher'[s]]
         /\ refresher'[r] = NotRunning
         /\ \A s \in Refresher : s # r => refresher'[s] = refresher[s]
         /\ Busy' = Busy \ {r}
         /\ \A s \in Busy' : s \in Refresher /\ s # r /\ s \in Busy
                             /\ refresher'[s] = refresher[s]
<1>1. /\ refresher' = [s \in Refresher |-> refresher'[s]]
      /\ refresher'[r] = NotRunning
      /\ \A s \in Refresher : s # r => refresher'[s] = refresher[s]
  BY RefresherMoves
<1>2. Busy' = Busy \ {r}
  BY <1>1 DEF Busy, NotRunning
<1> QED
  BY <1>1, <1>2 DEF Busy

LEMMA EndsKeepRefreshes ==
  ASSUME RefreshesFit, NEW r \in Refresher, RefresherGoes(r, NotRunning),
         UNCHANGED <<today, moves>>
  PROVE  RefreshesFit'
<1>1. /\ refresher' = [s \in Refresher |-> refresher'[s]]
      /\ refresher'[r] = NotRunning
      /\ \A s \in Refresher : s # r => refresher'[s] = refresher[s]
      /\ \A s \in Busy' : s \in Refresher /\ s # r /\ s \in Busy
                          /\ refresher'[s] = refresher[s]
  BY EndsBusy
<1>2. \A s \in Refresher : refresher'[s].at \in {"idle", "read", "ready", "deleted"}
  BY <1>1 DEF RefreshesFit, NotRunning
<1> QED
  BY <1>1, <1>2 DEF RefreshesFit, GoneOf, WindowStart

LEMMA EndsKeepsMart ==
  ASSUME MartCore, NEW r \in Refresher, RefresherGoes(r, NotRunning),
         UNCHANGED <<mart, daily, today, moves>>
  PROVE  MartCore'
<1> USE DEF MartCore
<1>1. \A s \in Busy' : s \in Refresher /\ s # r /\ s \in Busy
                       /\ refresher'[s] = refresher[s]
  BY EndsBusy
<1>2. RefreshesFit'
  BY EndsKeepRefreshes
<1>3. RowsFit'
  <2>1. \A x : RowFits(x)' <=> RowFits(x)
    BY DEF RowFits, MetricFits, ReadOn, WindowStart
  <2> QED
    BY <2>1, <1>1 DEF RowsFit
<1>4. ReadingsApart'
  BY <1>1 DEF ReadingsApart, GoneOf
<1>5. LaterReadsToo'
  BY <1>1 DEF LaterReadsToo, InWindow, WindowStart, Metrics, Has, Identity
<1>6. \A x, m : Outlasts(x, m) => Outlasts(x, m)'
  BY <1>1 DEF Outlasts, GoneOf, WindowStart
<1>7. EarlierMeetsIt'
  BY <1>1, <1>6 DEF EarlierMeetsIt, InWindow, WindowStart, Metrics, Identity, GoneOf
<1> QED
  BY <1>2, <1>3, <1>4, <1>5, <1>7

(* A refresh commits: its rows replace those it deleted.                   *)
LEMMA CommitKeepsMart ==
  ASSUME MartCore, OneReading(mart), NEW r \in Refresher, refresher[r].at = "deleted",
         Accepts(refresher[r]),
         mart' = (mart \ refresher[r].gone) \union refresher[r].rows,
         RefresherGoes(r, NotRunning), UNCHANGED <<daily, today, moves>>
  PROVE  MartCore' /\ OneReading(mart')
<1> USE DEF MartCore
<1> DEFINE f == refresher[r]
<1>1. \A s \in Busy' : s \in Refresher /\ s # r /\ s \in Busy
                       /\ refresher'[s] = refresher[s]
  BY EndsBusy
<1>2. r \in Busy /\ GoneOf(f) = f.gone
  BY DEF Busy, GoneOf
<1>3. \A m \in mart' : m \in f.rows \/ (m \in mart /\ m \notin f.gone)
  OBVIOUS
<1>4. RefreshesFit'
  BY EndsKeepRefreshes
<1>5. \A n \in f.rows : RowFits(n) /\ n.reading = f.reading /\ n.until = f.end
  BY <1>2 DEF RowsFit
<1>6. RowsFit'
  <2>1. \A x : RowFits(x)' <=> RowFits(x)
    BY DEF RowFits, MetricFits, ReadOn, WindowStart
  <2>2. \A m \in mart' : RowFits(m)
    BY <1>3, <1>5 DEF RowsFit
  <2> QED
    BY <2>1, <2>2, <1>1 DEF RowsFit
<1>7. ReadingsApart'
  <2>1. \A q \in Busy' : refresher'[q].reading = refresher[q].reading
                         /\ refresher[q].reading # f.reading
    BY <1>1, <1>2 DEF ReadingsApart
  <2>2. \A q \in Busy' : \A m \in mart' : m.reading # refresher[q].reading
    BY <2>1, <1>1, <1>3, <1>5 DEF ReadingsApart
  <2> QED
    BY <2>1, <2>2, <1>1 DEF ReadingsApart, GoneOf
<1>8. LaterReadsToo'
  <2>1. \A a \in Busy' : \A m \in Metrics(mart') :
         m.reading < refresher[a].reading /\ InWindow(m.day, refresher[a].end)
           => Has(refresher[a].rows, m)
    <3> TAKE a \in Busy'
    <3> TAKE m \in Metrics(mart')
    <3>1. CASE m \in f.rows
      <4>1. m \in Metrics(f.rows)
        BY <3>1 DEF Metrics
      <4> QED
        BY <4>1, <1>1, <1>2 DEF LaterReadsToo
    <3>2. CASE m \in mart
      <4>1. m \in Metrics(mart)
        BY <3>2 DEF Metrics
      <4> QED
        BY <4>1, <1>1 DEF LaterReadsToo
    <3> QED
      BY <3>1, <3>2, <1>3 DEF Metrics
  <2> QED
    BY <2>1, <1>1 DEF LaterReadsToo, InWindow, WindowStart, Metrics, Has, Identity
<1>9. OneReading(mart')
  <2>1. ASSUME NEW m \in Metrics(mart), m \notin f.gone, NEW n \in Metrics(f.rows),
               ReadOn(m.day, n), ReadOn(n.day, m)
        PROVE  FALSE
    <3>1. /\ m \in mart \ f.gone /\ m.name = "sessions" /\ RowFits(m)
          /\ n \in f.rows /\ n.name = "sessions" /\ n.reading = f.reading /\ n.until = f.end
      BY <2>1, <1>5 DEF Metrics, RowsFit
    <3>2. InWindow(m.day, f.end) /\ InWindow(n.day, m.until)
      BY <2>1, <3>1 DEF ReadOn, InWindow
    <3>3. ~Clashing(f.rows, mart \ f.gone)
      BY DEF Accepts
    <3>4. CASE m.reading < f.reading
      <4>1. Has(f.rows, m)
        BY <2>1, <3>2, <3>4, <1>2 DEF LaterReadsToo
      <4> QED
        BY <4>1, <3>1, <3>3 DEF Has, Clashing
    <3>5. CASE f.reading < m.reading
      <4>1. PICK x \in mart : x \notin f.gone /\ Identity(x) = Identity(n)
        BY <2>1, <3>2, <3>5, <1>2 DEF EarlierMeetsIt
      <4> QED
        BY <4>1, <3>1, <3>3 DEF Clashing
    <3>6. m.reading # f.reading
      BY <2>1, <3>1, <1>2 DEF ReadingsApart
    <3>7. m.reading \in Int /\ f.reading \in Int
      BY <3>1, <1>2 DEF RowFits, RefreshesFit
    <3> QED
      BY <3>4, <3>5, <3>6, <3>7
  <2>2. \A m \in Metrics(mart') : m \in Metrics(f.rows) \/ (m \in Metrics(mart) /\ m \notin f.gone)
    BY <1>3 DEF Metrics
  <2>3. \A m, n \in Metrics(f.rows) : m.reading = n.reading
    BY <1>5 DEF Metrics
  <2> QED
    BY <2>1, <2>2, <2>3 DEF OneReading
<1>10. EarlierMeetsIt'
  <2> SUFFICES ASSUME NEW q \in Busy', NEW n \in Metrics(refresher[q].rows),
                      NEW m \in Metrics(mart'), m \notin GoneOf(refresher[q]),
                      refresher[q].reading < m.reading,
                      InWindow(m.day, refresher[q].end), InWindow(n.day, m.until)
               PROVE  \E x \in mart' : /\ x \notin GoneOf(refresher[q])
                                       /\ Identity(x) = Identity(n)
                                       /\ Outlasts(x, m)'
    BY <1>1 DEF EarlierMeetsIt, GoneOf, Identity, InWindow, WindowStart, Metrics
  <2>1. q \in Busy /\ q # r /\ q \in Refresher
    BY <1>1
  <2>2. /\ n \in refresher[q].rows /\ n.name = "sessions" /\ RowFits(n)
        /\ n.reading = refresher[q].reading /\ n.until = refresher[q].end
    BY <2>1 DEF Metrics, RowsFit
  <2>3. ASSUME NEW x \in f.rows, Identity(x) = Identity(n)
        PROVE  /\ x \in mart' /\ x \notin GoneOf(refresher[q])
               /\ Identity(x) = Identity(n) /\ Outlasts(x, m)'
    <3>1. x.reading = f.reading
      BY <1>5
    <3>2. \A s \in Busy : x \notin GoneOf(refresher[s])
      BY <3>1, <1>2 DEF ReadingsApart
    <3>3. Outlasts(x, m)'
      BY <3>2, <1>1 DEF Outlasts, GoneOf, WindowStart
    <3> QED
      BY <2>1, <2>3, <3>2, <3>3
  <2>4. ASSUME refresher[q].reading < f.reading, InWindow(n.day, f.end)
        PROVE  \E x \in f.rows : Identity(x) = Identity(n)
    BY <2>1, <2>2, <2>4, <1>2 DEF LaterReadsToo, Has
  <2>5. CASE m \in f.rows
    <3>1. m.reading = f.reading /\ m.until = f.end
      BY <2>5, <1>5
    <3> QED
      BY <3>1, <2>3, <2>4
  <2>6. CASE m \in mart /\ m \notin f.gone
    <3>1. m \in Metrics(mart) /\ RowFits(m)
      BY <2>6 DEF Metrics, RowsFit
    <3>2. PICK x \in mart : /\ x \notin GoneOf(refresher[q])
                            /\ Identity(x) = Identity(n) /\ Outlasts(x, m)
      BY <3>1, <2>1 DEF EarlierMeetsIt
    <3>3. CASE x \notin f.gone
      <4>1. Outlasts(x, m)'
        BY <3>2, <1>1 DEF Outlasts, GoneOf, WindowStart
      <4> QED
        BY <3>2, <3>3, <4>1
    <3>4. CASE x \in f.gone
      <4>1. m.day < WindowStart(f.end) /\ x.day >= WindowStart(f.end)
        BY <3>2, <3>4, <2>6, <1>2 DEF Outlasts, RefreshesFit
      <4>2. x.day = n.day
        BY <3>2 DEF Identity
      <4>3. /\ refresher[q].end \in Int /\ f.end \in Int /\ n.day \in Int /\ m.day \in Int
            /\ refresher[q].reading \in Int /\ f.reading \in Int
        <5>1. Day \subseteq Int /\ moves \in Int
          BY ReportingAssumption DEF Day
        <5>2. /\ refresher[q].end \in Day /\ f.end \in Day
              /\ refresher[q].reading \in 1..moves /\ f.reading \in 1..moves
          BY <2>1, <1>2 DEF RefreshesFit
        <5>3. n.day \in Day /\ m.day \in Day
          BY <2>2, <3>1 DEF RowFits
        <5>4. refresher[q].end \in Int /\ f.end \in Int
          BY <5>1, <5>2
        <5>5. n.day \in Int /\ m.day \in Int
          BY <5>1, <5>3
        <5>6. refresher[q].reading \in Int
          BY <5>1, <5>2
        <5>7. f.reading \in Int
          BY <5>1, <5>2
        <5> QED
          BY <5>4, <5>5, <5>6, <5>7
      <4>4. WindowDays \in Int
        BY ReportingAssumption
      <4>5. refresher[q].end < f.end
        BY <4>1, <4>3, <4>4 DEF InWindow, WindowStart
      <4>6. n.day <= refresher[q].end
        <5>1. n.day \in WindowStart(refresher[q].end)..refresher[q].end
          BY <2>2 DEF RowFits, MetricFits, ReadOn
        <5>2. WindowStart(refresher[q].end) \in Int
          BY <4>3, <4>4 DEF WindowStart
        <5> QED
          BY <5>1, <5>2, <4>3
      <4>7. InWindow(n.day, f.end)
        BY <4>1, <4>2, <4>3, <4>4, <4>5, <4>6 DEF InWindow, WindowStart
      <4>8. refresher[q].reading < f.reading
        <5>1. refresher[q].reading # f.reading
          BY <2>1, <1>2 DEF ReadingsApart
        <5>2. f.reading < refresher[q].reading => f.end <= refresher[q].end
          BY <2>1, <1>2 DEF RefreshesFit
        <5> QED
          BY <5>1, <5>2, <4>3, <4>5
      <4> QED
        BY <4>7, <4>8, <2>3, <2>4
    <3> QED
      BY <3>3, <3>4
  <2> QED
    BY <2>5, <2>6, <1>3 DEF Metrics
<1> QED
  BY <1>4, <1>6, <1>7, <1>8, <1>9, <1>10

LEMMA MartStep == MartCore /\ OneReading(mart) /\ [ReportingNext]_reportingVars
                    => MartCore' /\ OneReading(mart)'
<1> SUFFICES ASSUME MartCore, OneReading(mart), [ReportingNext]_reportingVars
             PROVE  MartCore' /\ OneReading(mart)'
  OBVIOUS
<1>0. /\ today \in Day /\ moves \in 0..MaxMoves /\ daily \in [DailySource \X Day -> 0..2]
      /\ today \in Int /\ moves \in Int /\ MaxMoves \in Int
  BY ReportingAssumption DEF MartCore, Day
<1>1. ASSUME UNCHANGED <<mart, refresher, daily>>, today' \in Day, today <= today',
             moves' = moves \/ Moved
      PROVE  MartCore' /\ OneReading(mart)'
  <2>1. moves' \in 0..MaxMoves /\ moves <= moves'
    BY <1>0, <1>1 DEF Moved
  <2>2. MartCore'
    BY <2>1, <1>0, <1>1, OthersKeepMart
  <2>3. OneReading(mart)'
    BY <1>1 DEF OneReading, Metrics, ReadOn, WindowStart
  <2> QED
    BY <2>2, <2>3
<1>2. ASSUME NEW x \in DailySource, NEW d \in Day, SyncStores(x, d)
      PROVE  MartCore' /\ OneReading(mart)'
  <2>1. moves' \in 0..MaxMoves /\ moves <= moves'
    BY <1>0, <1>2 DEF SyncStores, Moved
  <2> DEFINE k == <<x, d>>
  <2>2. k \in DailySource \X Day
    OBVIOUS
  <2>3. daily' = [daily EXCEPT ![k] = IF daily[k] = 0 THEN 1 ELSE 3 - daily[k]]
    BY <1>2 DEF SyncStores
  <2>4. daily[k] \in 0..2
    BY <1>0, <2>2
  <2> HIDE DEF k
  <2>5. /\ daily' \in [DailySource \X Day -> 0..2]
        /\ \A j \in DailySource \X Day : daily[j] # 0 => daily'[j] # 0
    BY <1>0, <2>2, <2>3, <2>4
  <2>6. UNCHANGED <<mart, refresher, today>>
    BY <1>2 DEF SyncStores
  <2>7. MartCore'
    BY <2>1, <2>5, <2>6, <1>0, OthersKeepMart
  <2>8. OneReading(mart)'
    BY <2>6 DEF OneReading, Metrics, ReadOn, WindowStart
  <2> QED
    BY <2>7, <2>8
<1>3. ASSUME NEW r \in Refresher, ReadDaily(r), UNCHANGED <<mart, daily, today>>
      PROVE  MartCore' /\ OneReading(mart)'
  <2>1. MartCore'
    BY <1>3, BeginsKeepsMart
  <2>2. OneReading(mart)'
    BY <1>3 DEF OneReading, Metrics, ReadOn, WindowStart
  <2> QED
    BY <2>1, <2>2
<1>4. ASSUME NEW r \in Refresher, OpenExecutive(r)
      PROVE  MartCore' /\ OneReading(mart)'
  <2>1. UNCHANGED <<mart, daily, today>>
    BY <1>4 DEF OpenExecutive
  <2>2. ReadDaily(r) \/ UNCHANGED <<refresher, moves>>
    BY <1>4 DEF OpenExecutive
  <2>3. CASE ReadDaily(r)
    BY <2>1, <2>3, <1>3
  <2>4. CASE UNCHANGED <<refresher, moves>>
    BY <2>1, <2>4, <1>0, <1>1
  <2> QED
    BY <2>2, <2>3, <2>4
<1>5. ASSUME NEW r \in Refresher, ReadInsights(r)
      PROVE  MartCore' /\ OneReading(mart)'
  <2>1. UNCHANGED mart
    BY <1>5 DEF ReadInsights
  <2>2. OneReading(mart)'
    BY <2>1 DEF OneReading, Metrics, ReadOn, WindowStart
  <2> QED
    BY <1>5, <2>2, ReadInsightsKeepsMart
<1>6. ASSUME NEW r \in Refresher, DeleteWindow(r)
      PROVE  MartCore' /\ OneReading(mart)'
  <2>1. UNCHANGED mart
    BY <1>6 DEF DeleteWindow
  <2>2. OneReading(mart)'
    BY <2>1 DEF OneReading, Metrics, ReadOn, WindowStart
  <2> QED
    BY <1>6, <2>2, DeleteWindowKeepsMart
<1>7. ASSUME NEW r \in Refresher, InsertRows(r)
      PROVE  MartCore' /\ OneReading(mart)'
  <2>1. /\ refresher[r].at = "deleted" /\ RefresherGoes(r, NotRunning)
        /\ UNCHANGED <<daily, today, moves>>
    BY <1>7 DEF InsertRows
  <2>2. CASE Accepts(refresher[r])
    <3>1. mart' = (mart \ refresher[r].gone) \union refresher[r].rows
      BY <2>2, <1>7 DEF InsertRows
    <3>2. MartCore' /\ OneReading(mart')
      BY <2>1, <2>2, <3>1, CommitKeepsMart
    <3> QED
      BY <3>2 DEF OneReading, Metrics, ReadOn, WindowStart
  <2>3. CASE ~Accepts(refresher[r])
    <3>1. UNCHANGED mart
      BY <2>3, <1>7 DEF InsertRows
    <3>2. OneReading(mart)'
      BY <3>1 DEF OneReading, Metrics, ReadOn, WindowStart
    <3> QED
      BY <2>1, <3>1, <3>2, EndsKeepsMart
  <2> QED
    BY <2>2, <2>3
<1>8. ASSUME NEW r \in Refresher, RefreshDies(r)
      PROVE  MartCore' /\ OneReading(mart)'
  <2>1. RefresherGoes(r, NotRunning) /\ UNCHANGED <<mart, daily, today, moves>>
    BY <1>8 DEF RefreshDies
  <2>2. OneReading(mart)'
    BY <2>1 DEF OneReading, Metrics, ReadOn, WindowStart
  <2> QED
    BY <2>1, <2>2, EndsKeepsMart
<1>9. CASE \/ UNCHANGED reportingVars \/ DraftNext \/ QueryNext
           \/ (\E i \in Insight : InsightChanges(i))
           \/ (\E p \in Reporter : ReadForReport(p) \/ WriteReport(p))
  <2>1. UNCHANGED <<mart, refresher, daily, today>>
    BY <1>9 DEF reportingVars, DraftNext, QueryNext, InsightChanges, ReadForReport, WriteReport,
                RequestDraft, LookForDraft, DraftEnds, ShowQueries, martVars
  <2>2. moves' = moves \/ Moved
    BY <1>9 DEF reportingVars, DraftNext, QueryNext, InsightChanges, ReadForReport, WriteReport,
                RequestDraft, LookForDraft, DraftEnds, ShowQueries
  <2> QED
    BY <2>1, <2>2, <1>0, <1>1
<1>10. CASE Midnight
  <2>1. UNCHANGED <<mart, refresher, daily>> /\ Moved /\ today < LastDay /\ today' = today + 1
    BY <1>10 DEF Midnight, martVars
  <2>2. today' \in Day /\ today <= today'
    BY <2>1, ReportingAssumption DEF MartCore, Day
  <2> QED
    BY <2>1, <2>2, <1>1
<1>11. ASSUME NEW r \in Refresher, ScheduledRefresh(r) \/ OpenSeo(r)
       PROVE  MartCore' /\ OneReading(mart)'
  <2>1. ReadDaily(r) /\ UNCHANGED <<mart, daily, today>>
    BY <1>11 DEF ScheduledRefresh, OpenSeo
  <2> QED
    BY <2>1, <1>3
<1>12. \/ UNCHANGED reportingVars \/ DraftNext \/ QueryNext \/ Midnight \/ MartNext
  BY DEF ReportingNext
<1>13. CASE MartNext
  BY <1>13, <1>2, <1>4, <1>5, <1>6, <1>7, <1>8, <1>9, <1>11 DEF MartNext
<1> QED
  BY <1>9, <1>10, <1>12, <1>13

-----------------------------------------------------------------------------
(* Content drafts.                                                         *)

DraftInv ==
  /\ today \in Day /\ draft \subseteq Day \X Title
  /\ draftLock = [k \in Day \X Title |-> draftLock[k]]
  /\ author = [a \in Author |-> author[a]]
  /\ \A a \in Author :
       /\ author[a].at \in {"idle", "waiting", "drafting"}
       /\ author[a].at # "idle" =>
            author[a] \in [at : {"waiting", "drafting"}, key : Day \X Title]
       \* who drafts holds the lock, and what it drafts is not stored
       /\ author[a].at = "drafting" =>
            draftLock[author[a].key] = a /\ author[a].key \notin draft
  /\ ~ wasted

LEMMA DraftInitInv == ReportingInit => DraftInv
<1> SUFFICES ASSUME ReportingInit PROVE DraftInv
  OBVIOUS
<1>1. today \in Day
  BY ReportingAssumption DEF ReportingInit, Day
<1>2. \A a \in Author : author[a].at = "idle"
  BY DEF ReportingInit, NotRunning
<1>3. /\ draft = {} /\ ~ wasted /\ draftLock = [k \in Day \X Title |-> draftLock[k]]
      /\ author = [a \in Author |-> author[a]]
  BY DEF ReportingInit
<1> QED
  BY <1>1, <1>2, <1>3 DEF DraftInv

LEMMA AuthorMoves ==
  ASSUME DraftInv, NEW a \in Author, NEW to, author' = [author EXCEPT ![a] = to]
  PROVE  /\ author'[a] = to /\ \A o \in Author : o # a => author'[o] = author[o]
         /\ author' = [o \in Author |-> author'[o]]
<1>1. author = [o \in Author |-> author[o]]
  BY DEF DraftInv
<1> HIDE DEF DraftInv
<1>2. author' = [o \in Author |-> IF o = a THEN to ELSE author[o]]
  BY <1>1
<1> QED
  BY <1>2

LEMMA LockMoves ==
  ASSUME DraftInv, NEW slot \in Day \X Title, NEW to, draftLock' = [draftLock EXCEPT ![slot] = to]
  PROVE  /\ draftLock'[slot] = to
         /\ \A k \in Day \X Title : k # slot => draftLock'[k] = draftLock[k]
         /\ draftLock' = [k \in Day \X Title |-> draftLock'[k]]
<1>1. draftLock = [k \in Day \X Title |-> draftLock[k]]
  BY DEF DraftInv
<1> HIDE DEF DraftInv
<1>2. draftLock' = [k \in Day \X Title |-> IF k = slot THEN to ELSE draftLock[k]]
  BY <1>1
<1> QED
  BY <1>2

LEMMA NotRunningIsIdle == NotRunning.at = "idle"
BY DEF NotRunning

LEMMA DraftsRest ==
  ASSUME DraftInv, today' \in Day, UNCHANGED <<author, draftLock, draft, wasted>>
  PROVE  DraftInv'
BY DEF DraftInv

LEMMA RequestDraftInv ==
  ASSUME DraftInv, NEW a \in Author, NEW t \in Title, RequestDraft(a, t) PROVE DraftInv'
<1>1. PICK to : to = [at |-> "waiting", key |-> <<today, t>>]
  OBVIOUS
<1>2. to.at = "waiting" /\ to \in [at : {"waiting", "drafting"}, key : Day \X Title]
  BY <1>1 DEF DraftInv
<1>3. /\ author' = [author EXCEPT ![a] = to] /\ UNCHANGED <<today, draftLock, draft, wasted>>
  BY <1>1 DEF RequestDraft, AuthorGoes
<1>4. /\ author'[a] = to /\ \A o \in Author : o # a => author'[o] = author[o]
      /\ author' = [o \in Author |-> author'[o]]
  BY <1>3, AuthorMoves
<1> QED
  BY <1>2, <1>3, <1>4 DEF DraftInv

(* The request keeps its title.                                            *)
LEMMA AuthorIs ==
  ASSUME NEW a \in Author, NEW to, author[a].at = "waiting",
         DraftInv, to = [author[a] EXCEPT !.at = "drafting"]
  PROVE  /\ to.at = "drafting" /\ to.key = author[a].key
         /\ to \in [at : {"waiting", "drafting"}, key : Day \X Title]
<1>1. PICK r \in [at : {"waiting", "drafting"}, key : Day \X Title] : r = author[a]
  BY DEF DraftInv
<1> QED
  BY <1>1

LEMMA LookForDraftInv ==
  ASSUME DraftInv, NEW a \in Author, LookForDraft(a) PROVE DraftInv'
<1>1. PICK slot \in Day \X Title : slot = author[a].key
  BY DEF LookForDraft, DraftInv
<1>2. /\ author[a].at = "waiting" /\ draftLock[slot] = NoAuthor
      /\ UNCHANGED <<today, draft, wasted>>
  BY <1>1 DEF LookForDraft, Lockers
<1>3. CASE slot \in draft
  <2>1. PICK to : to = NotRunning /\ to.at = "idle"
    BY NotRunningIsIdle
  <2>2. author' = [author EXCEPT ![a] = to] /\ UNCHANGED draftLock
    BY <1>1, <1>3, <2>1 DEF LookForDraft, AuthorGoes
  <2>3. /\ author'[a] = to /\ \A o \in Author : o # a => author'[o] = author[o]
        /\ author' = [o \in Author |-> author'[o]]
    BY <2>2, AuthorMoves
  <2> QED
    BY <1>2, <2>1, <2>2, <2>3 DEF DraftInv
<1>4. CASE slot \notin draft
  <2>1. PICK to : to = [author[a] EXCEPT !.at = "drafting"]
    OBVIOUS
  <2>2. /\ author' = [author EXCEPT ![a] = to] /\ draftLock' = [draftLock EXCEPT ![slot] = a]
    BY <1>1, <1>4, <2>1 DEF LookForDraft, AuthorGoes
  <2>3. /\ author'[a] = to /\ \A o \in Author : o # a => author'[o] = author[o]
        /\ author' = [o \in Author |-> author'[o]]
    BY <2>2, AuthorMoves
  <2>4. /\ draftLock'[slot] = a /\ draftLock' = [k \in Day \X Title |-> draftLock'[k]]
        /\ \A k \in Day \X Title : k # slot => draftLock'[k] = draftLock[k]
    BY <2>2, LockMoves
  <2>5. ASSUME NEW o \in Author, o # a, author[o].at = "drafting"
        PROVE  author[o].key # slot
    <3>1. draftLock[author[o].key] = o
      BY <2>5 DEF DraftInv
    <3>2. o # NoAuthor
      BY ReportingAssumption
    <3> QED
      BY <1>2, <3>1, <3>2
  <2>6. /\ to.at = "drafting" /\ to.key = slot
        /\ to \in [at : {"waiting", "drafting"}, key : Day \X Title]
    BY <1>1, <1>2, <2>1, AuthorIs
  <2>7. ASSUME NEW o \in Author
        PROVE  /\ author'[o].at \in {"idle", "waiting", "drafting"}
               /\ author'[o].at # "idle" =>
                    author'[o] \in [at : {"waiting", "drafting"}, key : Day \X Title]
               /\ author'[o].at = "drafting" =>
                    draftLock'[author'[o].key] = o /\ author'[o].key \notin draft'
    <3>1. CASE o = a
      BY <1>2, <1>4, <2>3, <2>4, <2>6, <3>1
    <3>2. CASE o # a
      <4>1. author'[o] = author[o] /\ draft' = draft
        BY <1>2, <2>3, <3>2
      <4>2. CASE author[o].at = "drafting"
        <5>1. PICK k \in Day \X Title : k = author[o].key
          BY <4>2 DEF DraftInv
        <5>2. k # slot /\ draftLock'[k] = draftLock[k] /\ draftLock[k] = o /\ k \notin draft
          BY <2>4, <2>5, <3>2, <4>2, <5>1 DEF DraftInv
        <5> QED
          BY <4>1, <4>2, <5>1, <5>2 DEF DraftInv
      <4> QED
        BY <4>1, <4>2 DEF DraftInv
    <3> QED
      BY <3>1, <3>2
  <2> QED
    BY <1>2, <2>3, <2>4, <2>7 DEF DraftInv
<1> QED
  BY <1>3, <1>4

LEMMA DraftEndsInv ==
  ASSUME DraftInv, NEW a \in Author, NEW ok \in BOOLEAN, DraftEnds(a, ok) PROVE DraftInv'
<1>1. PICK slot \in Day \X Title : slot = author[a].key
  BY DEF DraftEnds, DraftInv
<1>2. author[a].at = "drafting" /\ draftLock[slot] = a /\ slot \notin draft /\ UNCHANGED today
  BY <1>1 DEF DraftEnds, DraftInv
<1>3. /\ draft' \subseteq draft \union {slot} /\ draft' \subseteq Day \X Title /\ ~ wasted'
  BY <1>1, <1>2 DEF DraftEnds, DraftInv
<1>4. PICK to : to = NotRunning /\ to.at = "idle"
  BY NotRunningIsIdle
<1>5. author' = [author EXCEPT ![a] = to] /\ draftLock' = [draftLock EXCEPT ![slot] = NoAuthor]
  BY <1>1, <1>2, <1>4 DEF DraftEnds, AuthorGoes
<1>6. /\ author'[a] = to /\ \A o \in Author : o # a => author'[o] = author[o]
      /\ author' = [o \in Author |-> author'[o]]
  BY <1>5, AuthorMoves
<1>7. /\ draftLock' = [k \in Day \X Title |-> draftLock'[k]]
      /\ \A k \in Day \X Title : k # slot => draftLock'[k] = draftLock[k]
  BY <1>5, LockMoves
<1>8. ASSUME NEW o \in Author, o # a, author[o].at = "drafting"
      PROVE  author[o].key # slot
  BY <1>2, <1>8 DEF DraftInv
<1>9. ASSUME NEW o \in Author
      PROVE  /\ author'[o].at \in {"idle", "waiting", "drafting"}
             /\ author'[o].at # "idle" =>
                  author'[o] \in [at : {"waiting", "drafting"}, key : Day \X Title]
             /\ author'[o].at = "drafting" =>
                  draftLock'[author'[o].key] = o /\ author'[o].key \notin draft'
  <2>1. CASE o = a
    BY <1>4, <1>6, <2>1
  <2>2. CASE o # a
    <3>1. author'[o] = author[o]
      BY <1>6, <2>2
    <3>2. CASE author[o].at = "drafting"
      <4>1. PICK k \in Day \X Title : k = author[o].key
        BY <3>2 DEF DraftInv
      <4>2. k # slot /\ draftLock'[k] = draftLock[k] /\ draftLock[k] = o /\ k \notin draft
        BY <1>7, <1>8, <2>2, <3>2, <4>1 DEF DraftInv
      <4>3. k \notin draft'
        BY <1>3, <4>2
      <4> QED
        BY <3>1, <3>2, <4>1, <4>2, <4>3 DEF DraftInv
    <3> QED
      BY <3>1, <3>2 DEF DraftInv
  <2> QED
    BY <2>1, <2>2
<1> QED
  BY <1>2, <1>3, <1>6, <1>7, <1>9 DEF DraftInv

LEMMA DraftStep == DraftInv /\ [ReportingNext]_reportingVars => DraftInv'
<1> SUFFICES ASSUME DraftInv, [ReportingNext]_reportingVars PROVE DraftInv'
  OBVIOUS
<1>1. today \in Day
  BY DEF DraftInv
<1>2. CASE DraftNext
  BY <1>2, RequestDraftInv, LookForDraftInv, DraftEndsInv DEF DraftNext
<1>3. CASE MartNext \/ QueryNext \/ UNCHANGED reportingVars
  <2>1. UNCHANGED <<today, author, draftLock, draft, wasted>>
    BY <1>3 DEF MartNext, QueryNext, reportingVars, draftVars, SyncStores, InsightChanges,
                ScheduledRefresh, OpenExecutive, OpenSeo, ReadInsights, DeleteWindow,
                InsertRows, RefreshDies, ReadForReport, WriteReport, ShowQueries
  <2> QED
    BY <1>1, <2>1, DraftsRest
<1>4. CASE Midnight
  <2>1. today' \in Day
    BY <1>1, <1>4, ReportingAssumption DEF Midnight, Day
  <2> QED
    BY <1>4, <2>1, DraftsRest DEF Midnight, draftVars
<1> QED
  BY <1>2, <1>3, <1>4 DEF ReportingNext

(* No completion is paid for a draft that is stored, for any authors,      *)
(* titles and days.                                                        *)
THEOREM DraftsCorrect == ReportingSpec => []DraftPaidOnce
<1>1. ReportingInit => DraftInv
  BY DraftInitInv
<1>2. DraftInv /\ [ReportingNext]_reportingVars => DraftInv'
  BY DraftStep
<1>3. DraftInv => DraftPaidOnce
  BY DEF DraftInv, DraftPaidOnce
<1> QED
  BY <1>1, <1>2, <1>3, PTL DEF ReportingSpec

-----------------------------------------------------------------------------
(* Reports, and the rest of the component.                                 *)
ReportsFit ==
  /\ report = [d \in Day |-> report[d]] /\ reporter = [p \in Reporter |-> reporter[p]]
  /\ \A d \in Day : OneReading(report[d])
  /\ \A p \in Reporter : /\ reporter[p].at \in {"idle", "read"}
                         /\ reporter[p].at = "read" => OneReading(reporter[p].rows)

LEMMA OneReadingOfPart ==
  ASSUME NEW rows, OneReading(rows), NEW some \in SUBSET rows
  PROVE  OneReading(some)
BY DEF OneReading, Metrics

LEMMA ReportsRest ==
  ASSUME ReportsFit, UNCHANGED <<report, reporter>>
  PROVE  ReportsFit'
BY DEF ReportsFit, OneReading, Metrics, ReadOn, WindowStart

LEMMA ReadForReportFits ==
  ASSUME ReportsFit, OneReading(mart), NEW p \in Reporter, ReadForReport(p)
  PROVE  ReportsFit'
<1> DEFINE rows == {m \in Query("executive") : m.day <= today}
<1>1. PICK to : to = [at |-> "read", end |-> today, rows |-> rows]
  OBVIOUS
<1>2. to.at = "read" /\ to.rows = rows
  BY <1>1
<1>3. OneReading(rows)
  <2>1. rows \in SUBSET mart
    BY DEF Query
  <2> HIDE DEF rows
  <2> QED
    BY <2>1, OneReadingOfPart
<1>4. reporter' = [reporter EXCEPT ![p] = to] /\ UNCHANGED report
  BY <1>1 DEF ReadForReport
<1> HIDE DEF rows
<1>5. /\ reporter' = [s \in Reporter |-> reporter'[s]]
      /\ \A s \in Reporter : reporter'[s] = IF s = p THEN to ELSE reporter[s]
  BY <1>4 DEF ReportsFit
<1>6. \A x : OneReading(x)' <=> OneReading(x)
  BY DEF OneReading, Metrics, ReadOn, WindowStart
<1>7. \A s \in Reporter : /\ reporter'[s].at \in {"idle", "read"}
                          /\ reporter'[s].at = "read" => OneReading(reporter'[s].rows)
  BY <1>2, <1>3, <1>5 DEF ReportsFit
<1> QED
  BY <1>4, <1>5, <1>6, <1>7 DEF ReportsFit, OneReading, Metrics, ReadOn, WindowStart

LEMMA WriteReportFits ==
  ASSUME ReportsFit, NEW p \in Reporter, WriteReport(p)
  PROVE  ReportsFit'
<1>1. PICK rows : rows = reporter[p].rows
  OBVIOUS
<1>2. OneReading(rows) /\ reporter[p].at = "read"
  BY <1>1 DEF ReportsFit, WriteReport
<1>3. /\ report' = [report EXCEPT ![reporter[p].end] = rows]
      /\ reporter' = [reporter EXCEPT ![p] = NotRunning]
  BY <1>1 DEF WriteReport
<1>4. /\ report' = [d \in Day |-> report'[d]]
      /\ \A d \in Day : report'[d] = rows \/ report'[d] = report[d]
  BY <1>3 DEF ReportsFit
<1>5. /\ reporter' = [s \in Reporter |-> reporter'[s]]
      /\ \A s \in Reporter : reporter'[s] = IF s = p THEN NotRunning ELSE reporter[s]
  BY <1>3 DEF ReportsFit
<1>6. \A d \in Day : OneReading(report'[d])
  BY <1>2, <1>4 DEF ReportsFit
<1>7. \A s \in Reporter : /\ reporter'[s].at \in {"idle", "read"}
                          /\ reporter'[s].at = "read" => OneReading(reporter'[s].rows)
  BY <1>5 DEF ReportsFit, NotRunning
<1> QED
  BY <1>4, <1>5, <1>6, <1>7 DEF ReportsFit, OneReading, Metrics, ReadOn, WindowStart

LEMMA ReportsStep ==
  ReportsFit /\ OneReading(mart) /\ [ReportingNext]_reportingVars => ReportsFit'
<1> SUFFICES ASSUME ReportsFit, OneReading(mart), [ReportingNext]_reportingVars PROVE ReportsFit'
  OBVIOUS
<1>1. CASE \E p \in Reporter : ReadForReport(p) \/ WriteReport(p)
  BY <1>1, ReadForReportFits, WriteReportFits
<1>2. \/ \E p \in Reporter : ReadForReport(p) \/ WriteReport(p)
      \/ UNCHANGED <<report, reporter>>
  BY DEF ReportingNext, MartNext, DraftNext, QueryNext, reportingVars, Midnight, SyncStores,
         InsightChanges, ScheduledRefresh, OpenExecutive, OpenSeo, ReadInsights, DeleteWindow,
         InsertRows, RefreshDies, ShowQueries, RequestDraft, LookForDraft, DraftEnds
<1> QED
  BY <1>1, <1>2, ReportsRest

RestFits ==
  /\ active \subseteq Insight /\ scheduled \in BOOLEAN /\ wasted \in BOOLEAN
  /\ draftLock \in [Day \X Title -> Author \union {NoAuthor}]
  /\ queries.impressions \in Nat /\ queries.weighted \in Nat /\ PositionIsAverage

LEMMA ShowsAverage == ASSUME QueryNext, RestFits PROVE RestFits'
<1>0. PICK n \in 1..2 : \E rows \in [1..n -> QueryRow] : ShowQueries(rows)
  BY DEF QueryNext
<1>1. PICK rows \in [1..n -> QueryRow] : ShowQueries(rows)
  BY <1>0
<1>2. n \in Nat \ {0} /\ DOMAIN rows = 1..n
  OBVIOUS
<1>3. PICK to : to = [of |-> rows, impressions |-> Impressions(rows), weighted |-> Weighted(rows)]
  OBVIOUS
<1>4. to.of = rows /\ to.impressions = Impressions(rows) /\ to.weighted = Weighted(rows)
  BY <1>3
<1>5. queries' = to /\ UNCHANGED <<martVars, scheduled, draftLock, wasted>>
  BY <1>1, <1>3 DEF ShowQueries
<1>6. /\ Impressions(rows) \in Nat /\ Weighted(rows) \in Nat
      /\ (\A i \in 1..n : rows[i].impressions > 0) =>
           \E i, j \in 1..n :
             /\ rows[i].position * AtLeastOne(Impressions(rows)) <= Weighted(rows)
             /\ Weighted(rows) <= rows[j].position * AtLeastOne(Impressions(rows))
  BY <1>2, AverageIsBetween
<1>7. PositionIsAverage'
  BY <1>2, <1>4, <1>5, <1>6 DEF PositionIsAverage
<1> QED
  BY <1>4, <1>5, <1>6, <1>7 DEF RestFits, martVars

LEMMA RestStep == RestFits /\ [ReportingNext]_reportingVars => RestFits'
<1> SUFFICES ASSUME RestFits, [ReportingNext]_reportingVars PROVE RestFits'
  OBVIOUS
<1>1. CASE QueryNext
  BY <1>1, ShowsAverage
<1>2. ASSUME UNCHANGED <<draftLock, queries, wasted>>, active' \subseteq Insight, scheduled' \in BOOLEAN
      PROVE  RestFits'
  BY <1>2 DEF RestFits, PositionIsAverage, AtLeastOne
<1>3. CASE Midnight \/ UNCHANGED reportingVars
  BY <1>2, <1>3 DEF Midnight, reportingVars, martVars, draftVars, RestFits
<1>4. CASE MartNext
  <2>1. UNCHANGED <<draftLock, queries, wasted>>
    BY <1>4 DEF MartNext, martVars, draftVars, SyncStores, InsightChanges, ScheduledRefresh, OpenExecutive,
                OpenSeo, ReadInsights, DeleteWindow, InsertRows, RefreshDies, ReadForReport, WriteReport
  <2>2. active' \subseteq Insight
    BY <1>4 DEF MartNext, RestFits, martVars, draftVars, SyncStores, InsightChanges, ScheduledRefresh, OpenExecutive,
                OpenSeo, ReadInsights, DeleteWindow, InsertRows, RefreshDies, ReadForReport, WriteReport
  <2>3. scheduled' \in BOOLEAN
    BY <1>4 DEF MartNext, RestFits, martVars, draftVars, SyncStores, InsightChanges, ScheduledRefresh, OpenExecutive,
                OpenSeo, ReadInsights, DeleteWindow, InsertRows, RefreshDies, ReadForReport, WriteReport
  <2> QED
    BY <2>1, <2>2, <2>3, <1>2
<1>5. CASE DraftNext
  <2>1. UNCHANGED <<active, scheduled, queries>>
    BY <1>5 DEF DraftNext, RequestDraft, LookForDraft, DraftEnds, martVars
  <2>2. draftLock' \in [Day \X Title -> Author \union {NoAuthor}]
    <3>1. ASSUME NEW a \in Author, LookForDraft(a)
          PROVE  draftLock' \in [Day \X Title -> Author \union {NoAuthor}]
      BY <3>1 DEF LookForDraft, RestFits
    <3>2. ASSUME NEW a \in Author, NEW ok \in BOOLEAN, DraftEnds(a, ok)
          PROVE  draftLock' \in [Day \X Title -> Author \union {NoAuthor}]
      BY <3>2 DEF DraftEnds, RestFits
    <3>3. ASSUME NEW a \in Author, NEW t \in Title, RequestDraft(a, t)
          PROVE  draftLock' \in [Day \X Title -> Author \union {NoAuthor}]
      BY <3>3 DEF RequestDraft, RestFits
    <3> QED
      BY <1>5, <3>1, <3>2, <3>3 DEF DraftNext
  <2>3. wasted' \in BOOLEAN
    <3>1. ASSUME NEW a \in Author, NEW ok \in BOOLEAN, DraftEnds(a, ok)
          PROVE  wasted' \in BOOLEAN
      BY <3>1 DEF DraftEnds
    <3>2. \/ \E a \in Author, ok \in BOOLEAN : DraftEnds(a, ok)
          \/ UNCHANGED wasted
      BY <1>5 DEF DraftNext, RequestDraft, LookForDraft
    <3> QED
      BY <3>1, <3>2 DEF RestFits
  <2> QED
    BY <2>1, <2>2, <2>3 DEF RestFits, PositionIsAverage, AtLeastOne
<1> QED
  BY <1>1, <1>3, <1>4, <1>5 DEF ReportingNext

ReportingInv == MartCore /\ OneReading(mart) /\ DraftInv /\ ReportsFit /\ RestFits

LEMMA ReportingInitInv == ReportingInit => ReportingInv
<1> SUFFICES ASSUME ReportingInit PROVE ReportingInv
  OBVIOUS
<1>1. Busy = {} /\ refresher = [r \in Refresher |-> refresher[r]]
      /\ \A r \in Refresher : refresher[r].at = "idle"
  BY DEF ReportingInit, Busy, NotRunning
<1>2. mart = {} /\ Metrics(mart) = {} /\ today = WindowDays /\ moves = 0 /\ active = {}
      /\ scheduled \in BOOLEAN /\ wasted \in BOOLEAN
  BY DEF ReportingInit, Metrics
<1>3. today \in Day /\ moves \in 0..MaxMoves
  BY <1>2, ReportingAssumption DEF Day
<1>4. daily \in [DailySource \X Day -> 0..2]
  BY DEF ReportingInit
<1>5. RefreshesFit
  BY <1>1 DEF RefreshesFit
<1>6. RowsFit /\ ReadingsApart /\ LaterReadsToo /\ EarlierMeetsIt
  BY <1>1, <1>2 DEF RowsFit, ReadingsApart, LaterReadsToo, EarlierMeetsIt
<1>7. OneReading(mart)
  BY <1>2 DEF OneReading
<1>8. ReportsFit
  <2>1. OneReading({})
    BY DEF OneReading, Metrics
  <2> QED
    BY <2>1 DEF ReportingInit, ReportsFit, NotRunning
<1>9. RestFits
  <2>1. PICK to : to = [of |-> << >>, impressions |-> 0, weighted |-> 0]
    OBVIOUS
  <2>2. to.of = << >> /\ to.impressions = 0 /\ to.weighted = 0
    BY <2>1
  <2>3. queries = to /\ draftLock = [k \in Day \X Title |-> NoAuthor]
    BY <2>1 DEF ReportingInit
  <2>4. PositionIsAverage
    BY <2>2, <2>3 DEF PositionIsAverage
  <2> QED
    BY <2>2, <2>3, <2>4, <1>2 DEF RestFits
<1> QED
  BY <1>3, <1>4, <1>5, <1>6, <1>7, <1>8, <1>9, DraftInitInv DEF ReportingInv, MartCore

LEMMA ReportingStep == ReportingInv /\ [ReportingNext]_reportingVars => ReportingInv'
<1>1. ReportingInv /\ [ReportingNext]_reportingVars => MartCore' /\ OneReading(mart)'
  BY MartStep DEF ReportingInv
<1>2. ReportingInv /\ [ReportingNext]_reportingVars => ReportsFit'
  BY ReportsStep DEF ReportingInv
<1>3. ReportingInv /\ [ReportingNext]_reportingVars => RestFits' /\ DraftInv'
  BY RestStep, DraftStep DEF ReportingInv
<1> QED
  BY <1>1, <1>2, <1>3 DEF ReportingInv

LEMMA ReportingInvImplies ==
  ReportingInv => ReportingTypeOK /\ WindowIsOneReading /\ PositionIsAverage /\ DraftPaidOnce
<1> SUFFICES ASSUME ReportingInv
             PROVE  ReportingTypeOK /\ WindowIsOneReading /\ PositionIsAverage /\ DraftPaidOnce
  OBVIOUS
<1>1. WindowIsOneReading
  BY DEF ReportingInv, WindowIsOneReading, ReportsFit
<1>2. PositionIsAverage /\ DraftPaidOnce
  BY DEF ReportingInv, RestFits, DraftInv, DraftPaidOnce
<1>3. /\ daily \in [DailySource \X Day -> 0..2] /\ today \in Day /\ moves \in 0..MaxMoves
      /\ \A r \in Refresher : refresher[r].at \in {"idle", "read", "ready", "deleted"}
  BY DEF ReportingInv, MartCore, RefreshesFit
<1>4. \A m \in mart : m.day \in Day /\ m.reading \in 1..MaxMoves
  BY <1>3, ReportingAssumption DEF ReportingInv, MartCore, RowsFit, RowFits
<1>5. \A p \in Reporter : reporter[p].at \in {"idle", "read"}
  BY DEF ReportingInv, ReportsFit
<1>6. /\ \A a \in Author : author[a].at \in {"idle", "waiting", "drafting"}
      /\ draft \subseteq Day \X Title
      /\ \A a \in Author : author[a].at = "drafting" => draftLock[author[a].key] = a
  BY DEF ReportingInv, DraftInv
<1>7. wasted \in BOOLEAN
  BY DEF ReportingInv, RestFits
<1>8. /\ active \subseteq Insight /\ scheduled \in BOOLEAN
      /\ queries.impressions \in Nat /\ queries.weighted \in Nat
      /\ draftLock \in [Day \X Title -> Author \union {NoAuthor}]
  BY DEF ReportingInv, RestFits
<1> QED
  BY <1>1, <1>2, <1>3, <1>4, <1>5, <1>6, <1>7, <1>8 DEF ReportingTypeOK

(* Whatever refreshes and reports overlap, for any days, refreshers and    *)
(* syncs: the metrics of the mart and of a report, where two readings      *)
(* cover their days, are of one reading.                                   *)
THEOREM MartCorrect == ReportingSpec => [](ReportingTypeOK /\ WindowIsOneReading /\ PositionIsAverage)
<1>1. ReportingInv => ReportingTypeOK /\ WindowIsOneReading /\ PositionIsAverage
  BY ReportingInvImplies
<1> QED
  BY <1>1, ReportingInitInv, ReportingStep, PTL DEF ReportingSpec

-----------------------------------------------------------------------------
(* Knowledge given to a model.                                             *)
Running == [at : {"probing", "embedding", "searching"}, organization : Organization,
            known : SUBSET (Fact \X Nat), asOf : Nat]
InForce(told) == \A k \in told.known : k[2] > told.asOf

KnowledgeInv ==
  /\ configured \in BOOLEAN /\ storeUp \in BOOLEAN /\ collection \in BOOLEAN
  /\ points \subseteq Organization \union {Shared} /\ (points # {} => collection)
  /\ reach.known => reach.value \in BOOLEAN /\ reach.until \in Nat
  /\ tick \in 0..LastTick /\ knowledgeChanges \in 0..MaxKnowledgeChanges
  /\ facts \in [Fact -> 0..LastTick \union {Never}]
  /\ run.at # "idle" => run \in Running /\ InForce(run) /\ configured
  /\ context.hits \subseteq {context.owner, Shared} /\ context.owner \in Organization \union {Shared}
  /\ SilenceMeansSearched /\ InForce(context)

LEMMA KnowledgeInitInv == KnowledgeInit => KnowledgeInv
<1> SUFFICES ASSUME KnowledgeInit PROVE KnowledgeInv
  OBVIOUS
<1>1. NoContext.hits = {} /\ NoContext.owner = Shared /\ NoContext.disclaimed = TRUE
      /\ NoContext.known = {} /\ NoRun.at = "idle" /\ NoVerdict.known = FALSE
  BY DEF NoContext, NoRun, NoVerdict
<1>2. /\ configured \in BOOLEAN /\ storeUp = TRUE /\ collection = FALSE /\ points = {}
      /\ reach = NoVerdict /\ tick = 0 /\ knowledgeChanges = 0
      /\ facts = [f \in Fact |-> 0] /\ run = NoRun /\ context = NoContext
  BY DEF KnowledgeInit
<1>3. storeUp \in BOOLEAN /\ collection \in BOOLEAN
  BY <1>2, Zenon
<1>4. tick \in 0..LastTick /\ knowledgeChanges \in 0..MaxKnowledgeChanges
  BY <1>2, KnowledgeAssumption
<1>5. facts \in [Fact -> 0..LastTick \union {Never}]
  BY <1>2, KnowledgeAssumption
<1>6. SilenceMeansSearched /\ InForce(context)
  BY <1>1, <1>2 DEF SilenceMeansSearched, InForce
<1> QED
  BY <1>1, <1>2, <1>3, <1>4, <1>5, <1>6 DEF KnowledgeInv

(* What is rendered is what was told: the disclaimer, unless the store was *)
(* searched just now, and hits that the filter lets through.               *)
LEMMA RendersFit ==
  ASSUME KnowledgeInv, NEW hits, NEW available \in BOOLEAN, NEW told \in Running,
         InForce(told), Rendered(hits, available, told),
         hits \subseteq {told.organization, Shared},
         (hits = {} /\ ~available) \/ (run.at = "searching" /\ storeUp /\ collection)
  PROVE  /\ context'.hits \subseteq {context'.owner, Shared}
         /\ context'.owner \in Organization \union {Shared}
         /\ SilenceMeansSearched' /\ InForce(context')
<1>1. PICK to : to = [hits |-> hits, disclaimed |-> hits = {} /\ ~available,
              searched |-> run.at = "searching" /\ storeUp /\ collection,
              known |-> told.known, asOf |-> told.asOf, owner |-> told.organization]
  OBVIOUS
<1>2. /\ to.hits = hits /\ to.known = told.known /\ to.asOf = told.asOf
      /\ to.owner = told.organization
      /\ to.disclaimed = (hits = {} /\ ~available)
      /\ to.searched = (run.at = "searching" /\ storeUp /\ collection)
  BY <1>1
<1>3. context' = to
  BY <1>1 DEF Rendered
<1>4. told.organization \in Organization
  BY DEF Running
<1> QED
  BY <1>2, <1>3, <1>4 DEF SilenceMeansSearched, InForce

LEMMA KnownIsInForce == ASSUME KnowledgeInv PROVE Known \in SUBSET (Fact \X Nat)
                                             /\ \A k \in Known : k[2] > tick
<1>1. \A f \in Fact : facts[f] \in Nat
  BY DEF KnowledgeInv, Never
<1> QED
  BY <1>1 DEF Known

LEMMA StartRunFits ==
  ASSUME KnowledgeInv, NEW o \in Organization, StartRun(o) PROVE KnowledgeInv'
<1>1. PICK told : told = [at |-> "probing", organization |-> o, known |-> Known, asOf |-> tick]
  OBVIOUS
<1>2. Known \in SUBSET (Fact \X Nat) /\ (\A k \in Known : k[2] > tick) /\ tick \in Nat
  BY KnownIsInForce, KnowledgeAssumption DEF KnowledgeInv
<1>3. told \in Running /\ InForce(told) /\ told.organization = o
  BY <1>1, <1>2 DEF Running, InForce
<1>4. /\ UNCHANGED <<configured, storeUp, collection, points, reach, tick, facts>>
      /\ knowledgeChanges' \in 0..MaxKnowledgeChanges
  BY KnowledgeAssumption DEF StartRun, Changed, KnowledgeInv, storeVars
<1>5. CASE configured
  <2>1. run' = told /\ UNCHANGED context
    BY <1>1, <1>5 DEF StartRun
  <2> QED
    BY <2>1, <1>3, <1>4, <1>5 DEF KnowledgeInv, SilenceMeansSearched, InForce
<1>6. CASE ~configured
  <2>1. Rendered({}, FALSE, told) /\ UNCHANGED run
    BY <1>1, <1>6 DEF StartRun
  <2>2. /\ context'.hits \subseteq {context'.owner, Shared}
        /\ context'.owner \in Organization \union {Shared}
        /\ SilenceMeansSearched' /\ InForce(context')
    <3>1. FALSE \in BOOLEAN
      OBVIOUS
    <3> QED
      BY <2>1, <3>1, <1>3, RendersFit
  <2> QED
    BY <2>1, <2>2, <1>4 DEF KnowledgeInv, InForce
<1> QED
  BY <1>5, <1>6

LEMMA SearchFailsFits ==
  ASSUME KnowledgeInv, run.at # "idle", SearchFails
  PROVE  /\ run'.at = "idle"
         /\ context'.hits \subseteq {context'.owner, Shared}
         /\ context'.owner \in Organization \union {Shared}
         /\ SilenceMeansSearched' /\ InForce(context')
<1>1. Rendered({}, FALSE, run) /\ run' = NoRun
  BY DEF SearchFails, Caught
<1>2. run \in Running /\ InForce(run) /\ FALSE \in BOOLEAN
  BY DEF KnowledgeInv
<1> QED
  BY <1>1, <1>2, RendersFit DEF NoRun

LEMMA RunMoves ==
  ASSUME NEW to \in {"embedding", "searching"}, KnowledgeInv, run.at # "idle",
         run' = [run EXCEPT !.at = to]
  PROVE  run' \in Running /\ InForce(run')
<1>1. PICK q \in Running : q = run
  BY DEF KnowledgeInv
<1>2. run' = [q EXCEPT !.at = to] /\ InForce(q)
  BY <1>1 DEF KnowledgeInv
<1>3. PICK x : x = [q EXCEPT !.at = to]
  OBVIOUS
<1>4. x \in Running /\ x.known = q.known /\ x.asOf = q.asOf
  BY <1>3 DEF Running
<1> QED
  BY <1>2, <1>3, <1>4 DEF InForce

LEMMA ProbeFits == ASSUME KnowledgeInv, Probe PROVE KnowledgeInv'
<1> DEFINE value == IF Believed THEN reach.value ELSE storeUp /\ collection
<1>1. run.at = "probing" /\ run.at # "idle" /\ configured
      /\ UNCHANGED <<configured, storeUp, collection, points, tick, knowledgeChanges, facts>>
  BY DEF Probe, storeVars, KnowledgeInv
<1>2. reach'.known => reach'.value \in BOOLEAN /\ reach'.until \in Nat
  <2>1. CASE Believed
    BY <2>1 DEF Probe, KnowledgeInv
  <2>2. CASE ~Believed
    <3>1. PICK to : to = [known |-> TRUE, value |-> storeUp /\ collection, until |-> tick + ReachTtl]
      OBVIOUS
    <3>2. to.value = (storeUp /\ collection) /\ to.until = tick + ReachTtl
      BY <3>1
    <3>3. reach' = to
      BY <2>2, <3>1 DEF Probe
    <3>4. tick + ReachTtl \in Nat
      BY KnowledgeAssumption DEF KnowledgeInv
    <3>5. (storeUp /\ collection) \in BOOLEAN
      OBVIOUS
    <3> QED
      BY <3>2, <3>3, <3>4, <3>5
  <2> QED
    BY <2>1, <2>2
<1>3. \/ run' = [run EXCEPT !.at = "embedding"] /\ UNCHANGED context
      \/ SearchFails
  BY DEF Probe
<1>4. CASE run' = [run EXCEPT !.at = "embedding"] /\ UNCHANGED context
  <2>1. run' \in Running /\ InForce(run')
    BY <1>1, <1>4, RunMoves
  <2> QED
    BY <2>1, <1>1, <1>2, <1>4 DEF KnowledgeInv, SilenceMeansSearched, InForce
<1>5. CASE SearchFails
  BY <1>1, <1>2, <1>5, SearchFailsFits DEF KnowledgeInv
<1> QED
  BY <1>3, <1>4, <1>5

LEMMA EmbedFits == ASSUME KnowledgeInv, NEW ok, Embed(ok) PROVE KnowledgeInv'
<1>1. run.at # "idle" /\ configured
      /\ UNCHANGED <<configured, storeUp, collection, points, reach, tick, knowledgeChanges, facts>>
  BY DEF Embed, storeVars, KnowledgeInv
<1>2. \/ run' = [run EXCEPT !.at = "searching"] /\ UNCHANGED context
      \/ SearchFails
  BY DEF Embed
<1>3. CASE run' = [run EXCEPT !.at = "searching"] /\ UNCHANGED context
  <2>1. run' \in Running /\ InForce(run')
    BY <1>1, <1>3, RunMoves
  <2> QED
    BY <2>1, <1>1, <1>3 DEF KnowledgeInv, SilenceMeansSearched, InForce
<1>4. CASE SearchFails
  BY <1>1, <1>4, SearchFailsFits DEF KnowledgeInv
<1> QED
  BY <1>2, <1>3, <1>4

LEMMA SearchFits == ASSUME KnowledgeInv, NEW hits, Search(hits) PROVE KnowledgeInv'
<1>1. run.at = "searching" /\ run.at # "idle" /\ run \in Running /\ InForce(run)
      /\ UNCHANGED <<configured, storeUp, collection, points, reach, tick, knowledgeChanges, facts>>
  BY DEF Search, storeVars, KnowledgeInv
<1>2. CASE storeUp /\ collection
  <2>1. /\ hits \subseteq Visible(run.organization)
        /\ Rendered(hits, TRUE, run) /\ run' = NoRun
    BY <1>2 DEF Search
  <2>2. hits \subseteq {run.organization, Shared} /\ TRUE \in BOOLEAN
    BY <2>1 DEF Visible
  <2>3. /\ context'.hits \subseteq {context'.owner, Shared}
        /\ context'.owner \in Organization \union {Shared}
        /\ SilenceMeansSearched' /\ InForce(context')
    BY <2>1, <2>2, <1>1, <1>2, RendersFit
  <2> QED
    BY <2>1, <2>3, <1>1 DEF KnowledgeInv, NoRun
<1>3. CASE ~(storeUp /\ collection)
  <2>1. SearchFails
    BY <1>3 DEF Search
  <2> QED
    BY <2>1, <1>1, SearchFailsFits DEF KnowledgeInv
<1> QED
  BY <1>2, <1>3

LEMMA KnowledgeStep == KnowledgeInv /\ [KnowledgeNext]_knowledgeVars => KnowledgeInv'
<1> SUFFICES ASSUME KnowledgeInv, [KnowledgeNext]_knowledgeVars PROVE KnowledgeInv'
  OBVIOUS
<1>1. ASSUME UNCHANGED <<configured, run, context>>,
             storeUp' \in BOOLEAN, collection' \in BOOLEAN,
             points' \subseteq Organization \union {Shared}, points' # {} => collection',
             reach' = reach \/ reach' = NoVerdict,
             tick' \in 0..LastTick, knowledgeChanges' = knowledgeChanges \/ Changed,
             facts' \in [Fact -> 0..LastTick \union {Never}]
      PROVE  KnowledgeInv'
  <2>1. knowledgeChanges' \in 0..MaxKnowledgeChanges
    BY <1>1, KnowledgeAssumption DEF Changed, KnowledgeInv
  <2>2. reach'.known => reach'.value \in BOOLEAN /\ reach'.until \in Nat
    BY <1>1 DEF NoVerdict, KnowledgeInv
  <2> QED
    BY <2>1, <2>2, <1>1 DEF KnowledgeInv, SilenceMeansSearched, InForce
<1> HIDE DEF KnowledgeInv
<1>2. CASE UNCHANGED knowledgeVars
  BY <1>1, <1>2 DEF knowledgeVars, storeVars, KnowledgeInv
<1>3. CASE StoreChanges
  <2>1. (~storeUp) \in BOOLEAN
    OBVIOUS
  <2> QED
    BY <2>1, <1>1, <1>3 DEF StoreChanges, KnowledgeInv
<1>4. CASE DropCollection
  <2>1. FALSE \in BOOLEAN
    OBVIOUS
  <2> QED
    BY <2>1, <1>1, <1>4 DEF DropCollection, KnowledgeInv
<1>5. CASE ClockTicks
  <2>1. tick' \in 0..LastTick
    BY <1>5, KnowledgeAssumption DEF ClockTicks, KnowledgeInv
  <2> QED
    BY <2>1, <1>1, <1>5 DEF ClockTicks, storeVars, KnowledgeInv
<1>6. ASSUME NEW o \in Organization \union {Shared}, Ingest(o) PROVE KnowledgeInv'
  <2>1. TRUE \in BOOLEAN
    OBVIOUS
  <2> QED
    BY <2>1, <1>1, <1>6 DEF Ingest, KnowledgeInv
<1>7. ASSUME NEW o \in Organization \union {Shared}, DeletePoints(o) PROVE KnowledgeInv'
  BY <1>1, <1>7 DEF DeletePoints, KnowledgeInv
<1>8. ASSUME NEW f \in Fact, Forget(f) PROVE KnowledgeInv'
  <2>1. facts' \in [Fact -> 0..LastTick \union {Never}]
    BY <1>8, KnowledgeAssumption DEF Forget, KnowledgeInv
  <2> QED
    BY <2>1, <1>1, <1>8 DEF Forget, storeVars, KnowledgeInv
<1>9. ASSUME NEW f \in Fact, NEW until \in tick..LastTick \union {Never}, SetFact(f, until)
      PROVE  KnowledgeInv'
  <2>1. until \in 0..LastTick \union {Never}
    BY KnowledgeAssumption DEF KnowledgeInv
  <2>2. facts' \in [Fact -> 0..LastTick \union {Never}]
    BY <2>1, <1>9 DEF SetFact, KnowledgeInv
  <2> QED
    BY <2>2, <1>1, <1>9 DEF SetFact, storeVars, KnowledgeInv
<1>10. CASE KnowledgeNext
  BY <1>3, <1>4, <1>5, <1>6, <1>7, <1>8, <1>9, <1>10, StartRunFits, ProbeFits, EmbedFits,
     SearchFits DEF KnowledgeNext
<1> QED
  BY <1>2, <1>10

LEMMA KnowledgeInvImplies ==
  KnowledgeInv => KnowledgeTypeOK /\ SilenceMeansSearched /\ ToldWhatItMayKnow
BY DEF KnowledgeInv, KnowledgeTypeOK, ToldWhatItMayKnow, InForce, Running

(* A model that was not told that the knowledge base is unavailable had it *)
(* searched, and what it is told is the organization's own, or shared, and *)
(* in force.                                                               *)
THEOREM KnowledgeCorrect ==
  KnowledgeSpec => [](KnowledgeTypeOK /\ SilenceMeansSearched /\ ToldWhatItMayKnow)
BY KnowledgeInitInv, KnowledgeStep, KnowledgeInvImplies, PTL DEF KnowledgeSpec

-----------------------------------------------------------------------------
(* Evidence from analytics.                                                *)

(* A question being answered: of GA4 for days that have ended, of the      *)
(* others up to a day that is stored.                                      *)
AskChosen == [at : {"chosen"}, provider : Analytics, property : Property, days : 1..MaxDays]
AskLooked == [at : {"looked"}, provider : Analytics, property : Property, days : 1..MaxDays,
              end : 0..MaxDay, today : 1..MaxDay]

EndFits(q) ==
  IF q.provider = "ga4" THEN q.end < q.today
  ELSE <<q.provider, q.property, q.end>> \in analyticsDaily

AnalyticsInv ==
  /\ linked \in [Analytics -> SUBSET Property]
  /\ analyticsDaily \subseteq Analytics \X Property \X (1..MaxDay) /\ day \in 1..MaxDay
  /\ ask = NoAsk \/ ask \in AskChosen \/ (ask \in AskLooked /\ EndFits(ask))
  /\ answers.available => answers.connected
  /\ ComparesLikeWithLike

LEMMA AsksApart ==
  /\ NoAsk.at = "idle" /\ (\A q \in AskChosen : q.at = "chosen") /\ \A q \in AskLooked : q.at = "looked"
  /\ NoAnswer.available = FALSE
BY DEF NoAsk, AskChosen, AskLooked, NoAnswer

LEMMA AnalyticsInitInv == EvidenceInit => AnalyticsInv
<1> SUFFICES ASSUME EvidenceInit PROVE AnalyticsInv
  OBVIOUS
<1>1. /\ linked \in [Analytics -> {{}, Property}] /\ analyticsDaily = {} /\ day = 1
      /\ ask = NoAsk /\ answers = NoAnswer
  BY DEF EvidenceInit
<1>2. day \in 1..MaxDay
  BY <1>1, EvidenceAssumption
<1>3. linked \in [Analytics -> SUBSET Property]
  BY <1>1
<1>4. ~ answers.available
  BY <1>1, AsksApart
<1> QED
  BY <1>1, <1>2, <1>3, <1>4 DEF AnalyticsInv, ComparesLikeWithLike

LEMMA EvidenceRests ==
  ASSUME AnalyticsInv, linked' \in [Analytics -> SUBSET Property],
         analyticsDaily \subseteq analyticsDaily',
         analyticsDaily' \subseteq Analytics \X Property \X (1..MaxDay),
         day' \in 1..MaxDay, UNCHANGED <<ask, answers>>
  PROVE  AnalyticsInv'
<1>1. ask \in AskLooked /\ EndFits(ask) => EndFits(ask)'
  BY DEF EndFits
<1> QED
  BY <1>1 DEF AnalyticsInv, ComparesLikeWithLike

LEMMA StoreDayFits ==
  ASSUME AnalyticsInv, NEW v \in Analytics, NEW p \in Property, NEW d \in 1..MaxDay, StoreDay(v, p, d)
  PROVE  AnalyticsInv'
<1>1. /\ analyticsDaily' = analyticsDaily \union {<<v, p, d>>}
      /\ UNCHANGED <<linked, day, ask, answers>>
  BY DEF StoreDay
<1>2. linked \in [Analytics -> SUBSET Property] /\ day \in 1..MaxDay
      /\ analyticsDaily \subseteq Analytics \X Property \X (1..MaxDay)
  BY DEF AnalyticsInv
<1>3. <<v, p, d>> \in Analytics \X Property \X (1..MaxDay)
  OBVIOUS
<1> QED
  BY <1>1, <1>2, <1>3, EvidenceRests

LEMMA DisconnectPropertyFits ==
  ASSUME AnalyticsInv, NEW v \in Analytics, NEW p \in Property, DisconnectProperty(v, p)
  PROVE  AnalyticsInv'
<1>1. /\ linked' = [linked EXCEPT ![v] = @ \ {p}]
      /\ UNCHANGED <<analyticsDaily, day, ask, answers>>
  BY DEF DisconnectProperty
<1>2. linked \in [Analytics -> SUBSET Property] /\ day \in 1..MaxDay
      /\ analyticsDaily \subseteq Analytics \X Property \X (1..MaxDay)
  BY DEF AnalyticsInv
<1>3. linked[v] \ {p} \in SUBSET Property
  BY <1>2
<1>4. linked' \in [Analytics -> SUBSET Property]
  BY <1>1, <1>2, <1>3
<1> QED
  BY <1>1, <1>2, <1>4, EvidenceRests

LEMMA NextDayFits == ASSUME AnalyticsInv, NextDay PROVE AnalyticsInv'
<1>1. day' \in 1..MaxDay /\ UNCHANGED <<linked, analyticsDaily, ask, answers>>
  BY EvidenceAssumption DEF NextDay, AnalyticsInv
<1>2. linked \in [Analytics -> SUBSET Property]
      /\ analyticsDaily \subseteq Analytics \X Property \X (1..MaxDay)
  BY DEF AnalyticsInv
<1> QED
  BY <1>1, <1>2, EvidenceRests

(* An answer without numbers is no comparison.                             *)
LEMMA AnsweredFits ==
  ASSUME AnalyticsInv, NEW a, AnsweredWith(a), UNCHANGED <<linked, analyticsDaily, day>>,
         a.available => a.connected /\ ComparesLikeWithLike'
  PROVE  AnalyticsInv'
<1>1. answers' = a /\ ask' = NoAsk
  BY DEF AnsweredWith
<1>2. ComparesLikeWithLike'
  BY <1>1 DEF ComparesLikeWithLike
<1> QED
  BY <1>1, <1>2 DEF AnalyticsInv

LEMMA ChosenFits ==
  ASSUME AnalyticsInv, NEW v \in Analytics, NEW candidates \in SUBSET Property, NEW unnamed,
         NEW n \in 1..MaxDays, Chosen(v, candidates, unnamed, n)
  PROVE  AnalyticsInv'
<1>1. UNCHANGED <<linked, analyticsDaily, day>>
  BY DEF Chosen
<1>2. CASE candidates = {}
  <2>1. PICK a : a = [connected |-> unnamed, available |-> FALSE]
    OBVIOUS
  <2>2. AnsweredWith(a) /\ ~ a.available
    BY <1>2, <2>1 DEF Chosen
  <2> QED
    BY <1>1, <2>2, AnsweredFits
<1>3. CASE candidates # {}
  <2>1. PICK p \in candidates :
          /\ ask' = [at |-> "chosen", provider |-> v, property |-> p, days |-> n]
          /\ UNCHANGED answers
    BY <1>3 DEF Chosen
  <2>2. ask' \in AskChosen
    BY <2>1 DEF AskChosen
  <2> QED
    BY <1>1, <2>1, <2>2 DEF AnalyticsInv, ComparesLikeWithLike
<1> QED
  BY <1>2, <1>3

LEMMA AskFits ==
  ASSUME AnalyticsInv, NEW s \in Selector, NEW n \in 1..MaxDays,
         AskGa4(s, n) \/ AskGsc(s, n) \/ AskGbp(s, n)
  PROVE  AnalyticsInv'
<1>1. \A v \in Analytics : linked[v] \in SUBSET Property
  BY DEF AnalyticsInv
<1>2. "ga4" \in Analytics /\ "gsc" \in Analytics /\ "gbp" \in Analytics
  BY DEF Analytics
<1>3. Ga4Candidates(s) \in SUBSET Property /\ Candidates("gsc", s) \in SUBSET Property
      /\ Candidates("gbp", s) \in SUBSET Property
  BY <1>1, <1>2 DEF Ga4Candidates, Candidates
<1>4. CASE AskGa4(s, n)
  BY <1>2, <1>3, <1>4, ChosenFits DEF AskGa4
<1>5. CASE AskGsc(s, n)
  BY <1>2, <1>3, <1>5, ChosenFits DEF AskGsc
<1>6. CASE AskGbp(s, n)
  BY <1>2, <1>3, <1>6, ChosenFits DEF AskGbp
<1> QED
  BY <1>4, <1>5, <1>6

(* The latest of stored days is one of them.                               *)
LEMMA LatestIsOne ==
  ASSUME NEW S \in SUBSET (1..MaxDay), S # {}
  PROVE  Latest(S) \in S
<1> DEFINE T == {MaxDay - d : d \in S}
<1>1. MaxDay \in Nat
  BY EvidenceAssumption
<1>2. T \in SUBSET Nat /\ T # {}
  <2>1. \A d \in S : MaxDay - d \in Nat
    BY <1>1
  <2>2. T # {}
    OBVIOUS
  <2> QED
    BY <2>1, <2>2
<1>3. PICK e \in T : \A t \in T : e <= t
  BY <1>2, LeastExists
<1>4. PICK d \in S : e = MaxDay - d
  BY <1>3
<1>5. \A c \in S : MaxDay - d <= MaxDay - c
  BY <1>3, <1>4
<1>6. \A c \in S : c <= d
  BY <1>1, <1>5
<1> QED
  BY <1>6 DEF Latest

LEMMA LookForLatestFits == ASSUME AnalyticsInv, LookForLatest PROVE AnalyticsInv'
<1> DEFINE S == DaysOf(ask.provider, ask.property)
<1>1. ask.at = "chosen" /\ UNCHANGED <<linked, analyticsDaily, day>>
  BY DEF LookForLatest
<1>2. ask \in AskChosen
  BY <1>1, AsksApart DEF AnalyticsInv
<1>3. CASE S = {}
  <2>1. PICK a : a = [connected |-> TRUE, available |-> FALSE]
    OBVIOUS
  <2>2. AnsweredWith(a) /\ ~ a.available
    BY <1>3, <2>1 DEF LookForLatest
  <2> QED
    BY <1>1, <2>2, AnsweredFits
<1>4. CASE S # {}
  <2>1. S \in SUBSET (1..MaxDay)
    BY DEF DaysOf
  <2>2. PICK last \in S : last = Latest(S)
    BY <1>4, <2>1, LatestIsOne
  <2>3. last \in 1..MaxDay /\ <<ask.provider, ask.property, last>> \in analyticsDaily
    BY <2>2 DEF DaysOf
  <2>4. PICK end : end = PeriodEnd(ask.provider, last)
    OBVIOUS
  <2>5. PICK q : q = [at |-> "looked", provider |-> ask.provider, property |-> ask.property,
                      days |-> ask.days, end |-> end, today |-> day]
    OBVIOUS
  <2>6. ask' = q /\ UNCHANGED answers
    BY <1>4, <2>2, <2>4, <2>5 DEF LookForLatest
  <2>7. day \in 1..MaxDay /\ ask.provider \in Analytics /\ ask.property \in Property
        /\ ask.days \in 1..MaxDays
    BY <1>2 DEF AnalyticsInv, AskChosen
  <2>8. end \in 0..MaxDay /\ (ask.provider = "ga4" => end < day) /\ (ask.provider # "ga4" => end = last)
    BY <2>3, <2>4, <2>7, EvidenceAssumption DEF PeriodEnd
  <2>9. q \in AskLooked /\ EndFits(q)
    BY <2>3, <2>5, <2>7, <2>8 DEF AskLooked, EndFits
  <2>10. EndFits(ask)'
    BY <1>1, <2>6, <2>9 DEF EndFits
  <2> QED
    BY <1>1, <2>6, <2>9, <2>10 DEF AnalyticsInv, ComparesLikeWithLike
<1> QED
  BY <1>3, <1>4

(* What is read is two windows of one length that meet.                    *)
LEMMA WindowsFit ==
  ASSUME NEW end \in Nat, NEW n \in Nat \ {0}, NEW rows \in SUBSET Int,
         rows \subseteq PreviousStart(end, n)..end
  PROVE  LET current == {d \in rows : d >= CurrentStart(end, n)} IN
         /\ current \subseteq {end - k : k \in 0..(n - 1)}
         /\ rows \ current \subseteq {end - k : k \in n..(2 * n - 1)}
<1> DEFINE current == {d \in rows : d >= CurrentStart(end, n)}
<1>1. ASSUME NEW d \in current PROVE d \in {end - k : k \in 0..(n - 1)}
  <2>1. d \in Int /\ d >= end - (n - 1) /\ d <= end
    BY DEF CurrentStart
  <2>2. end - d \in 0..(n - 1) /\ d = end - (end - d)
    BY <2>1
  <2> QED
    BY <2>2
<1>2. ASSUME NEW d \in rows \ current PROVE d \in {end - k : k \in n..(2 * n - 1)}
  <2>1. d \in Int /\ d < end - (n - 1) /\ d >= end - (n - 1) - n
    BY DEF CurrentStart, PreviousStart
  <2>2. end - d \in n..(2 * n - 1) /\ d = end - (end - d)
    BY <2>1
  <2> QED
    BY <2>2
<1> QED
  BY <1>1, <1>2

LEMMA ReadRowsFits == ASSUME AnalyticsInv, ReadRows PROVE AnalyticsInv'
<1> DEFINE seen == Between(ask.provider, ask.property, PreviousStart(ask.end, ask.days), ask.end)
           current == {d \in seen : d >= CurrentStart(ask.end, ask.days)}
<1>1. ask.at = "looked" /\ UNCHANGED <<linked, analyticsDaily, day>>
  BY DEF ReadRows
<1>2. ask \in AskLooked /\ EndFits(ask)
  BY <1>1, AsksApart DEF AnalyticsInv
<1>3. ask.end \in 0..MaxDay /\ ask.days \in 1..MaxDays /\ ask.today \in 1..MaxDay
      /\ ask.provider \in Analytics /\ ask.property \in Property
  BY <1>2 DEF AskLooked
<1>4. ask.end \in Nat /\ ask.days \in Nat \ {0}
  BY <1>3, EvidenceAssumption
<1>5. CASE ~MayAnswer(ask.provider, Cardinality(current))
  <2>1. PICK a : a = [connected |-> TRUE, available |-> FALSE]
    OBVIOUS
  <2>2. AnsweredWith(a) /\ ~ a.available
    BY <1>5, <2>1 DEF ReadRows
  <2> QED
    BY <1>1, <2>2, AnsweredFits
<1>6. CASE MayAnswer(ask.provider, Cardinality(current))
  <2>1. PICK a : a = [connected |-> TRUE, available |-> TRUE, provider |-> ask.provider,
             end |-> ask.end, today |-> ask.today, days |-> ask.days,
             property |-> ask.property, current |-> current,
             previous |-> Previous(ask.provider, seen, current)]
    OBVIOUS
  <2>2. AnsweredWith(a)
    BY <1>6, <2>1 DEF ReadRows
  <2>3. seen \in SUBSET (1..MaxDay) /\ seen \subseteq PreviousStart(ask.end, ask.days)..ask.end
    BY DEF Between, DaysOf
  <2>4. seen \in SUBSET Int
    BY <2>3, EvidenceAssumption
  <2>5. /\ current \subseteq {ask.end - k : k \in 0..(ask.days - 1)}
        /\ seen \ current \subseteq {ask.end - k : k \in ask.days..(2 * ask.days - 1)}
    BY <1>4, <2>3, <2>4, WindowsFit
  <2>6. ask.provider = "ga4" => ask.end < ask.today
    BY <1>2 DEF EndFits
  <2>7. current # {}
    <3>1. CASE ask.provider = "ga4"
      <4>1. Cardinality(current) > 0
        BY <1>6, <3>1 DEF MayAnswer
      <4>2. Cardinality({}) = 0
        BY FS_EmptySet
      <4> QED
        BY <4>1, <4>2
    <3>2. CASE ask.provider # "ga4"
      <4>1. <<ask.provider, ask.property, ask.end>> \in analyticsDaily
        BY <1>2, <3>2 DEF EndFits
      <4>2. ask.end \in 1..MaxDay
        BY <4>1 DEF AnalyticsInv
      <4>3. ask.end >= CurrentStart(ask.end, ask.days)
            /\ ask.end \in PreviousStart(ask.end, ask.days)..ask.end
        BY <1>4 DEF CurrentStart, PreviousStart
      <4>4. ask.end \in seen
        BY <4>1, <4>2, <4>3 DEF Between, DaysOf
      <4> QED
        BY <4>3, <4>4
    <3> QED
      BY <3>1, <3>2
  <2>8. Previous(ask.provider, seen, current) \subseteq seen \ current
    BY DEF Previous
  <2>9. /\ a.available /\ a.connected /\ a.end = ask.end /\ a.days = ask.days /\ a.provider = ask.provider
        /\ a.today = ask.today /\ a.current = current
        /\ a.previous = Previous(ask.provider, seen, current)
    BY <2>1
  <2> HIDE DEF current, seen
  <2>10. /\ a.current \subseteq {a.end - k : k \in 0..(a.days - 1)}
         /\ a.previous \subseteq {a.end - k : k \in a.days..(2 * a.days - 1)}
         /\ a.provider = "ga4" => a.end < a.today
         /\ a.current # {}
    BY <2>5, <2>6, <2>7, <2>8, <2>9
  <2>11. answers' = a
    BY <2>2 DEF AnsweredWith
  <2>12. ComparesLikeWithLike'
    BY <2>10, <2>11 DEF ComparesLikeWithLike
  <2> QED
    BY <1>1, <2>2, <2>9, <2>12, AnsweredFits
<1> QED
  BY <1>5, <1>6

LEMMA AnalyticsStep ==
  ASSUME AnalyticsInv, AnalyticsNext \/ UNCHANGED analyticsVars
  PROVE  AnalyticsInv'
<1>1. ASSUME AnalyticsNext PROVE AnalyticsInv'
  BY <1>1, StoreDayFits, DisconnectPropertyFits, NextDayFits, AskFits, LookForLatestFits, ReadRowsFits
     DEF AnalyticsNext
<1>2. ASSUME UNCHANGED analyticsVars PROVE AnalyticsInv'
  <2>1. UNCHANGED <<linked, analyticsDaily, day, ask, answers>>
    BY <1>2 DEF analyticsVars
  <2> QED
    BY <2>1 DEF AnalyticsInv, ComparesLikeWithLike, EndFits
<1> QED
  BY <1>1, <1>2

-----------------------------------------------------------------------------
(* The pipeline, page by page.                                             *)

Opportunities == Seq(1..MaxOpportunities)
Paging == [at : {"reading"}, max : 1..MaxRecords, asTool : BOOLEAN, tells : BOOLEAN,
           got : Opportunities, page : Nat \ {0}, total : Int, still : BOOLEAN]

(* The newest opportunity comes first, and each has a number of its own.   *)
Newest == \A i \in 1..Len(crm) : crm[i] = Len(crm) + 1 - i

(* Where nobody adds to it and whole pages are asked for, what has been    *)
(* read is the first pages, and they were full.                            *)
Whole(g) == g.still /\ (g.asTool \/ g.tells) /\ g.max % PageSize = 0
ReadSoFar(g) ==
  /\ Len(g.got) = (g.page - 1) * PageSize /\ Len(g.got) <= Len(crm)
  /\ \A i \in 1..Len(g.got) : g.got[i] = crm[i]
  /\ g.total \in {-1, Len(crm)} /\ (g.total # -1 => g.tells)

PipelineInv ==
  /\ crm \in Opportunities /\ Len(crm) <= MaxOpportunities /\ Newest
  /\ paging = NoAsk \/ (paging \in Paging /\ Len(paging.got) < paging.max
                          /\ (Whole(paging) => ReadSoFar(paging)))
  /\ CompleteIsComplete

LEMMA ReadInOrder ==
  ASSUME NEW s \in Opportunities
  PROVE  Len(s) \in Nat /\ \A i \in 1..Len(s) : s[i] \in 1..MaxOpportunities
BY ElementOfSeq, LenProperties DEF Opportunities

LEMMA ReadAfter ==
  ASSUME NEW s \in Opportunities, NEW t \in Opportunities
  PROVE  /\ s \o t \in Opportunities /\ Len(s \o t) = Len(s) + Len(t)
         /\ \A i \in 1..Len(s) : (s \o t)[i] = s[i]
         /\ \A i \in Len(s) + 1..Len(s) + Len(t) : (s \o t)[i] = t[i - Len(s)]
BY DEF Opportunities

LEMMA PagingsApart == NoAsk.at = "idle" /\ (\A g \in Paging : g.at = "reading")
BY DEF NoAsk, Paging

LEMMA PipelineInitInv == EvidenceInit => PipelineInv
<1> SUFFICES ASSUME EvidenceInit PROVE PipelineInv
  OBVIOUS
<1>1. crm = << >> /\ paging = NoAsk /\ ~ pipelines.complete
  BY DEF EvidenceInit
<1>2. crm \in Opportunities /\ Len(crm) = 0
  BY <1>1 DEF Opportunities
<1>3. Newest
  BY <1>2 DEF Newest
<1> QED
  BY <1>1, <1>2, <1>3, EvidenceAssumption DEF PipelineInv, CompleteIsComplete

LEMMA NewOpportunityFits == ASSUME PipelineInv, NewOpportunity PROVE PipelineInv'
<1>1. /\ Len(crm) < MaxOpportunities /\ crm' = <<Len(crm) + 1>> \o crm
      /\ paging' = IF paging.at = "idle" THEN paging ELSE [paging EXCEPT !.still = FALSE]
      /\ UNCHANGED pipelines
  BY DEF NewOpportunity
<1>2. crm \in Opportunities /\ Len(crm) \in Nat /\ MaxOpportunities \in Nat /\ Newest
  BY EvidenceAssumption DEF PipelineInv, Opportunities
<1>3. PICK first : first = <<Len(crm) + 1>>
  OBVIOUS
<1>4. first \in Opportunities /\ Len(first) = 1 /\ first[1] = Len(crm) + 1
  BY <1>1, <1>2, <1>3 DEF Opportunities
<1>5. /\ crm' \in Opportunities /\ Len(crm') = Len(crm) + 1 /\ crm'[1] = Len(crm) + 1
      /\ \A i \in 2..Len(crm) + 1 : crm'[i] = crm[i - 1]
  BY <1>1, <1>2, <1>3, <1>4 DEF Opportunities
<1>6. Newest'
  <2>1. ASSUME NEW i \in 1..Len(crm') PROVE crm'[i] = Len(crm') + 1 - i
    <3>1. CASE i = 1
      BY <1>5, <3>1, <1>2
    <3>2. CASE i # 1
      <4>1. i \in 2..Len(crm) + 1 /\ i - 1 \in 1..Len(crm)
        BY <1>2, <1>5, <3>2
      <4>2. crm[i - 1] = Len(crm) + 1 - (i - 1)
        BY <1>2, <4>1 DEF Newest
      <4> QED
        BY <1>2, <1>5, <4>1, <4>2
    <3> QED
      BY <3>1, <3>2
  <2> QED
    BY <2>1 DEF Newest
<1>7. paging' = NoAsk \/ (paging' \in Paging /\ Len(paging'.got) < paging'.max /\ ~ paging'.still)
  <2>1. CASE paging = NoAsk
    BY <1>1, <2>1, PagingsApart
  <2>2. CASE paging # NoAsk
    <3>1. PICK g \in Paging : g = paging /\ Len(g.got) < g.max
      BY <2>2 DEF PipelineInv
    <3>2. PICK to : to = [g EXCEPT !.still = FALSE]
      OBVIOUS
    <3>3. to \in Paging /\ to.got = g.got /\ to.max = g.max /\ ~ to.still
      BY <3>2 DEF Paging
    <3>4. paging' = to
      BY <1>1, <3>1, <3>2, PagingsApart
    <3> QED
      BY <3>1, <3>3, <3>4
  <2> QED
    BY <2>1, <2>2
<1> QED
  BY <1>1, <1>2, <1>5, <1>6, <1>7 DEF PipelineInv, CompleteIsComplete, Whole

LEMMA OpenPipelineFits ==
  ASSUME PipelineInv, NEW m \in 1..MaxRecords, NEW asTool \in BOOLEAN, NEW tells \in BOOLEAN,
         OpenPipeline(m, asTool, tells)
  PROVE  PipelineInv'
<1>1. PICK g : g = [at |-> "reading", max |-> m, asTool |-> asTool, tells |-> tells,
                    got |-> << >>, page |-> 1, total |-> -1, still |-> TRUE]
  OBVIOUS
<1>2. paging' = g /\ UNCHANGED <<crm, pipelines>>
  BY <1>1 DEF OpenPipeline
<1>3. << >> \in Opportunities /\ Len(<< >>) = 0
  BY DEF Opportunities
<1>4. g \in Paging
  BY <1>1, <1>3, EvidenceAssumption DEF Paging
<1>5. g.got = << >> /\ g.page = 1 /\ g.total = -1 /\ g.max = m
  BY <1>1
<1>6. Len(crm) \in Nat /\ PageSize \in Nat
  BY EvidenceAssumption DEF PipelineInv, Opportunities
<1>7. (1 - 1) * PageSize = 0
  BY <1>6
<1>8. ReadSoFar(g)'
  BY <1>2, <1>3, <1>5, <1>6, <1>7 DEF ReadSoFar
<1>9. Len(g.got) < g.max
  BY <1>3, <1>5, EvidenceAssumption
<1> QED
  BY <1>2, <1>4, <1>8, <1>9 DEF PipelineInv, CompleteIsComplete, ReadSoFar, Newest

(* Whole pages are asked for as long as fewer than max have been read.     *)
LEMMA WholePages ==
  ASSUME NEW max \in Nat, NEW size \in Nat \ {0}, max % size = 0, NEW k \in Nat, k * size < max
  PROVE  k * size + size <= max
<1>1. PICK q \in Int : max = q * size
  OBVIOUS
<1>2. k < q
  <2>1. ASSUME q <= k PROVE q * size <= k * size
    BY <2>1
  <2>2. k \in Int /\ q * size \in Int /\ k * size \in Int
    OBVIOUS
  <2> QED
    BY <1>1, <2>1, <2>2
<1>3. (k + 1) * size <= q * size
  BY <1>2
<1>4. (k + 1) * size = k * size + size
  OBVIOUS
<1> QED
  BY <1>1, <1>3, <1>4

(* The first opportunities, all of them: each is counted, and once.        *)
LEMMA AllAreCounted ==
  ASSUME PipelineInv, NEW got \in Opportunities, Len(got) = Len(crm),
         \A i \in 1..Len(got) : got[i] = crm[i]
  PROVE  ToSet(got) = ToSet(crm) /\ Len(got) = Cardinality(ToSet(crm))
<1>1. crm \in Opportunities /\ Len(crm) \in Nat /\ Newest /\ DOMAIN crm = 1..Len(crm)
  BY DEF PipelineInv, Opportunities
<1>2. got = crm
  BY <1>1 DEF Opportunities
<1>3. crm \in Surjection(1..Len(crm), ToSet(crm))
  BY <1>1 DEF Surjection, ToSet, Opportunities
<1>4. \A i, j \in 1..Len(crm) : crm[i] = crm[j] => i = j
  BY <1>1 DEF Newest
<1>5. crm \in Injection(1..Len(crm), ToSet(crm))
  BY <1>1, <1>3, <1>4 DEF Injection, Surjection, IsInjective
<1>6. IsFiniteSet(1..Len(crm)) /\ Cardinality(1..Len(crm)) = Len(crm)
  <2>1. PICK n \in Nat : n = Len(crm)
    BY <1>1
  <2>2. /\ IsFiniteSet(1..n)
        /\ Cardinality(1..n) = IF 1 > n THEN 0 ELSE n - 1 + 1
    <3>1. 1 \in Int /\ n \in Int
      OBVIOUS
    <3> QED
      BY <3>1, FS_Interval, Zenon
  <2> QED
    BY <2>1, <2>2
<1>7. Cardinality(ToSet(crm)) = Len(crm)
  BY <1>3, <1>5, <1>6, FS_Surjection
<1> QED
  BY <1>2, <1>7

(* The next whole page.                                                    *)
LEMMA PageIsNext ==
  ASSUME PipelineInv, NEW g \in Paging, Len(g.got) < g.max, Whole(g), ReadSoFar(g)
  PROVE  LET rows == PageOf(g.page, PageLimit(g))
             got == g.got \o rows IN
         /\ PageLimit(g) = PageSize
         /\ got \in Opportunities /\ Len(got) = Lesser(g.page * PageSize, Len(crm))
         /\ \A i \in 1..Len(got) : got[i] = crm[i]
         /\ Len(rows) = Len(got) - Len(g.got)
<1>a. PICK rows : rows = PageOf(g.page, PageLimit(g))
  OBVIOUS
<1>b. PICK got : got = g.got \o rows
  OBVIOUS
<1>1. /\ PageSize \in Nat \ {0} /\ g.page \in Nat \ {0} /\ g.max \in Nat /\ g.got \in Opportunities
      /\ g.max % PageSize = 0 /\ crm \in Opportunities /\ Len(crm) \in Nat
  BY EvidenceAssumption DEF Paging, Whole, PipelineInv, Opportunities
<1>2. PICK n \in Nat : n = Len(g.got)
  BY <1>1 DEF Opportunities
<1>c. PICK z \in Nat : z = Len(crm)
  BY <1>1
<1>3. n = (g.page - 1) * PageSize /\ n <= Len(crm) /\ n < g.max
  BY <1>2 DEF ReadSoFar
<1>4. n + PageSize <= g.max
  <2>1. g.page - 1 \in Nat
    BY <1>1
  <2> QED
    BY <1>1, <1>3, <2>1, WholePages
<1>5. PageLimit(g) = PageSize
  BY <1>1, <1>2, <1>4 DEF PageLimit, Lesser
<1>6. g.page * PageSize = n + PageSize
  BY <1>1, <1>3
<1>7. PICK e \in Nat : e = Lesser(n + PageSize, Len(crm)) /\ n <= e /\ e <= Len(crm)
  BY <1>c, <1>1, <1>3 DEF Lesser
<1>8. rows = SubSeq(crm, n + 1, e)
  BY <1>a, <1>3, <1>5, <1>6, <1>7 DEF PageOf
<1>9. ASSUME NEW i \in n + 1..e PROVE crm[i] \in 1..MaxOpportunities
  <2>1. i \in 1..Len(crm)
    BY <1>c, <1>7
  <2> QED
    BY <1>1, <2>1, ReadInOrder
<1>10. n + 1 \in Int /\ e \in Int
  OBVIOUS
<1>11. /\ rows \in Opportunities
       /\ Len(rows) = IF n + 1 <= e THEN e - (n + 1) + 1 ELSE 0
       /\ \A i \in 1..e - (n + 1) + 1 : rows[i] = crm[n + 1 + i - 1]
  BY <1>8, <1>9, <1>10, SubSeqProperties DEF Opportunities
<1>12. Len(rows) = e - n
  BY <1>7, <1>11
<1>13. /\ got \in Opportunities /\ Len(got) = n + Len(rows)
       /\ \A i \in 1..n : got[i] = g.got[i]
       /\ \A i \in n + 1..n + Len(rows) : got[i] = rows[i - n]
  <2>1. /\ g.got \o rows \in Opportunities /\ Len(g.got \o rows) = Len(g.got) + Len(rows)
        /\ \A i \in 1..Len(g.got) : (g.got \o rows)[i] = g.got[i]
        /\ \A i \in Len(g.got) + 1..Len(g.got) + Len(rows) : (g.got \o rows)[i] = rows[i - Len(g.got)]
    <3>1. PICK s \in Opportunities : s = g.got
      BY <1>1
    <3>2. rows \in Opportunities
      BY <1>11
    <3>3. /\ s \o rows \in Opportunities /\ Len(s \o rows) = Len(s) + Len(rows)
          /\ \A i \in 1..Len(s) : (s \o rows)[i] = s[i]
          /\ \A i \in Len(s) + 1..Len(s) + Len(rows) : (s \o rows)[i] = rows[i - Len(s)]
      BY <3>2, ReadAfter
    <3> QED
      BY <1>b, <3>1, <3>3
  <2> QED
    BY <1>b, <1>2, <2>1
<1>14. ASSUME NEW i \in 1..Len(got) PROVE got[i] = crm[i]
  <2>0. i \in Nat /\ 1 <= i /\ i <= e
    BY <1>12, <1>13
  <2>1. CASE i <= n
    <3>1. i \in 1..n /\ i \in 1..Len(g.got)
      BY <1>2, <2>0, <2>1
    <3> QED
      BY <1>13, <3>1 DEF ReadSoFar
  <2>2. CASE i > n
    <3>1. i \in n + 1..n + Len(rows) /\ i - n \in 1..e - (n + 1) + 1
      BY <1>12, <1>13, <2>2
    <3>2. got[i] = rows[i - n] /\ rows[i - n] = crm[n + 1 + (i - n) - 1]
      BY <1>11, <1>13, <3>1
    <3>3. n + 1 + (i - n) - 1 = i
      BY <3>1
    <3> QED
      BY <3>2, <3>3
  <2> QED
    BY <2>0, <2>1, <2>2
<1>15. Len(got) = e /\ e = Lesser(g.page * PageSize, Len(crm)) /\ Len(rows) = Len(got) - Len(g.got)
  BY <1>2, <1>6, <1>7, <1>12, <1>13
<1> QED
  BY <1>a, <1>b, <1>5, <1>13, <1>14, <1>15

(* Whatever page is asked for, what comes is opportunities.                *)
LEMMA PagesAreOpportunities ==
  ASSUME PipelineInv, NEW g \in Paging, Len(g.got) < g.max
  PROVE  g.got \o PageOf(g.page, PageLimit(g)) \in Opportunities
<1>1. g.page \in Int /\ g.max \in Int /\ g.got \in Opportunities /\ Len(g.got) \in Int
      /\ PageSize \in Int /\ crm \in Opportunities /\ Len(crm) \in Nat
  BY EvidenceAssumption DEF Paging, PipelineInv, Opportunities
<1>2. PICK limit \in Int : limit = PageLimit(g)
  BY <1>1 DEF PageLimit, Lesser
<1>3. PICK from \in Int : from = (g.page - 1) * limit + 1
  BY <1>1
<1>4. g.page * limit \in Int
  BY <1>1
<1>5. PICK until \in Int : until = Lesser(g.page * limit, Len(crm)) /\ until <= Len(crm)
  <2>1. PICK z \in Int : z = Len(crm)
    BY <1>1
  <2>2. PICK k \in Int : k = g.page * limit
    BY <1>4
  <2> QED
    BY <2>1, <2>2 DEF Lesser
<1>6. PageOf(g.page, PageLimit(g)) = SubSeq(crm, from, until)
  BY <1>2, <1>3, <1>5 DEF PageOf
<1>7. CASE from >= 1
  <2>1. ASSUME NEW i \in from..until PROVE crm[i] \in 1..MaxOpportunities
    <3>1. i \in 1..Len(crm)
      BY <1>1, <1>5, <1>7
    <3> QED
      BY <1>1, <3>1, ReadInOrder
  <2>2. SubSeq(crm, from, until) \in Opportunities
    BY <2>1, SubSeqProperties DEF Opportunities
  <2> QED
    BY <1>1, <1>6, <2>2 DEF Opportunities
<1>8. from >= 1
  <2>1. limit >= 0
    BY <1>1, <1>2, EvidenceAssumption DEF PageLimit, Lesser
  <2>2. g.page - 1 \in Nat /\ limit \in Nat
    BY <2>1 DEF Paging
  <2>3. (g.page - 1) * limit \in Nat
    BY <2>2
  <2> QED
    BY <1>3, <2>3
<1> QED
  BY <1>7, <1>8

LEMMA ReadPageFits == ASSUME PipelineInv, ReadPage PROVE PipelineInv'
<1>1. PICK g \in Paging : g = paging /\ Len(g.got) < g.max /\ (Whole(g) => ReadSoFar(g))
  BY PagingsApart DEF PipelineInv, ReadPage
<1>2. PICK rows : rows = PageOf(g.page, PageLimit(g))
  OBVIOUS
<1>3. PICK got : got = g.got \o rows
  OBVIOUS
<1>4. PICK total : total = IF g.total = -1 /\ g.tells THEN Len(crm) ELSE g.total
  OBVIOUS
<1> DEFINE Stops == \/ rows = << >> \/ Len(got) >= g.max \/ (total # -1 /\ Len(got) >= total)
                    \/ LastPage(g, rows)
<1>5. UNCHANGED crm
  BY DEF ReadPage
<1>6. crm \in Opportunities /\ Len(crm) \in Nat /\ PageSize \in Nat \ {0} /\ g.page \in Nat \ {0}
      /\ g.max \in Nat /\ g.total \in Int /\ got \in Opportunities /\ Len(got) \in Nat
      /\ g.asTool \in BOOLEAN /\ g.tells \in BOOLEAN
  <2>1. crm \in Opportunities /\ Len(crm) \in Nat /\ PageSize \in Nat \ {0} /\ g.page \in Nat \ {0}
        /\ g.max \in Nat /\ g.total \in Int /\ g.asTool \in BOOLEAN /\ g.tells \in BOOLEAN
    BY EvidenceAssumption DEF PipelineInv, Paging, Opportunities
  <2>2. got \in Opportunities
    BY <1>1, <1>2, <1>3, PagesAreOpportunities
  <2> QED
    BY <2>1, <2>2 DEF Opportunities
<1>7. total \in Int
  BY <1>4, <1>6
<1>8. ASSUME Whole(g)
      PROVE  /\ PageLimit(g) = PageSize /\ Len(got) = Lesser(g.page * PageSize, Len(crm))
             /\ \A i \in 1..Len(got) : got[i] = crm[i]
             /\ Len(rows) = Len(got) - Len(g.got) /\ Len(g.got) = (g.page - 1) * PageSize
             /\ total = IF g.tells THEN Len(crm) ELSE -1
  <2>1. ReadSoFar(g)
    BY <1>1, <1>8
  <2>2. /\ PageLimit(g) = PageSize /\ Len(got) = Lesser(g.page * PageSize, Len(crm))
        /\ \A i \in 1..Len(got) : got[i] = crm[i]
        /\ Len(rows) = Len(got) - Len(g.got)
    <3>1. g \in Paging /\ Len(g.got) < g.max /\ Whole(g)
      BY <1>1, <1>8
    <3> QED
      BY <1>2, <1>3, <2>1, <3>1, PageIsNext
  <2> QED
    BY <1>4, <1>6, <2>1, <2>2 DEF ReadSoFar
<1>9. CASE Stops
  <2>1. PICK p : p = [complete |-> Complete(total, got, g.max), got |-> got,
                      still |-> g.still, max |-> g.max, all |-> ToSet(crm),
                      counts |-> g.asTool \/ g.tells]
    OBVIOUS
  <2>2. paging' = NoAsk /\ pipelines' = p
    <3> HIDE DEF Paging
    <3> QED
      BY <1>1, <1>2, <1>3, <1>4, <1>9, <2>1 DEF ReadPage
  <2>3. ASSUME p.complete, p.still, p.counts, p.max % PageSize = 0
        PROVE  ToSet(p.got) = p.all /\ Len(p.got) = Cardinality(p.all)
    <3>1. Whole(g) /\ Complete(total, got, g.max)
      BY <2>1, <2>3 DEF Whole
    <3>2. Len(got) = Len(crm)
      <4>1. PICK k \in Nat : k = g.page * PageSize
        BY <1>6
      <4>2. (g.page - 1) * PageSize = k - PageSize
        BY <1>6, <4>1
      <4>3. /\ Len(got) = IF k < Len(crm) THEN k ELSE Len(crm)
            /\ Len(rows) = Len(got) - (k - PageSize)
        BY <1>8, <3>1, <4>1, <4>2 DEF Lesser
      <4>4. CASE g.tells
        <5>1. total = Len(crm)
          BY <1>8, <3>1, <4>4
        <5> QED
          BY <1>6, <3>1, <4>3, <5>1 DEF Complete
      <4>5. CASE ~ g.tells
        <5>1. total = -1 /\ Len(got) < g.max
          BY <1>8, <3>1, <4>5 DEF Complete
        <5>2. rows = << >> \/ LastPage(g, rows)
          BY <1>6, <1>9, <5>1
        <5>3. Len(rows) < PageSize
          BY <1>6, <4>5, <5>2 DEF LastPage
        <5> QED
          BY <1>6, <4>1, <4>3, <5>3
      <4> QED
        BY <4>4, <4>5
    <3>3. ToSet(got) = ToSet(crm) /\ Len(got) = Cardinality(ToSet(crm))
      BY <1>6, <1>8, <3>1, <3>2, AllAreCounted
    <3> QED
      BY <2>1, <3>3
  <2>4. CompleteIsComplete'
    BY <2>2, <2>3 DEF CompleteIsComplete
  <2> QED
    BY <1>5, <2>2, <2>4 DEF PipelineInv, Newest
<1>10. CASE ~ Stops
  <2>1. PICK to : to = [g EXCEPT !.got = got, !.total = total, !.page = @ + 1]
    OBVIOUS
  <2>2. paging' = to /\ UNCHANGED pipelines
    <3> HIDE DEF Paging
    <3> QED
      BY <1>1, <1>2, <1>3, <1>4, <1>10, <2>1 DEF ReadPage
  <2>3. g.page + 1 \in Nat \ {0}
    BY <1>6
  <2>4. /\ to \in Paging /\ to.got = got /\ to.total = total /\ to.page = g.page + 1
        /\ to.max = g.max /\ to.still = g.still /\ to.asTool = g.asTool /\ to.tells = g.tells
    BY <1>6, <1>7, <2>1, <2>3 DEF Paging
  <2>5. Len(to.got) < to.max
    BY <1>6, <1>10, <2>4
  <2>6. ASSUME Whole(to) PROVE ReadSoFar(to)
    <3>1. Whole(g)
      BY <2>4, <2>6 DEF Whole
    <3>2. PICK k \in Nat : k = g.page * PageSize
      BY <1>6
    <3>3. (g.page - 1) * PageSize = k - PageSize /\ (to.page - 1) * PageSize = k
      <4>1. PICK n \in Nat : n = g.page
        BY <1>6
      <4>2. (n + 1) - 1 = n
        OBVIOUS
      <4>3. (n - 1) * PageSize = n * PageSize - PageSize
        BY <1>6
      <4> QED
        BY <2>4, <3>2, <4>1, <4>2, <4>3
    <3>4. /\ Len(got) = IF k < Len(crm) THEN k ELSE Len(crm)
          /\ Len(rows) = Len(got) - (k - PageSize)
      BY <1>8, <3>1, <3>2, <3>3 DEF Lesser
    <3>5. Len(got) = k
      <4>1. CASE g.tells
        <5>1. total = Len(crm)
          BY <1>8, <3>1, <4>1
        <5> QED
          BY <1>6, <1>10, <3>4, <5>1
      <4>2. CASE ~ g.tells
        <5>1. g.asTool
          BY <3>1, <4>2 DEF Whole
        <5>2. ~ (Len(rows) < PageSize)
          BY <1>10, <4>2, <5>1 DEF LastPage
        <5> QED
          BY <1>6, <3>2, <3>4, <5>2
      <4> QED
        BY <4>1, <4>2
    <3>6. Len(got) <= Len(crm) /\ \A i \in 1..Len(got) : got[i] = crm[i]
      BY <1>6, <1>8, <3>1, <3>2, <3>4
    <3>7. total \in {-1, Len(crm)} /\ (total # -1 => g.tells)
      BY <1>8, <3>1
    <3> QED
      BY <2>4, <3>3, <3>5, <3>6, <3>7 DEF ReadSoFar
  <2>7. Whole(paging)' => ReadSoFar(paging)'
    BY <1>5, <2>2, <2>6 DEF Whole, ReadSoFar
  <2> QED
    BY <1>5, <2>2, <2>4, <2>5, <2>7 DEF PipelineInv, CompleteIsComplete, Newest
<1> QED
  BY <1>9, <1>10

LEMMA PipelineStep ==
  ASSUME PipelineInv, PipelineNext \/ UNCHANGED <<crm, paging, pipelines>>
  PROVE  PipelineInv'
<1>1. CASE NewOpportunity
  BY <1>1, NewOpportunityFits
<1>2. CASE ReadPage
  BY <1>2, ReadPageFits
<1>3. ASSUME PipelineFails PROVE PipelineInv'
  <2>1. paging' = NoAsk /\ pipelines' = [complete |-> FALSE] /\ UNCHANGED crm
    BY <1>3 DEF PipelineFails
  <2>2. ~ pipelines'.complete
    BY <2>1
  <2> QED
    BY <2>1, <2>2 DEF PipelineInv, CompleteIsComplete, Newest
<1>4. ASSUME NEW m \in 1..MaxRecords, NEW t \in BOOLEAN, NEW u \in BOOLEAN, OpenPipeline(m, t, u)
      PROVE  PipelineInv'
  BY <1>4, OpenPipelineFits
<1>5. ASSUME UNCHANGED <<crm, paging, pipelines>> PROVE PipelineInv'
  BY <1>5 DEF PipelineInv, CompleteIsComplete, Newest, ReadSoFar
<1> QED
  BY <1>1, <1>2, <1>3, <1>4, <1>5 DEF PipelineNext

-----------------------------------------------------------------------------
(* Evidence as a whole.                                                    *)

SnapshotTypes ==
  /\ sites \subseteq Site
  /\ taking \in [site : {0} \union Site, since : SUBSET Site]
  /\ snapshot \in [site : {0} \union Site, since : SUBSET Site, part : [Part -> Offers]]
  /\ reputation \in Offers

(* What is connected while a snapshot is taken is among those since it was *)
(* begun, and so is its own location.                                      *)
SnapshotInv ==
  /\ SnapshotTypes
  /\ taking # NotTaking => taking.site \in taking.since /\ sites \subseteq taking.since
  /\ OffersWereRead

EvidenceInv == AnalyticsInv /\ PipelineInv /\ SnapshotInv

LEMMA NothingOffered ==
  /\ NotOffered \in Offers /\ ~ NotOffered.available
  /\ NotTaking \in [site : {0} \union Site, since : SUBSET Site]
  /\ NoSnapshot \in [site : {0} \union Site, since : SUBSET Site, part : [Part -> Offers]]
  /\ \A p \in Part : ~ NoSnapshot.part[p].available
BY DEF NotOffered, Offers, NotTaking, NoSnapshot

LEMMA EvidenceInitInv == EvidenceInit => EvidenceInv
<1> SUFFICES ASSUME EvidenceInit PROVE EvidenceInv
  OBVIOUS
<1>1. sites = {} /\ taking = NotTaking /\ snapshot = NoSnapshot /\ reputation = NotOffered
  BY DEF EvidenceInit
<1>2. SnapshotInv
  BY <1>1, NothingOffered DEF SnapshotInv, SnapshotTypes, OffersWereRead
<1> QED
  BY <1>2, AnalyticsInitInv, PipelineInitInv DEF EvidenceInv

(* Where a location is connected one of them was created first.            *)
LEMMA FirstSiteIsOne ==
  ASSUME sites \subseteq Site, sites # {}
  PROVE  FirstSite \in sites
<1>1. MaxSite \in Nat
  BY EvidenceAssumption
<1>2. sites \subseteq Nat
  BY <1>1 DEF Site
<1>3. \E l \in sites : \A k \in sites : l <= k
  BY <1>2, LeastExists
<1> QED
  BY <1>3 DEF FirstSite

LEMMA ReadFits ==
  ASSUME NEW a \in PartAnswer, NEW l \in Site
  PROVE  /\ Read(a, l) \in Offers /\ Read(a, l).site = l
         /\ Read(a, l).read \/ Read(a, l).number = 0
         /\ a # "failed" => Read(a, l).read
<1>1. (a # "failed") \in BOOLEAN
  OBVIOUS
<1> QED
  BY <1>1 DEF Read, Offers, PartAnswer

LEMMA SnapshotTaken ==
  ASSUME SnapshotInv, NEW a \in [Part -> PartAnswer], NEW r \in BOOLEAN, TakeSnapshot(a, r)
  PROVE  SnapshotInv'
<1>0. taking.site \in Site
  <2>1. taking.site \in taking.since
    BY DEF SnapshotInv, TakeSnapshot
  <2>2. taking.since \subseteq Site
    BY DEF SnapshotInv, SnapshotTypes
  <2> QED
    BY <2>1, <2>2, Zenon
<1> DEFINE part == [p \in Part |-> IF p = "reputation" THEN SafeReputation(a[p], r)
                                  ELSE Safe(a[p], taking.site)]
<1>1. /\ SnapshotTypes /\ taking.site \in taking.since /\ sites \subseteq taking.since
      /\ taking.since \subseteq Site /\ reputation.available => reputation.read
  BY DEF SnapshotInv, SnapshotTypes, OffersWereRead, TakeSnapshot
<1>2. /\ snapshot' = [site |-> taking.site, since |-> taking.since, part |-> part]
      /\ taking' = NotTaking /\ UNCHANGED <<sites, reputation>>
  BY DEF TakeSnapshot
<1>3. ASSUME NEW p \in Part
      PROVE  /\ part[p] \in Offers
             /\ part[p].available =>
                  /\ part[p].site \in taking.since
                  /\ part[p].read \/ (p = "reputation" /\ part[p].number = 0)
                  /\ p # "reputation" => part[p].site = taking.site
  <2>1. CASE p = "reputation" /\ sites # {} /\ r
    <3>1. FirstSite \in sites /\ FirstSite \in Site
      BY <1>1, <2>1, FirstSiteIsOne DEF SnapshotTypes
    <3>2. part[p] = Read(a[p], FirstSite)
      BY <2>1 DEF SafeReputation
    <3>3. /\ part[p] \in Offers /\ part[p].site = FirstSite
          /\ part[p].read \/ part[p].number = 0
      BY <3>1, <3>2, ReadFits
    <3> HIDE DEF part
    <3> QED
      BY <1>1, <2>1, <3>1, <3>3
  <2>2. CASE p = "reputation" /\ ~ (sites # {} /\ r)
    <3>1. part[p] = NotOffered
      BY <2>2 DEF SafeReputation
    <3> QED
      BY <3>1, NothingOffered
  <2>3. CASE p # "reputation" /\ a[p] = "failed"
    <3>1. part[p] = NotOffered
      BY <2>3 DEF Safe
    <3> QED
      BY <3>1, NothingOffered
  <2>4. CASE p # "reputation" /\ a[p] # "failed"
    <3>1. part[p] = Read(a[p], taking.site)
      BY <2>4 DEF Safe
    <3> PICK l \in Site, b \in PartAnswer : l = taking.site /\ b = a[p]
      BY <1>0
    <3>3. part[p] = Read(b, l) /\ b # "failed"
      BY <2>4, <3>1
    <3> HIDE DEF part
    <3>4. part[p] \in Offers /\ part[p].site = l /\ part[p].read
      BY <3>3, ReadFits
    <3> QED
      BY <1>1, <2>4, <3>4
  <2> QED
    BY <2>1, <2>2, <2>3, <2>4
<1> HIDE DEF part
<1>4. part \in [Part -> Offers]
  <2>1. part = [p \in Part |-> part[p]]
    BY DEF part
  <2> QED
    BY <1>3, <2>1
<1>5. /\ snapshot'.site = taking.site /\ snapshot'.since = taking.since /\ snapshot'.part = part
      /\ snapshot' \in [site : {0} \union Site, since : SUBSET Site, part : [Part -> Offers]]
  BY <1>1, <1>2, <1>4 DEF SnapshotTypes
<1>6. SnapshotTypes'
  BY <1>1, <1>2, <1>5, NothingOffered DEF SnapshotTypes
<1>7. OffersWereRead'
  BY <1>1, <1>2, <1>3, <1>5 DEF OffersWereRead
<1> QED
  BY <1>2, <1>6, <1>7 DEF SnapshotInv

LEMMA SnapshotStep ==
  ASSUME SnapshotInv, SnapshotNext \/ UNCHANGED snapshotVars
  PROVE  SnapshotInv'
<1>1. ASSUME NEW l \in Site, ConnectSite(l) PROVE SnapshotInv'
  <2>1. sites' = sites \union {l} /\ UNCHANGED <<snapshot, reputation>>
    BY <1>1 DEF ConnectSite
  <2>2. taking = NotTaking \/ taking' = [taking EXCEPT !.since = @ \union {l}]
    BY <1>1 DEF ConnectSite
  <2>3. taking = NotTaking => taking' = NotTaking
    BY <1>1 DEF ConnectSite
  <2> QED
    BY <2>1, <2>2, <2>3 DEF SnapshotInv, SnapshotTypes, OffersWereRead
<1>2. ASSUME NEW l \in Site, DisconnectSite(l) PROVE SnapshotInv'
  BY <1>2 DEF DisconnectSite, SnapshotInv, SnapshotTypes, OffersWereRead
<1>3. ASSUME NEW c \in BOOLEAN, OpenSnapshot(c) PROVE SnapshotInv'
  <2>1. snapshot' = NoSnapshot /\ UNCHANGED <<sites, reputation>>
    BY <1>3 DEF OpenSnapshot
  <2>2. \/ taking' = NotTaking
        \/ sites # {} /\ taking' = [site |-> FirstSite, since |-> sites]
    BY <1>3 DEF OpenSnapshot
  <2>3. sites \subseteq Site /\ (sites # {} => FirstSite \in sites)
    BY FirstSiteIsOne DEF SnapshotInv, SnapshotTypes
  <2>4. /\ taking' \in [site : {0} \union Site, since : SUBSET Site]
        /\ taking' # NotTaking => taking'.site \in taking'.since /\ sites' \subseteq taking'.since
    BY <2>1, <2>2, <2>3, NothingOffered
  <2> QED
    BY <2>1, <2>3, <2>4, NothingOffered DEF SnapshotInv, SnapshotTypes, OffersWereRead
<1>4. ASSUME NEW a \in [Part -> PartAnswer], NEW r \in BOOLEAN, TakeSnapshot(a, r) PROVE SnapshotInv'
  BY <1>4, SnapshotTaken
<1>5. ASSUME NEW a \in PartAnswer, AskReputation(a) PROVE SnapshotInv'
  <2>1. UNCHANGED <<sites, taking, snapshot>>
    BY <1>5 DEF AskReputation
  <2>2. reputation' \in Offers /\ (reputation'.available => reputation'.read)
    <3>1. CASE sites = {}
      BY <1>5, <3>1, NothingOffered DEF AskReputation
    <3>2. CASE sites # {}
      <4>1. FirstSite \in Site
        BY <3>2, FirstSiteIsOne DEF SnapshotInv, SnapshotTypes
      <4>2. PICK x : x = Read(a, FirstSite)
        OBVIOUS
      <4>3. x \in Offers /\ (a # "failed" => x.read)
        BY <4>1, <4>2, ReadFits
      <4>4. (a = "some") \in BOOLEAN
        OBVIOUS
      <4>5. reputation' = [x EXCEPT !.available = (a = "some")]
        BY <1>5, <3>2, <4>2 DEF AskReputation
      <4> QED
        BY <4>3, <4>4, <4>5 DEF Offers
    <3> QED
      BY <3>1, <3>2
  <2> QED
    BY <2>1, <2>2 DEF SnapshotInv, SnapshotTypes, OffersWereRead
<1>6. ASSUME UNCHANGED snapshotVars PROVE SnapshotInv'
  BY <1>6 DEF snapshotVars, SnapshotInv, SnapshotTypes, OffersWereRead
<1> QED
  BY <1>1, <1>2, <1>3, <1>4, <1>5, <1>6 DEF SnapshotNext

LEMMA EvidenceStep == ASSUME EvidenceInv, [EvidenceNext]_evidenceVars PROVE EvidenceInv'
<1>1. AnalyticsInv /\ PipelineInv /\ SnapshotInv
  BY DEF EvidenceInv
<1>2. ASSUME AnalyticsNext PROVE UNCHANGED <<crm, paging, pipelines, snapshotVars>>
  BY <1>2 DEF AnalyticsNext, StoreDay, DisconnectProperty, NextDay, AskGa4, AskGsc, AskGbp, Chosen,
     LookForLatest, ReadRows, elsewhere
<1>3. ASSUME PipelineNext PROVE UNCHANGED <<analyticsVars, snapshotVars>>
  BY <1>3 DEF PipelineNext, NewOpportunity, ReadPage, PipelineFails, OpenPipeline
<1>4. ASSUME SnapshotNext PROVE UNCHANGED <<analyticsVars, crm, paging, pipelines>>
  BY <1>4 DEF SnapshotNext, ConnectSite, DisconnectSite, OpenSnapshot, TakeSnapshot, AskReputation
<1>5. ASSUME UNCHANGED evidenceVars
      PROVE  UNCHANGED <<analyticsVars, crm, paging, pipelines, snapshotVars>>
  BY <1>5 DEF evidenceVars, analyticsVars, snapshotVars
<1>6. AnalyticsNext \/ UNCHANGED analyticsVars
  BY <1>2, <1>3, <1>4, <1>5 DEF EvidenceNext
<1>7. PipelineNext \/ UNCHANGED <<crm, paging, pipelines>>
  BY <1>2, <1>3, <1>4, <1>5 DEF EvidenceNext
<1>8. SnapshotNext \/ UNCHANGED snapshotVars
  BY <1>2, <1>3, <1>4, <1>5 DEF EvidenceNext
<1>9. AnalyticsInv'
  BY <1>1, <1>6, AnalyticsStep
<1>10. PipelineInv'
  BY <1>1, <1>7, PipelineStep
<1>11. SnapshotInv'
  BY <1>1, <1>8, SnapshotStep
<1> QED
  BY <1>9, <1>10, <1>11 DEF EvidenceInv

LEMMA EvidenceInvImplies ==
  EvidenceInv => EvidenceTypeOK /\ ComparesLikeWithLike /\ CompleteIsComplete /\ OffersWereRead
<1> SUFFICES ASSUME EvidenceInv
             PROVE EvidenceTypeOK /\ ComparesLikeWithLike /\ CompleteIsComplete /\ OffersWereRead
  OBVIOUS
<1>1. /\ linked \in [Analytics -> SUBSET Property]
      /\ analyticsDaily \subseteq Analytics \X Property \X (1..MaxDay) /\ day \in 1..MaxDay
      /\ answers.available => answers.connected
      /\ ComparesLikeWithLike
  BY DEF EvidenceInv, AnalyticsInv
<1>2. ask.at \in {"idle", "chosen", "looked"} /\ (ask.at # "idle" => ask.property \in Property)
  <2>1. CASE ask = NoAsk
    BY <2>1, AsksApart
  <2>2. CASE ask \in AskChosen
    BY <2>2 DEF AskChosen
  <2>3. CASE ask \in AskLooked
    BY <2>3 DEF AskLooked
  <2> QED
    BY <2>1, <2>2, <2>3 DEF EvidenceInv, AnalyticsInv
<1>3. crm \in Seq(1..MaxOpportunities) /\ CompleteIsComplete
  BY DEF EvidenceInv, PipelineInv, Opportunities
<1>4. paging.at \in {"idle", "reading"}
      /\ (paging.at = "reading" => paging.page >= 1 /\ Len(paging.got) < paging.max)
  <2>1. CASE paging = NoAsk
    BY <2>1, PagingsApart
  <2>2. CASE paging \in Paging /\ Len(paging.got) < paging.max
    <3>1. paging.page \in Nat \ {0} /\ paging.at = "reading"
      BY <2>2 DEF Paging
    <3> QED
      BY <2>2, <3>1
  <2> QED
    BY <2>1, <2>2 DEF EvidenceInv, PipelineInv
<1>5. SnapshotTypes /\ OffersWereRead
  BY DEF EvidenceInv, SnapshotInv
<1>6. EvidenceTypeOK
  BY <1>1, <1>2, <1>3, <1>4, <1>5 DEF EvidenceTypeOK, SnapshotTypes
<1> QED
  BY <1>1, <1>3, <1>5, <1>6

(* The evidence of the tools is what it says, for any numbers of           *)
(* properties, days and opportunities, whatever syncs, disconnections and  *)
(* new opportunities come between the reads: periods compared are of one   *)
(* length and meet, a pipeline called complete was, and a snapshot offers  *)
(* what was read of a location that was connected while it was taken, save *)
(* the zeros of a reputation that could not be read.                       *)
THEOREM EvidenceCorrect ==
  EvidenceSpec => [](EvidenceTypeOK /\ ComparesLikeWithLike /\ CompleteIsComplete /\ OffersWereRead)
<1>1. EvidenceInit => EvidenceInv
  BY EvidenceInitInv
<1>2. EvidenceInv /\ [EvidenceNext]_evidenceVars => EvidenceInv'
  BY EvidenceStep
<1>3. EvidenceInv => EvidenceTypeOK /\ ComparesLikeWithLike /\ CompleteIsComplete /\ OffersWereRead
  BY EvidenceInvImplies
<1> QED
  BY <1>1, <1>2, <1>3, PTL DEF EvidenceSpec

-----------------------------------------------------------------------------
(* The chat endpoint.                                                      *)

(* A dialogue is the last of those of the messages before.                 *)
LEMMA DialogueIs ==
  ASSUME NEW messages \in Seq(ChatMessage), NEW n \in 0..Len(messages)
  PROVE  \E upTo \in [0..n -> Seq(ChatMessage)] :
           /\ upTo[0] = << >>
           /\ \A i \in 1..n : upTo[i] = IF IsDialogue(messages[i]) THEN Append(upTo[i - 1], messages[i])
                                        ELSE upTo[i - 1]
           /\ \A i \in 0..n : Dialogue(messages, i) = upTo[i]
<1> DEFINE Longer(t, i) == IF IsDialogue(messages[i]) THEN Append(t[i - 1], messages[i]) ELSE t[i - 1]
           Grows(m, t) == t \in [0..m -> Seq(ChatMessage)] /\ t[0] = << >>
                           /\ \A i \in 1..m : t[i] = Longer(t, i)
           Bad == {m \in 0..n : ~ \E t : Grows(m, t)}
<1>1. n \in Nat /\ (\A i \in 1..n : messages[i] \in ChatMessage)
  BY ElementOfSeq, LenProperties
<1>2. Bad = {}
  <2> SUFFICES ASSUME Bad # {} PROVE FALSE
    OBVIOUS
  <2>1. PICK m \in Bad : \A d \in Bad : m <= d
    <3>1. Bad \in SUBSET Nat
      BY <1>1
    <3> HIDE DEF Bad
    <3> QED
      BY <3>1, LeastExists
  <2>2. CASE m = 0
    <3>1. Grows(0, [i \in 0..0 |-> << >>])
      OBVIOUS
    <3> QED
      BY <3>1, <2>1, <2>2
  <2>3. CASE m # 0
    <3>1. m \in 0..n /\ m - 1 \in 0..n /\ m - 1 < m
      BY <1>1, <2>1, <2>3
    <3>2. m - 1 \notin Bad
      <4> HIDE DEF Bad
      <4> QED
        BY <2>1, <3>1
    <3>3. PICK t : Grows(m - 1, t)
      <4> HIDE DEF Grows
      <4> QED
        BY <3>1, <3>2
    <3> DEFINE u == [i \in 0..m |-> IF i = m THEN Longer(t, m) ELSE t[i]]
    <3>4. m \in 1..n /\ t[m - 1] \in Seq(ChatMessage) /\ messages[m] \in ChatMessage
      BY <1>1, <2>3, <3>1, <3>3
    <3>5. Longer(t, m) \in Seq(ChatMessage)
      BY <3>4
    <3>6. u \in [0..m -> Seq(ChatMessage)] /\ u[0] = << >>
      BY <2>3, <3>1, <3>3, <3>5
    <3>7. \A i \in 1..m : u[i] = Longer(u, i)
      <4> TAKE i \in 1..m
      <4>1. u[i - 1] = t[i - 1]
        BY <3>1
      <4>2. CASE i = m
        BY <4>1, <4>2
      <4>3. CASE i # m
        <5>1. i \in 1..m - 1 /\ u[i] = t[i]
          BY <3>1, <4>3
        <5> QED
          BY <3>3, <4>1, <5>1
      <4> QED
        BY <4>2, <4>3
    <3>8. Grows(m, u)
      BY <3>6, <3>7
    <3> HIDE DEF u, Grows
    <3> QED
      BY <3>8, <2>1
  <2> QED
    BY <2>2, <2>3
<1>3. PICK t : Grows(n, t)
  <2> HIDE DEF Grows
  <2>1. n \in 0..n
    BY <1>1
  <2> QED
    BY <1>2, <2>1
<1>4. ASSUME NEW k \in 0..n PROVE Dialogue(messages, k) = t[k]
  <2> DEFINE Rec(g) == g = [i \in 0..k |-> IF i = 0 THEN << >> ELSE Longer(g, i)]
             c == CHOOSE g : Rec(g)
             r == [i \in 0..k |-> t[i]]
  <2>1. Rec(r)
    <3>1. ASSUME NEW i \in 0..k PROVE r[i] = IF i = 0 THEN << >> ELSE Longer(r, i)
      <4>1. i \in 0..n
        BY <1>1
      <4>2. CASE i = 0
        BY <1>3, <4>2
      <4>3. CASE i # 0
        <5>1. i \in 1..n /\ i - 1 \in 0..k
          BY <4>1, <4>3
        <5> QED
          BY <1>3, <4>3, <5>1
      <4> QED
        BY <4>2, <4>3
    <3> QED
      BY <3>1
  <2>2. Rec(c)
    <3> HIDE DEF r, Rec
    <3> QED
      BY <2>1
  <2>3. Dialogue(messages, k) = c[k]
    BY DEF Dialogue
  <2> DEFINE Diff == {i \in 0..k : c[i] # t[i]}
  <2>4. Diff = {}
    <3> SUFFICES ASSUME Diff # {} PROVE FALSE
      OBVIOUS
    <3> HIDE DEF c
    <3>1. PICK m \in Diff : \A d \in Diff : m <= d
      <4>1. Diff \in SUBSET Nat
        OBVIOUS
      <4> HIDE DEF Diff
      <4> QED
        BY <4>1, LeastExists
    <3>2. m # 0
      BY <3>1, <1>3, <2>2
    <3>3. m - 1 \in 0..k /\ c[m - 1] = t[m - 1] /\ m \in 1..n
      BY <3>1, <3>2
    <3>4. c[m] = Longer(c, m) /\ t[m] = Longer(t, m)
      BY <3>1, <3>2, <3>3, <1>3, <2>2
    <3> QED
      BY <3>1, <3>3, <3>4
  <2> HIDE DEF c
  <2> QED
    BY <2>3, <2>4
<1> QED
  BY <1>3, <1>4

(* The last of the user's messages, if there is one.                       *)
LEMMA LastUserIs ==
  ASSUME NEW messages \in Seq(ChatMessage)
  PROVE  \/ LastUser(messages) = 0
         \/ /\ LastUser(messages) \in 1..Len(messages)
            /\ messages[LastUser(messages)].role = "user"
            /\ \A j \in LastUser(messages) + 1..Len(messages) : messages[j].role # "user"
<1> DEFINE I == {i \in 1..Len(messages) : messages[i].role = "user"}
           T == {Len(messages) - i : i \in I}
<1>1. PICK n \in Nat : n = Len(messages)
  BY LenProperties
<1>2. LastUser(messages) = IF I # {} THEN Max(I) ELSE 0
  BY DEF LastUser, SelectLastInSeq
<1>3. CASE I = {}
  BY <1>2, <1>3
<1>4. CASE I # {}
  <2>1. T \in SUBSET Nat /\ T # {}
    <3>1. \A i \in I : n - i \in Nat
      BY <1>1
    <3>2. T # {}
      BY <1>4
    <3> QED
      BY <1>1, <3>1, <3>2
  <2>2. PICK e \in T : \A t \in T : e <= t
    <3> HIDE DEF T
    <3> QED
      BY <2>1, LeastExists
  <2>3. PICK l \in I : e = n - l
    BY <1>1, <2>2
  <2>4. \A i \in I : n - l <= n - i
    BY <1>1, <2>2, <2>3
  <2>5. l \in Nat /\ l \in 1..n /\ \A i \in I : l >= i
    BY <1>1, <2>4
  <2>6. Max(I) \in I /\ \A i \in I : Max(I) >= i
    <3> HIDE DEF I
    <3> QED
      BY <2>5 DEF Max
  <2>7. PICK m \in I : m = LastUser(messages) /\ \A i \in I : m >= i
    BY <1>2, <1>4, <2>6
  <2>8. m \in 1..Len(messages) /\ messages[m].role = "user"
    BY <2>7
  <2>9. ASSUME NEW j \in m + 1..Len(messages) PROVE messages[j].role # "user"
    <3>1. j \in 1..Len(messages) /\ ~ (m >= j)
      BY <1>1, <2>8
    <3> QED
      BY <2>7, <3>1
  <2> QED
    BY <2>7, <2>8, <2>9
<1> QED
  BY <1>3, <1>4

(* What precedes the question is the end of the dialogue before it, whole  *)
(* if it is short; and none of it is another's than the two who speak.     *)
LEMMA DialogueSpoken ==
  ASSUME NEW messages \in Seq(ChatMessage), NEW n \in 0..Len(messages)
  PROVE  /\ Dialogue(messages, n) \in Seq(ChatMessage)
         /\ \A i \in 1..Len(Dialogue(messages, n)) : Dialogue(messages, n)[i].role \in {"user", "assistant"}
<1>1. n \in Nat
  BY LenProperties
<1>2. PICK upTo \in [0..n -> Seq(ChatMessage)] :
           /\ upTo[0] = << >>
           /\ \A i \in 1..n : upTo[i] = IF IsDialogue(messages[i]) THEN Append(upTo[i - 1], messages[i])
                                        ELSE upTo[i - 1]
           /\ \A i \in 0..n : Dialogue(messages, i) = upTo[i]
  BY DialogueIs
<1> DEFINE Spoken(s) == \A i \in 1..Len(s) : s[i].role \in {"user", "assistant"}
           Bad == {m \in 0..n : ~ Spoken(upTo[m])}
<1>3. Bad = {}
  <2> SUFFICES ASSUME Bad # {} PROVE FALSE
    OBVIOUS
  <2>1. PICK m \in Bad : \A d \in Bad : m <= d
    <3>1. Bad \in SUBSET Nat
      BY <1>1
    <3> HIDE DEF Bad
    <3> QED
      BY <3>1, LeastExists
  <2>2. m # 0
    <3>1. Spoken(<< >>)
      OBVIOUS
    <3> HIDE DEF Spoken
    <3> QED
      BY <1>2, <2>1, <3>1
  <2>3. m \in 1..n /\ m - 1 \in 0..n /\ m - 1 < m
    BY <1>1, <2>1, <2>2
  <2>4. Spoken(upTo[m - 1])
    <3>1. m - 1 \notin Bad
      <4> HIDE DEF Bad
      <4> QED
        BY <2>1, <2>3
    <3> HIDE DEF Spoken
    <3> QED
      BY <2>3, <3>1
  <2>5. CASE IsDialogue(messages[m])
    <3>1. PICK s \in Seq(ChatMessage) : s = upTo[m - 1]
      BY <2>3
    <3>2. messages[m] \in ChatMessage
      BY <1>1, <2>3, ElementOfSeq
    <3>3. upTo[m] = Append(s, messages[m])
      BY <1>2, <2>3, <2>5, <3>1
    <3>4. /\ Len(Append(s, messages[m])) = Len(s) + 1
          /\ \A i \in 1..Len(s) : Append(s, messages[m])[i] = s[i]
          /\ Append(s, messages[m])[Len(s) + 1] = messages[m]
      BY <3>1, <3>2
    <3>5. Spoken(Append(s, messages[m]))
      <4>1. Spoken(s) /\ messages[m].role \in {"user", "assistant"} /\ Len(s) \in Nat
        BY <2>4, <2>5, <3>1 DEF IsDialogue
      <4>2. ASSUME NEW i \in 1..Len(Append(s, messages[m]))
            PROVE  Append(s, messages[m])[i].role \in {"user", "assistant"}
        <5>1. i \in 1..Len(s) \/ i = Len(s) + 1
          BY <3>4, <4>1
        <5> QED
          BY <3>4, <4>1, <5>1
      <4> QED
        BY <4>2
    <3> HIDE DEF Spoken
    <3> QED
      BY <2>1, <3>3, <3>5
  <2>6. CASE ~ IsDialogue(messages[m])
    <3>1. upTo[m] = upTo[m - 1]
      BY <1>2, <2>3, <2>6
    <3> HIDE DEF Spoken
    <3> QED
      BY <2>1, <2>4, <3>1
  <2> QED
    BY <2>5, <2>6
<1>4. Spoken(upTo[n]) /\ Dialogue(messages, n) = upTo[n] /\ upTo[n] \in Seq(ChatMessage)
  <2>1. n \in 0..n
    BY <1>1
  <2> HIDE DEF Spoken
  <2> QED
    BY <1>2, <1>3, <2>1
<1> QED
  BY <1>4

LEMMA DialogueGoesOn ==
  ASSUME NEW messages \in Seq(ChatMessage), NEW n \in 1..Len(messages), IsDialogue(messages[n])
  PROVE  Dialogue(messages, n) = Append(Dialogue(messages, n - 1), messages[n])
<1>1. n \in Nat /\ n \in 0..Len(messages) /\ n \in 1..n /\ n \in 0..n /\ n - 1 \in 0..n
  BY LenProperties
<1>2. PICK upTo \in [0..n -> Seq(ChatMessage)] :
           /\ upTo[0] = << >>
           /\ \A i \in 1..n : upTo[i] = IF IsDialogue(messages[i]) THEN Append(upTo[i - 1], messages[i])
                                        ELSE upTo[i - 1]
           /\ \A i \in 0..n : Dialogue(messages, i) = upTo[i]
  BY <1>1, DialogueIs
<1> QED
  BY <1>1, <1>2

(* The end of a sequence with one more element is a suffix of it.          *)
LEMMA EndIsSuffix ==
  ASSUME NEW S, NEW s \in Seq(S), NEW k \in 0..Len(s), NEW e \in S,
         NEW t \in Seq(S), Len(t) = k, \A i \in 1..k : t[i] = s[Len(s) - k + i]
  PROVE  IsSuffix(Append(t, e), Append(s, e))
<1>1. PICK n \in Nat : n = Len(s)
  BY LenProperties
<1>2. k \in Nat /\ k <= n
  BY <1>1
<1>3. PICK a \in Seq(S) : a = Append(t, e)
  BY AppendProperties
<1>4. PICK b \in Seq(S) : b = Append(s, e)
  BY AppendProperties
<1>5. /\ Len(a) = k + 1 /\ (\A i \in 1..k : a[i] = t[i]) /\ a[k + 1] = e
      /\ Len(b) = n + 1 /\ (\A i \in 1..n : b[i] = s[i]) /\ b[n + 1] = e
  BY <1>1, <1>3, <1>4
<1>6. ASSUME NEW i \in 1..k + 1 PROVE a[k + 1 - i + 1] = b[n + 1 - i + 1]
  <2>1. CASE i = 1
    <3>1. k + 1 - i + 1 = k + 1 /\ n + 1 - i + 1 = n + 1
      BY <1>2, <2>1
    <3> QED
      BY <1>5, <3>1
  <2>2. CASE i # 1
    <3>1. PICK p \in 1..k : p = k + 1 - i + 1
      BY <1>2, <2>2
    <3>2. n - k + p = n + 1 - i + 1 /\ n - k + p \in 1..n
      BY <1>2, <3>1
    <3>3. a[p] = t[p] /\ t[p] = s[n - k + p] /\ b[n - k + p] = s[n - k + p]
      BY <1>1, <1>5, <3>2
    <3> QED
      BY <3>1, <3>2, <3>3
  <2> QED
    BY <2>1, <2>2
<1>7. PICK ra : ra = [i \in 1..k + 1 |-> a[k + 1 - i + 1]]
  OBVIOUS
<1>8. PICK rb : rb = [i \in 1..n + 1 |-> b[n + 1 - i + 1]]
  OBVIOUS
<1>9. Reverse(a) = ra /\ Reverse(b) = rb
  BY <1>5, <1>7, <1>8 DEF Reverse
<1>10. ra \in Seq(S) /\ Len(ra) = k + 1 /\ rb \in Seq(S) /\ Len(rb) = n + 1
  <2>1. ASSUME NEW i \in 1..k + 1 PROVE a[k + 1 - i + 1] \in S
    <3>1. k + 1 - i + 1 \in 1..Len(a)
      BY <1>2, <1>5
    <3> QED
      BY <3>1, ElementOfSeq
  <2>2. ASSUME NEW i \in 1..n + 1 PROVE b[n + 1 - i + 1] \in S
    <3>1. n + 1 - i + 1 \in 1..Len(b)
      BY <1>2, <1>5
    <3> QED
      BY <3>1, ElementOfSeq
  <2>3. ra \in [1..k + 1 -> S] /\ k + 1 \in Nat
    BY <1>2, <1>7, <2>1
  <2>4. rb \in [1..n + 1 -> S] /\ n + 1 \in Nat
    BY <1>2, <1>8, <2>2
  <2>5. ra \in Seq(S) /\ Len(ra) = k + 1
    BY <2>3
  <2>6. rb \in Seq(S) /\ Len(rb) = n + 1
    BY <2>4
  <2> QED
    BY <2>5, <2>6
<1>11. \A i \in 1..k + 1 : ra[i] = rb[i]
  BY <1>2, <1>6, <1>7, <1>8
<1>12. SubSeq(ra, 1, k + 1) = SubSeq(rb, 1, k + 1)
  <2>1. \A i \in 1..k + 1 : ra[i] \in S /\ rb[i] \in S
    BY <1>2, <1>10, <1>11, ElementOfSeq
  <2>2. PICK sa : sa = SubSeq(ra, 1, k + 1)
    OBVIOUS
  <2>3. PICK sb : sb = SubSeq(rb, 1, k + 1)
    OBVIOUS
  <2>4. 1 \in Int /\ k + 1 \in Int /\ 1 <= k + 1
    BY <1>2
  <2>5. /\ sa \in Seq(S) /\ Len(sa) = k + 1 - 1 + 1
        /\ \A i \in 1..k + 1 - 1 + 1 : sa[i] = ra[1 + i - 1]
    BY <2>1, <2>2, <2>4, SubSeqProperties
  <2>6. /\ sb \in Seq(S) /\ Len(sb) = k + 1 - 1 + 1
        /\ \A i \in 1..k + 1 - 1 + 1 : sb[i] = rb[1 + i - 1]
    BY <2>1, <2>3, <2>4, SubSeqProperties
  <2>7. ASSUME NEW i \in 1..Len(sa) PROVE sa[i] = sb[i]
    <3>1. i \in 1..k + 1 - 1 + 1 /\ i \in 1..k + 1 /\ 1 + i - 1 = i
      BY <1>2, <2>5
    <3> QED
      BY <1>11, <2>5, <2>6, <3>1
  <2>8. Len(sa) = Len(sb)
    BY <2>5, <2>6
  <2> QED
    BY <2>2, <2>3, <2>5, <2>6, <2>7, <2>8, SeqEqual
<1>13. Len(ra) <= Len(rb)
  BY <1>2, <1>10
<1>14. IsPrefix(ra, rb)
  BY <1>10, <1>12, <1>13 DEF IsPrefix
<1> QED
  BY <1>3, <1>4, <1>9, <1>14 DEF IsSuffix

LEMMA PriorIs ==
  ASSUME NEW messages \in Seq(ChatMessage), NEW l \in 1..Len(messages), l = LastUser(messages),
         messages[l].role = "user"
  PROVE  /\ Prior(messages) \in Seq(ChatMessage) /\ Len(Prior(messages)) <= MaxPrior
         /\ \A i \in 1..Len(Prior(messages)) : Prior(messages)[i].role \in {"user", "assistant"}
         /\ IsSuffix(Append(Prior(messages), messages[l]), Dialogue(messages, l))
         /\ \/ Len(Prior(messages)) = MaxPrior
            \/ Append(Prior(messages), messages[l]) = Dialogue(messages, l)
<1>1. l \in Nat /\ l - 1 \in 0..Len(messages) /\ MaxPrior \in Nat
  BY LenProperties, ChatEndpointAssumption
<1>2. PICK s \in Seq(ChatMessage) : s = Dialogue(messages, l - 1)
  BY <1>1, DialogueSpoken
<1>3. \A i \in 1..Len(s) : s[i].role \in {"user", "assistant"}
  BY <1>1, <1>2, DialogueSpoken
<1>4. Dialogue(messages, l) = Append(s, messages[l])
  BY <1>2, DialogueGoesOn DEF IsDialogue
<1>5. PICK n \in Nat : n = Len(s)
  BY LenProperties
<1>6. PICK k \in 0..n : k = IF n <= MaxPrior THEN n ELSE MaxPrior
  BY <1>1
<1>7. messages[l] \in ChatMessage
  BY ElementOfSeq
<1>8. PICK t : t = Prior(messages)
  OBVIOUS
<1>9. t \in Seq(ChatMessage) /\ Len(t) = k /\ \A i \in 1..k : t[i] = s[n - k + i]
  <2>1. CASE n <= MaxPrior
    <3>1. t = s /\ k = n
      BY <1>2, <1>5, <1>6, <1>8, <2>1 DEF Prior
    <3>2. \A i \in 1..k : n - k + i = i
      BY <3>1
    <3> QED
      BY <1>5, <3>1, <3>2
  <2>2. CASE ~ (n <= MaxPrior)
    <3>1. k = MaxPrior /\ k < n
      BY <1>1, <1>6, <2>2
    <3>2. t = SubSeq(s, n - k + 1, n)
      BY <1>2, <1>5, <1>8, <2>2, <3>1 DEF Prior
    <3>3. ASSUME NEW i \in n - k + 1..n PROVE s[i] \in ChatMessage
      <4>1. i \in 1..Len(s)
        BY <1>5, <3>1
      <4> QED
        BY <4>1, ElementOfSeq
    <3>4. n - k + 1 \in Int /\ n \in Int
      BY <3>1
    <3>5. /\ t \in Seq(ChatMessage)
          /\ Len(t) = IF n - k + 1 <= n THEN n - (n - k + 1) + 1 ELSE 0
          /\ \A i \in 1..n - (n - k + 1) + 1 : t[i] = s[n - k + 1 + i - 1]
      BY <3>2, <3>3, <3>4, SubSeqProperties
    <3>6. n - (n - k + 1) + 1 = k /\ (\A i \in 1..k : n - k + 1 + i - 1 = n - k + i)
      BY <1>1, <3>1
    <3>7. Len(t) = k
      BY <1>1, <3>1, <3>5, <3>6
    <3> QED
      BY <3>5, <3>6, <3>7
  <2> QED
    BY <2>1, <2>2
<1>10. ASSUME NEW i \in 1..Len(t) PROVE t[i].role \in {"user", "assistant"}
  <2>1. n - k + i \in 1..Len(s) /\ i \in 1..k
    BY <1>5, <1>6, <1>9
  <2> QED
    BY <1>3, <1>9, <2>1
<1>11. IsSuffix(Append(t, messages[l]), Append(s, messages[l]))
  <2>1. k \in 0..Len(s) /\ Len(t) = k /\ \A i \in 1..k : t[i] = s[Len(s) - k + i]
    BY <1>5, <1>9
  <2> QED
    BY <1>7, <1>9, <2>1, EndIsSuffix
<1>12. k <= MaxPrior /\ (k = MaxPrior \/ t = s)
  <2>1. CASE n <= MaxPrior
    <3>1. t = s
      BY <1>2, <1>5, <1>8, <2>1 DEF Prior
    <3> QED
      BY <1>1, <1>6, <3>1
  <2>2. CASE ~ (n <= MaxPrior)
    BY <1>1, <1>6, <2>2
  <2> QED
    BY <2>1, <2>2
<1> QED
  BY <1>4, <1>8, <1>9, <1>10, <1>11, <1>12

(* What the keys configured come to.                                       *)
LEMMA KeysAre ==
  ASSUME keys \in KeySets
  PROVE  \/ keys = {} /\ Verifiable = {}
         \/ keys = {"secret"} /\ Verifiable = {"secret"}
         \/ keys = {"rotating"} /\ Verifiable = {"rotating"}
         \/ keys = {"secret", "rotating"} /\ Verifiable = {"secret", "rotating"}
         \/ keys = {"firebase"} /\ Verifiable = {"session", "id"}
<1>1. \/ keys = {} \/ keys = {"secret"} \/ keys = {"rotating"} \/ keys = {"secret", "rotating"}
      \/ keys = {"firebase"}
  <2>1. keys = {"firebase"} \/ \A k \in keys : k = "secret" \/ k = "rotating"
    BY DEF KeySets
  <2>2. CASE "secret" \in keys /\ "rotating" \in keys
    BY <2>1, <2>2
  <2>3. CASE "secret" \in keys /\ "rotating" \notin keys
    BY <2>1, <2>3
  <2>4. CASE "secret" \notin keys /\ "rotating" \in keys
    BY <2>1, <2>4
  <2>5. CASE "secret" \notin keys /\ "rotating" \notin keys
    BY <2>1, <2>5
  <2> QED
    BY <2>2, <2>3, <2>4, <2>5
<1> QED
  BY <1>1 DEF Verifiable

(* A verdict is right about the caller.                                    *)
LetIn == caller.verdict \in {"machine", "user"}

RightOf(c, online, v) ==
  /\ v \in {"machine", "user"} => c.state = "good" /\ c.form \in {"api_key"} \union Verifiable
  /\ v = "expired" => c.form \in Verifiable /\ c.state = "expired"
  /\ v # "none" /\ online /\ c.form \in Verifiable =>
       /\ c.state = "good" => v \in {"machine", "user"}
       /\ c.state = "expired" /\ ~ErrorIsLost(c.form) => v = "expired"

LEMMA VerdictsFit ==
  ASSUME NEW c \in Credential, NEW online \in BOOLEAN, keys \in KeySets
  PROVE  Verdict(c, online) \in Verdicts /\ RightOf(c, online, Verdict(c, online))
<1>1. /\ c.form \in {"none", "foreign", "api_key", "secret", "rotating", "session", "id"}
      /\ c.state \in {"good", "expired", "revoked"}
      /\ c.state = "revoked" => c.form \in {"api_key", "session", "id"}
  BY DEF Credential
<1>2. \A k \in {"secret", "rotating", "session", "id"} :
        /\ VerdictBy(k, c, online) \in {"user", "expired", "invalid"}
        /\ VerdictBy(k, c, online) = "user" => c.form = k /\ c.state = "good"
        /\ VerdictBy(k, c, online) = "expired" => c.form = k /\ c.state = "expired"
        /\ online /\ c.form = k /\ c.state = "good" => VerdictBy(k, c, online) = "user"
        /\ online /\ c.form = k /\ c.state = "expired" => VerdictBy(k, c, online) = "expired"
  <2>1. ASSUME NEW k \in {"secret", "rotating", "session", "id"}
        PROVE  /\ c.form # k => VerdictBy(k, c, online) = "invalid"
               /\ c.form = k /\ c.state = "good" =>
                    VerdictBy(k, c, online) = "user" \/ (VerdictBy(k, c, online) = "invalid" /\ ~online)
               /\ c.form = k /\ c.state = "expired" =>
                    VerdictBy(k, c, online) = "expired" \/ (VerdictBy(k, c, online) = "invalid" /\ ~online)
               /\ c.state = "revoked" => VerdictBy(k, c, online) = "invalid"
    <3>1. CASE online
      BY <3>1 DEF VerdictBy
    <3>2. CASE ~online
      BY <3>2 DEF VerdictBy
    <3> QED
      BY <3>1, <3>2
  <2> QED
    BY <1>1, <2>1
<1>3. CASE c.form = "none"
  <2>1. Verdict(c, online) = "missing"
    BY <1>3 DEF Verdict
  <2>2. c.form \notin Verifiable
    BY <1>3, KeysAre
  <2> QED
    BY <2>1, <2>2 DEF RightOf, Verdicts
<1>4. CASE c.form = "api_key"
  <2>1. /\ Verdict(c, online) \in {"error", "machine", "invalid"}
        /\ Verdict(c, online) = "machine" => c.state = "good"
    BY <1>4 DEF Verdict, VerifyKey
  <2>2. c.form \notin Verifiable
    BY <1>4, KeysAre
  <2> QED
    BY <1>4, <2>1, <2>2 DEF RightOf, Verdicts
<1>5. CASE c.form \notin {"none", "api_key"}
  <2>1. PICK v : v = Verify(c, online)
    OBVIOUS
  <2>2. Verdict(c, online) = v
    BY <1>5, <2>1 DEF Verdict
  <2>3. v \in {"user", "expired", "invalid"} /\ RightOf(c, online, v)
    <3>1. CASE keys = {}
      <4>1. v = "invalid" /\ Verifiable = {}
        BY <2>1, <3>1, KeysAre DEF Verify
      <4> QED
        BY <4>1 DEF RightOf
    <3>2. CASE keys = {"secret"}
      <4>1. v = VerdictBy("secret", c, online) /\ Verifiable = {"secret"}
        BY <2>1, <3>2, KeysAre DEF Verify
      <4> QED
        BY <1>2, <4>1 DEF RightOf
    <3>3. CASE keys = {"rotating"}
      <4>1. v = VerdictBy("rotating", c, online) /\ Verifiable = {"rotating"}
        BY <2>1, <3>3, KeysAre DEF Verify
      <4> QED
        BY <1>2, <4>1 DEF RightOf
    <3>4. CASE keys = {"secret", "rotating"}
      <4>1. /\ Verifiable = {"secret", "rotating"} /\ ErrorIsLost("secret")
            /\ v = IF VerdictBy("secret", c, online) = "user" THEN "user"
                   ELSE VerdictBy("rotating", c, online)
        BY <2>1, <3>4, KeysAre DEF Verify, Retried, ErrorIsLost
      <4> QED
        BY <1>2, <4>1 DEF RightOf
    <3>5. CASE keys = {"firebase"}
      <4>1. /\ Verifiable = {"session", "id"} /\ ErrorIsLost("session")
            /\ v = IF VerdictBy("session", c, online) = "user" THEN "user"
                   ELSE VerdictBy("id", c, online)
        BY <2>1, <3>5, KeysAre DEF Verify, Retried, ErrorIsLost
      <4> QED
        BY <1>2, <4>1 DEF RightOf
    <3> QED
      BY <3>1, <3>2, <3>3, <3>4, <3>5, KeysAre
  <2> QED
    BY <2>2, <2>3 DEF Verdicts
<1> QED
  BY <1>3, <1>4, <1>5

(* The caller is judged once, and nothing is done before or without that.  *)
CallerFits ==
  /\ keys \in KeySets /\ caller \in [by : Credential, online : BOOLEAN, verdict : Verdicts]
  /\ RightOf(caller.by, caller.online, caller.verdict)
  /\ http.at \notin {"idle", "closed"} \/ spoken # -1 => LetIn

LEMMA CallerKept ==
  ASSUME CallerFits, http.at \notin {"idle", "closed"}, UNCHANGED <<keys, caller>>
  PROVE  CallerFits'
<1>1. keys' = keys /\ caller' = caller
  OBVIOUS
<1>2. LetIn'
  BY <1>1 DEF CallerFits, LetIn
<1>3. RightOf(caller.by, caller.online, caller.verdict)'
  BY <1>1 DEF CallerFits, RightOf, Verifiable, ErrorIsLost
<1> QED
  BY <1>1, <1>2, <1>3 DEF CallerFits

(* What is written to a response.                                          *)
Frame == {"role", "word", "stop", "error_stop", "done", "end", "error", "whole"}

(* Words alone are counted.                                                *)
LEMMA WordsAre ==
  ASSUME NEW f \in Seq(Frame), NEW n \in Nat \ {0}, n <= Len(f),
         \A i \in 1..Len(f) : f[i] = "word" <=> i \in 2..n
  PROVE  Cardinality({i \in DOMAIN f : f[i] = "word"}) = n - 1
<1>1. DOMAIN f = 1..Len(f) /\ Len(f) \in Nat
  BY LenProperties
<1>2. {i \in DOMAIN f : f[i] = "word"} = 2..n
  BY <1>1
<1>3. 2 \in Int /\ n \in Int
  OBVIOUS
<1>4. Cardinality(2..n) = IF 2 > n THEN 0 ELSE n - 2 + 1
  BY <1>3, FS_Interval, Zenon
<1>5. Cardinality(2..n) = n - 1
  BY <1>4
<1> QED
  BY <1>2, <1>5, Zenon

(* What a request that is being answered carries.                          *)
Answering ==
  [at : {"thinking", "streaming"}, sent : Seq(ChatMessage), ask : ChatMessage,
   streams : BOOLEAN, inSession : BOOLEAN, prior : Seq(ChatMessage)]

DialogueFits(h) ==
  /\ h.ask.role = "user" /\ Len(h.prior) <= MaxPrior
  /\ \A i \in 1..Len(h.prior) : h.prior[i].role \in {"user", "assistant"}
  /\ ~h.inSession =>
       \E i \in 1..Len(h.sent) :
         /\ IsSuffix(Append(h.prior, h.ask), Dialogue(h.sent, i))
         /\ Len(h.prior) = MaxPrior \/ Append(h.prior, h.ask) = Dialogue(h.sent, i)
         /\ \A j \in (i + 1)..Len(h.sent) : h.sent[j].role # "user"

(* An open stream: the role, and words.                                    *)
Open(f) ==
  /\ f \in Seq(Frame) /\ Len(f) >= 1 /\ f[1] = "role"
  /\ \A i \in 2..Len(f) : f[i] = "word"

HttpFits ==
  CASE http.at = "idle"      -> frames = << >> /\ spoken = -1
    [] http.at = "admitted"  -> frames = << >>
    [] http.at = "thinking"  ->
         /\ http \in Answering /\ DialogueFits(http)
         /\ frames = IF http.streams THEN <<"role">> ELSE << >>
    [] http.at = "streaming" ->
         /\ http \in Answering /\ DialogueFits(http)
         /\ Open(frames) /\ Len(frames) - 1 <= spoken
    [] http.at = "closed"    -> StreamEndsWell
    [] OTHER -> FALSE

ChatInv ==
  /\ CallerFits /\ gone \in BOOLEAN /\ spoken \in -1..MaxWords
  /\ http.at \in {"idle", "admitted", "thinking", "streaming", "closed"}
  /\ HttpFits

LEMMA ChatInitInv == ChatInit => ChatInv
<1> SUFFICES ASSUME ChatInit PROVE ChatInv
  OBVIOUS
<1>1. /\ keys \in KeySets /\ http = [at |-> "idle"] /\ gone = FALSE /\ frames = << >> /\ spoken = -1
      /\ caller = [by |-> NotPresented, online |-> TRUE, verdict |-> "none"]
  BY DEF ChatInit
<1>2. http.at = "idle"
  BY <1>1
<1>3. gone \in BOOLEAN
  BY <1>1, Zenon
<1>4. spoken \in -1..MaxWords
  BY <1>1, ChatEndpointAssumption
<1>5. HttpFits
  BY <1>1, <1>2 DEF HttpFits
<1>6. CallerFits
  <2>1. NotPresented \in Credential /\ TRUE \in BOOLEAN /\ "none" \in Verdicts
    BY DEF NotPresented, Credential, Verdicts
  <2>2. caller \in [by : Credential, online : BOOLEAN, verdict : Verdicts] /\ caller.verdict = "none"
    BY <1>1, <2>1
  <2> QED
    BY <1>1, <1>2, <2>2 DEF CallerFits, RightOf
<1> QED
  BY <1>2, <1>3, <1>4, <1>5, <1>6 DEF ChatInv

(* A response that never was a stream.                                     *)
LEMMA ClosesWhole ==
  ASSUME NEW w \in {"error", "whole"}, frames = << >>, Closes(<<w>>)
  PROVE  StreamEndsWell'
<1>1. frames' = << >> \o <<w>> \o <<"end">>
  BY DEF Closes
<1>2. PICK a \in Seq(Frame) : a = <<w>>
  <2>1. <<w>> \in Seq(Frame)
    BY DEF Frame
  <2> QED
    BY <2>1
<1>3. PICK b \in Seq(Frame) : b = <<"end">>
  <2>1. <<"end">> \in Seq(Frame)
    BY DEF Frame
  <2> QED
    BY <2>1
<1>4. << >> \o a = a /\ Len(a) = 1 /\ a[1] = w /\ Len(b) = 1
  BY <1>2, <1>3, ConcatEmptySeq
<1>5. (a \o b)[1] = a[1]
  BY <1>4
<1>6. frames'[1] = w
  BY <1>1, <1>2, <1>3, <1>4, <1>5
<1> QED
  BY <1>6 DEF StreamEndsWell

LEMMA AuthenticateFits ==
  ASSUME ChatInv, NEW c \in Credential, NEW online \in BOOLEAN, Authenticate(c, online)
  PROVE  ChatInv'
<1>1. /\ http.at = "idle" /\ frames = << >> /\ spoken = -1 /\ keys \in KeySets
      /\ UNCHANGED <<keys, gone, spoken>>
  BY DEF Authenticate, ChatInv, HttpFits, CallerFits
<1>2. PICK v : v = Verdict(c, online)
  OBVIOUS
<1>3. v \in Verdicts /\ RightOf(c, online, v)
  BY <1>1, <1>2, VerdictsFit
<1>4. PICK x : x = [by |-> c, online |-> online, verdict |-> v]
  OBVIOUS
<1>5. caller' = x
  BY <1>2, <1>4 DEF Authenticate
<1>6. /\ x \in [by : Credential, online : BOOLEAN, verdict : Verdicts]
      /\ x.by = c /\ x.online = online /\ x.verdict = v
  BY <1>3, <1>4
<1>7. RightOf(caller.by, caller.online, caller.verdict)'
  BY <1>1, <1>3, <1>5, <1>6 DEF RightOf, Verifiable, ErrorIsLost
<1>8. CASE v \in {"machine", "user"}
  <2>1. http' = [at |-> "admitted"] /\ UNCHANGED frames
    BY <1>2, <1>8 DEF Authenticate
  <2>2. http'.at = "admitted"
    BY <2>1
  <2>3. LetIn'
    BY <1>5, <1>6, <1>8 DEF LetIn
  <2>4. HttpFits'
    BY <1>1, <2>1, <2>2 DEF HttpFits
  <2>5. CallerFits'
    BY <1>1, <1>5, <1>6, <1>7, <2>3 DEF CallerFits
  <2> QED
    BY <1>1, <2>2, <2>4, <2>5 DEF ChatInv
<1>9. CASE v \notin {"machine", "user"}
  <2>1. http' = [at |-> "closed"] /\ Closes(<<"error">>)
    BY <1>2, <1>9 DEF Authenticate
  <2>2. http'.at = "closed"
    BY <2>1
  <2>3. StreamEndsWell'
    BY <1>1, <2>1, ClosesWhole
  <2>4. HttpFits'
    BY <2>2, <2>3 DEF HttpFits
  <2>5. CallerFits'
    BY <1>1, <1>5, <1>6, <1>7, <2>2 DEF CallerFits
  <2> QED
    BY <1>1, <2>2, <2>4, <2>5 DEF ChatInv
<1> QED
  BY <1>8, <1>9

(* A request that was let in closes.                                       *)
LEMMA ClosesFits ==
  ASSUME CallerFits', http'.at = "closed", gone' \in BOOLEAN, spoken' \in -1..MaxWords, StreamEndsWell'
  PROVE  ChatInv'
<1>1. HttpFits'
  BY DEF HttpFits
<1> QED
  BY <1>1 DEF ChatInv

LEMMA AcceptFits ==
  ASSUME ChatInv, NEW messages \in Histories, NEW known \in BOOLEAN, NEW inSession \in BOOLEAN,
         NEW streams \in BOOLEAN, Accept(messages, known, inSession, streams)
  PROVE  ChatInv'
<1>1. /\ http.at = "admitted" /\ frames = << >> /\ gone \in BOOLEAN /\ spoken \in -1..MaxWords
      /\ UNCHANGED <<gone, spoken>>
  BY DEF Accept, ChatInv, HttpFits
<1>0. CallerFits'
  BY <1>1, CallerKept DEF Accept, ChatInv
<1>2. messages \in Seq(ChatMessage)
  BY ChatEndpointAssumption
<1>3. PICK l : l = LastUser(messages)
  OBVIOUS
<1>4. CASE l = 0 \/ ~known
  <2>1. http' = [at |-> "closed"] /\ Closes(<<"error">>)
    BY <1>3, <1>4 DEF Accept
  <2>2. http'.at = "closed"
    BY <2>1
  <2>3. StreamEndsWell'
    BY <1>1, <2>1, ClosesWhole
  <2> QED
    BY <1>0, <1>1, <2>2, <2>3, ClosesFits
<1>5. CASE ~ (l = 0 \/ ~known)
  <2>1. PICK prior : prior = IF inSession THEN << >> ELSE Prior(messages)
    OBVIOUS
  <2>2. PICK h : h = [at |-> "thinking", sent |-> messages,
                      ask |-> messages[l], streams |-> streams,
                      inSession |-> inSession, prior |-> prior]
    OBVIOUS
  <2>3. http' = h /\ OpensStream(streams)
    BY <1>3, <1>5, <2>1, <2>2 DEF Accept
  <2>4. /\ l \in 1..Len(messages) /\ messages[l].role = "user"
        /\ \A j \in l + 1..Len(messages) : messages[j].role # "user"
    BY <1>2, <1>3, <1>5, LastUserIs
  <2>5. messages[l] \in ChatMessage
    BY <1>2, <2>4, ElementOfSeq
  <2>6. /\ prior \in Seq(ChatMessage) /\ Len(prior) <= MaxPrior
        /\ \A i \in 1..Len(prior) : prior[i].role \in {"user", "assistant"}
    <3>1. CASE inSession
      <4>1. prior = << >> /\ << >> \in Seq(ChatMessage) /\ Len(<< >>) = 0
        BY <2>1, <3>1
      <4>2. MaxPrior \in Nat
        BY ChatEndpointAssumption
      <4> QED
        BY <4>1, <4>2
    <3>2. CASE ~ inSession
      BY <1>2, <1>3, <2>1, <2>4, <3>2, PriorIs
    <3> QED
      BY <3>1, <3>2
  <2>7. ~inSession => /\ IsSuffix(Append(prior, messages[l]), Dialogue(messages, l))
                      /\ \/ Len(prior) = MaxPrior
                         \/ Append(prior, messages[l]) = Dialogue(messages, l)
    BY <1>2, <1>3, <2>1, <2>4, PriorIs
  <2>8. /\ h.at = "thinking" /\ h.sent = messages /\ h.ask = messages[l]
        /\ h.streams = streams /\ h.inSession = inSession /\ h.prior = prior
    BY <2>2
  <2>9. h \in Answering
    BY <1>1, <1>2, <2>2, <2>5, <2>6 DEF Answering
  <2>10. DialogueFits(h)
    BY <2>4, <2>6, <2>7, <2>8 DEF DialogueFits
  <2>11. frames' = IF streams THEN <<"role">> ELSE << >>
    BY <1>1, <2>3 DEF OpensStream
  <2>12. DialogueFits(http)'
    BY <2>3, <2>10 DEF DialogueFits
  <2>13. HttpFits'
    BY <2>3, <2>8, <2>9, <2>11, <2>12 DEF HttpFits
  <2> QED
    BY <1>0, <1>1, <2>3, <2>8, <2>13 DEF ChatInv
<1> QED
  BY <1>4, <1>5

(* The requests that are being answered keep what they carry.              *)
LEMMA AnsweringGoes ==
  ASSUME NEW to \in {"streaming", "closed"}, http \in Answering, DialogueFits(http),
         http' = [http EXCEPT !.at = to]
  PROVE  /\ http'.at = to
         /\ (to = "streaming" => http' \in Answering) /\ DialogueFits(http)'
<1>1. PICK h \in Answering : h = http
  OBVIOUS
<1>2. PICK x : x = [h EXCEPT !.at = to]
  OBVIOUS
<1>3. /\ x.at = to /\ x.sent = h.sent /\ x.ask = h.ask /\ x.prior = h.prior
      /\ x.inSession = h.inSession
  BY <1>2 DEF Answering
<1>4. to = "streaming" => x \in Answering
  BY <1>2 DEF Answering
<1>5. http' = x
  BY <1>1, <1>2
<1>6. DialogueFits(h)
  BY <1>1
<1>7. DialogueFits(x)
  BY <1>3, <1>6 DEF DialogueFits
<1>8. DialogueFits(http)'
  BY <1>5, <1>7 DEF DialogueFits
<1> QED
  BY <1>1, <1>3, <1>4, <1>5, <1>8

LEMMA ClientLeavesFits == ASSUME ChatInv, ClientLeaves PROVE ChatInv'
<1>1. /\ http.at \notin {"idle", "closed"} /\ gone' = TRUE /\ UNCHANGED <<keys, caller, http, frames, spoken>>
  BY DEF ClientLeaves
<1>2. gone' \in BOOLEAN
  BY <1>1, Zenon
<1>3. DialogueFits(http) => DialogueFits(http)'
  BY <1>1 DEF DialogueFits
<1>4. HttpFits'
  BY <1>1, <1>3 DEF ChatInv, HttpFits, Open
<1>5. CallerFits'
  BY <1>1, CallerKept DEF ChatInv
<1> QED
  BY <1>1, <1>2, <1>4, <1>5 DEF ChatInv

(* How a stream ends: after n frames of it, with what tells why.           *)
LEMMA StreamCloses ==
  ASSUME Open(frames), NEW why \in {"stop", "error_stop"}, Closes(<<why, "done">>),
         why = "stop" => (spoken' = Len(frames) - 1 \/ gone')
  PROVE  StreamEndsWell'
<1>1. PICK n \in Nat \ {0} : n = Len(frames)
  BY LenProperties DEF Open
<1>2. PICK f \in Seq(Frame) : f = frames /\ Len(f) = n /\ f[1] = "role" /\ \A i \in 2..n : f[i] = "word"
  BY <1>1 DEF Open
<1>3. PICK a \in Seq(Frame) : a = <<why, "done">>
  <2>1. <<why, "done">> \in Seq(Frame)
    BY DEF Frame
  <2> QED
    BY <2>1
<1>4. PICK b \in Seq(Frame) : b = <<"end">>
  <2>1. <<"end">> \in Seq(Frame)
    BY DEF Frame
  <2> QED
    BY <2>1
<1>5. Len(a) = 2 /\ a[1] = why /\ a[2] = "done" /\ Len(b) = 1 /\ b[1] = "end"
  BY <1>3, <1>4
<1>6. PICK c \in Seq(Frame) : c = f \o a
  BY ConcatProperties
<1>7. /\ Len(c) = n + 2 /\ (\A i \in 1..n : c[i] = f[i]) /\ c[n + 1] = why /\ c[n + 2] = "done"
  <2>1. /\ Len(f \o a) = Len(f) + Len(a)
        /\ \A i \in 1..Len(f) + Len(a) : (f \o a)[i] = IF i <= Len(f) THEN f[i] ELSE a[i - Len(f)]
    BY ConcatProperties
  <2>2. \A i \in 1..n + 2 : c[i] = IF i <= n THEN f[i] ELSE a[i - n]
    BY <1>2, <1>5, <1>6, <2>1
  <2>3. n + 1 \in 1..n + 2 /\ n + 2 \in 1..n + 2 /\ n + 1 - n = 1 /\ n + 2 - n = 2
    BY <1>1
  <2>4. \A i \in 1..n : i \in 1..n + 2 /\ i <= n
    BY <1>1
  <2>5. Len(c) = n + 2
    BY <1>2, <1>5, <1>6, <2>1
  <2>6. c[n + 1] = a[n + 1 - n] /\ c[n + 2] = a[n + 2 - n]
    BY <1>1, <2>2, <2>3
  <2>7. \A i \in 1..n : c[i] = f[i]
    BY <2>2, <2>4
  <2> QED
    BY <1>5, <2>3, <2>5, <2>6, <2>7
<1>8. PICK d \in Seq(Frame) : d = c \o b
  BY ConcatProperties
<1>9. /\ Len(d) = n + 3 /\ (\A i \in 1..n + 2 : d[i] = c[i]) /\ d[n + 3] = "end"
  <2>1. /\ Len(c \o b) = Len(c) + Len(b)
        /\ \A i \in 1..Len(c) + Len(b) : (c \o b)[i] = IF i <= Len(c) THEN c[i] ELSE b[i - Len(c)]
    BY ConcatProperties
  <2>2. \A i \in 1..n + 3 : d[i] = IF i <= n + 2 THEN c[i] ELSE b[i - (n + 2)]
    BY <1>5, <1>7, <1>8, <2>1
  <2>3. n + 3 \in 1..n + 3 /\ n + 3 - (n + 2) = 1
    BY <1>1
  <2>4. \A i \in 1..n + 2 : i \in 1..n + 3 /\ i <= n + 2
    BY <1>1
  <2> QED
    BY <1>5, <1>7, <1>8, <2>1, <2>2, <2>3, <2>4
<1>10. frames' = d
  BY <1>2, <1>3, <1>4, <1>6, <1>8 DEF Closes
<1>11. /\ d[1] = "role" /\ (\A i \in 2..n : d[i] = "word") /\ d[n + 1] = why /\ d[n + 2] = "done"
       /\ d[n + 3] = "end" /\ DOMAIN d = 1..n + 3
  <2>1. 1 \in 1..n /\ 1 \in 1..n + 2 /\ n + 1 \in 1..n + 2 /\ n + 2 \in 1..n + 2
        /\ \A i \in 2..n : i \in 1..n /\ i \in 1..n + 2
    BY <1>1
  <2> QED
    BY <1>2, <1>7, <1>9, <2>1, LenProperties
<1>12. {i \in DOMAIN d : d[i] \in {"stop", "error_stop"}} = {n + 1}
  <2>1. ASSUME NEW i \in DOMAIN d PROVE d[i] \in {"stop", "error_stop"} <=> i = n + 1
    <3>1. i = 1 \/ i \in 2..n \/ i = n + 1 \/ i = n + 2 \/ i = n + 3
      <4>1. i \in 1..n + 3
        BY <1>11
      <4> QED
        BY <1>1, <4>1
    <3>2. d[1] # "stop" /\ d[1] # "error_stop" /\ d[n + 2] # "stop" /\ d[n + 2] # "error_stop"
          /\ d[n + 3] # "stop" /\ d[n + 3] # "error_stop"
      BY <1>11
    <3>3. \A j \in 2..n : d[j] # "stop" /\ d[j] # "error_stop"
      BY <1>11
    <3> QED
      BY <1>1, <1>11, <3>1, <3>2, <3>3
  <2>2. n + 1 \in DOMAIN d
    BY <1>1, <1>11
  <2> QED
    BY <2>1, <2>2
<1>13. Cardinality({i \in DOMAIN d : d[i] = "word"}) = n - 1
  <2>1. ASSUME NEW i \in 1..Len(d) PROVE d[i] = "word" <=> i \in 2..n
    <3>1. i = 1 \/ i \in 2..n \/ i = n + 1 \/ i = n + 2 \/ i = n + 3
      BY <1>1, <1>9
    <3>2. d[1] # "word" /\ d[n + 1] # "word" /\ d[n + 2] # "word" /\ d[n + 3] # "word"
      BY <1>11
    <3> QED
      BY <1>1, <1>11, <3>1, <3>2
  <2>2. n <= Len(d)
    BY <1>1, <1>9
  <2> QED
    BY <2>1, <2>2, WordsAre
<1>14. n + 3 - 2 = n + 1 /\ n + 3 - 1 = n + 2
  BY <1>1
<1>15. why = "stop" /\ ~gone' => Cardinality({i \in DOMAIN d : d[i] = "word"}) = spoken'
  BY <1>1, <1>13
<1>16. StreamEndsWell' <=>
         (http'.at = "closed" /\ d[1] = "role" =>
           /\ {i \in DOMAIN d : d[i] \in {"stop", "error_stop"}} = {Len(d) - 2}
           /\ d[Len(d) - 1] = "done" /\ d[Len(d)] = "end"
           /\ d[Len(d) - 2] = "stop" /\ ~gone' =>
                Cardinality({i \in DOMAIN d : d[i] = "word"}) = spoken')
  BY <1>10 DEF StreamEndsWell, WordsWritten
<1> QED
  BY <1>9, <1>11, <1>12, <1>14, <1>15, <1>16

LEMMA ModelAnswersFits == ASSUME ChatInv, NEW n \in 0..MaxWords, ModelAnswers(n) PROVE ChatInv'
<1>1. /\ http.at = "thinking" /\ http \in Answering /\ DialogueFits(http)
      /\ frames = (IF http.streams THEN <<"role">> ELSE << >>) /\ gone \in BOOLEAN
      /\ spoken' = n /\ UNCHANGED gone
  BY DEF ModelAnswers, ChatInv, HttpFits
<1>0. CallerFits'
  BY <1>1, CallerKept DEF ModelAnswers, ChatInv
<1>2. n \in -1..MaxWords /\ n \in Nat
  BY ChatEndpointAssumption
<1>3. CASE http.streams
  <2>1. http' = [http EXCEPT !.at = "streaming"] /\ frames' = <<"role">>
    BY <1>1, <1>3 DEF ModelAnswers
  <2>2. "streaming" \in {"streaming", "closed"}
    OBVIOUS
  <2>3. /\ http'.at = "streaming" /\ http' \in Answering /\ DialogueFits(http)'
    BY <1>1, <2>1, <2>2, AnsweringGoes
  <2>4. PICK f : f = <<"role">>
    OBVIOUS
  <2>5. f \in Seq(Frame) /\ Len(f) = 1 /\ f[1] = "role"
    BY <2>4 DEF Frame
  <2>6. Open(f)
    BY <2>5 DEF Open
  <2>7. Open(frames)' /\ Len(frames') - 1 <= spoken'
    BY <1>1, <1>2, <2>1, <2>4, <2>5, <2>6 DEF Open
  <2>8. HttpFits'
    BY <1>1, <2>3, <2>7 DEF HttpFits
  <2> QED
    BY <1>0, <1>1, <1>2, <2>3, <2>8 DEF ChatInv
<1>4. CASE ~ http.streams
  <2>1. http' = [http EXCEPT !.at = "closed"] /\ Closes(<<"whole">>) /\ frames = << >>
    BY <1>1, <1>4 DEF ModelAnswers
  <2>2. "closed" \in {"streaming", "closed"}
    OBVIOUS
  <2>3. http'.at = "closed"
    BY <1>1, <2>1, <2>2, AnsweringGoes
  <2>4. StreamEndsWell'
    BY <2>1, ClosesWhole
  <2> QED
    BY <1>0, <1>1, <1>2, <2>3, <2>4, ClosesFits
<1> QED
  BY <1>3, <1>4

LEMMA ModelFailsFits == ASSUME ChatInv, ModelFails PROVE ChatInv'
<1>1. /\ http.at = "thinking" /\ http \in Answering /\ DialogueFits(http)
      /\ frames = (IF http.streams THEN <<"role">> ELSE << >>) /\ gone \in BOOLEAN
      /\ spoken \in -1..MaxWords /\ http' = [http EXCEPT !.at = "closed"]
      /\ Closes(IF http.streams THEN Told ELSE <<"error">>) /\ UNCHANGED <<gone, spoken>>
  BY DEF ModelFails, ChatInv, HttpFits
<1>0. CallerFits'
  BY <1>1, CallerKept DEF ModelFails, ChatInv
<1>2. "closed" \in {"streaming", "closed"}
  OBVIOUS
<1>3. http'.at = "closed"
  BY <1>1, <1>2, AnsweringGoes
<1>4. CASE http.streams
  <2>1. frames = <<"role">> /\ Closes(<<"error_stop", "done">>)
    BY <1>1, <1>4 DEF Told
  <2>2. <<"role">> \in Seq(Frame) /\ Len(<<"role">>) = 1 /\ <<"role">>[1] = "role"
    BY DEF Frame
  <2>3. Open(frames)
    BY <2>1, <2>2 DEF Open
  <2>4. StreamEndsWell'
    BY <2>1, <2>3, StreamCloses
  <2> QED
    BY <1>0, <1>1, <1>3, <2>4, ClosesFits
<1>5. CASE ~ http.streams
  <2>1. frames = << >> /\ Closes(<<"error">>)
    BY <1>1, <1>5
  <2>2. StreamEndsWell'
    BY <2>1, ClosesWhole
  <2> QED
    BY <1>0, <1>1, <1>3, <2>2, ClosesFits
<1> QED
  BY <1>4, <1>5

LEMMA OpenWords == ASSUME Open(frames) PROVE WordsWritten = Len(frames) - 1
<1>1. PICK n \in Nat \ {0} : n = Len(frames)
  BY LenProperties DEF Open
<1>2. ASSUME NEW i \in 1..Len(frames) PROVE frames[i] = "word" <=> i \in 2..n
  <2>1. i = 1 \/ i \in 2..n
    BY <1>1
  <2>2. frames[1] # "word" /\ ~ (1 \in 2..n)
    BY DEF Open
  <2> QED
    BY <1>1, <2>1, <2>2 DEF Open
<1>3. frames \in Seq(Frame) /\ n <= Len(frames)
  BY <1>1 DEF Open
<1>4. PICK f \in Seq(Frame) : f = frames
  BY <1>3
<1>5. Cardinality({i \in DOMAIN f : f[i] = "word"}) = n - 1
  BY <1>2, <1>3, <1>4, WordsAre
<1> QED
  BY <1>1, <1>4, <1>5 DEF WordsWritten

LEMMA WriteWordFits == ASSUME ChatInv, WriteWord PROVE ChatInv'
<1>1. /\ http.at = "streaming" /\ http \in Answering /\ DialogueFits(http)
      /\ Open(frames) /\ Len(frames) - 1 < spoken /\ gone \in BOOLEAN
      /\ spoken \in -1..MaxWords /\ frames' = Append(frames, "word")
      /\ UNCHANGED <<keys, caller, http, gone, spoken>>
  BY OpenWords DEF WriteWord, ChatInv, HttpFits
<1>2. PICK f \in Seq(Frame) : f = frames
  BY <1>1 DEF Open
<1>3. PICK n \in Nat : n = Len(f)
  BY LenProperties
<1>4. PICK g : g = Append(f, "word")
  OBVIOUS
<1>5. "word" \in Frame
  BY DEF Frame
<1>6. g \in Seq(Frame) /\ Len(g) = n + 1 /\ (\A i \in 1..n : g[i] = f[i]) /\ g[n + 1] = "word"
  BY <1>3, <1>4, <1>5, AppendProperties
<1>7. Open(g)
  <2>1. n >= 1 /\ f[1] = "role" /\ \A i \in 2..n : f[i] = "word"
    BY <1>1, <1>2, <1>3 DEF Open
  <2>2. ASSUME NEW i \in 2..Len(g) PROVE g[i] = "word"
    <3>1. i \in 2..n \/ i = n + 1
      BY <1>6
    <3>2. \A j \in 2..n : j \in 1..n
      OBVIOUS
    <3> QED
      BY <1>6, <2>1, <3>1, <3>2
  <2>3. g[1] = "role" /\ Len(g) >= 1
    BY <1>6, <2>1
  <2> QED
    BY <1>6, <2>2, <2>3 DEF Open
<1>8. Open(frames)' /\ Len(frames') - 1 <= spoken'
  <2>1. MaxWords \in Nat
    BY ChatEndpointAssumption
  <2>2. spoken \in Int
    BY <1>1, <2>1
  <2>3. Len(frames') - 1 <= spoken'
    BY <1>1, <1>2, <1>3, <1>4, <1>6, <2>2
  <2> QED
    BY <1>1, <1>2, <1>4, <1>7, <2>3 DEF Open
<1>9. DialogueFits(http)'
  BY <1>1 DEF DialogueFits
<1>10. HttpFits'
  BY <1>1, <1>8, <1>9 DEF HttpFits
<1>11. CallerFits'
  BY <1>1, CallerKept DEF ChatInv
<1> QED
  BY <1>1, <1>10, <1>11 DEF ChatInv

LEMMA EndStreamFits == ASSUME ChatInv, EndStream PROVE ChatInv'
<1>1. /\ http.at = "streaming" /\ http \in Answering /\ DialogueFits(http)
      /\ Open(frames) /\ (WordsWritten = spoken \/ gone) /\ gone \in BOOLEAN
      /\ spoken \in -1..MaxWords /\ http' = [http EXCEPT !.at = "closed"]
      /\ Closes(<<"stop", "done">>) /\ UNCHANGED <<gone, spoken>>
  BY DEF EndStream, MayEnd, ChatInv, HttpFits
<1>2. "closed" \in {"streaming", "closed"}
  OBVIOUS
<1>3. http'.at = "closed"
  BY <1>1, <1>2, AnsweringGoes
<1>4. StreamEndsWell'
  BY <1>1, OpenWords, StreamCloses
<1>5. CallerFits'
  BY <1>1, CallerKept DEF EndStream, ChatInv
<1> QED
  BY <1>1, <1>3, <1>4, <1>5, ClosesFits

LEMMA ChatStep == ASSUME ChatInv, [ChatNext]_chatVars PROVE ChatInv'
<1>1. ASSUME UNCHANGED chatVars PROVE ChatInv'
  <2>1. UNCHANGED <<keys, caller, http, gone, frames, spoken>>
    BY <1>1 DEF chatVars
  <2>2. DialogueFits(http) => DialogueFits(http)'
    BY <2>1 DEF DialogueFits
  <2>3. StreamEndsWell => StreamEndsWell'
    BY <2>1 DEF StreamEndsWell, WordsWritten
  <2>4. HttpFits'
    BY <2>1, <2>2, <2>3 DEF ChatInv, HttpFits, Open
  <2>5. CallerFits'
    BY <2>1 DEF ChatInv, CallerFits, LetIn, RightOf, Verifiable, ErrorIsLost
  <2> QED
    BY <2>1, <2>4, <2>5 DEF ChatInv
<1> QED
  BY <1>1, AuthenticateFits, AcceptFits, ClientLeavesFits, ModelFailsFits, WriteWordFits, EndStreamFits,
     ModelAnswersFits DEF ChatNext

LEMMA ChatInvImplies == ChatInv => ChatTypeOK /\ StreamEndsWell /\ DialogueIsClients /\ VerdictIsRight
<1> SUFFICES ASSUME ChatInv PROVE ChatTypeOK /\ StreamEndsWell /\ DialogueIsClients /\ VerdictIsRight
  OBVIOUS
<1>1. http.at \in {"thinking", "streaming"} =>
        http \in Answering /\ DialogueFits(http)
  BY DEF ChatInv, HttpFits
<1>2. http.at \in {"thinking", "streaming"} =>
        /\ http.ask.role = "user"
        /\ \A i \in 1..Len(http.prior) : http.prior[i].role \in {"user", "assistant"}
        /\ Len(http.prior) <= MaxPrior
  BY <1>1 DEF DialogueFits
<1>3. ChatTypeOK
  BY <1>2 DEF ChatInv, ChatTypeOK, CallerFits
<1>4. StreamEndsWell
  BY DEF ChatInv, HttpFits, StreamEndsWell
<1>5. DialogueIsClients
  BY <1>1 DEF DialogueIsClients, DialogueFits
<1>6. CallerFits
  BY DEF ChatInv
<1>7. VerdictIsRight
  BY <1>6 DEF VerdictIsRight, CallerFits, LetIn, RightOf
<1> QED
  BY <1>3, <1>4, <1>5, <1>7

(* Every request of the chat endpoint is answered as it should be, for any *)
(* messages, any number of words and whenever the client leaves: a stream  *)
(* that was opened ends once and whole, the model is given the dialogue as *)
(* the client has it, and nothing is done for a caller but one with a good *)
(* API key or a good token of a configured key.                            *)
THEOREM ChatCorrect ==
  ChatSpec => [](ChatTypeOK /\ StreamEndsWell /\ DialogueIsClients /\ VerdictIsRight)
<1>1. ChatInit => ChatInv
  BY ChatInitInv
<1>2. ChatInv /\ [ChatNext]_chatVars => ChatInv'
  BY ChatStep
<1>3. ChatInv => ChatTypeOK /\ StreamEndsWell /\ DialogueIsClients /\ VerdictIsRight
  BY ChatInvImplies
<1> QED
  BY <1>1, <1>2, <1>3, PTL DEF ChatSpec

-----------------------------------------------------------------------------
(* Texts with their variables replaced.                                    *)

(* A replacement of every piece is made of the replacements of the first   *)
(* pieces, one more at a time.                                             *)
SubstitutesAs(text, by, upTo) ==
  /\ upTo \in [0..Len(text) -> Seq(Piece)]
  /\ upTo[0] = << >>
  /\ \A i \in 1..Len(text) : upTo[i] = upTo[i - 1] \o by[text[i]]
  /\ Substituted(text, by) = upTo[Len(text)]

LEMMA SubstitutedIs ==
  ASSUME NEW text \in Seq(Piece), NEW by \in [Piece -> Seq(Piece)]
  PROVE  \E upTo : SubstitutesAs(text, by, upTo)
<1>1. PICK n \in Nat : n = Len(text)
  BY LenProperties
<1> DEFINE Longer(t, i) == t[i - 1] \o by[text[i]]
           Grows(m, t) == t \in [0..m -> Seq(Piece)] /\ t[0] = << >>
                           /\ \A i \in 1..m : t[i] = Longer(t, i)
           Bad == {m \in 0..n : ~ \E t : Grows(m, t)}
<1>2. \A i \in 1..n : by[text[i]] \in Seq(Piece)
  <2> TAKE i \in 1..n
  <2>1. text[i] \in Piece
    BY <1>1, ElementOfSeq
  <2> QED
    BY <2>1
<1>3. Bad = {}
  <2> SUFFICES ASSUME Bad # {} PROVE FALSE
    OBVIOUS
  <2>1. PICK m \in Bad : \A d \in Bad : m <= d
    <3>1. Bad \in SUBSET Nat
      <4> HIDE DEF Grows
      <4> QED
        BY <1>1
    <3> HIDE DEF Bad
    <3> QED
      BY <3>1, LeastExists
  <2>2. CASE m = 0
    <3>1. Grows(0, [i \in 0..0 |-> << >>])
      OBVIOUS
    <3> QED
      BY <3>1, <2>1, <2>2
  <2>3. CASE m # 0
    <3>1. m \in 0..n /\ m - 1 \in 0..n /\ m - 1 < m
      BY <1>1, <2>1, <2>3
    <3>2. m - 1 \notin Bad
      <4> HIDE DEF Bad
      <4> QED
        BY <2>1, <3>1
    <3>3. PICK t : Grows(m - 1, t)
      <4> HIDE DEF Grows
      <4> QED
        BY <3>1, <3>2
    <3> DEFINE u == [i \in 0..m |-> IF i = m THEN Longer(t, m) ELSE t[i]]
    <3>4. m \in 1..n /\ t[m - 1] \in Seq(Piece) /\ by[text[m]] \in Seq(Piece)
      BY <1>1, <1>2, <2>3, <3>1, <3>3
    <3>5. Longer(t, m) \in Seq(Piece)
      BY <3>4, ConcatProperties
    <3>6. u \in [0..m -> Seq(Piece)] /\ u[0] = << >>
      BY <2>3, <3>1, <3>3, <3>5
    <3>7. \A i \in 1..m : u[i] = Longer(u, i)
      <4> TAKE i \in 1..m
      <4>1. u[i - 1] = t[i - 1]
        BY <3>1
      <4>2. CASE i = m
        <5>1. u[m] = Longer(t, m)
          <6>1. m \in 0..m
            BY <1>1, <3>1
          <6> HIDE DEF Longer
          <6> QED
            BY <6>1
        <5> QED
          BY <4>1, <4>2, <5>1
      <4>3. CASE i # m
        <5>1. i \in 1..m - 1 /\ u[i] = t[i]
          BY <3>1, <4>3
        <5> QED
          BY <3>3, <4>1, <5>1
      <4> QED
        BY <4>2, <4>3
    <3>8. Grows(m, u)
      BY <3>6, <3>7
    <3> HIDE DEF u, Grows
    <3> QED
      BY <3>8, <2>1
  <2> QED
    BY <2>2, <2>3
<1>4. PICK t : Grows(n, t)
  <2> HIDE DEF Grows
  <2>1. n \in 0..n
    BY <1>1
  <2> QED
    BY <1>3, <2>1
<1>5. Substituted(text, by) = t[n]
  <2> DEFINE Rec(g) == g = [i \in 0..n |-> IF i = 0 THEN << >> ELSE Longer(g, i)]
             c == CHOOSE g : Rec(g)
             r == [i \in 0..n |-> t[i]]
  <2>1. Rec(r)
    <3>1. ASSUME NEW i \in 0..n PROVE r[i] = IF i = 0 THEN << >> ELSE Longer(r, i)
      <4>1. CASE i = 0
        BY <1>4, <4>1
      <4>2. CASE i # 0
        <5>1. i \in 1..n /\ i - 1 \in 0..n
          BY <1>1, <4>2
        <5> QED
          BY <1>4, <4>2, <5>1
      <4> QED
        BY <4>1, <4>2
    <3> QED
      BY <3>1
  <2>2. Rec(c)
    <3> HIDE DEF r, Rec
    <3> QED
      BY <2>1
  <2>3. Substituted(text, by) = c[n]
    BY <1>1 DEF Substituted
  <2> DEFINE Diff == {i \in 0..n : c[i] # t[i]}
  <2>4. Diff = {}
    <3> SUFFICES ASSUME Diff # {} PROVE FALSE
      OBVIOUS
    <3> HIDE DEF c
    <3>1. PICK m \in Diff : \A d \in Diff : m <= d
      <4>1. Diff \in SUBSET Nat
        BY <1>1
      <4> HIDE DEF Diff
      <4> QED
        BY <4>1, LeastExists
    <3>2. m # 0
      BY <3>1, <1>4, <2>2
    <3>3. m - 1 \in 0..n /\ c[m - 1] = t[m - 1] /\ m \in 1..n
      <4>1. m - 1 \in 0..n /\ m \in 1..n /\ m - 1 < m
        BY <1>1, <3>1, <3>2
      <4>2. m - 1 \notin Diff
        <5> HIDE DEF Diff
        <5> QED
          BY <1>1, <3>1, <4>1
      <4> QED
        BY <4>1, <4>2
    <3>4. c[m] = Longer(c, m) /\ t[m] = Longer(t, m)
      BY <3>1, <3>2, <3>3, <1>4, <2>2
    <3> QED
      BY <3>1, <3>3, <3>4
  <2> HIDE DEF c
  <2>5. n \in 0..n
    BY <1>1
  <2> QED
    BY <2>3, <2>4, <2>5
<1> QED
  BY <1>1, <1>4, <1>5 DEF SubstitutesAs

(* A text stays one.                                                       *)
LEMMA SubstitutedType ==
  ASSUME NEW text \in Seq(Piece), NEW by \in [Piece -> Seq(Piece)]
  PROVE  Substituted(text, by) \in Seq(Piece)
<1>1. PICK t : SubstitutesAs(text, by, t)
  BY SubstitutedIs
<1>2. Len(text) \in 0..Len(text)
  BY LenProperties
<1> QED
  BY <1>1, <1>2 DEF SubstitutesAs

(* An empty text and a text of one piece.                                  *)
LEMMA SubstitutedShort ==
  ASSUME NEW by \in [Piece -> Seq(Piece)]
  PROVE  /\ Substituted(<< >>, by) = << >>
         /\ \A x \in Piece : Substituted(<<x>>, by) = by[x]
<1>1. << >> \in Seq(Piece) /\ Len(<< >>) = 0
  OBVIOUS
<1>2. PICK t : SubstitutesAs(<< >>, by, t)
  BY <1>1, SubstitutedIs
<1>3. Substituted(<< >>, by) = << >>
  BY <1>1, <1>2 DEF SubstitutesAs
<1>4. ASSUME NEW x \in Piece PROVE Substituted(<<x>>, by) = by[x]
  <2>1. PICK s \in Seq(Piece) : s = <<x>>
    <3>1. <<x>> \in Seq(Piece)
      OBVIOUS
    <3> QED
      BY <3>1
  <2>2. Len(s) = 1 /\ s[1] = x
    BY <2>1
  <2>3. PICK u : SubstitutesAs(s, by, u)
    BY SubstitutedIs
  <2>4. u[1] = u[0] \o by[x] /\ u[0] = << >> /\ Substituted(s, by) = u[1]
    <3>1. 1 \in 1..Len(s) /\ 1 - 1 = 0
      BY <2>2
    <3>2. u[1] = u[1 - 1] \o by[s[1]]
      BY <2>3, <3>1 DEF SubstitutesAs
    <3> QED
      BY <2>2, <2>3, <3>1, <3>2 DEF SubstitutesAs
  <2>5. << >> \o by[x] = by[x]
    BY ConcatEmptySeq
  <2> QED
    BY <2>1, <2>4, <2>5
<1> QED
  BY <1>3, <1>4

(* A replacement that keeps every piece of a text keeps the text.          *)
LEMMA SubstitutedSame ==
  ASSUME NEW text \in Seq(Piece), NEW by \in [Piece -> Seq(Piece)],
         \A i \in 1..Len(text) : by[text[i]] = <<text[i]>>
  PROVE  Substituted(text, by) = text
<1>1. PICK n \in Nat : n = Len(text)
  BY LenProperties
<1>2. PICK t : SubstitutesAs(text, by, t)
  BY SubstitutedIs
<1> DEFINE Bad == {m \in 0..n : t[m] # SubSeq(text, 1, m)}
<1>3. Bad = {}
  <2> SUFFICES ASSUME Bad # {} PROVE FALSE
    OBVIOUS
  <2>1. PICK m \in Bad : \A d \in Bad : m <= d
    <3>1. Bad \in SUBSET Nat
      BY <1>1
    <3> HIDE DEF Bad
    <3> QED
      BY <3>1, LeastExists
  <2>2. CASE m = 0
    <3>1. SubSeq(text, 1, 0) = << >>
      BY SubSeqEmpty
    <3> QED
      BY <1>2, <2>1, <2>2, <3>1 DEF SubstitutesAs
  <2>3. CASE m # 0
    <3>1. m \in 1..n /\ m - 1 \in 0..n /\ m - 1 < m
      BY <1>1, <2>1, <2>3
    <3>2. m - 1 \notin Bad
      <4> HIDE DEF Bad
      <4> QED
        BY <2>1, <3>1
    <3>3. t[m - 1] = SubSeq(text, 1, m - 1)
      BY <3>1, <3>2
    <3>4. t[m] = t[m - 1] \o <<text[m]>>
      BY <1>1, <1>2, <3>1 DEF SubstitutesAs
    <3>5. SubSeq(text, 1, m) = SubSeq(text, 1, m - 1) \o <<text[m]>>
      <4>1. 1 \in 1..Len(text) /\ m \in 1..Len(text)
        BY <1>1, <3>1
      <4> QED
        BY <4>1, SubSeqRecursiveSecond
    <3> QED
      BY <2>1, <3>3, <3>4, <3>5
  <2> QED
    BY <2>2, <2>3
<1>4. t[n] = SubSeq(text, 1, n)
  BY <1>1, <1>3
<1> QED
  BY <1>1, <1>2, <1>4, SubSeqFull DEF SubstitutesAs

(* Three texts one after the other.                                        *)
LEMMA TextsAssociate ==
  ASSUME NEW d \in Seq(Piece), NEW e \in Seq(Piece), NEW w \in Seq(Piece)
  PROVE  (d \o e) \o w = d \o (e \o w)
BY ConcatAssociative

(* Two texts one after the other are replaced one after the other.         *)
LEMMA SubstitutedConcat ==
  ASSUME NEW a \in Seq(Piece), NEW b \in Seq(Piece), NEW by \in [Piece -> Seq(Piece)]
  PROVE  Substituted(a \o b, by) = Substituted(a, by) \o Substituted(b, by)
<1>1. PICK n \in Nat : n = Len(a)
  BY LenProperties
<1>2. PICK k \in Nat : k = Len(b)
  BY LenProperties
<1>3. PICK c \in Seq(Piece) : c = a \o b
  BY ConcatProperties
<1>4. Len(c) = n + k /\ \A i \in 1..n + k : c[i] = IF i <= n THEN a[i] ELSE b[i - n]
  BY <1>1, <1>2, <1>3, ConcatProperties
<1>5. PICK s : SubstitutesAs(a, by, s)
  BY SubstitutedIs
<1>6. PICK t : SubstitutesAs(b, by, t)
  BY SubstitutedIs
<1>7. PICK u : SubstitutesAs(c, by, u)
  BY SubstitutedIs
<1>8. /\ s \in [0..n -> Seq(Piece)] /\ s[0] = << >> /\ Substituted(a, by) = s[n]
      /\ t \in [0..k -> Seq(Piece)] /\ t[0] = << >> /\ Substituted(b, by) = t[k]
      /\ u[0] = << >> /\ Substituted(c, by) = u[n + k]
      /\ n \in 0..n
  BY <1>1, <1>2, <1>4, <1>5, <1>6, <1>7 DEF SubstitutesAs
<1> DEFINE Bad == {m \in 0..n : u[m] # s[m]}
<1>9. Bad = {}
  <2> SUFFICES ASSUME Bad # {} PROVE FALSE
    OBVIOUS
  <2>1. PICK m \in Bad : \A d \in Bad : m <= d
    <3>1. Bad \in SUBSET Nat
      BY <1>1
    <3> HIDE DEF Bad
    <3> QED
      BY <3>1, LeastExists
  <2>2. m # 0
    BY <1>8, <2>1
  <2>3. m \in 1..n /\ m \in 1..n + k /\ m - 1 \in 0..n /\ m - 1 < m
    BY <1>1, <1>2, <2>1, <2>2
  <2>4. m - 1 \notin Bad
    <3> HIDE DEF Bad
    <3> QED
      BY <2>1, <2>3
  <2>5. s[m] = s[m - 1] \o by[a[m]]
    BY <1>1, <1>5, <2>3 DEF SubstitutesAs
  <2>6. u[m] = u[m - 1] \o by[c[m]]
    BY <1>4, <1>7, <2>3 DEF SubstitutesAs
  <2>7. c[m] = a[m] /\ u[m - 1] = s[m - 1]
    BY <1>4, <2>3, <2>4
  <2> QED
    BY <2>1, <2>5, <2>6, <2>7
<1>10. u[n] = s[n]
  BY <1>8, <1>9
<1> DEFINE Off2 == {m \in 0..k : u[n + m] # s[n] \o t[m]}
<1>11. Off2 = {}
  <2> SUFFICES ASSUME Off2 # {} PROVE FALSE
    OBVIOUS
  <2>1. PICK m \in Off2 : \A d \in Off2 : m <= d
    <3>1. Off2 \subseteq 0..k /\ 0..k \subseteq Nat
      <4>1. 0..k \subseteq Nat
        BY <1>2
      <4>2. Off2 \subseteq 0..k
        BY Zenon
      <4> QED
        BY <4>1, <4>2
    <3> HIDE DEF Off2
    <3> QED
      BY <3>1, LeastExists
  <2>0. s[n] \in Seq(Piece)
    BY <1>8
  <2>2. m # 0
    <3>1. s[n] \o << >> = s[n]
      BY <2>0, ConcatEmptySeq
    <3>2. n + 0 = n
      OBVIOUS
    <3> QED
      BY <1>8, <1>10, <2>1, <3>1, <3>2
  <2>3. /\ m \in 1..k /\ n + m \in 1..n + k /\ m - 1 \in 0..k /\ m - 1 < m
        /\ n + (m - 1) = (n + m) - 1 /\ ~ (n + m <= n) /\ (n + m) - n = m
    BY <1>1, <1>2, <2>1, <2>2
  <2>4. m - 1 \notin Off2
    <3> HIDE DEF Off2
    <3> QED
      BY <2>1, <2>3
  <2>5. t[m] = t[m - 1] \o by[b[m]]
    BY <1>2, <1>6, <2>3 DEF SubstitutesAs
  <2>6. u[n + m] = u[(n + m) - 1] \o by[c[n + m]]
    BY <1>4, <1>7, <2>3 DEF SubstitutesAs
  <2>7. c[n + m] = b[m] /\ u[(n + m) - 1] = s[n] \o t[m - 1]
    BY <1>4, <2>3, <2>4
  <2>8. t[m - 1] \in Seq(Piece) /\ by[b[m]] \in Seq(Piece)
    <3>1. b[m] \in Piece
      BY <1>2, <2>3, ElementOfSeq
    <3> QED
      BY <1>8, <2>3, <3>1
  <2>9. (s[n] \o t[m - 1]) \o by[b[m]] = s[n] \o (t[m - 1] \o by[b[m]])
    <3>1. PICK d \in Seq(Piece) : d = s[n]
      BY <2>0
    <3>2. PICK e \in Seq(Piece) : e = t[m - 1]
      BY <2>8
    <3>3. PICK w \in Seq(Piece) : w = by[b[m]]
      BY <2>8
    <3>4. (d \o e) \o w = d \o (e \o w)
      BY TextsAssociate
    <3> QED
      BY <3>1, <3>2, <3>3, <3>4
  <2> QED
    BY <2>1, <2>5, <2>6, <2>7, <2>9
<1>12. u[n + k] = s[n] \o t[k]
  <2>1. k \in 0..k
    BY <1>2
  <2> QED
    BY <1>11, <2>1
<1> QED
  BY <1>3, <1>8, <1>12

(* Replacing twice is replacing once by what the second makes of the first.*)
BothAtOnce(f, g, h) ==
  /\ {f, g, h} \subseteq [Piece -> Seq(Piece)]
  /\ \A x \in Piece : h[x] = Substituted(f[x], g)

LEMMA SubstitutedTwice ==
  ASSUME NEW text \in Seq(Piece), NEW f, NEW g, NEW h, BothAtOnce(f, g, h)
  PROVE  Substituted(Substituted(text, f), g) = Substituted(text, h)
<1>0. /\ f \in [Piece -> Seq(Piece)] /\ g \in [Piece -> Seq(Piece)]
      /\ h \in [Piece -> Seq(Piece)] /\ \A x \in Piece : h[x] = Substituted(f[x], g)
  BY DEF BothAtOnce
<1>1. PICK n \in Nat : n = Len(text)
  BY LenProperties
<1>2. PICK s : SubstitutesAs(text, f, s)
  BY <1>0, SubstitutedIs
<1>3. PICK t : SubstitutesAs(text, h, t)
  BY <1>0, SubstitutedIs
<1>4. /\ s \in [0..n -> Seq(Piece)] /\ s[0] = << >> /\ Substituted(text, f) = s[n]
      /\ t[0] = << >> /\ Substituted(text, h) = t[n]
  BY <1>1, <1>2, <1>3 DEF SubstitutesAs
<1> DEFINE Bad == {m \in 0..n : Substituted(s[m], g) # t[m]}
<1>5. Bad = {}
  <2> SUFFICES ASSUME Bad # {} PROVE FALSE
    OBVIOUS
  <2>1. PICK m \in Bad : \A d \in Bad : m <= d
    <3>1. Bad \in SUBSET Nat
      BY <1>1
    <3> HIDE DEF Bad
    <3> QED
      BY <3>1, LeastExists
  <2>2. m # 0
    BY <1>0, <1>4, <2>1, SubstitutedShort
  <2>3. m \in 1..n /\ m - 1 \in 0..n /\ m - 1 < m
    BY <1>1, <2>1, <2>2
  <2>4. m - 1 \notin Bad
    <3> HIDE DEF Bad
    <3> QED
      BY <2>1, <2>3
  <2>5. Substituted(s[m - 1], g) = t[m - 1]
    BY <2>3, <2>4
  <2>6. PICK x \in Piece : x = text[m]
    BY <1>1, <2>3, ElementOfSeq
  <2>7. s[m] = s[m - 1] \o f[x]
    BY <1>1, <1>2, <2>3, <2>6 DEF SubstitutesAs
  <2>8. t[m] = t[m - 1] \o h[x]
    BY <1>1, <1>3, <2>3, <2>6 DEF SubstitutesAs
  <2>9. s[m - 1] \in Seq(Piece) /\ f[x] \in Seq(Piece)
    BY <1>0, <1>4, <2>3
  <2>10. Substituted(s[m - 1] \o f[x], g) = Substituted(s[m - 1], g) \o Substituted(f[x], g)
    BY <1>0, <2>9, SubstitutedConcat
  <2> QED
    BY <1>0, <2>1, <2>5, <2>7, <2>8, <2>10
<1>6. n \in 0..n
  BY <1>1
<1> QED
  BY <1>4, <1>5, <1>6

(* Replacing one variable after the other makes one text after the other.  *)
ReplacesAs(text, values, order, after) ==
  /\ after \in [0..Len(order) -> Seq(Piece)]
  /\ after[0] = text
  /\ \A i \in 1..Len(order) : after[i] = Replaced(after[i - 1], order[i], values[order[i]])
  /\ AllReplaced(text, values, order) = after[Len(order)]

LEMMA PuttingIsType ==
  ASSUME NEW v \in Variable, NEW value \in Seq(Piece)
  PROVE  [x \in Piece |-> IF x = v THEN value ELSE <<x>>] \in [Piece -> Seq(Piece)]
<1>1. \A x \in Piece : <<x>> \in Seq(Piece)
  OBVIOUS
<1> QED
  BY <1>1

LEMMA AllReplacedIs ==
  ASSUME NEW text \in Seq(Piece), NEW values \in [Variable -> Seq(Piece)],
         NEW order \in Seq(Variable)
  PROVE  \E after : ReplacesAs(text, values, order, after)
<1>1. PICK n \in Nat : n = Len(order)
  BY LenProperties
<1> DEFINE Further(t, i) == Replaced(t[i - 1], order[i], values[order[i]])
           Grows(m, t) == t \in [0..m -> Seq(Piece)] /\ t[0] = text
                           /\ \A i \in 1..m : t[i] = Further(t, i)
           Bad == {m \in 0..n : ~ \E t : Grows(m, t)}
<1>3. Bad = {}
  <2> SUFFICES ASSUME Bad # {} PROVE FALSE
    OBVIOUS
  <2>1. PICK m \in Bad : \A d \in Bad : m <= d
    <3>1. Bad \in SUBSET Nat
      <4> HIDE DEF Grows
      <4> QED
        BY <1>1
    <3> HIDE DEF Bad
    <3> QED
      BY <3>1, LeastExists
  <2>2. CASE m = 0
    <3>1. Grows(0, [i \in 0..0 |-> text])
      OBVIOUS
    <3> QED
      BY <3>1, <2>1, <2>2
  <2>3. CASE m # 0
    <3>1. m \in 0..n /\ m - 1 \in 0..n /\ m - 1 < m
      BY <1>1, <2>1, <2>3
    <3>2. m - 1 \notin Bad
      <4> HIDE DEF Bad
      <4> QED
        BY <2>1, <3>1
    <3>3. PICK t : Grows(m - 1, t)
      <4> HIDE DEF Grows
      <4> QED
        BY <3>1, <3>2
    <3> DEFINE u == [i \in 0..m |-> IF i = m THEN Further(t, m) ELSE t[i]]
    <3>4. PICK p \in Seq(Piece) : p = t[m - 1]
      BY <1>1, <2>3, <3>1, <3>3
    <3>5. Further(t, m) \in Seq(Piece)
      <4>1. PICK v \in Variable : v = order[m]
        BY <1>1, <2>3, <3>1, ElementOfSeq
      <4>2. PICK w \in Seq(Piece) : w = values[v]
        OBVIOUS
      <4>3. Replaced(p, v, w) \in Seq(Piece)
        BY PuttingIsType, SubstitutedType DEF Replaced
      <4> QED
        BY <3>4, <4>1, <4>2, <4>3
    <3>6. u \in [0..m -> Seq(Piece)] /\ u[0] = text
      <4> HIDE DEF Further
      <4> QED
        BY <2>3, <3>1, <3>3, <3>5
    <3>7. \A i \in 1..m : u[i] = Further(u, i)
      <4> TAKE i \in 1..m
      <4>1. u[i - 1] = t[i - 1]
        <5> HIDE DEF Further
        <5> QED
          BY <3>1
      <4>2. CASE i = m
        <5>1. u[m] = Further(t, m)
          <6>1. m \in 0..m
            BY <1>1, <3>1
          <6> HIDE DEF Further
          <6> QED
            BY <6>1
        <5> QED
          BY <4>1, <4>2, <5>1
      <4>3. CASE i # m
        <5>1. i \in 1..m - 1 /\ u[i] = t[i]
          <6> HIDE DEF Further
          <6> QED
            BY <3>1, <4>3
        <5> QED
          BY <3>3, <4>1, <5>1
      <4> QED
        BY <4>2, <4>3
    <3>8. Grows(m, u)
      BY <3>6, <3>7
    <3> HIDE DEF u, Grows
    <3> QED
      BY <3>8, <2>1
  <2> QED
    BY <2>2, <2>3
<1>4. PICK t : Grows(n, t)
  <2> HIDE DEF Grows
  <2>1. n \in 0..n
    BY <1>1
  <2> QED
    BY <1>3, <2>1
<1>5. AllReplaced(text, values, order) = t[n]
  <2> DEFINE Rec(g) == g = [i \in 0..n |-> IF i = 0 THEN text ELSE Further(g, i)]
             c == CHOOSE g : Rec(g)
             r == [i \in 0..n |-> t[i]]
  <2>1. Rec(r)
    <3>1. ASSUME NEW i \in 0..n PROVE r[i] = IF i = 0 THEN text ELSE Further(r, i)
      <4>1. CASE i = 0
        BY <1>4, <4>1
      <4>2. CASE i # 0
        <5>1. i \in 1..n /\ i - 1 \in 0..n
          BY <1>1, <4>2
        <5> QED
          BY <1>4, <4>2, <5>1
      <4> QED
        BY <4>1, <4>2
    <3> QED
      BY <3>1
  <2>2. Rec(c)
    <3> HIDE DEF r, Rec
    <3> QED
      BY <2>1
  <2>3. AllReplaced(text, values, order) = c[n]
    BY <1>1 DEF AllReplaced
  <2> DEFINE Diff == {i \in 0..n : c[i] # t[i]}
  <2>4. Diff = {}
    <3> SUFFICES ASSUME Diff # {} PROVE FALSE
      OBVIOUS
    <3> HIDE DEF c
    <3>1. PICK m \in Diff : \A d \in Diff : m <= d
      <4>1. Diff \in SUBSET Nat
        BY <1>1
      <4> HIDE DEF Diff
      <4> QED
        BY <4>1, LeastExists
    <3>2. m # 0
      BY <3>1, <1>4, <2>2
    <3>3. m - 1 \in 0..n /\ c[m - 1] = t[m - 1] /\ m \in 1..n
      <4>1. m - 1 \in 0..n /\ m \in 1..n /\ m - 1 < m
        BY <1>1, <3>1, <3>2
      <4>2. m - 1 \notin Diff
        <5> HIDE DEF Diff
        <5> QED
          BY <1>1, <3>1, <4>1
      <4> QED
        BY <4>1, <4>2
    <3>4. c[m] = Further(c, m) /\ t[m] = Further(t, m)
      BY <3>1, <3>2, <3>3, <1>4, <2>2
    <3> QED
      BY <3>1, <3>3, <3>4
  <2> HIDE DEF c
  <2>5. n \in 0..n
    BY <1>1
  <2> QED
    BY <2>3, <2>4, <2>5
<1> QED
  BY <1>1, <1>4, <1>5 DEF ReplacesAs
-----------------------------------------------------------------------------
(* Values without placeholders.                                            *)
PlainValues(values) ==
  /\ values \in [Variable -> Seq(Piece)]
  /\ \A v \in Variable : \A i \in 1..Len(values[v]) : values[v][i] = "text"

(* The replacement of some variables at once.                              *)
Instead(values, some) == [x \in Piece |-> IF x \in some THEN values[x] ELSE <<x>>]

LEMMA InsteadIsType ==
  ASSUME NEW values \in [Variable -> Seq(Piece)], NEW some \in SUBSET Variable
  PROVE  Instead(values, some) \in [Piece -> Seq(Piece)]
<1>1. \A x \in Piece : <<x>> \in Seq(Piece)
  OBVIOUS
<1> QED
  BY <1>1 DEF Instead

(* One variable after the others is one variable more at once.             *)
LEMMA OneMoreReplaced ==
  ASSUME NEW text \in Seq(Piece), NEW values, PlainValues(values)
  PROVE  \A some \in SUBSET Variable, v \in Variable :
           Replaced(Substituted(text, Instead(values, some)), v, values[v])
             = Substituted(text, Instead(values, some \union {v}))
<1> TAKE some \in SUBSET Variable, v \in Variable
<1>1. PICK w \in Seq(Piece) : w = values[v]
  BY DEF PlainValues
<1> DEFINE put == [x \in Piece |-> IF x = v THEN w ELSE <<x>>]
<1>2. PICK g \in [Piece -> Seq(Piece)] : g = put
  BY PuttingIsType
<1>3. PICK f \in [Piece -> Seq(Piece)] : f = Instead(values, some)
  BY InsteadIsType DEF PlainValues
<1>4. some \union {v} \in SUBSET Variable
  OBVIOUS
<1>5. PICK h \in [Piece -> Seq(Piece)] : h = Instead(values, some \union {v})
  BY <1>4, InsteadIsType DEF PlainValues
<1>6. ASSUME NEW x \in Piece PROVE h[x] = Substituted(f[x], g)
  <2>1. CASE x \in some
    <3>1. PICK s \in Seq(Piece) : s = values[x]
      BY <2>1 DEF PlainValues
    <3>2. f[x] = s /\ h[x] = s
      BY <1>3, <1>5, <2>1, <3>1 DEF Instead
    <3>3. \A i \in 1..Len(s) : g[s[i]] = <<s[i]>>
      <4>1. "text" \in Piece /\ v # "text"
        BY SettingsAssumption
      <4>2. g["text"] = <<"text">>
        BY <1>2, <4>1
      <4>3. \A i \in 1..Len(s) : s[i] = "text"
        BY <2>1, <3>1 DEF PlainValues
      <4> QED
        BY <4>2, <4>3
    <3> QED
      BY <3>2, <3>3, SubstitutedSame
  <2>2. CASE x \notin some
    <3>1. f[x] = <<x>>
      BY <1>3, <2>2 DEF Instead
    <3>2. Substituted(<<x>>, g) = g[x]
      BY SubstitutedShort
    <3>3. g[x] = h[x]
      BY <1>1, <1>2, <1>5, <2>2 DEF Instead
    <3> QED
      BY <3>1, <3>2, <3>3
  <2> QED
    BY <2>1, <2>2
<1>7. Substituted(Substituted(text, f), g) = Substituted(text, h)
  <2>1. BothAtOnce(f, g, h)
    BY <1>6 DEF BothAtOnce
  <2> HIDE DEF put
  <2> QED
    BY <2>1, SubstitutedTwice
<1> QED
  BY <1>1, <1>2, <1>3, <1>5, <1>7 DEF Replaced

(* All the variables, in any order that names each.                        *)
NamesAll(order) ==
  /\ order \in Seq(Variable)
  /\ \A v \in Variable : \E i \in 1..Len(order) : order[i] = v

LEMMA AllAtOnce ==
  ASSUME NEW text \in Seq(Piece), NEW values, PlainValues(values), NEW order, NamesAll(order)
  PROVE  AllReplaced(text, values, order) = ReplacedAtOnce(text, values)
<1>0. \A some \in SUBSET Variable, v \in Variable :
        Replaced(Substituted(text, Instead(values, some)), v, values[v])
          = Substituted(text, Instead(values, some \union {v}))
  BY OneMoreReplaced
<1>7. order \in Seq(Variable) /\ \A v \in Variable : \E i \in 1..Len(order) : order[i] = v
  BY DEF NamesAll
<1>1. PICK n \in Nat : n = Len(order) /\ \A i \in 1..n : order[i] \in Variable
  BY <1>7, LenProperties, ElementOfSeq
<1>2. values \in [Variable -> Seq(Piece)]
  BY DEF PlainValues
<1>3. PICK t : ReplacesAs(text, values, order, t)
  BY <1>2, <1>7, AllReplacedIs
<1> DEFINE Till(m) == {order[i] : i \in 1..m}
           Bad == {m \in 0..n : t[m] # Substituted(text, Instead(values, Till(m)))}
<1>4. Bad = {}
  <2> SUFFICES ASSUME Bad # {} PROVE FALSE
    OBVIOUS
  <2>1. PICK m \in Bad : \A d \in Bad : m <= d
    <3>1. Bad \in SUBSET Nat
      <4> HIDE DEF Till
      <4> QED
        BY <1>1
    <3> HIDE DEF Bad
    <3> QED
      BY <3>1, LeastExists
  <2>2. m # 0
    <3>1. ASSUME m = 0 PROVE FALSE
      <4>1. Till(0) = {}
        OBVIOUS
      <4>2. {} \in SUBSET Variable
        OBVIOUS
      <4>3. PICK f \in [Piece -> Seq(Piece)] : f = Instead(values, {})
        BY <1>2, <4>2, InsteadIsType
      <4>4. \A i \in 1..Len(text) : f[text[i]] = <<text[i]>>
        <5> TAKE i \in 1..Len(text)
        <5>1. text[i] \in Piece
          BY ElementOfSeq
        <5> QED
          BY <4>3, <5>1 DEF Instead
      <4>5. Substituted(text, f) = text
        BY <4>4, SubstitutedSame
      <4>6. t[0] = text
        BY <1>3 DEF ReplacesAs
      <4> QED
        BY <2>1, <3>1, <4>1, <4>3, <4>5, <4>6
    <3> QED
      BY <3>1
  <2>3. m \in 1..n /\ m - 1 \in 0..n /\ m - 1 < m
    BY <1>1, <2>1, <2>2
  <2>4. m - 1 \notin Bad
    <3> HIDE DEF Bad
    <3> QED
      BY <2>1, <2>3
  <2>5. t[m - 1] = Substituted(text, Instead(values, Till(m - 1)))
    BY <2>3, <2>4
  <2>6. PICK v \in Variable : v = order[m]
    BY <1>1, <2>3
  <2>7. t[m] = Replaced(t[m - 1], v, values[v])
    BY <1>1, <1>3, <2>3, <2>6 DEF ReplacesAs
  <2>8. Till(m) = Till(m - 1) \union {v}
    BY <1>1, <2>3, <2>6
  <2>9. PICK some \in SUBSET Variable : some = Till(m - 1)
    <3>1. \A i \in 1..m - 1 : order[i] \in Variable
      BY <1>1, <2>3
    <3> QED
      BY <3>1
  <2>10. t[m] = Substituted(text, Instead(values, some \union {v}))
    <3>1. Replaced(Substituted(text, Instead(values, some)), v, values[v])
            = Substituted(text, Instead(values, some \union {v}))
      BY <1>0
    <3>2. t[m - 1] = Substituted(text, Instead(values, some))
      <4> HIDE DEF Till
      <4> QED
        BY <2>5, <2>9
    <3> QED
      BY <2>7, <3>1, <3>2
  <2> QED
    BY <2>1, <2>8, <2>9, <2>10
<1>5. t[n] = Substituted(text, Instead(values, Till(n)))
  <2>1. n \in 0..n
    BY <1>1
  <2> HIDE DEF Till
  <2> QED
    BY <1>4, <2>1
<1>6. Till(n) = Variable
  BY <1>1, <1>7
<1> HIDE DEF Till
<1> QED
  BY <1>1, <1>3, <1>5, <1>6 DEF ReplacesAs, ReplacedAtOnce, Instead

(* Every variable is named in the order of the variables.                  *)
LEMMA OrderNamesAll == NamesAll(SetToSeq(Variable))
<1>1. IsFiniteSet(Variable)
  BY SettingsAssumption
<1>2. PICK n \in Nat : n = Cardinality(Variable)
  BY <1>1, FS_CardinalityType
<1> DEFINE One(f) == f \in [1..n -> Variable] /\ IsInjective(f)
<1>3. \E f : One(f)
  <2>1. ExistsBijection(1..n, Variable)
    BY <1>1, <1>2, FS_CardinalityType
  <2> QED
    BY <2>1 DEF ExistsBijection, Bijection, Injection, IsInjective
<1>4. PICK s : s = SetToSeq(Variable)
  OBVIOUS
<1>5. s \in [1..n -> Variable] /\ IsInjective(s)
  <2>1. SetToSeq(Variable) = CHOOSE f \in [1..n -> Variable] : IsInjective(f)
    BY <1>2 DEF SetToSeq
  <2>2. \E f \in [1..n -> Variable] : IsInjective(f)
    BY <1>3
  <2> QED
    BY <1>4, <2>1, <2>2
<1>6. IsFiniteSet(1..n) /\ Cardinality(1..n) = n
  <2>1. 1 \in Int /\ n \in Int
    OBVIOUS
  <2>2. IsFiniteSet(1..n) /\ Cardinality(1..n) = IF 1 > n THEN 0 ELSE n - 1 + 1
    BY <2>1, FS_Interval, Zenon
  <2> QED
    BY <2>2
<1>7. s \in Injection(1..n, Variable)
  BY <1>5 DEF Injection, IsInjective
<1>8. s \in Surjection(1..n, Variable)
  BY <1>1, <1>2, <1>6, <1>7, FS_Injection
<1>9. \A v \in Variable : \E i \in 1..n : s[i] = v
  BY <1>8 DEF Surjection
<1>10. s \in Seq(Variable) /\ Len(s) = n
  BY <1>5
<1> QED
  BY <1>4, <1>9, <1>10 DEF NamesAll

-----------------------------------------------------------------------------
(* Flags and prompts.                                                      *)
HeldValue == [held : {TRUE}, value : BOOLEAN, kept : Nat, until : Nat, version : Nat,
              overtaken : BOOLEAN]
HeldLoad == [held : {TRUE}, value : BOOLEAN, version : Nat, overtaken : BOOLEAN]
TogglerState ==
  {Off}
    \union [at : {"looked", "flagged"}, value : {"on", "off"}, by : AppProcess]
    \union [at : {"written"}, by : AppProcess, version : Nat]

FlagTypes ==
  /\ flagRow \in BOOLEAN /\ override \in {"unset", "on", "off"}
  /\ override # "unset" => flagRow
  /\ writes \in Nat /\ time \in 0..MaxTime /\ toggles \in 0..MaxToggles
  /\ cache \in [AppProcess -> {Nothing} \union HeldValue]
  /\ loading \in [AppProcess -> {Nothing} \union HeldLoad]
  /\ own \in [AppProcess -> Nat]
  /\ toggler \in [Toggler -> TogglerState]

(* A flag's override is written only when its row is there.                *)
TogglerInv ==
  \A t \in Toggler :
    /\ toggler[t].at = "flagged" => flagRow
    /\ toggler[t].at = "written" => toggler[t].version <= writes

(* A value lasts from when it is kept, and is as recent as what its        *)
(* process has written, unless a load was overtaken.                       *)
CacheInv ==
  \A p \in AppProcess :
    /\ own[p] <= writes
    /\ cache[p].held => /\ cache[p].kept <= time /\ cache[p].until = cache[p].kept + Ttl
                        /\ ~cache[p].overtaken => cache[p].version >= own[p]
    /\ loading[p].held =>
         /\ loading[p].version <= writes
         /\ ~loading[p].overtaken => loading[p].version >= own[p]

AnswerInv ==
  flagAnswer.held =>
    flagAnswer.at = flagAnswer.since \/ flagAnswer.at < flagAnswer.since + Ttl

FlagInv == FlagTypes /\ TogglerInv /\ CacheInv /\ AnswerInv
PromptInv == prompt \in Template /\ PromptIsComplete
SettingsInv == FlagInv /\ PromptInv

LEMMA SettingsInitInv == SettingsInit => SettingsInv
<1> SUFFICES ASSUME SettingsInit PROVE SettingsInv
  OBVIOUS
<1> USE SettingsAssumption
<1>1. MaxTime \in Nat /\ MaxToggles \in Nat
  OBVIOUS
<1>2. FlagTypes
  BY <1>1 DEF SettingsInit, FlagTypes, TogglerState, Off, Nothing
<1>3. TogglerInv /\ CacheInv /\ AnswerInv
  BY DEF SettingsInit, TogglerInv, CacheInv, AnswerInv, Off, Nothing
<1>4. PromptInv
  BY DEF SettingsInit, PromptInv, PromptIsComplete, NotRendered
<1> QED
  BY <1>2, <1>3, <1>4 DEF SettingsInv, FlagInv

LEMMA AskFlagStep ==
  ASSUME FlagInv, NEW p \in AppProcess, AskFlag(p)
  PROVE  FlagInv'
<1> USE SettingsAssumption
<1>1. Ttl \in Nat /\ MaxTime \in Nat /\ time \in Nat /\ writes \in Nat
  BY DEF FlagInv, FlagTypes
<1>2. CASE Fresh(p)
  <2>1. cache[p] \in HeldValue
    BY <1>2 DEF Fresh, FlagInv, FlagTypes, Nothing
  <2>2. flagAnswer' = [held |-> TRUE, value |-> cache[p].value, since |-> cache[p].kept, at |-> time]
    BY <1>2 DEF AskFlag, AnswerFlag
  <2>3. AnswerInv'
    BY <1>1, <1>2, <2>1, <2>2 DEF AnswerInv, Fresh, FlagInv, CacheInv, HeldValue
  <2>4. UNCHANGED <<flagRow, override, cache, loading, writes, own, toggler, time, toggles>>
    BY <1>2 DEF AskFlag
  <2> QED
    BY <2>3, <2>4 DEF FlagInv, FlagTypes, TogglerInv, CacheInv
<1>3. CASE ~Fresh(p)
  <2>1. PICK l : l = [held |-> TRUE, value |-> Effective, version |-> writes, overtaken |-> FALSE]
    OBVIOUS
  <2>2. Effective \in BOOLEAN
    BY DEF Effective
  <2>3. l \in HeldLoad /\ l.version = writes /\ l.held /\ ~l.overtaken
    <3>1. TRUE \in {TRUE} /\ FALSE \in BOOLEAN
      OBVIOUS
    <3> QED
      BY <1>1, <2>1, <2>2, <3>1 DEF HeldLoad
  <2>4. /\ cache' = [cache EXCEPT ![p] = Nothing] /\ loading' = [loading EXCEPT ![p] = l]
        /\ UNCHANGED <<flagRow, override, flagAnswer, writes, own, toggler, time, toggles>>
    BY <1>3, <2>1 DEF AskFlag
  <2>5. FlagTypes'
    BY <2>3, <2>4 DEF FlagInv, FlagTypes
  <2>6. CacheInv'
    <3> SUFFICES ASSUME NEW q \in AppProcess
                 PROVE  /\ own[q] <= writes
                        /\ cache'[q].held =>
                             /\ cache'[q].kept <= time /\ cache'[q].until = cache'[q].kept + Ttl
                             /\ ~cache'[q].overtaken => cache'[q].version >= own[q]
                        /\ loading'[q].held =>
                             /\ loading'[q].version <= writes
                             /\ ~loading'[q].overtaken => loading'[q].version >= own[q]
      BY <2>4 DEF CacheInv
    <3>1. own[q] \in Nat /\ own[q] <= writes
      BY DEF FlagInv, FlagTypes, CacheInv
    <3>2. CASE q = p
      <4>1. cache'[q] = Nothing /\ loading'[q] = l
        BY <2>4, <3>2 DEF FlagInv, FlagTypes
      <4> QED
        BY <1>1, <2>3, <3>1, <4>1 DEF Nothing
    <3>3. CASE q # p
      <4>1. cache'[q] = cache[q] /\ loading'[q] = loading[q]
        BY <2>4, <3>3 DEF FlagInv, FlagTypes
      <4> QED
        BY <3>1, <4>1 DEF FlagInv, CacheInv
    <3> QED
      BY <3>2, <3>3
  <2> QED
    BY <2>4, <2>5, <2>6 DEF FlagInv, TogglerInv, AnswerInv
<1> QED
  BY <1>2, <1>3

LEMMA RememberStep ==
  ASSUME FlagInv, NEW p \in AppProcess, Remember(p)
  PROVE  FlagInv'
<1> USE SettingsAssumption
<1>1. Ttl \in Nat /\ MaxTime \in Nat /\ time \in Nat /\ writes \in Nat
  BY DEF FlagInv, FlagTypes
<1>2. PICK l \in HeldLoad : l = loading[p] /\ l.held /\ l.version <= writes
                            /\ (~l.overtaken => l.version >= own[p])
  BY DEF Remember, FlagInv, FlagTypes, CacheInv, Nothing
<1>3. PICK c : c = [held |-> TRUE, value |-> l.value, kept |-> time, until |-> time + Ttl,
                    version |-> l.version, overtaken |-> l.overtaken]
  OBVIOUS
<1>4. /\ c \in HeldValue /\ c.kept = time /\ c.until = time + Ttl /\ c.held
      /\ c.version = l.version /\ c.overtaken = l.overtaken
  <2>1. TRUE \in {TRUE} /\ l.value \in BOOLEAN /\ l.overtaken \in BOOLEAN /\ l.version \in Nat
        /\ time + Ttl \in Nat
    BY <1>1 DEF HeldLoad
  <2> QED
    BY <1>1, <1>3, <2>1 DEF HeldValue
<1>5. /\ cache' = [cache EXCEPT ![p] = c] /\ loading' = [loading EXCEPT ![p] = Nothing]
      /\ flagAnswer' = [held |-> TRUE, value |-> l.value, since |-> time, at |-> time]
      /\ UNCHANGED <<flagRow, override, writes, own, toggler, time, toggles>>
  BY <1>2, <1>3 DEF Remember, AnswerFlag
<1>6. FlagTypes'
  BY <1>4, <1>5 DEF FlagInv, FlagTypes
<1>7. CacheInv'
  <2> SUFFICES ASSUME NEW q \in AppProcess
               PROVE  /\ own[q] <= writes
                      /\ cache'[q].held =>
                           /\ cache'[q].kept <= time /\ cache'[q].until = cache'[q].kept + Ttl
                           /\ ~cache'[q].overtaken => cache'[q].version >= own[q]
                      /\ loading'[q].held =>
                           /\ loading'[q].version <= writes
                           /\ ~loading'[q].overtaken => loading'[q].version >= own[q]
    BY <1>5 DEF CacheInv
  <2>1. own[q] \in Nat /\ own[q] <= writes
    BY DEF FlagInv, FlagTypes, CacheInv
  <2>2. CASE q = p
    <3>1. cache'[q] = c /\ loading'[q] = Nothing
      BY <1>5, <2>2 DEF FlagInv, FlagTypes
    <3> QED
      BY <1>1, <1>2, <1>4, <2>1, <2>2, <3>1 DEF Nothing
  <2>3. CASE q # p
    <3>1. cache'[q] = cache[q] /\ loading'[q] = loading[q]
      BY <1>5, <2>3 DEF FlagInv, FlagTypes
    <3> QED
      BY <2>1, <3>1 DEF FlagInv, CacheInv
  <2> QED
    BY <2>2, <2>3
<1> QED
  BY <1>5, <1>6, <1>7 DEF FlagInv, TogglerInv, AnswerInv

LEMMA TickStep ==
  ASSUME FlagInv, Tick
  PROVE  FlagInv'
<1> USE SettingsAssumption
<1>1. Ttl \in Nat /\ MaxTime \in Nat /\ time \in Nat /\ time < MaxTime /\ time' = time + 1
  BY DEF FlagInv, FlagTypes, Tick
<1>2. UNCHANGED <<flagRow, override, cache, loading, flagAnswer, writes, own, toggler, toggles>>
  BY DEF Tick
<1>3. FlagTypes'
  <2>1. time' \in 0..MaxTime
    BY <1>1
  <2> QED
    BY <1>2, <2>1 DEF FlagInv, FlagTypes
<1>4. CacheInv'
  <2> SUFFICES ASSUME NEW q \in AppProcess, cache[q].held PROVE cache[q].kept <= time'
    BY <1>2 DEF FlagInv, CacheInv
  <2>1. cache[q] \in HeldValue
    BY DEF FlagInv, FlagTypes, Nothing
  <2>2. cache[q].kept \in Nat /\ cache[q].kept <= time
    BY <2>1 DEF HeldValue, FlagInv, CacheInv
  <2> QED
    BY <1>1, <2>2
<1> QED
  BY <1>2, <1>3, <1>4 DEF FlagInv, TogglerInv, AnswerInv

(* Nothing but the togglers changes.                                       *)
LEMMA TogglesStep ==
  ASSUME FlagInv, NEW t \in Toggler, NEW to \in TogglerState, Toggled(t, to), flagRow' \in BOOLEAN,
         flagRow => flagRow',
         to.at = "flagged" => flagRow', to.at # "written", toggles' \in 0..MaxToggles,
         UNCHANGED <<override, cache, loading, flagAnswer, writes, own, time>>
  PROVE  FlagInv'
<1>1. toggler' = [toggler EXCEPT ![t] = to]
  BY DEF Toggled
<1>2. FlagTypes'
  BY <1>1 DEF FlagInv, FlagTypes
<1>3. TogglerInv'
  <2> SUFFICES ASSUME NEW u \in Toggler
               PROVE  /\ toggler'[u].at = "flagged" => flagRow'
                      /\ toggler'[u].at = "written" => toggler'[u].version <= writes
    BY DEF TogglerInv
  <2>1. CASE u = t
    BY <1>1, <2>1 DEF FlagInv, FlagTypes
  <2>2. CASE u # t
    <3>1. toggler'[u] = toggler[u]
      BY <1>1, <2>2 DEF FlagInv, FlagTypes
    <3> QED
      BY <3>1 DEF FlagInv, TogglerInv
  <2> QED
    BY <2>1, <2>2
<1> QED
  BY <1>2, <1>3 DEF FlagInv, CacheInv, AnswerInv

LEMMA LookStep ==
  ASSUME FlagInv, NEW t \in Toggler, NEW p \in AppProcess, NEW v \in {"on", "off"},
         LookForFlag(t, p, v)
  PROVE  FlagInv'
<1> USE SettingsAssumption
<1>1. PICK to : to = [at |-> IF flagRow THEN "flagged" ELSE "looked", value |-> v, by |-> p]
  OBVIOUS
<1>2. to \in TogglerState /\ (to.at = "flagged" => flagRow) /\ to.at # "written"
  BY <1>1 DEF TogglerState
<1>3. flagRow \in BOOLEAN /\ toggles + 1 \in 0..MaxToggles
  BY DEF LookForFlag, FlagInv, FlagTypes
<1>4. /\ Toggled(t, to) /\ flagRow' = flagRow /\ toggles' = toggles + 1
      /\ UNCHANGED <<override, cache, loading, flagAnswer, writes, own, time>>
  BY <1>1 DEF LookForFlag
<1> QED
  BY <1>2, <1>3, <1>4, TogglesStep

LEMMA AddFlagStep ==
  ASSUME FlagInv, NEW t \in Toggler, AddFlag(t)
  PROVE  FlagInv'
<1>1. PICK s \in [at : {"looked", "flagged"}, value : {"on", "off"}, by : AppProcess] : s = toggler[t]
  BY DEF AddFlag, FlagInv, FlagTypes, TogglerState, Off
<1>2. PICK to : to = IF flagRow THEN Off ELSE [s EXCEPT !.at = "flagged"]
  OBVIOUS
<1>3. to \in TogglerState /\ to.at # "written"
  BY <1>2 DEF TogglerState, Off
<1>4. /\ Toggled(t, to) /\ flagRow' = TRUE
      /\ UNCHANGED <<override, cache, loading, flagAnswer, writes, own, time, toggles>>
  BY <1>1, <1>2 DEF AddFlag
<1>5. toggles' \in 0..MaxToggles /\ flagRow' \in BOOLEAN
  BY <1>4 DEF FlagInv, FlagTypes
<1> QED
  BY <1>3, <1>4, <1>5, TogglesStep

LEMMA WriteOverrideStep ==
  ASSUME FlagInv, NEW t \in Toggler, WriteOverride(t)
  PROVE  FlagInv'
<1>1. /\ toggler[t] \in [at : {"looked", "flagged"}, value : {"on", "off"}, by : AppProcess]
      /\ flagRow
  BY DEF WriteOverride, FlagInv, FlagTypes, TogglerState, TogglerInv, Off
<1>2. writes \in Nat /\ writes' = writes + 1
  BY DEF WriteOverride, FlagInv, FlagTypes
<1>3. PICK to : to = [at |-> "written", by |-> toggler[t].by, version |-> writes']
  OBVIOUS
<1>4. to \in TogglerState /\ to.at = "written" /\ to.version = writes'
  BY <1>1, <1>2, <1>3 DEF TogglerState
<1>5. /\ toggler' = [toggler EXCEPT ![t] = to] /\ override' \in {"on", "off"}
      /\ UNCHANGED <<flagRow, cache, loading, flagAnswer, own, time, toggles>>
  BY <1>1, <1>3 DEF WriteOverride, Toggled
<1>6. FlagTypes'
  <2>1. writes' \in Nat
    BY <1>2
  <2> QED
    BY <1>1, <1>4, <1>5, <2>1 DEF FlagInv, FlagTypes
<1>7. TogglerInv'
  <2> SUFFICES ASSUME NEW u \in Toggler
               PROVE  /\ toggler'[u].at = "flagged" => flagRow
                      /\ toggler'[u].at = "written" => toggler'[u].version <= writes'
    BY <1>5 DEF TogglerInv
  <2>1. CASE u = t
    BY <1>2, <1>4, <1>5, <2>1 DEF FlagInv, FlagTypes
  <2>2. CASE u # t
    <3>1. toggler'[u] = toggler[u]
      BY <1>5, <2>2 DEF FlagInv, FlagTypes
    <3>2. toggler[u].at = "written" => toggler[u].version \in Nat
      BY DEF FlagInv, FlagTypes, TogglerState, Off
    <3> QED
      BY <1>1, <1>2, <3>1, <3>2 DEF FlagInv, TogglerInv
  <2> QED
    BY <2>1, <2>2
<1>8. CacheInv'
  <2> SUFFICES ASSUME NEW q \in AppProcess
               PROVE  own[q] <= writes' /\ (loading[q].held => loading[q].version <= writes')
    BY <1>5 DEF FlagInv, CacheInv
  <2>1. own[q] \in Nat /\ (loading[q].held => loading[q].version \in Nat)
    <3>1. own[q] \in Nat /\ (loading[q].held => loading[q] \in HeldLoad)
      BY DEF FlagInv, FlagTypes, Nothing
    <3> QED
      BY <3>1 DEF HeldLoad
  <2> QED
    BY <1>2, <2>1 DEF FlagInv, CacheInv
<1> QED
  BY <1>5, <1>6, <1>7, <1>8 DEF FlagInv, AnswerInv

LEMMA InvalidateStep ==
  ASSUME FlagInv, NEW t \in Toggler, Invalidate(t)
  PROVE  FlagInv'
<1>1. PICK s \in [at : {"written"}, by : AppProcess, version : Nat] :
        s = toggler[t] /\ s.version <= writes
  BY DEF Invalidate, FlagInv, FlagTypes, TogglerState, TogglerInv, Off
<1>2. PICK p \in AppProcess : p = s.by
  OBVIOUS
<1>3. PICK o \in Nat : o = (IF own[p] > s.version THEN own[p] ELSE s.version) /\ o <= writes
  BY <1>1 DEF FlagInv, FlagTypes, CacheInv
<1>4. PICK l : l = IF loading[p].held THEN [loading[p] EXCEPT !.overtaken = TRUE] ELSE loading[p]
  OBVIOUS
<1>5. /\ l \in {Nothing} \union HeldLoad /\ (l.held => l.overtaken)
      /\ (l.held => loading[p].held /\ l.version = loading[p].version)
  <2>1. loading[p] \in {Nothing} \union HeldLoad
    BY DEF FlagInv, FlagTypes
  <2>2. TRUE \in BOOLEAN
    OBVIOUS
  <2>3. CASE loading[p] = Nothing
    BY <1>4, <2>3 DEF Nothing
  <2>4. CASE loading[p] \in HeldLoad
    BY <1>4, <2>2, <2>4 DEF HeldLoad
  <2> QED
    BY <2>1, <2>3, <2>4
<1>6. /\ cache' = [cache EXCEPT ![p] = Nothing] /\ loading' = [loading EXCEPT ![p] = l]
      /\ own' = [own EXCEPT ![p] = o] /\ toggler' = [toggler EXCEPT ![t] = Off]
      /\ UNCHANGED <<flagRow, override, flagAnswer, writes, time, toggles>>
  BY <1>1, <1>2, <1>3, <1>4 DEF Invalidate, Forgotten, Toggled, FlagInv, FlagTypes
<1>7. FlagTypes'
  <2>1. Off \in TogglerState
    BY DEF TogglerState
  <2> QED
    BY <1>5, <1>6, <2>1 DEF FlagInv, FlagTypes
<1>8. TogglerInv'
  <2> SUFFICES ASSUME NEW u \in Toggler
               PROVE  /\ toggler'[u].at = "flagged" => flagRow
                      /\ toggler'[u].at = "written" => toggler'[u].version <= writes
    BY <1>6 DEF TogglerInv
  <2>1. CASE u = t
    BY <1>6, <2>1 DEF FlagInv, FlagTypes, Off
  <2>2. CASE u # t
    <3>1. toggler'[u] = toggler[u]
      BY <1>6, <2>2 DEF FlagInv, FlagTypes
    <3> QED
      BY <3>1 DEF FlagInv, TogglerInv
  <2> QED
    BY <2>1, <2>2
<1>9. CacheInv'
  <2> SUFFICES ASSUME NEW q \in AppProcess
               PROVE  /\ own'[q] <= writes
                      /\ cache'[q].held =>
                           /\ cache'[q].kept <= time /\ cache'[q].until = cache'[q].kept + Ttl
                           /\ ~cache'[q].overtaken => cache'[q].version >= own'[q]
                      /\ loading'[q].held =>
                           /\ loading'[q].version <= writes
                           /\ ~loading'[q].overtaken => loading'[q].version >= own'[q]
    BY <1>6 DEF CacheInv
  <2>1. CASE q = p
    <3>1. cache'[q] = Nothing /\ loading'[q] = l /\ own'[q] = o
      BY <1>6, <2>1 DEF FlagInv, FlagTypes
    <3>2. l.held => l.version <= writes
      BY <1>5 DEF FlagInv, CacheInv
    <3> QED
      BY <1>3, <1>5, <3>1, <3>2 DEF Nothing
  <2>2. CASE q # p
    <3>1. cache'[q] = cache[q] /\ loading'[q] = loading[q] /\ own'[q] = own[q]
      BY <1>6, <2>2 DEF FlagInv, FlagTypes
    <3> QED
      BY <3>1 DEF FlagInv, CacheInv
  <2> QED
    BY <2>1, <2>2
<1> QED
  BY <1>6, <1>7, <1>8, <1>9 DEF FlagInv, AnswerInv

(* A prompt is delivered as its source with each variable replaced.        *)
LEMMA RenderStep ==
  ASSUME PromptInv, NEW values \in [Variable -> Values], Render(values, SetToSeq(Variable))
  PROVE  PromptInv'
<1>1. prompt' = prompt /\ prompt \in Template
  BY DEF Render, PromptInv
<1>2. prompt \in Seq(Piece)
  BY <1>1, SettingsAssumption
<1> DEFINE text == AllReplaced(prompt, values, SetToSeq(Variable))
<1>3. CASE Leftover(text)
  BY <1>1, <1>3 DEF Render, PromptInv, PromptIsComplete, NotRendered
<1>4. CASE ~Leftover(text)
  <2>1. PICK w : w = text
    OBVIOUS
  <2>2. rendered' = [ok |-> TRUE, text |-> w, of |-> prompt, values |-> values]
    BY <1>4, <2>1 DEF Render
  <2>3. \A i \in 1..Len(w) : w[i] = "text"
    BY <1>4, <2>1 DEF Leftover, Plain
  <2>4. ASSUME \A v \in Variable : ToSet(values[v]) \subseteq Plain
        PROVE  w = ReplacedAtOnce(prompt, values)
    <3>1. \A v \in Variable : values[v] \in Seq(Piece)
      <4> TAKE v \in Variable
      <4>1. "text" \in Piece /\ \A x \in Variable : x \in Piece
        BY SettingsAssumption
      <4>2. values[v] \in Values
        OBVIOUS
      <4>3. <<"text">> \in Seq(Piece) /\ << >> \in Seq(Piece)
        BY <4>1
      <4>4. \A x \in Variable : <<"text", x>> \in Seq(Piece)
        BY <4>1
      <4> QED
        BY <4>2, <4>3, <4>4 DEF Values
    <3>2. values \in [Variable -> Seq(Piece)]
      BY <3>1
    <3>3. \A v \in Variable : \A i \in 1..Len(values[v]) : values[v][i] = "text"
      <4> TAKE v \in Variable
      <4>1. PICK s \in Seq(Piece) : s = values[v]
        BY <3>1
      <4>2. \A i \in 1..Len(s) : s[i] \in ToSet(s)
        BY LenProperties DEF ToSet
      <4> QED
        BY <2>4, <4>1, <4>2 DEF Plain
    <3>4. PlainValues(values)
      BY <3>2, <3>3 DEF PlainValues
    <3> QED
      BY <1>2, <2>1, <3>4, OrderNamesAll, AllAtOnce
  <2> HIDE DEF text
  <2>5. PromptIsComplete'
    BY <2>2, <2>3, <2>4 DEF PromptIsComplete
  <2> QED
    BY <1>1, <2>5 DEF PromptInv
<1> HIDE DEF text
<1> QED
  BY <1>3, <1>4

LEMMA SettingsStep == SettingsInv /\ [SettingsNext]_settingsVars => SettingsInv'
<1> SUFFICES ASSUME SettingsInv, [SettingsNext]_settingsVars PROVE SettingsInv'
  OBVIOUS
<1>1. FlagInv /\ PromptInv
  BY DEF SettingsInv
<1>2. ASSUME UNCHANGED promptVars PROVE PromptInv'
  BY <1>1, <1>2 DEF promptVars, PromptInv, PromptIsComplete
<1>3. ASSUME UNCHANGED flagVars PROVE FlagInv'
  BY <1>1, <1>3 DEF flagVars, FlagInv, FlagTypes, TogglerInv, CacheInv, AnswerInv
<1>4. ASSUME FlagNext PROVE SettingsInv'
  <2>1. FlagInv'
    BY <1>1, <1>4, TickStep, AskFlagStep, RememberStep, AddFlagStep, WriteOverrideStep,
       InvalidateStep, LookStep DEF FlagNext
  <2>2. UNCHANGED promptVars
    BY <1>4 DEF FlagNext, Tick, AskFlag, Remember, AddFlag, WriteOverride, Invalidate, LookForFlag
  <2> QED
    BY <1>2, <2>1, <2>2 DEF SettingsInv
<1>5. ASSUME PromptNext PROVE SettingsInv'
  <2>1. UNCHANGED flagVars
    BY <1>5 DEF PromptNext, SetPrompt, MissingVariable, Render
  <2>2. PromptInv'
    <3>1. ASSUME NEW t \in Template, SetPrompt(t) PROVE PromptInv'
      BY <1>1, <3>1 DEF SetPrompt, PromptInv, PromptIsComplete
    <3>2. ASSUME MissingVariable PROVE PromptInv'
      BY <1>1, <3>2 DEF MissingVariable, PromptInv, PromptIsComplete, NotRendered
    <3> QED
      BY <1>1, <1>5, <3>1, <3>2, RenderStep DEF PromptNext
  <2> QED
    BY <1>3, <2>1, <2>2 DEF SettingsInv
<1>6. CASE UNCHANGED settingsVars
  BY <1>2, <1>3, <1>6 DEF settingsVars, SettingsInv
<1> QED
  BY <1>4, <1>5, <1>6 DEF SettingsNext

LEMMA SettingsInvImplies == SettingsInv => SettingsTypeOK /\ FlagIsRecent /\ PromptIsComplete
<1> SUFFICES ASSUME SettingsInv PROVE SettingsTypeOK /\ FlagIsRecent /\ PromptIsComplete
  OBVIOUS
<1> USE SettingsAssumption
<1>1. FlagTypes /\ TogglerInv /\ CacheInv /\ AnswerInv /\ prompt \in Template /\ PromptIsComplete
  BY DEF SettingsInv, FlagInv, PromptInv
<1>2. \A t \in Toggler : toggler[t].at \in {"idle", "looked", "flagged", "written"}
  BY <1>1 DEF FlagTypes, TogglerState, Off
<1>3. \A p \in AppProcess : cache[p].held => cache[p].until \in 0..(MaxTime + Ttl)
  <2> SUFFICES ASSUME NEW p \in AppProcess, cache[p].held PROVE cache[p].until \in 0..(MaxTime + Ttl)
    OBVIOUS
  <2>1. cache[p].kept \in Nat /\ cache[p].until \in Nat
    <3>1. cache[p] \in HeldValue
      BY <1>1 DEF FlagTypes, Nothing
    <3> QED
      BY <3>1 DEF HeldValue
  <2>2. time \in 0..MaxTime /\ MaxTime \in Nat /\ Ttl \in Nat
    BY <1>1 DEF FlagTypes
  <2> QED
    BY <1>1, <2>1, <2>2 DEF CacheInv
<1>4. SettingsTypeOK
  BY <1>1, <1>2, <1>3 DEF SettingsTypeOK, FlagTypes
<1> QED
  BY <1>1, <1>4 DEF FlagIsRecent, AnswerInv, CacheInv

(* However flags are toggled while processes load them, no value outlives  *)
(* its cache or its process's own write; and a prompt is delivered whole,  *)
(* each variable replaced.                                                 *)
THEOREM SettingsCorrect == SettingsSpec => [](SettingsTypeOK /\ FlagIsRecent /\ PromptIsComplete)
<1>1. SettingsSpec => []SettingsInv
  BY SettingsInitInv, SettingsStep, PTL DEF SettingsSpec
<1> QED
  BY <1>1, SettingsInvImplies, PTL

-----------------------------------------------------------------------------
(* Conversations.                                                          *)
StoredMessage ==
  [role : {"user"}, turn : Turn]
    \union [role : {"call", "tool"}, turn : Turn, call : CallId]
    \union [role : {"answer"}, turn : Turn, by : Source, sources : SUBSET Tool]
SentMessage ==
  [role : {"user", "assistant", "tool"}, calls : SUBSET (Nat \X Nat), call : Nat \X Nat]

Preparing == [at : {"storing", "checking"}, turn : Turn, grounded : Grounding,
              ephemeral : BOOLEAN, history : Seq(SentMessage)]
Thinking == [at : {"asking", "reviewing"}, turn : Turn, ephemeral : BOOLEAN, live : BOOLEAN,
             messages : Seq(SentMessage), iterations : Nat, calls : Nat,
             transcript : Seq(StoredMessage)]
Appending == [at : {"writing"}, left : Seq(StoredMessage)]
RequestState == {Quiet} \union Preparing \union Thinking \union Appending

ConversationTypes ==
  /\ stored \in Seq(StoredMessage)
  /\ request \in [Request -> RequestState]
  /\ questions \in 0..MaxQuestions
  /\ read \in SUBSET (Turn \X Tool) /\ checked \in SUBSET Turn

TurnOf(q) == IF q.at = "writing" THEN q.left[1].turn ELSE q.turn

(* Of a turn that is being answered, the session holds the question alone. *)
OnlyAsked(t) == \A i \in DOMAIN stored : stored[i].turn = t => stored[i].role = "user"
IsAsked(t) == \E i \in DOMAIN stored : stored[i].turn = t /\ stored[i].role = "user"

(* No result of the turn itself is in the history it is read with.         *)
Earlier(messages, t) ==
  \A i \in DOMAIN messages : messages[i].role = "tool" => messages[i].call[1] < t

PreparingFits(q) ==
  /\ q.turn \notin checked /\ Earlier(q.history, q.turn)
  /\ q.at = "storing" => \A i \in DOMAIN stored : stored[i].turn # q.turn
  /\ q.at = "checking" => OnlyAsked(q.turn) /\ (~q.ephemeral => IsAsked(q.turn))

(* A message of the kind that tells of a tool.                             *)
IsTold(m) == m.role \in {"call", "tool"}
Same(m, n) == m.role = n.role /\ m.call = n.call

(* Each call once and each result once, after its call.                    *)
Paired(s, t) ==
  /\ \A i \in DOMAIN s : IsTold(s[i]) /\ s[i].turn = t /\ s[i].call[1] = t
  /\ \A i, j \in DOMAIN s : Same(s[i], s[j]) => i = j
  /\ \A i \in DOMAIN s : s[i].role = "tool" =>
       \E j \in DOMAIN s : j < i /\ s[j].role = "call" /\ s[j].call = s[i].call
  /\ \A i \in DOMAIN s : s[i].role = "call" =>
       \E j \in DOMAIN s : i < j /\ s[j].role = "tool" /\ s[j].call = s[i].call

ThinkingFits(q) ==
  /\ q.turn \in checked => q.live
  /\ FollowsCall(q.messages, q.turn)
  /\ OnlyAsked(q.turn) /\ (~q.ephemeral => IsAsked(q.turn))
  /\ Paired(q.transcript, q.turn)
  /\ \A i \in DOMAIN q.transcript : q.transcript[i].call[2] <= q.calls

(* What is left to be written of a turn: its last message is the answer,   *)
(* and what is stored and what is left are each call and each result once. *)
LeftFits(left, t) ==
  LET n == Len(left) IN
  /\ n >= 1 /\ left[n].role = "answer" /\ left[n].turn = t
  /\ left[n].by = "formatted" \/ t \notin checked
  /\ \A s \in left[n].sources : <<t, s>> \in read
  /\ \A i \in 1..n - 1 : IsTold(left[i]) /\ left[i].turn = t /\ left[i].call[1] = t
  /\ \A i, j \in 1..n - 1 : Same(left[i], left[j]) => i = j
  /\ \A i \in 1..n - 1 : left[i].role = "call" =>
       \E j \in 1..n - 1 : i < j /\ left[j].role = "tool" /\ left[j].call = left[i].call

StoredFits(left, t) ==
  LET n == Len(left) IN
  /\ IsAsked(t)
  /\ \A k \in DOMAIN stored : stored[k].turn = t => stored[k].role # "answer"
  /\ \A k \in DOMAIN stored : \A i \in 1..n - 1 :
       stored[k].turn = t /\ IsTold(stored[k]) => ~Same(stored[k], left[i])
  /\ \A i \in 1..n - 1 : left[i].role = "tool" =>
       \/ \E j \in 1..n - 1 : j < i /\ left[j].role = "call" /\ left[j].call = left[i].call
       \/ \E k \in DOMAIN stored : stored[k].turn = t /\ stored[k].role = "call"
                                   /\ stored[k].call = left[i].call
  /\ \A k \in DOMAIN stored : stored[k].turn = t /\ stored[k].role = "call" =>
       \/ \E l \in DOMAIN stored : stored[l].turn = t /\ stored[l].role = "tool"
                                   /\ stored[l].call = stored[k].call
       \/ \E i \in 1..n - 1 : left[i].role = "tool" /\ left[i].call = stored[k].call

Fits(q) ==
  /\ TurnOf(q) \in 1..questions
  /\ q.at \in {"storing", "checking"} => PreparingFits(q)
  /\ q.at \in {"asking", "reviewing"} => ThinkingFits(q)
  /\ q.at = "writing" => LeftFits(q.left, TurnOf(q)) /\ StoredFits(q.left, TurnOf(q))

RequestsFit ==
  /\ \A r \in Request : request[r].at # "idle" => Fits(request[r])
  /\ \A r, s \in Request : r # s /\ request[r].at # "idle" /\ request[s].at # "idle" =>
       TurnOf(request[r]) # TurnOf(request[s])

(* What is stored: of each turn, each call and each result once.           *)
StoredOnce ==
  /\ \A i \in DOMAIN stored : stored[i].turn <= questions
                              /\ (IsTold(stored[i]) => stored[i].call[1] = stored[i].turn)
  /\ \A i, j \in DOMAIN stored :
       IsTold(stored[i]) /\ stored[i].turn = stored[j].turn /\ Same(stored[i], stored[j]) => i = j

ConversationInv ==
  /\ ConversationTypes /\ RequestsFit /\ StoredOnce
  /\ TranscriptWellFormed /\ SourcesWereRead
  /\ \A t \in checked : t <= questions
-----------------------------------------------------------------------------
(* What is stored grows by one message at a time.                          *)
GrowsBy(n, m) ==
  /\ n \in Nat /\ DOMAIN stored = 1..n /\ DOMAIN stored' = 1..n + 1
  /\ \A i \in 1..n : stored'[i] = stored[i]
  /\ stored'[n + 1] = m

(* Of a turn, what is stored stays and nothing is added.                   *)
KeepsTurn(u) ==
  /\ \A i \in DOMAIN stored : i \in DOMAIN stored' /\ stored'[i] = stored[i]
  /\ \A i \in DOMAIN stored' :
       stored'[i].turn = u => i \in DOMAIN stored /\ stored'[i] = stored[i]

LEMMA Grown ==
  ASSUME stored \in Seq(StoredMessage), NEW m \in StoredMessage, stored' = Append(stored, m)
  PROVE  /\ stored' \in Seq(StoredMessage)
         /\ \E n \in Nat : GrowsBy(n, m)
<1>1. PICK n \in Nat : n = Len(stored) /\ DOMAIN stored = 1..n
  BY LenProperties
<1>2. /\ stored' \in Seq(StoredMessage) /\ Len(stored') = n + 1
      /\ (\A i \in 1..n : stored'[i] = stored[i]) /\ stored'[n + 1] = m
  BY <1>1, AppendProperties
<1>3. DOMAIN stored' = 1..n + 1
  BY <1>2, LenProperties
<1> QED
  BY <1>1, <1>2, <1>3 DEF GrowsBy

LEMMA GrownKeeps ==
  ASSUME NEW n \in Nat, NEW m, GrowsBy(n, m), NEW u, u # m.turn
  PROVE  KeepsTurn(u)
BY DEF GrowsBy, KeepsTurn

LEMMA SameKeeps ==
  ASSUME stored' = stored, NEW u
  PROVE  KeepsTurn(u)
BY DEF KeepsTurn

(* A request stays as it fits while only other turns move.                 *)
LEMMA OtherFits ==
  ASSUME NEW q, Fits(q), NEW t, t = TurnOf(q), KeepsTurn(t), t \in checked' => t \in checked,
         read \subseteq read', questions \in Nat, questions' \in Nat, questions <= questions'
  PROVE  Fits(q)'
<1>1. t \in 1..questions'
  BY DEF Fits
<1>2. OnlyAsked(t) => OnlyAsked(t)'
  BY DEF OnlyAsked, KeepsTurn
<1>3. IsAsked(t) => IsAsked(t)'
  BY DEF IsAsked, KeepsTurn
<1>4. q.at \in {"storing", "checking"} => PreparingFits(q)'
  <2> SUFFICES ASSUME q.at \in {"storing", "checking"} PROVE PreparingFits(q)'
    OBVIOUS
  <2>1. q.turn = t /\ PreparingFits(q)
    BY DEF Fits, TurnOf
  <2>2. (\A i \in DOMAIN stored : stored[i].turn # t) => \A i \in DOMAIN stored' : stored'[i].turn # t
    BY DEF KeepsTurn
  <2> QED
    BY <1>2, <1>3, <2>1, <2>2 DEF PreparingFits
<1>5. q.at \in {"asking", "reviewing"} => ThinkingFits(q)'
  <2> SUFFICES ASSUME q.at \in {"asking", "reviewing"} PROVE ThinkingFits(q)'
    OBVIOUS
  <2>1. q.turn = t /\ ThinkingFits(q)
    BY DEF Fits, TurnOf
  <2> QED
    BY <1>2, <1>3, <2>1 DEF ThinkingFits
<1>6. q.at = "writing" => LeftFits(q.left, t)' /\ StoredFits(q.left, t)'
  <2> SUFFICES ASSUME q.at = "writing" PROVE LeftFits(q.left, t)' /\ StoredFits(q.left, t)'
    OBVIOUS
  <2>1. LeftFits(q.left, t) /\ StoredFits(q.left, t)
    BY DEF Fits
  <2>2. PICK left : left = q.left
    OBVIOUS
  <2>3. LeftFits(left, t)'
    BY <2>1, <2>2 DEF LeftFits
  <2>4. StoredFits(left, t)'
    <3> DEFINE n == Len(left)
    <3> HIDE DEF n
    <3>0. StoredFits(left, t)
      BY <2>1, <2>2
    <3>1. IsAsked(t)'
      BY <1>3, <3>0 DEF StoredFits
    <3>2. \A k \in DOMAIN stored' : stored'[k].turn = t => stored'[k].role # "answer"
      BY <3>0 DEF StoredFits, KeepsTurn
    <3>3. \A k \in DOMAIN stored' : \A i \in 1..n - 1 :
            stored'[k].turn = t /\ IsTold(stored'[k]) => ~Same(stored'[k], left[i])
      BY <3>0 DEF StoredFits, KeepsTurn, n
    <3>4. \A i \in 1..n - 1 : left[i].role = "tool" =>
            \/ \E j \in 1..n - 1 : j < i /\ left[j].role = "call" /\ left[j].call = left[i].call
            \/ \E k \in DOMAIN stored' : stored'[k].turn = t /\ stored'[k].role = "call"
                                         /\ stored'[k].call = left[i].call
      BY <3>0 DEF StoredFits, KeepsTurn, n
    <3>5. \A k \in DOMAIN stored' : stored'[k].turn = t /\ stored'[k].role = "call" =>
            \/ \E l \in DOMAIN stored' : stored'[l].turn = t /\ stored'[l].role = "tool"
                                         /\ stored'[l].call = stored'[k].call
            \/ \E i \in 1..n - 1 : left[i].role = "tool" /\ left[i].call = stored'[k].call
      BY <3>0 DEF StoredFits, KeepsTurn, n
    <3> QED
      BY <3>1, <3>2, <3>3, <3>4, <3>5 DEF StoredFits, n, IsTold, Same
  <2> QED
    BY <2>2, <2>3, <2>4
<1> QED
  BY <1>1, <1>4, <1>5, <1>6 DEF Fits, TurnOf

(* One request moves, and only of its own turn.                            *)
LEMMA RequestsFitStep ==
  ASSUME ConversationTypes, RequestsFit, NEW r \in Request, NEW t, NEW to,
         request' = [request EXCEPT ![r] = to],
         \/ to.at = "idle"
         \/ TurnOf(to) = t /\ Fits(to)',
         \A u : u # t => KeepsTurn(u) /\ (u \in checked' => u \in checked),
         (request[r].at # "idle" /\ TurnOf(request[r]) = t) \/ (t \in Nat /\ t > questions),
         read \subseteq read', questions' \in Nat, questions <= questions'
  PROVE  RequestsFit'
<1>1. /\ request'[r] = to /\ \A s \in Request : s # r => request'[s] = request[s]
  BY DEF ConversationTypes
<1>2. questions \in Nat
  BY DEF ConversationTypes
<1>3. ASSUME NEW s \in Request, s # r, request[s].at # "idle"
      PROVE  Fits(request[s])' /\ TurnOf(request[s]) # t /\ request'[s] = request[s]
  <2>1. PICK q : q = request[s]
    OBVIOUS
  <2>2. Fits(q) /\ TurnOf(q) \in 1..questions
    BY <1>3, <2>1 DEF RequestsFit, Fits
  <2>3. TurnOf(q) # t
    BY <1>2, <1>3, <2>1, <2>2 DEF RequestsFit
  <2>4. Fits(q)'
    BY <1>2, <2>2, <2>3, OtherFits
  <2>5. request'[s] = request[s]
    BY <1>1, <1>3
  <2> QED
    BY <2>1, <2>3, <2>4, <2>5
<1>4. ASSUME NEW s \in Request, request'[s].at # "idle" PROVE Fits(request[s])'
  <2>1. CASE s = r
    <3>1. Fits(to)' /\ request'[s] = to
      BY <1>1, <1>4, <2>1
    <3>2. PICK q : q = request'[s]
      OBVIOUS
    <3> QED
      BY <3>1, <3>2
  <2>2. CASE s # r
    BY <1>1, <1>3, <1>4, <2>2
  <2> QED
    BY <2>1, <2>2
<1>5. ASSUME NEW s \in Request, NEW u \in Request, s # u, request'[s].at # "idle", request'[u].at # "idle"
      PROVE  TurnOf(request'[s]) # TurnOf(request'[u])
  <2>1. CASE s = r
    <3>1. TurnOf(request'[s]) = t
      BY <1>1, <1>5, <2>1
    <3>2. request[u].at # "idle" /\ request'[u] = request[u] /\ u # r
      BY <1>1, <1>5, <2>1
    <3>3. TurnOf(request[u]) # t
      BY <1>3, <3>2
    <3> QED
      BY <3>1, <3>2, <3>3
  <2>2. CASE u = r
    <3>1. TurnOf(request'[u]) = t
      BY <1>1, <1>5, <2>2
    <3>2. request[s].at # "idle" /\ request'[s] = request[s] /\ s # r
      BY <1>1, <1>5, <2>2
    <3>3. TurnOf(request[s]) # t
      BY <1>3, <3>2
    <3> QED
      BY <3>1, <3>2, <3>3
  <2>3. CASE s # r /\ u # r
    BY <1>1, <1>5, <2>3 DEF RequestsFit
  <2> QED
    BY <2>1, <2>2, <2>3
<1> QED
  BY <1>4, <1>5 DEF RequestsFit, TurnOf

-----------------------------------------------------------------------------
(* The messages before one, of its turn.                                   *)
Before(i, role) ==
  {j \in 1..(i - 1) : stored[j].turn = stored[i].turn /\ stored[j].role = role}
WellFormedAt(i) ==
  /\ stored[i].role # "user" => Before(i, "user") # {}
  /\ Before(i, "answer") = {}
  /\ stored[i].role = "tool" => \E j \in Before(i, "call") : stored[j].call = stored[i].call
  /\ stored[i].role = "answer" =>
       Cardinality(Before(i, "call")) = Cardinality(Before(i, "tool"))

LEMMA WellFormedIs == TranscriptWellFormed <=> \A i \in DOMAIN stored : WellFormedAt(i)
BY DEF TranscriptWellFormed, WellFormedAt, Before

(* A message is well placed after those that are stored.                   *)
Placed(m) ==
  LET those(role) == {j \in DOMAIN stored : stored[j].turn = m.turn /\ stored[j].role = role} IN
  /\ m.role # "user" => those("user") # {}
  /\ those("answer") = {}
  /\ m.role = "tool" => \E j \in those("call") : stored[j].call = m.call
  /\ m.role = "answer" => Cardinality(those("call")) = Cardinality(those("tool"))

LEMMA GrownWell ==
  ASSUME NEW n \in Nat, NEW m, GrowsBy(n, m), TranscriptWellFormed, Placed(m)
  PROVE  TranscriptWellFormed'
<1>1. /\ DOMAIN stored = 1..n /\ DOMAIN stored' = 1..n + 1
      /\ \A i \in 1..n : stored'[i] = stored[i]
      /\ stored'[n + 1] = m
  BY DEF GrowsBy
<1>2. ASSUME NEW i \in 1..n PROVE WellFormedAt(i)'
  <2>1. WellFormedAt(i)
    BY <1>1, WellFormedIs
  <2>2. ASSUME NEW role PROVE Before(i, role)' = Before(i, role)
    <3>1. \A j \in 1..(i - 1) : j \in 1..n
      OBVIOUS
    <3> QED
      BY <1>1, <3>1 DEF Before
  <2>3. \A j \in 1..(i - 1) : j \in 1..n
    OBVIOUS
  <2>4. stored'[i] = stored[i]
    BY <1>1
  <2>5. /\ Before(i, "user")' = Before(i, "user") /\ Before(i, "answer")' = Before(i, "answer")
        /\ Before(i, "call")' = Before(i, "call") /\ Before(i, "tool")' = Before(i, "tool")
    BY <2>2
  <2>6. \A j \in Before(i, "call") : stored'[j] = stored[j]
    BY <1>1, <2>3 DEF Before
  <2> QED
    BY <2>1, <2>4, <2>5, <2>6 DEF WellFormedAt
<1>3. WellFormedAt(n + 1)'
  <2> DEFINE those(role) == {j \in DOMAIN stored : stored[j].turn = m.turn /\ stored[j].role = role}
  <2>1. ASSUME NEW role PROVE Before(n + 1, role)' = those(role)
    <3>1. (n + 1) - 1 = n
      OBVIOUS
    <3> QED
      BY <1>1, <3>1 DEF Before
  <2>2. \A j \in those("call") : stored'[j] = stored[j]
    BY <1>1
  <2>3. /\ m.role # "user" => those("user") # {}
        /\ those("answer") = {}
        /\ m.role = "tool" => \E j \in those("call") : stored[j].call = m.call
        /\ m.role = "answer" => Cardinality(those("call")) = Cardinality(those("tool"))
    BY DEF Placed
  <2>4. /\ Before(n + 1, "user")' = those("user") /\ Before(n + 1, "answer")' = those("answer")
        /\ Before(n + 1, "call")' = those("call") /\ Before(n + 1, "tool")' = those("tool")
    BY <2>1
  <2> HIDE DEF those
  <2> QED
    BY <1>1, <2>2, <2>3, <2>4 DEF WellFormedAt
<1>4. \A i \in DOMAIN stored' : WellFormedAt(i)'
  <2> TAKE i \in DOMAIN stored'
  <2>1. i \in 1..n \/ i = n + 1
    BY <1>1
  <2> QED
    BY <1>2, <1>3, <2>1
<1> QED
  BY <1>4 DEF TranscriptWellFormed, WellFormedAt, Before

LEMMA GrownOnce ==
  ASSUME NEW n \in Nat, NEW m, GrowsBy(n, m), StoredOnce, questions' = questions,
         m.turn <= questions, IsTold(m) => m.call[1] = m.turn,
         \A k \in DOMAIN stored : stored[k].turn = m.turn /\ IsTold(stored[k]) => ~Same(stored[k], m)
  PROVE  StoredOnce'
<1>1. /\ DOMAIN stored = 1..n /\ DOMAIN stored' = 1..n + 1
      /\ \A i \in 1..n : stored'[i] = stored[i]
      /\ stored'[n + 1] = m
  BY DEF GrowsBy
<1>2. \A i \in 1..n + 1 : i \in 1..n \/ i = n + 1
  OBVIOUS
<1>3. \A i \in DOMAIN stored' :
        /\ stored'[i].turn <= questions
        /\ IsTold(stored'[i]) => stored'[i].call[1] = stored'[i].turn
  BY <1>1, <1>2 DEF StoredOnce
<1>4. ASSUME NEW i \in DOMAIN stored', NEW j \in DOMAIN stored', IsTold(stored'[i]),
             stored'[i].turn = stored'[j].turn, Same(stored'[i], stored'[j])
      PROVE  i = j
  <2>1. CASE i \in 1..n /\ j \in 1..n
    BY <1>1, <1>4, <2>1 DEF StoredOnce
  <2>2. CASE i \in 1..n /\ j = n + 1
    BY <1>1, <1>4, <2>2
  <2>3. CASE i = n + 1 /\ j \in 1..n
    BY <1>1, <1>4, <2>3 DEF Same, IsTold
  <2>4. CASE i = n + 1 /\ j = n + 1
    BY <2>4
  <2> QED
    BY <1>1, <1>2, <2>1, <2>2, <2>3, <2>4
<1> QED
  BY <1>3, <1>4 DEF StoredOnce, IsTold, Same

LEMMA GrownSources ==
  ASSUME NEW n \in Nat, NEW m, GrowsBy(n, m), SourcesWereRead, read \subseteq read',
         m.role = "answer" => \A s \in m.sources : <<m.turn, s>> \in read'
  PROVE  SourcesWereRead'
<1>1. /\ DOMAIN stored = 1..n /\ DOMAIN stored' = 1..n + 1
      /\ \A i \in 1..n : stored'[i] = stored[i]
      /\ stored'[n + 1] = m
  BY DEF GrowsBy
<1>2. \A i \in 1..n + 1 : i \in 1..n \/ i = n + 1
  OBVIOUS
<1> QED
  BY <1>1, <1>2 DEF SourcesWereRead

(* Calls and results that are one for one are as many.                     *)
LEMMA AsMany ==
  ASSUME stored \in Seq(StoredMessage), StoredOnce, TranscriptWellFormed, NEW t,
         \A k \in DOMAIN stored : stored[k].turn = t /\ stored[k].role = "call" =>
           \E l \in DOMAIN stored : stored[l].turn = t /\ stored[l].role = "tool"
                                    /\ stored[l].call = stored[k].call
  PROVE  Cardinality({j \in DOMAIN stored : stored[j].turn = t /\ stored[j].role = "call"})
           = Cardinality({j \in DOMAIN stored : stored[j].turn = t /\ stored[j].role = "tool"})
<1> DEFINE Calls == {j \in DOMAIN stored : stored[j].turn = t /\ stored[j].role = "call"}
           Results == {j \in DOMAIN stored : stored[j].turn = t /\ stored[j].role = "tool"}
<1>1. PICK n \in Nat : DOMAIN stored = 1..n
  BY LenProperties
<1>2. IsFiniteSet(1..n)
  <2>1. 1 \in Int /\ n \in Int
    OBVIOUS
  <2> QED
    BY <2>1, FS_Interval, Zenon
<1>3. IsFiniteSet(Calls) /\ IsFiniteSet(Results)
  <2>1. Calls \in SUBSET (1..n) /\ Results \in SUBSET (1..n)
    BY <1>1
  <2> HIDE DEF Calls, Results
  <2> QED
    BY <1>2, <2>1, FS_Subset
<1>4. Cardinality(Calls) \in Nat /\ Cardinality(Results) \in Nat
  <2> HIDE DEF Calls, Results
  <2> QED
    BY <1>3, FS_CardinalityType
<1>5. \A k \in Calls : \E l \in Results : stored[l].call = stored[k].call
  OBVIOUS
<1>6. \A l \in Results : \E k \in Calls : stored[k].call = stored[l].call
  <2> TAKE l \in Results
  <2>1. \E j \in Before(l, "call") : stored[j].call = stored[l].call
    BY WellFormedIs DEF WellFormedAt
  <2>2. \A j \in Before(l, "call") : j \in Calls
    BY <1>1 DEF Before
  <2> QED
    BY <2>1, <2>2
<1>7. \A k, l \in Calls : stored[k].call = stored[l].call => k = l
  BY DEF StoredOnce, IsTold, Same
<1>8. \A k, l \in Results : stored[k].call = stored[l].call => k = l
  BY DEF StoredOnce, IsTold, Same
<1>9. Cardinality(Calls) <= Cardinality(Results)
  <2> DEFINE f == [k \in Calls |-> CHOOSE l \in Results : stored[l].call = stored[k].call]
  <2> HIDE DEF Calls, Results
  <2>1. \A k \in Calls : f[k] \in Results /\ stored[f[k]].call = stored[k].call
    BY <1>5
  <2>2. f \in [Calls -> Results]
    BY <2>1
  <2>3. \A k, l \in Calls : f[k] = f[l] => k = l
    BY <1>7, <2>1
  <2> HIDE DEF f
  <2>4. f \in Injection(Calls, Results)
    BY <2>2, <2>3 DEF Injection, IsInjective
  <2> QED
    BY <1>3, <2>4, FS_Injection
<1>10. Cardinality(Results) <= Cardinality(Calls)
  <2> DEFINE f == [k \in Results |-> CHOOSE l \in Calls : stored[l].call = stored[k].call]
  <2> HIDE DEF Calls, Results
  <2>1. \A k \in Results : f[k] \in Calls /\ stored[f[k]].call = stored[k].call
    BY <1>6
  <2>2. f \in [Results -> Calls]
    BY <2>1
  <2>3. \A k, l \in Results : f[k] = f[l] => k = l
    BY <1>8, <2>1
  <2> HIDE DEF f
  <2>4. f \in Injection(Results, Calls)
    BY <2>2, <2>3 DEF Injection, IsInjective
  <2> QED
    BY <1>3, <2>4, FS_Injection
<1> HIDE DEF Calls, Results
<1>11. Cardinality(Calls) = Cardinality(Results)
  BY <1>4, <1>9, <1>10
<1> QED
  BY <1>11 DEF Calls, Results

-----------------------------------------------------------------------------
(* The messages a request sends.                                           *)
LEMMA SentType ==
  ASSUME NEW role \in {"user", "assistant", "tool"}, NEW calls \in SUBSET (Nat \X Nat),
         NEW call \in Nat \X Nat
  PROVE  Sent(role, calls, call) \in SentMessage
BY DEF Sent, SentMessage

LEMMA PlainSent ==
  /\ NoToolCall \in Nat \X Nat
  /\ \A role \in {"user", "assistant", "tool"} : Sent(role, {}, NoToolCall) \in SentMessage
<1>1. NoToolCall \in Nat \X Nat
  BY DEF NoToolCall
<1> QED
  BY <1>1 DEF Sent, SentMessage

LEMMA TurnIsNat == Turn \subseteq Nat /\ CallId \subseteq Nat \X Nat
<1>1. MaxQuestions \in Nat
  BY ConversationAssumption
<1>2. \A i \in 1..MaxQuestions : i \in Nat
  OBVIOUS
<1>3. Turn \subseteq Nat
  BY <1>2 DEF Turn
<1> QED
  BY <1>3 DEF CallId

(* A history is of earlier turns.                                          *)
LEMMA HistoryFits ==
  ASSUME ConversationTypes, StoredOnce
  PROVE  History \in Seq(SentMessage) /\ Earlier(History, questions + 1)
<1>1. PICK n \in Nat : n = Len(stored) /\ DOMAIN stored = 1..n
                       /\ \A i \in 1..n : stored[i] \in StoredMessage
  BY LenProperties, ElementOfSeq DEF ConversationTypes
<1>2. PICK a \in Int : a = (IF n > Window THEN n - Window + 1 ELSE 1) /\ a >= 1
  BY ConversationAssumption
<1>3. PICK w \in Seq(StoredMessage) :
        w = Recent /\ \A i \in 1..Len(w) : a + i - 1 \in 1..n /\ w[i] = stored[a + i - 1]
  <2>1. Recent = SubSeq(stored, a, n)
    BY <1>1, <1>2 DEF Recent, LastOf
  <2>2. \A i \in a..n : i \in 1..n
    BY <1>2
  <2>3. \A i \in a..n : stored[i] \in StoredMessage
    BY <1>1, <2>2
  <2>4. n \in Int
    OBVIOUS
  <2>5. /\ SubSeq(stored, a, n) \in Seq(StoredMessage)
        /\ Len(SubSeq(stored, a, n)) = IF a <= n THEN n - a + 1 ELSE 0
        /\ \A i \in 1..n - a + 1 : SubSeq(stored, a, n)[i] = stored[a + i - 1]
    BY <2>3, <2>4, SubSeqProperties
  <2>6. \A i \in 1..Len(SubSeq(stored, a, n)) : i \in 1..n - a + 1 /\ a + i - 1 \in 1..n
    BY <1>2, <2>5
  <2> QED
    BY <2>1, <2>5, <2>6
<1>4. PICK l \in Nat : l = Len(w) /\ DOMAIN w = 1..l
  BY LenProperties
<1>5. \A i \in 1..l : w[i] \in StoredMessage /\ (w[i].role = "tool" => w[i].call[1] <= questions)
  <2> TAKE i \in 1..l
  <2>1. w[i] \in StoredMessage
    BY <1>4, ElementOfSeq
  <2>2. /\ stored[a + i - 1].turn <= questions
        /\ IsTold(stored[a + i - 1]) => stored[a + i - 1].call[1] = stored[a + i - 1].turn
    BY <1>1, <1>3, <1>4 DEF StoredOnce
  <2> QED
    BY <1>3, <1>4, <2>1, <2>2 DEF IsTold
<1>6. \A i \in 1..l : w[i].role = "tool" => w[i].call \in Nat \X Nat
  BY <1>5, TurnIsNat DEF StoredMessage
<1>7. \A i \in 1..l : AsHistory(w[i]) \in SentMessage
  <2> TAKE i \in 1..l
  <2>1. CASE w[i].role = "user"
    BY <2>1, PlainSent DEF AsHistory
  <2>2. CASE w[i].role = "tool"
    BY <1>6, <2>2, SentType DEF AsHistory
  <2>3. CASE w[i].role \notin {"user", "tool"}
    BY <2>3, PlainSent DEF AsHistory
  <2> QED
    BY <2>1, <2>2, <2>3
<1>8. \A i \in 1..l : AsHistory(w[i]).role = "tool" =>
        w[i].role = "tool" /\ AsHistory(w[i]).call = w[i].call
  BY DEF AsHistory, Sent
<1>9. History = [i \in 1..l |-> AsHistory(w[i])]
  BY <1>3, <1>4 DEF History
<1>10. History \in Seq(SentMessage)
  BY <1>7, <1>9
<1>11. Earlier(History, questions + 1)
  <2>1. questions \in Nat
    BY DEF ConversationTypes
  <2>2. \A i \in 1..l : w[i].role = "tool" => w[i].call[1] \in Nat
    BY <1>6
  <2>3. \A i \in 1..l : w[i].role = "tool" => w[i].call[1] < questions + 1
    BY <1>5, <2>1, <2>2
  <2>4. DOMAIN History = 1..l /\ \A i \in 1..l : History[i] = AsHistory(w[i])
    BY <1>9
  <2> QED
    BY <1>8, <2>3, <2>4 DEF Earlier
<1> QED
  BY <1>10, <1>11

(* What a step of one request needs of the rest.                           *)
LEMMA NothingStored ==
  ASSUME ConversationInv, stored' = stored, read \subseteq read', questions' \in Nat,
         questions <= questions'
  PROVE  /\ StoredOnce' /\ TranscriptWellFormed' /\ SourcesWereRead'
         /\ stored' \in Seq(StoredMessage)
<1>1. \A i \in DOMAIN stored : stored[i].turn \in Nat
  <2> TAKE i \in DOMAIN stored
  <2>1. stored[i] \in StoredMessage
    BY LenProperties, ElementOfSeq DEF ConversationInv, ConversationTypes
  <2> QED
    BY <2>1, TurnIsNat DEF StoredMessage
<1>2. questions \in Nat
  BY DEF ConversationInv, ConversationTypes
<1>3. StoredOnce'
  BY <1>1, <1>2 DEF ConversationInv, StoredOnce
<1>4. TranscriptWellFormed'
  <2>1. \A i \in DOMAIN stored : WellFormedAt(i)
    BY WellFormedIs DEF ConversationInv
  <2>2. ASSUME NEW i, NEW role PROVE Before(i, role)' = Before(i, role)
    BY DEF Before
  <2>3. ASSUME NEW i \in DOMAIN stored PROVE WellFormedAt(i)'
    <3>1. WellFormedAt(i)
      BY <2>1
    <3>2. /\ Before(i, "user")' = Before(i, "user") /\ Before(i, "answer")' = Before(i, "answer")
          /\ Before(i, "call")' = Before(i, "call") /\ Before(i, "tool")' = Before(i, "tool")
      BY <2>2
    <3> QED
      BY <3>1, <3>2 DEF WellFormedAt
  <2> QED
    BY <2>3 DEF TranscriptWellFormed, WellFormedAt, Before
<1>5. SourcesWereRead'
  BY DEF ConversationInv, SourcesWereRead
<1> QED
  BY <1>3, <1>4, <1>5 DEF ConversationInv, ConversationTypes

LEMMA BeginStep ==
  ASSUME ConversationInv, NEW r \in Request, NEW grounded \in Grounding, NEW ephemeral \in BOOLEAN,
         Begin(r, grounded, ephemeral)
  PROVE  ConversationInv'
<1>1. /\ questions \in Nat /\ questions < MaxQuestions /\ questions' = questions + 1
      /\ MaxQuestions \in Nat
  BY ConversationAssumption DEF ConversationInv, ConversationTypes, Begin
<1>2. UNCHANGED <<stored, read, checked>>
  BY DEF Begin
<1>3. History \in Seq(SentMessage) /\ Earlier(History, questions + 1)
  BY HistoryFits DEF ConversationInv
<1>4. PICK h : h = History
  OBVIOUS
<1>5. PICK to : to = [at |-> "storing", turn |-> questions + 1, grounded |-> grounded,
                      ephemeral |-> ephemeral, history |-> h]
  OBVIOUS
<1>6. to.at = "storing" /\ to.turn = questions + 1 /\ to.history = h
  BY <1>5
<1>7. to \in RequestState
  <2>1. questions + 1 \in Turn
    BY <1>1 DEF Turn
  <2>2. to \in Preparing
    BY <1>3, <1>4, <1>5, <2>1 DEF Preparing
  <2> QED
    BY <2>2 DEF RequestState
<1>8. request' = [request EXCEPT ![r] = to]
  BY <1>4, <1>5 DEF Begin, RequestGoes
<1>9. TurnOf(to) = questions + 1 /\ Fits(to)'
  <2>1. TurnOf(to) = questions + 1
    BY <1>6 DEF TurnOf
  <2>2. questions + 1 \in 1..questions'
    BY <1>1
  <2>3. questions + 1 \notin checked
    <3>1. \A t \in checked : t <= questions
      BY DEF ConversationInv
    <3> QED
      BY <1>1, <3>1
  <2>4. \A i \in DOMAIN stored : stored[i].turn # questions + 1
    <3>1. \A i \in DOMAIN stored : stored[i].turn <= questions
      BY DEF ConversationInv, StoredOnce
    <3> QED
      BY <1>1, <3>1
  <2>5. PreparingFits(to)'
    BY <1>2, <1>3, <1>4, <1>6, <2>3, <2>4 DEF PreparingFits
  <2> QED
    BY <1>6, <2>1, <2>2, <2>5 DEF Fits, TurnOf
<1>10. RequestsFit'
  <2>3. PICK t \in Nat : t = questions + 1 /\ t > questions
    BY <1>1
  <2>1. \A u : u # t => KeepsTurn(u) /\ (u \in checked' => u \in checked)
    BY <1>2, SameKeeps
  <2>2. ConversationTypes /\ RequestsFit
    BY DEF ConversationInv
  <2>4. TurnOf(to) = t /\ Fits(to)'
    BY <1>9, <2>3
  <2>5. read \subseteq read' /\ questions' \in Nat /\ questions <= questions'
    BY <1>1, <1>2
  <2> QED
    BY <1>8, <2>1, <2>2, <2>3, <2>4, <2>5, RequestsFitStep
<1>11. ConversationTypes'
  <2>1. questions' \in 0..MaxQuestions
    BY <1>1
  <2>2. request' \in [Request -> RequestState]
    BY <1>7, <1>8 DEF ConversationInv, ConversationTypes
  <2> QED
    BY <1>2, <2>1, <2>2 DEF ConversationInv, ConversationTypes
<1>12. questions' \in Nat /\ questions <= questions' /\ read \subseteq read' /\ stored' = stored
  BY <1>1, <1>2
<1>13. \A t \in checked' : t <= questions'
  <2>1. \A t \in checked : t \in Nat /\ t <= questions
    BY TurnIsNat DEF ConversationInv, ConversationTypes
  <2> QED
    BY <1>1, <1>2, <2>1
<1> QED
  BY <1>10, <1>11, <1>12, <1>13, NothingStored DEF ConversationInv

(* A step that changes a request and nothing else.                         *)
LEMMA RequestAloneStep ==
  ASSUME ConversationInv, NEW r \in Request, NEW to, request[r].at # "idle",
         request' = [request EXCEPT ![r] = to], to \in RequestState,
         to.at = "idle" \/ (TurnOf(to) = TurnOf(request[r]) /\ Fits(to)'),
         stored' = stored, questions' = questions, read \subseteq read',
         read' \in SUBSET (Turn \X Tool), checked' \in SUBSET Turn,
         \A u : u # TurnOf(request[r]) /\ u \in checked' => u \in checked
  PROVE  ConversationInv'
<1>1. ConversationTypes /\ RequestsFit /\ questions \in Nat
  BY DEF ConversationInv, ConversationTypes
<1>2. RequestsFit'
  <2>1. PICK t : t = TurnOf(request[r])
    OBVIOUS
  <2>2. \A u : u # t => KeepsTurn(u) /\ (u \in checked' => u \in checked)
    BY <2>1, SameKeeps
  <2>3. questions' \in Nat /\ questions <= questions'
    BY <1>1
  <2> QED
    BY <1>1, <2>1, <2>2, <2>3, RequestsFitStep
<1>3. ConversationTypes'
  BY <1>1 DEF ConversationTypes
<1>4. \A t \in checked' : t <= questions'
  <2> TAKE t \in checked'
  <2>1. CASE t \in checked
    BY <2>1 DEF ConversationInv
  <2>2. CASE t \notin checked
    <3>1. t = TurnOf(request[r])
      BY <2>2
    <3>2. TurnOf(request[r]) \in 1..questions
      BY DEF ConversationInv, RequestsFit, Fits
    <3> QED
      BY <1>1, <3>1, <3>2
  <2> QED
    BY <2>1, <2>2
<1>5. questions' \in Nat /\ questions <= questions'
  BY <1>1
<1> QED
  BY <1>2, <1>3, <1>4, <1>5, NothingStored DEF ConversationInv

LEMMA LostStep ==
  ASSUME ConversationInv, NEW r \in Request, RequestLost(r)
  PROVE  ConversationInv'
<1>1. PICK to : to = Quiet
  OBVIOUS
<1>2. to \in RequestState /\ to.at = "idle"
  BY <1>1 DEF RequestState, Quiet
<1> QED
  BY <1>1, <1>2, RequestAloneStep
     DEF RequestLost, RequestGoes, ConversationInv, ConversationTypes

LEMMA DraftsStep ==
  ASSUME ConversationInv, NEW r \in Request, Drafts(r)
  PROVE  ConversationInv'
<1>1. PICK q \in Thinking : q = request[r] /\ q.at = "asking"
  BY DEF Drafts, ConversationInv, ConversationTypes, RequestState, Quiet, Preparing, Appending
<1>2. PICK to : to = [q EXCEPT !.at = "reviewing"]
  OBVIOUS
<1>3. /\ to \in Thinking /\ to.at = "reviewing" /\ to.turn = q.turn /\ to.live = q.live
      /\ to.messages = q.messages /\ to.ephemeral = q.ephemeral
      /\ to.transcript = q.transcript /\ to.calls = q.calls
  BY <1>2 DEF Thinking
<1>4. TurnOf(to) = TurnOf(q)
  BY <1>1, <1>3 DEF TurnOf
<1>5. UNCHANGED <<stored, questions, read, checked>>
  BY DEF Drafts
<1>6. Fits(to)'
  <2>1. Fits(q)
    BY <1>1 DEF ConversationInv, RequestsFit
  <2>2. ThinkingFits(q)
    BY <1>1, <2>1 DEF Fits
  <2>3. ThinkingFits(to)
    BY <1>3, <2>2 DEF ThinkingFits
  <2>4. Fits(to)
    BY <1>3, <1>4, <2>1, <2>3 DEF Fits
  <2>5. ThinkingFits(to)'
    BY <1>5, <2>3 DEF ThinkingFits, OnlyAsked, IsAsked
  <2> QED
    BY <1>3, <1>5, <2>4, <2>5 DEF Fits, TurnOf
<1>7. to \in RequestState
  BY <1>3 DEF RequestState
<1> QED
  BY <1>1, <1>2, <1>4, <1>5, <1>6, <1>7, RequestAloneStep
     DEF Drafts, RequestGoes, ConversationInv, ConversationTypes

-----------------------------------------------------------------------------
(* A step that stores a message of its turn.                               *)
LEMMA MessageStep ==
  ASSUME ConversationInv, NEW r \in Request, NEW to, NEW m \in StoredMessage,
         request[r].at # "idle", m.turn = TurnOf(request[r]),
         request' = [request EXCEPT ![r] = to], to \in RequestState,
         to.at = "idle" \/ (TurnOf(to) = TurnOf(request[r]) /\ Fits(to)'),
         stored' = Append(stored, m), UNCHANGED <<questions, read, checked>>,
         Placed(m), IsTold(m) => m.call[1] = m.turn,
         \A k \in DOMAIN stored : stored[k].turn = m.turn /\ IsTold(stored[k]) => ~Same(stored[k], m),
         m.role = "answer" => \A s \in m.sources : <<m.turn, s>> \in read
  PROVE  ConversationInv'
<1>1. /\ ConversationTypes /\ RequestsFit /\ StoredOnce /\ TranscriptWellFormed /\ SourcesWereRead
      /\ stored \in Seq(StoredMessage) /\ questions \in Nat
  BY DEF ConversationInv, ConversationTypes
<1>2. stored' \in Seq(StoredMessage) /\ \E n \in Nat : GrowsBy(n, m)
  BY <1>1, Grown
<1>3. PICK n \in Nat : GrowsBy(n, m)
  BY <1>2
<1>4. PICK t : t = TurnOf(request[r]) /\ t \in 1..questions
  BY <1>1 DEF RequestsFit, Fits
<1>5. RequestsFit'
  <2>1. \A u : u # t => KeepsTurn(u) /\ (u \in checked' => u \in checked)
    BY <1>3, <1>4, GrownKeeps
  <2>2. read \subseteq read' /\ questions' \in Nat /\ questions <= questions'
    BY <1>1
  <2> QED
    BY <1>1, <1>4, <2>1, <2>2, RequestsFitStep
<1>6. ConversationTypes'
  BY <1>1, <1>2 DEF ConversationTypes
<1>7. TranscriptWellFormed'
  BY <1>1, <1>3, GrownWell
<1>8. StoredOnce'
  <2>1. m.turn <= questions
    BY <1>1, <1>4
  <2> QED
    BY <1>1, <1>3, <2>1, GrownOnce
<1>9. SourcesWereRead'
  <2>1. read \subseteq read' /\ (m.role = "answer" => \A s \in m.sources : <<m.turn, s>> \in read')
    OBVIOUS
  <2> QED
    BY <1>1, <1>3, <2>1, GrownSources
<1>10. \A u \in checked' : u <= questions'
  BY DEF ConversationInv
<1> QED
  BY <1>5, <1>6, <1>7, <1>8, <1>9, <1>10 DEF ConversationInv

LEMMA StoreQuestionStep ==
  ASSUME ConversationInv, NEW r \in Request, StoreQuestion(r)
  PROVE  ConversationInv'
<1>1. PICK q \in Preparing : q = request[r] /\ q.at = "storing"
  BY DEF StoreQuestion, ConversationInv, ConversationTypes, RequestState, Quiet, Thinking, Appending
<1>2. PICK to : to = [q EXCEPT !.at = "checking"]
  OBVIOUS
<1>3. /\ to \in Preparing /\ to.at = "checking" /\ to.turn = q.turn
      /\ to.history = q.history /\ to.ephemeral = q.ephemeral /\ q.ephemeral \in BOOLEAN
      /\ q.turn \in Turn
  BY <1>2 DEF Preparing
<1>4. TurnOf(to) = q.turn /\ TurnOf(q) = q.turn /\ to \in RequestState
  BY <1>1, <1>3 DEF TurnOf, RequestState
<1>5. /\ Fits(q) /\ PreparingFits(q) /\ q.turn \in 1..questions
  BY <1>1, <1>4 DEF ConversationInv, RequestsFit, Fits
<1>6. /\ UNCHANGED <<questions, read, checked>> /\ request' = [request EXCEPT ![r] = to]
      /\ stored' = IF q.ephemeral THEN stored ELSE Append(stored, Question(q.turn))
  BY <1>1, <1>2 DEF StoreQuestion, RequestGoes
<1>7. \A i \in DOMAIN stored : stored[i].turn # q.turn
  BY <1>1, <1>5 DEF PreparingFits
<1>8. CASE q.ephemeral
  <2>1. stored' = stored
    BY <1>6, <1>8
  <2>2. PreparingFits(to)'
    BY <1>3, <1>5, <1>6, <1>7, <1>8, <2>1 DEF PreparingFits, OnlyAsked
  <2>3. Fits(to)'
    BY <1>3, <1>4, <1>5, <1>6, <2>2 DEF Fits, TurnOf
  <2>4. /\ request[r].at # "idle" /\ TurnOf(to) = TurnOf(request[r])
        /\ read \subseteq read' /\ read' \in SUBSET (Turn \X Tool) /\ checked' \in SUBSET Turn
    BY <1>1, <1>4, <1>6 DEF ConversationInv, ConversationTypes
  <2> QED
    BY <1>4, <1>6, <2>1, <2>3, <2>4, RequestAloneStep
<1>9. CASE ~q.ephemeral
  <2>1. PICK m \in StoredMessage : m = Question(q.turn) /\ m.turn = q.turn /\ m.role = "user"
    <3>1. PICK u : u = Question(q.turn)
      OBVIOUS
    <3>2. u \in [role : {"user"}, turn : Turn] /\ u.turn = q.turn /\ u.role = "user"
      BY <1>3, <3>1 DEF Question
    <3>3. u \in StoredMessage
      BY <3>2 DEF StoredMessage
    <3> QED
      BY <3>1, <3>2, <3>3
  <2>2. stored' = Append(stored, m)
    BY <1>6, <1>9, <2>1
  <2>3. PICK n \in Nat : GrowsBy(n, m)
    BY <2>2, Grown DEF ConversationInv, ConversationTypes
  <2>4. PreparingFits(to)'
    <3>1. \A i \in DOMAIN stored' : stored'[i].turn = q.turn => stored'[i] = m
      <4>1. \A i \in 1..n + 1 : i \in 1..n \/ i = n + 1
        OBVIOUS
      <4> QED
        BY <1>7, <2>3, <4>1 DEF GrowsBy
    <3>2. n + 1 \in DOMAIN stored' /\ stored'[n + 1] = m
      BY <2>3 DEF GrowsBy
    <3> QED
      BY <1>3, <1>5, <1>6, <2>1, <3>1, <3>2 DEF PreparingFits, OnlyAsked, IsAsked
  <2>5. Fits(to)'
    BY <1>3, <1>4, <1>5, <1>6, <2>4 DEF Fits, TurnOf
  <2>6. Placed(m) /\ ~IsTold(m) /\ m.role # "answer"
    BY <1>7, <2>1 DEF Placed, IsTold
  <2>7. request[r].at # "idle" /\ m.turn = TurnOf(request[r]) /\ TurnOf(to) = TurnOf(request[r])
    BY <1>1, <1>4, <2>1
  <2>8. \A k \in DOMAIN stored : stored[k].turn = m.turn /\ IsTold(stored[k]) => ~Same(stored[k], m)
    BY <1>7, <2>1
  <2> QED
    BY <1>4, <1>6, <2>2, <2>5, <2>6, <2>7, <2>8, MessageStep
<1> QED
  BY <1>3, <1>8, <1>9

LEMMA CheckLiveStep ==
  ASSUME ConversationInv, NEW r \in Request, NEW toolsEnabled \in BOOLEAN, NEW ok \in BOOLEAN,
         CheckLive(r, toolsEnabled, ok)
  PROVE  ConversationInv'
<1>1. PICK q \in Preparing : q = request[r] /\ q.at = "checking"
  BY DEF CheckLive, ConversationInv, ConversationTypes, RequestState, Quiet, Thinking, Appending
<1>2. /\ q.turn \in Turn /\ q.ephemeral \in BOOLEAN /\ q.history \in Seq(SentMessage)
  BY DEF Preparing
<1>3. /\ Fits(q) /\ PreparingFits(q) /\ q.turn \in 1..questions /\ TurnOf(q) = q.turn
  BY <1>1 DEF ConversationInv, RequestsFit, Fits, TurnOf
<1>4. /\ q.turn \notin checked /\ Earlier(q.history, q.turn)
      /\ OnlyAsked(q.turn) /\ (~q.ephemeral => IsAsked(q.turn))
  BY <1>1, <1>3 DEF PreparingFits
<1> DEFINE checks == q.grounded # "none" /\ toolsEnabled
           found == ok /\ q.grounded = "answer"
<1>5. PICK h : h = IF checks THEN LastQuestions(q.history) ELSE q.history
  OBVIOUS
<1>6. h \in Seq(SentMessage) /\ Earlier(h, q.turn)
  <2>1. LastQuestions(q.history) \in Seq(SentMessage) /\ Earlier(LastQuestions(q.history), q.turn)
    <3>1. PICK n \in Nat : DOMAIN q.history = 1..n
      BY <1>2, LenProperties
    <3>2. IsFiniteSet(1..n)
      <4>1. 1 \in Int /\ n \in Int
        OBVIOUS
      <4> QED
        BY <4>1, FS_Interval, Zenon
    <3> DEFINE users == {i \in DOMAIN q.history : q.history[i].role = "user"}
    <3>3. users \in SUBSET (1..n)
      BY <3>1
    <3>4. Cardinality(users) \in Nat
      <4> HIDE DEF users
      <4> QED
        BY <3>2, <3>3, FS_Subset, FS_CardinalityType
    <3>5. PICK k \in Nat : k = IF Cardinality(users) > UserWindow THEN UserWindow ELSE Cardinality(users)
      BY <3>4, ConversationAssumption
    <3>6. LastQuestions(q.history) = [i \in 1..k |-> Sent("user", {}, NoToolCall)]
      BY <3>5 DEF LastQuestions
    <3>7. Sent("user", {}, NoToolCall) \in SentMessage /\ Sent("user", {}, NoToolCall).role = "user"
      BY PlainSent DEF Sent
    <3> HIDE DEF users
    <3> QED
      BY <3>6, <3>7 DEF Earlier
  <2> HIDE DEF checks
  <2> QED
    BY <1>2, <1>4, <1>5, <2>1
<1>7. PICK to : to = Asks(q, h, found)
  OBVIOUS
<1>8. PICK s \in SentMessage : s = Sent("user", {}, NoToolCall) /\ s.role = "user"
  BY PlainSent DEF Sent
<1>9. PICK n \in Nat : n = Len(h) /\ DOMAIN h = 1..n
  BY <1>6, LenProperties
<1>10. /\ Append(h, s) \in Seq(SentMessage) /\ DOMAIN Append(h, s) = 1..n + 1
       /\ \A i \in 1..n : Append(h, s)[i] = h[i]
       /\ Append(h, s)[n + 1] = s
  <2>1. Append(h, s) \in Seq(SentMessage) /\ Len(Append(h, s)) = n + 1
    BY <1>6, <1>9, AppendProperties
  <2> QED
    BY <1>6, <1>9, <2>1, AppendProperties, LenProperties
<1>11. /\ to.at = "asking" /\ to.turn = q.turn /\ to.ephemeral = q.ephemeral /\ to.live = found
       /\ to.messages = Append(h, s) /\ to.calls = 0 /\ to.transcript = << >> /\ to.iterations = 0
  BY <1>7, <1>8 DEF Asks
<1>12. to \in RequestState /\ TurnOf(to) = q.turn
  <2>1. found \in BOOLEAN /\ << >> \in Seq(StoredMessage) /\ 0 \in Nat
    OBVIOUS
  <2>2. to \in Thinking
    BY <1>2, <1>7, <1>8, <1>10, <2>1 DEF Asks, Thinking
  <2> QED
    BY <1>11, <2>2 DEF RequestState, TurnOf
<1>13. /\ request' = [request EXCEPT ![r] = to] /\ UNCHANGED <<stored, questions>>
       /\ read' = (IF ok THEN read \union {<<q.turn, LiveCheck>>} ELSE read)
       /\ checked' = (IF found THEN checked \union {q.turn} ELSE checked)
  BY <1>1, <1>5, <1>7 DEF CheckLive, RequestGoes
<1>14. ThinkingFits(to)'
  <2>1. to.turn \in checked' => to.live
    BY <1>4, <1>11, <1>13
  <2>2. FollowsCall(to.messages, to.turn)
    <3> SUFFICES ASSUME NEW i \in 1..n + 1, Append(h, s)[i].role = "tool",
                        Append(h, s)[i].call[1] = q.turn
                 PROVE  FALSE
      BY <1>10, <1>11 DEF FollowsCall
    <3>1. i \in 1..n
      BY <1>8, <1>10
    <3>2. h[i].role = "tool" /\ h[i].call[1] = q.turn
      BY <1>10, <3>1
    <3>3. h[i].call[1] < q.turn
      BY <1>6, <1>9, <3>1, <3>2 DEF Earlier
    <3> QED
      BY <1>3, <3>2, <3>3
  <2>3. Paired(to.transcript, to.turn)
    <3>1. DOMAIN to.transcript = {}
      BY <1>11
    <3> QED
      BY <3>1 DEF Paired
  <2>4. \A i \in DOMAIN to.transcript : to.transcript[i].call[2] <= to.calls
    BY <1>11
  <2> HIDE DEF found
  <2> QED
    BY <1>4, <1>11, <1>13, <2>1, <2>2, <2>3, <2>4 DEF ThinkingFits, OnlyAsked, IsAsked
<1>15. Fits(to)'
  BY <1>3, <1>11, <1>12, <1>13, <1>14 DEF Fits, TurnOf
<1>16. /\ read \subseteq read' /\ read' \in SUBSET (Turn \X Tool) /\ checked' \in SUBSET Turn
       /\ \A u : u # TurnOf(request[r]) /\ u \in checked' => u \in checked
  BY <1>1, <1>2, <1>3, <1>13, ConversationAssumption DEF ConversationInv, ConversationTypes
<1>17. request[r].at # "idle" /\ TurnOf(to) = TurnOf(request[r])
  BY <1>1, <1>3, <1>12
<1> HIDE DEF checks, found
<1> QED
  BY <1>12, <1>13, <1>15, <1>16, <1>17, RequestAloneStep

-----------------------------------------------------------------------------
(* A round of tools.                                                       *)

(* A sequence that goes on with k calls and their k results.               *)
RoundAfter(u, s, t, n, l, k) ==
  /\ DOMAIN s = 1..l /\ DOMAIN u = 1..l + k + k
  /\ \A i \in 1..l : u[i] = s[i]
  /\ \A i \in 1..k : u[l + i] = CallOf(t, n + i)
  /\ \A i \in 1..k : u[l + k + i] = ResultOf(t, n + i)

LEMMA RoundParts ==
  ASSUME NEW l \in Nat, NEW k \in Nat, NEW i \in 1..l + k + k
  PROVE  \/ i \in 1..l
         \/ \E j \in 1..k : i = l + j
         \/ \E j \in 1..k : i = l + k + j
<1>1. CASE i <= l
  BY <1>1
<1>2. CASE l < i /\ i <= l + k
  <2>1. i - l \in 1..k /\ i = l + (i - l)
    BY <1>2
  <2> QED
    BY <2>1
<1>3. CASE l + k < i
  <2>1. i - l - k \in 1..k /\ i = l + k + (i - l - k)
    BY <1>3
  <2> QED
    BY <2>1
<1> QED
  BY <1>1, <1>2, <1>3

LEMMA PairedLonger ==
  ASSUME NEW u, NEW s, NEW t \in Nat, NEW n \in Nat, NEW l \in Nat, NEW k \in Nat,
         RoundAfter(u, s, t, n, l, k), Paired(s, t),
         \A i \in 1..l : s[i].call[2] \in Nat /\ s[i].call[2] <= n
  PROVE  /\ Paired(u, t)
         /\ \A i \in 1..l + k + k : u[i].call[2] <= n + k
<1>1. /\ DOMAIN s = 1..l /\ DOMAIN u = 1..l + k + k
      /\ \A i \in 1..l : u[i] = s[i]
      /\ \A i \in 1..k : u[l + i] = CallOf(t, n + i)
      /\ \A i \in 1..k : u[l + k + i] = ResultOf(t, n + i)
  BY DEF RoundAfter
<1>2. \A i \in 1..k : /\ u[l + i].role = "call" /\ u[l + i].turn = t
                      /\ u[l + i].call = <<t, n + i>>
                      /\ u[l + k + i].role = "tool" /\ u[l + k + i].turn = t
                      /\ u[l + k + i].call = <<t, n + i>>
  <2> TAKE i \in 1..k
  <2>1. u[l + i] = CallOf(t, n + i) /\ u[l + k + i] = ResultOf(t, n + i)
    BY <1>1
  <2>2. PICK c : c = u[l + i]
    OBVIOUS
  <2>3. PICK d : d = u[l + k + i]
    OBVIOUS
  <2>4. c.role = "call" /\ c.turn = t /\ c.call = <<t, n + i>>
    BY <2>1, <2>2 DEF CallOf
  <2>5. d.role = "tool" /\ d.turn = t /\ d.call = <<t, n + i>>
    BY <2>1, <2>3 DEF ResultOf
  <2> QED
    BY <2>2, <2>3, <2>4, <2>5
<1>3. \A i \in 1..k : /\ l + i \in 1..l + k + k /\ l + k + i \in 1..l + k + k
                      /\ l + i < l + k + i
  OBVIOUS
<1>4. \A i \in 1..l : /\ i \in 1..l + k + k /\ u[i] = s[i] /\ u[i].call[2] \in Nat
                      /\ u[i].call[2] <= n
  BY <1>1
<1>5. \A i \in 1..k : /\ u[l + i].call[1] = t /\ u[l + i].call[2] = n + i
                      /\ u[l + k + i].call[1] = t /\ u[l + k + i].call[2] = n + i
  BY <1>2
<1>6. ASSUME NEW i \in 1..l + k + k
      PROVE  /\ IsTold(u[i]) /\ u[i].turn = t /\ u[i].call[1] = t
             /\ u[i].call[2] <= n + k
  <2>1. CASE i \in 1..l
    <3>1. IsTold(s[i]) /\ s[i].turn = t /\ s[i].call[1] = t
      BY <1>1, <2>1 DEF Paired
    <3>2. u[i].call[2] <= n + k
      BY <1>4, <2>1
    <3> QED
      BY <1>1, <2>1, <3>1, <3>2
  <2>2. ASSUME NEW j \in 1..k, i = l + j \/ i = l + k + j
        PROVE  /\ IsTold(u[i]) /\ u[i].turn = t /\ u[i].call[1] = t
               /\ u[i].call[2] <= n + k
    <3>1. n + j <= n + k
      OBVIOUS
    <3> QED
      BY <1>2, <1>5, <2>2, <3>1 DEF IsTold
  <2> QED
    BY <2>1, <2>2, RoundParts
<1>7. ASSUME NEW i \in 1..l + k + k, NEW j \in 1..l + k + k, Same(u[i], u[j])
      PROVE  i = j
  <2>0. u[i].role = u[j].role /\ u[i].call[2] = u[j].call[2]
    BY <1>7 DEF Same
  <2>1. CASE i \in 1..l /\ j \in 1..l
    BY <1>1, <1>7, <2>1 DEF Paired
  <2>2. ASSUME NEW a \in 1..l, NEW b \in 1..k, u[a].call[2] = n + b PROVE FALSE
    BY <1>4, <2>2
  <2>3. ASSUME NEW a \in 1..k, i = l + a \/ i = l + k + a, NEW b \in 1..k, j = l + b \/ j = l + k + b
        PROVE  i = j
    <3>1. n + a = n + b
      BY <1>5, <2>0, <2>3
    <3>2. a = b
      BY <3>1
    <3> QED
      BY <1>2, <2>0, <2>3, <3>2
  <2>4. i \in 1..l \/ \E a \in 1..k : i = l + a \/ i = l + k + a
    BY RoundParts
  <2>5. j \in 1..l \/ \E a \in 1..k : j = l + a \/ j = l + k + a
    BY RoundParts
  <2>6. CASE i \in 1..l /\ j \notin 1..l
    BY <1>5, <2>0, <2>2, <2>5, <2>6
  <2>7. CASE i \notin 1..l /\ j \in 1..l
    BY <1>5, <2>0, <2>2, <2>4, <2>7
  <2>8. CASE i \notin 1..l /\ j \notin 1..l
    BY <2>3, <2>4, <2>5, <2>8
  <2> QED
    BY <2>1, <2>6, <2>7, <2>8
<1>8. ASSUME NEW i \in 1..l + k + k, u[i].role = "tool"
      PROVE  \E j \in 1..l + k + k : j < i /\ u[j].role = "call" /\ u[j].call = u[i].call
  <2>1. CASE i \in 1..l
    <3>1. \E j \in 1..l : j < i /\ s[j].role = "call" /\ s[j].call = s[i].call
      BY <1>1, <1>8, <2>1 DEF Paired
    <3> QED
      BY <1>4, <2>1, <3>1
  <2>2. ASSUME NEW a \in 1..k, i = l + a PROVE FALSE
    BY <1>2, <1>8, <2>2
  <2>3. ASSUME NEW a \in 1..k, i = l + k + a
        PROVE  \E j \in 1..l + k + k : j < i /\ u[j].role = "call" /\ u[j].call = u[i].call
    BY <1>2, <1>3, <2>3
  <2> QED
    BY <2>1, <2>2, <2>3, RoundParts
<1>9. ASSUME NEW i \in 1..l + k + k, u[i].role = "call"
      PROVE  \E j \in 1..l + k + k : i < j /\ u[j].role = "tool" /\ u[j].call = u[i].call
  <2>1. CASE i \in 1..l
    <3>1. \E j \in 1..l : i < j /\ s[j].role = "tool" /\ s[j].call = s[i].call
      BY <1>1, <1>9, <2>1 DEF Paired
    <3> QED
      BY <1>4, <2>1, <3>1
  <2>2. ASSUME NEW a \in 1..k, i = l + k + a PROVE FALSE
    BY <1>2, <1>9, <2>2
  <2>3. ASSUME NEW a \in 1..k, i = l + a
        PROVE  \E j \in 1..l + k + k : i < j /\ u[j].role = "tool" /\ u[j].call = u[i].call
    BY <1>2, <1>3, <2>3
  <2> QED
    BY <2>1, <2>2, <2>3, RoundParts
<1>10. \A i \in DOMAIN u : IsTold(u[i]) /\ u[i].turn = t /\ u[i].call[1] = t
  BY <1>1, <1>6
<1>11. \A i, j \in DOMAIN u : Same(u[i], u[j]) => i = j
  BY <1>1, <1>7
<1>12. \A i \in DOMAIN u : u[i].role = "tool" =>
         \E j \in DOMAIN u : j < i /\ u[j].role = "call" /\ u[j].call = u[i].call
  BY <1>1, <1>8
<1>13. \A i \in DOMAIN u : u[i].role = "call" =>
         \E j \in DOMAIN u : i < j /\ u[j].role = "tool" /\ u[j].call = u[i].call
  BY <1>1, <1>9
<1>14. Paired(u, t)
  BY <1>10, <1>11, <1>12, <1>13 DEF Paired
<1> QED
  BY <1>6, <1>14

LEMMA FunctionIsSeq ==
  ASSUME NEW S, NEW k \in Nat, NEW c \in [1..k -> S]
  PROVE  c \in Seq(S) /\ Len(c) = k /\ DOMAIN c = 1..k
OBVIOUS

(* The transcript with a round more.                                       *)
LEMMA TranscriptLonger ==
  ASSUME NEW s \in Seq(StoredMessage), NEW t \in Turn, NEW n \in Nat, NEW k \in Nat
  PROVE  LET u == s \o [i \in 1..k |-> CallOf(t, n + i)] \o [i \in 1..k |-> ResultOf(t, n + i)]
         IN  u \in Seq(StoredMessage) /\ RoundAfter(u, s, t, n, Len(s), k)
<1>1. PICK l \in Nat : l = Len(s) /\ DOMAIN s = 1..l
  BY LenProperties
<1>2. \A i \in 1..k : CallOf(t, n + i) \in StoredMessage /\ ResultOf(t, n + i) \in StoredMessage
  <2> TAKE i \in 1..k
  <2>1. <<t, n + i>> \in CallId
    BY DEF CallId
  <2>2. /\ CallOf(t, n + i) \in [role : {"call", "tool"}, turn : Turn, call : CallId]
        /\ ResultOf(t, n + i) \in [role : {"call", "tool"}, turn : Turn, call : CallId]
    BY <2>1 DEF CallOf, ResultOf
  <2> QED
    BY <2>2 DEF StoredMessage
<1>3. PICK a \in Seq(StoredMessage) : /\ a = [i \in 1..k |-> CallOf(t, n + i)]
                                      /\ Len(a) = k /\ \A i \in 1..k : a[i] = CallOf(t, n + i)
  <2>1. PICK c \in [1..k -> StoredMessage] : c = [i \in 1..k |-> CallOf(t, n + i)]
    BY <1>2
  <2>2. c \in Seq(StoredMessage) /\ Len(c) = k
    BY FunctionIsSeq
  <2> QED
    BY <2>1, <2>2
<1>4. PICK b \in Seq(StoredMessage) : /\ b = [i \in 1..k |-> ResultOf(t, n + i)]
                                      /\ Len(b) = k /\ \A i \in 1..k : b[i] = ResultOf(t, n + i)
  <2>1. PICK c \in [1..k -> StoredMessage] : c = [i \in 1..k |-> ResultOf(t, n + i)]
    BY <1>2
  <2>2. c \in Seq(StoredMessage) /\ Len(c) = k
    BY FunctionIsSeq
  <2> QED
    BY <2>1, <2>2
<1>5. PICK d \in Seq(StoredMessage) : d = s \o a
  BY ConcatProperties
<1>6. Len(d) = l + k /\ (\A i \in 1..l : d[i] = s[i]) /\ (\A i \in 1..k : d[l + i] = a[i])
  <2>1. /\ Len(s \o a) = Len(s) + Len(a)
        /\ \A i \in 1..Len(s) + Len(a) : (s \o a)[i] = IF i <= Len(s) THEN s[i] ELSE a[i - Len(s)]
    BY ConcatProperties
  <2>2. \A i \in 1..l : i \in 1..l + k /\ i <= l
    OBVIOUS
  <2>3. \A i \in 1..k : l + i \in 1..l + k /\ ~(l + i <= l) /\ (l + i) - l = i
    OBVIOUS
  <2> QED
    BY <1>1, <1>3, <1>5, <2>1, <2>2, <2>3
<1>7. PICK u \in Seq(StoredMessage) : u = d \o b
  BY ConcatProperties
<1>8. /\ Len(u) = l + k + k /\ (\A i \in 1..l + k : u[i] = d[i])
      /\ \A i \in 1..k : u[l + k + i] = b[i]
  <2>1. /\ Len(d \o b) = Len(d) + Len(b)
        /\ \A i \in 1..Len(d) + Len(b) : (d \o b)[i] = IF i <= Len(d) THEN d[i] ELSE b[i - Len(d)]
    BY ConcatProperties
  <2>2. \A i \in 1..l + k : i \in 1..l + k + k /\ i <= l + k
    OBVIOUS
  <2>3. \A i \in 1..k : l + k + i \in 1..l + k + k /\ ~(l + k + i <= l + k) /\ (l + k + i) - (l + k) = i
    OBVIOUS
  <2> QED
    <3>1. Len(u) = l + k + k
      BY <1>4, <1>6, <1>7, <2>1
    <3>2. \A i \in 1..l + k : u[i] = d[i]
      BY <1>4, <1>6, <1>7, <2>1, <2>2
    <3>3. \A i \in 1..k : u[l + k + i] = b[i]
      <4> TAKE i \in 1..k
      <4>1. u[l + k + i] = IF l + k + i <= Len(d) THEN d[l + k + i] ELSE b[(l + k + i) - Len(d)]
        BY <1>4, <1>6, <1>7, <2>1, <2>3
      <4> QED
        BY <1>6, <2>3, <4>1
    <3> QED
      BY <3>1, <3>2, <3>3
<1>9. DOMAIN u = 1..l + k + k
  BY <1>8, LenProperties
<1>10. RoundAfter(u, s, t, n, l, k)
  <2>1. \A i \in 1..l : i \in 1..l + k
    OBVIOUS
  <2>2. \A i \in 1..k : l + i \in 1..l + k
    OBVIOUS
  <2> QED
    BY <1>1, <1>3, <1>4, <1>6, <1>8, <1>9, <2>1, <2>2 DEF RoundAfter
<1> QED
  BY <1>1, <1>3, <1>4, <1>5, <1>7, <1>10

(* The messages with a round more: each new result follows its call.       *)
LEMMA MessagesLonger ==
  ASSUME NEW s \in Seq(SentMessage), NEW t \in Turn, NEW n \in Nat, NEW k \in Nat,
         FollowsCall(s, t)
  PROVE  s \o RoundOf(t, n, k) \in Seq(SentMessage) /\ FollowsCall(s \o RoundOf(t, n, k), t)
<1> DEFINE named == {<<t, n + i>> : i \in 1..k}
<1>1. PICK l \in Nat : l = Len(s) /\ DOMAIN s = 1..l
  BY LenProperties
<1>2. \A i \in 1..k : <<t, n + i>> \in Nat \X Nat
  BY TurnIsNat
<1>3. PICK a \in SentMessage : /\ a = Sent("assistant", named, NoToolCall)
                               /\ a.role = "assistant" /\ a.calls = named
  <2>1. named \in SUBSET (Nat \X Nat)
    BY <1>2
  <2> HIDE DEF named
  <2>2. Sent("assistant", named, NoToolCall) \in SentMessage
    BY <2>1, PlainSent, SentType
  <2> QED
    BY <2>2 DEF Sent
<1>4. PICK b \in [1..k -> SentMessage] : b = [i \in 1..k |-> Sent("tool", {}, <<t, n + i>>)]
  <2>1. \A i \in 1..k : Sent("tool", {}, <<t, n + i>>) \in SentMessage
    BY <1>2, SentType
  <2> QED
    BY <2>1
<1>5. b \in Seq(SentMessage) /\ Len(b) = k
  BY FunctionIsSeq
<1>6. PICK c \in Seq(SentMessage) : c = <<a>> /\ Len(c) = 1 /\ c[1] = a
  <2>1. <<a>> \in Seq(SentMessage)
    OBVIOUS
  <2> QED
    BY <2>1
<1>7. PICK d \in Seq(SentMessage) : d = c \o b
  BY <1>5, ConcatProperties
<1>8. Len(d) = 1 + k /\ d[1] = a /\ \A i \in 1..k : d[1 + i] = b[i]
  <2>1. /\ Len(c \o b) = Len(c) + Len(b)
        /\ \A i \in 1..Len(c) + Len(b) : (c \o b)[i] = IF i <= Len(c) THEN c[i] ELSE b[i - Len(c)]
    BY <1>5, ConcatProperties
  <2>2. \A i \in 1..k : 1 + i \in 1..1 + k /\ ~(1 + i <= 1) /\ (1 + i) - 1 = i
    OBVIOUS
  <2>3. 1 \in 1..1 + k
    OBVIOUS
  <2> QED
    BY <1>5, <1>6, <1>7, <2>1, <2>2, <2>3
<1>9. RoundOf(t, n, k) = d
  BY <1>3, <1>4, <1>6, <1>7 DEF RoundOf
<1>10. PICK u \in Seq(SentMessage) : u = s \o d
  BY ConcatProperties
<1>11. /\ Len(u) = l + 1 + k /\ (\A i \in 1..l : u[i] = s[i]) /\ u[l + 1] = a
       /\ \A i \in 1..k : u[l + 1 + i] = b[i]
  <2>1. /\ Len(s \o d) = Len(s) + Len(d)
        /\ \A i \in 1..Len(s) + Len(d) : (s \o d)[i] = IF i <= Len(s) THEN s[i] ELSE d[i - Len(s)]
    BY ConcatProperties
  <2>2. \A i \in 1..l : i \in 1..l + (1 + k) /\ i <= l
    OBVIOUS
  <2>3. l + 1 \in 1..l + (1 + k) /\ ~(l + 1 <= l) /\ (l + 1) - l = 1
    OBVIOUS
  <2>4. \A i \in 1..k : /\ l + 1 + i \in 1..l + (1 + k) /\ ~(l + 1 + i <= l)
                        /\ (l + 1 + i) - l = 1 + i
    OBVIOUS
  <2>5. \A i \in 1..l : u[i] = s[i]
    BY <1>1, <1>8, <1>10, <2>1, <2>2
  <2>6. u[l + 1] = a
    BY <1>1, <1>8, <1>10, <2>1, <2>3
  <2>7. \A i \in 1..k : u[l + 1 + i] = b[i]
    BY <1>1, <1>8, <1>10, <2>1, <2>4
  <2> QED
    BY <1>1, <1>8, <1>10, <2>1, <2>5, <2>6, <2>7
<1>12. DOMAIN u = 1..l + 1 + k
  BY <1>11, LenProperties
<1>13. ASSUME NEW i \in 1..l + 1 + k, u[i].role = "tool", u[i].call[1] = t
       PROVE  \E j \in 1..(i - 1) : u[i].call \in u[j].calls
  <2>1. CASE i \in 1..l
    <3>1. \E j \in 1..(i - 1) : s[i].call \in s[j].calls
      BY <1>1, <1>11, <1>13, <2>1 DEF FollowsCall
    <3>2. \A j \in 1..(i - 1) : j \in 1..l
      BY <2>1
    <3> QED
      BY <1>11, <2>1, <3>1, <3>2
  <2>2. CASE i = l + 1
    BY <1>3, <1>11, <1>13, <2>2
  <2>3. CASE i > l + 1
    <3>1. PICK j \in 1..k : i = l + 1 + j
      <4>1. i - (l + 1) \in 1..k /\ i = l + 1 + (i - (l + 1))
        BY <2>3
      <4> QED
        BY <4>1
    <3>2. u[i].call = <<t, n + j>>
      <4>1. u[i] = Sent("tool", {}, <<t, n + j>>)
        BY <1>4, <1>11, <3>1
      <4> QED
        BY <4>1 DEF Sent
    <3>3. l + 1 \in 1..(i - 1)
      BY <2>3
    <3>4. <<t, n + j>> \in u[l + 1].calls
      BY <1>3, <1>11
    <3> QED
      BY <3>2, <3>3, <3>4
  <2> QED
    BY <2>1, <2>2, <2>3
<1>14. FollowsCall(u, t)
  BY <1>12, <1>13 DEF FollowsCall
<1> HIDE DEF named
<1> QED
  BY <1>9, <1>10, <1>14

LEMMA UseToolsStep ==
  ASSUME ConversationInv, NEW r \in Request, NEW used \in SUBSET Tool, NEW ok \in SUBSET used,
         UseTools(r, used, ok)
  PROVE  ConversationInv'
<1>1. PICK q \in Thinking : q = request[r] /\ q.at = "asking"
  BY DEF UseTools, ConversationInv, ConversationTypes, RequestState, Quiet, Preparing, Appending
<1>2. PICK k \in Nat : k = Cardinality(used)
  BY ConversationAssumption, FS_Subset, FS_CardinalityType
<1>3. PICK t \in Turn : t = q.turn
  BY DEF Thinking
<1>4. PICK n \in Nat : n = q.calls
  BY DEF Thinking
<1>5. PICK s \in Seq(StoredMessage) : s = q.transcript
  BY DEF Thinking
<1>6. PICK h \in Seq(SentMessage) : h = q.messages
  BY DEF Thinking
<1>7. /\ q.iterations \in Nat /\ q.live \in BOOLEAN /\ q.ephemeral \in BOOLEAN
      /\ Fits(q) /\ ThinkingFits(q) /\ t \in 1..questions /\ TurnOf(q) = t
  BY <1>1, <1>3 DEF Thinking, ConversationInv, RequestsFit, Fits, TurnOf
<1>8. /\ t \in checked => q.live
      /\ FollowsCall(h, t) /\ OnlyAsked(t) /\ (~q.ephemeral => IsAsked(t))
      /\ Paired(s, t) /\ \A i \in DOMAIN s : s[i].call[2] <= n
  BY <1>3, <1>4, <1>5, <1>6, <1>7 DEF ThinkingFits
<1>9. PICK u \in Seq(StoredMessage) :
        /\ u = s \o [i \in 1..k |-> CallOf(t, n + i)] \o [i \in 1..k |-> ResultOf(t, n + i)]
        /\ RoundAfter(u, s, t, n, Len(s), k)
  BY TranscriptLonger
<1>10. PICK l \in Nat : l = Len(s) /\ DOMAIN s = 1..l
  BY LenProperties
<1>11. DOMAIN u = 1..l + k + k
  BY <1>9, <1>10 DEF RoundAfter
<1>12. Paired(u, t) /\ \A i \in DOMAIN u : u[i].call[2] <= n + k
  <2>1. \A i \in 1..l : s[i].call[2] \in Nat /\ s[i].call[2] <= n
    <3> TAKE i \in 1..l
    <3>1. s[i] \in StoredMessage /\ IsTold(s[i])
      BY <1>8, <1>10, ElementOfSeq DEF Paired
    <3>2. s[i].call \in CallId
      BY <3>1 DEF StoredMessage, IsTold
    <3>3. s[i].call[2] \in Nat
      BY <3>2 DEF CallId
    <3> QED
      BY <1>8, <1>10, <3>3
  <2>2. t \in Nat
    BY TurnIsNat
  <2>3. RoundAfter(u, s, t, n, l, k) /\ Paired(s, t)
    BY <1>8, <1>9, <1>10
  <2> QED
    BY <1>11, <2>1, <2>2, <2>3, PairedLonger
<1>13. PICK w \in Seq(SentMessage) : w = h \o RoundOf(t, n, k) /\ FollowsCall(w, t)
  BY <1>8, MessagesLonger
<1>14. PICK to : to = [q EXCEPT !.iterations = q.iterations + 1, !.calls = n + k,
                                !.messages = w, !.transcript = u]
  OBVIOUS
<1>15. /\ to \in Thinking /\ to.at = "asking" /\ to.turn = t /\ to.live = q.live
       /\ to.ephemeral = q.ephemeral /\ to.messages = w /\ to.transcript = u /\ to.calls = n + k
  <2>1. q.iterations + 1 \in Nat /\ n + k \in Nat
    BY <1>7
  <2> QED
    BY <1>1, <1>3, <1>14, <2>1 DEF Thinking
<1>16. /\ request' = [request EXCEPT ![r] = to] /\ UNCHANGED <<stored, questions, checked>>
       /\ read' = read \union {<<t, x>> : x \in ok}
  <2>1. /\ request' = [request EXCEPT ![r] =
             [q EXCEPT !.iterations = @ + 1, !.calls = @ + k,
               !.messages = @ \o RoundOf(q.turn, q.calls, k),
               !.transcript = @ \o [i \in 1..k |-> CallOf(q.turn, q.calls + i)]
                                \o [i \in 1..k |-> ResultOf(q.turn, q.calls + i)]]]
        /\ UNCHANGED <<stored, questions, checked>>
        /\ read' = read \union {<<q.turn, x>> : x \in ok}
    BY <1>1, <1>2 DEF UseTools, RequestGoes
  <2>2. [q EXCEPT !.iterations = @ + 1, !.calls = @ + k,
               !.messages = @ \o RoundOf(q.turn, q.calls, k),
               !.transcript = @ \o [i \in 1..k |-> CallOf(q.turn, q.calls + i)]
                                \o [i \in 1..k |-> ResultOf(q.turn, q.calls + i)]] = to
    BY <1>3, <1>4, <1>5, <1>6, <1>9, <1>13, <1>14
  <2> QED
    BY <1>3, <2>1, <2>2
<1>17. TurnOf(to) = t /\ to \in RequestState
  BY <1>15 DEF TurnOf, RequestState
<1>18. ThinkingFits(to)'
  BY <1>8, <1>12, <1>13, <1>15, <1>16 DEF ThinkingFits, OnlyAsked, IsAsked
<1>19. Fits(to)'
  BY <1>7, <1>15, <1>16, <1>17, <1>18 DEF Fits, TurnOf
<1>20. /\ read \subseteq read' /\ read' \in SUBSET (Turn \X Tool) /\ checked' \in SUBSET Turn
       /\ \A x : x # TurnOf(request[r]) /\ x \in checked' => x \in checked
  <2>1. read \in SUBSET (Turn \X Tool) /\ checked \in SUBSET Turn
    BY DEF ConversationInv, ConversationTypes
  <2>2. \A x \in ok : <<t, x>> \in Turn \X Tool
    OBVIOUS
  <2> QED
    BY <1>16, <2>1, <2>2
<1>21. request[r].at # "idle" /\ TurnOf(to) = TurnOf(request[r])
  BY <1>1, <1>7, <1>17
<1> QED
  BY <1>16, <1>17, <1>19, <1>20, <1>21, RequestAloneStep

-----------------------------------------------------------------------------
(* The answer.                                                             *)
LEMMA ReviewStep ==
  ASSUME ConversationInv, NEW r \in Request, NEW by \in Source, Review(r, by)
  PROVE  ConversationInv'
<1>1. PICK q \in Thinking : q = request[r] /\ q.at = "reviewing"
  BY DEF Review, ConversationInv, ConversationTypes, RequestState, Quiet, Preparing, Appending
<1>2. PICK t \in Turn : t = q.turn
  BY DEF Thinking
<1>3. PICK s \in Seq(StoredMessage) : s = q.transcript
  BY DEF Thinking
<1>4. /\ q.live \in BOOLEAN /\ q.ephemeral \in BOOLEAN
      /\ Fits(q) /\ ThinkingFits(q) /\ t \in 1..questions /\ TurnOf(q) = t
  BY <1>1, <1>2 DEF Thinking, ConversationInv, RequestsFit, Fits, TurnOf
<1>5. /\ t \in checked => q.live
      /\ OnlyAsked(t) /\ (~q.ephemeral => IsAsked(t)) /\ Paired(s, t)
  BY <1>2, <1>3, <1>4 DEF ThinkingFits
<1>6. UNCHANGED <<stored, questions, read, checked>>
  BY DEF Review
<1>7. /\ read \subseteq read' /\ read' \in SUBSET (Turn \X Tool) /\ checked' \in SUBSET Turn
      /\ request[r].at # "idle"
  BY <1>1, <1>6 DEF ConversationInv, ConversationTypes
<1>8. CASE q.ephemeral
  <2>1. PICK to : to = Quiet
    OBVIOUS
  <2>2. to \in RequestState /\ to.at = "idle" /\ request' = [request EXCEPT ![r] = to]
    BY <1>1, <1>8, <2>1 DEF RequestState, Quiet, Review, RequestGoes
  <2> QED
    BY <1>6, <1>7, <2>2, RequestAloneStep
<1>9. CASE ~q.ephemeral
  <2>1. PICK m : m = Answer(t, DeliveredAs(q, by), SourcesOf(t))
    OBVIOUS
  <2>2. /\ m.role = "answer" /\ m.turn = t /\ m.by = DeliveredAs(q, by)
        /\ m.sources = SourcesOf(t)
    BY <2>1 DEF Answer
  <2>3. m \in StoredMessage
    <3>1. DeliveredAs(q, by) \in Source /\ SourcesOf(t) \in SUBSET Tool
      BY DEF DeliveredAs, Source, SourcesOf
    <3>2. m \in [role : {"answer"}, turn : Turn, by : Source, sources : SUBSET Tool]
      BY <2>1, <3>1 DEF Answer
    <3> QED
      BY <3>2 DEF StoredMessage
  <2>4. m.by = "formatted" \/ t \notin checked
    BY <1>5, <2>2 DEF DeliveredAs
  <2>5. \A x \in m.sources : <<t, x>> \in read
    BY <2>2 DEF SourcesOf
  <2>6. PICK l \in Nat : l = Len(s) /\ DOMAIN s = 1..l
    BY LenProperties
  <2>7. PICK left \in Seq(StoredMessage) :
          /\ left = Append(s, m) /\ Len(left) = l + 1
          /\ (\A i \in 1..l : left[i] = s[i]) /\ left[l + 1] = m
    BY <2>3, <2>6, AppendProperties
  <2>8. PICK to : to = [at |-> "writing", left |-> left]
    OBVIOUS
  <2>9. /\ to \in RequestState /\ to.at = "writing" /\ to.left = left
        /\ request' = [request EXCEPT ![r] = to]
    <3>1. to \in Appending /\ to.at = "writing" /\ to.left = left
      BY <2>8 DEF Appending
    <3>2. request' = [request EXCEPT ![r] = to]
      BY <1>1, <1>2, <1>3, <1>9, <2>1, <2>7, <2>8 DEF Review, RequestGoes, Following
    <3> QED
      BY <3>1, <3>2 DEF RequestState
  <2>10. left[1].turn = t
    <3>1. CASE l = 0
      BY <2>2, <2>7, <3>1
    <3>2. CASE l # 0
      <4>1. 1 \in 1..l
        BY <3>2
      <4> QED
        BY <1>5, <2>6, <2>7, <4>1 DEF Paired
    <3> QED
      BY <3>1, <3>2
  <2>11. TurnOf(to) = t
    BY <2>9, <2>10 DEF TurnOf
  <2>12. \A i \in 1..l : IsTold(left[i]) /\ left[i].turn = t /\ left[i].call[1] = t
    BY <1>5, <2>6, <2>7 DEF Paired
  <2>13. \A i, j \in 1..l : Same(left[i], left[j]) => i = j
    BY <1>5, <2>6, <2>7 DEF Paired
  <2>14. \A i \in 1..l : left[i].role = "call" =>
           \E j \in 1..l : i < j /\ left[j].role = "tool" /\ left[j].call = left[i].call
    <3> TAKE i \in 1..l
    <3> HAVE left[i].role = "call"
    <3>1. \E j \in 1..l : i < j /\ s[j].role = "tool" /\ s[j].call = s[i].call
      BY <1>5, <2>6, <2>7 DEF Paired
    <3> QED
      BY <2>7, <3>1
  <2>15. \A i \in 1..l : left[i].role = "tool" =>
           \E j \in 1..l : j < i /\ left[j].role = "call" /\ left[j].call = left[i].call
    <3> TAKE i \in 1..l
    <3> HAVE left[i].role = "tool"
    <3>1. \E j \in 1..l : j < i /\ s[j].role = "call" /\ s[j].call = s[i].call
      BY <1>5, <2>6, <2>7 DEF Paired
    <3> QED
      BY <2>7, <3>1
  <2>16. Len(left) >= 1 /\ Len(left) - 1 = l
    BY <2>7
  <2>17. LeftFits(left, t)
    BY <2>2, <2>4, <2>5, <2>7, <2>12, <2>13, <2>14, <2>16 DEF LeftFits
  <2>18. StoredFits(left, t)
    BY <1>5, <1>9, <2>15, <2>16 DEF StoredFits, OnlyAsked, IsTold
  <2>19. LeftFits(left, t)' /\ StoredFits(left, t)'
    BY <1>6, <2>17, <2>18 DEF LeftFits, StoredFits, IsAsked
  <2>20. Fits(to)'
    BY <1>4, <1>6, <2>9, <2>10, <2>19 DEF Fits, TurnOf
  <2>21. TurnOf(to) = TurnOf(request[r])
    BY <1>1, <1>4, <2>11
  <2>22. \A x : x # TurnOf(request[r]) /\ x \in checked' => x \in checked
    BY <1>6
  <2> QED
    BY <1>6, <1>7, <2>9, <2>20, <2>21, <2>22, RequestAloneStep
<1> QED
  BY <1>4, <1>8, <1>9

(* The rest of what is left, when its first message is stored.             *)
LEMMA RestOfFits ==
  ASSUME NEW left, NEW u, NEW t, NEW m, NEW n \in Nat, NEW c \in Nat, GrowsBy(c, m),
         UNCHANGED <<read, checked>>,
         n > 1, n = Len(left), n - 1 = Len(u), m = left[1],
         \A i \in 1..n - 1 : u[i] = left[i + 1],
         LeftFits(left, t), StoredFits(left, t)
  PROVE  LeftFits(u, t)' /\ StoredFits(u, t)'
<1>0. Len(left) - 1 = n - 1 /\ Len(u) - 1 = n - 2
  OBVIOUS
<1>1. /\ left[n].role = "answer" /\ left[n].turn = t
      /\ left[n].by = "formatted" \/ t \notin checked
      /\ \A s \in left[n].sources : <<t, s>> \in read
  BY DEF LeftFits
<1>2. \A i \in 1..n - 1 : IsTold(left[i]) /\ left[i].turn = t /\ left[i].call[1] = t
  BY DEF LeftFits
<1>3. \A i, j \in 1..n - 1 : Same(left[i], left[j]) => i = j
  BY DEF LeftFits
<1>4. \A i \in 1..n - 1 : left[i].role = "call" =>
        \E j \in 1..n - 1 : i < j /\ left[j].role = "tool" /\ left[j].call = left[i].call
  BY DEF LeftFits
<1>5. /\ DOMAIN stored = 1..c /\ DOMAIN stored' = 1..c + 1
      /\ \A k \in 1..c : k \in 1..c + 1 /\ stored'[k] = stored[k]
      /\ c + 1 \in 1..c + 1 /\ stored'[c + 1] = m
      /\ \A k \in 1..c + 1 : k \in 1..c \/ k = c + 1
  BY DEF GrowsBy
<1>6. /\ \A i \in 1..n - 2 : i + 1 \in 1..n - 1 /\ i \in 1..n - 1 /\ i + 1 # 1
      /\ 1 \in 1..n - 1
      /\ \A i \in 1..n - 1 : i # 1 => i - 1 \in 1..n - 2 /\ u[i - 1] = left[i]
  <2>1. \A i \in 1..n - 1 : i # 1 => i - 1 \in 1..n - 2 /\ i - 1 \in 1..n - 1 /\ (i - 1) + 1 = i
    OBVIOUS
  <2> QED
    BY <2>1
<1>7. LeftFits(u, t)
  <2>1. u[n - 1] = left[n]
    <3>1. n - 1 \in 1..n - 1 /\ (n - 1) + 1 = n
      OBVIOUS
    <3> QED
      BY <3>1
  <2>2. \A i \in 1..n - 2 : IsTold(u[i]) /\ u[i].turn = t /\ u[i].call[1] = t
    BY <1>2, <1>6
  <2>3. \A i, j \in 1..n - 2 : Same(u[i], u[j]) => i = j
    <3> TAKE i, j \in 1..n - 2
    <3> HAVE Same(u[i], u[j])
    <3>1. i + 1 = j + 1
      BY <1>3, <1>6
    <3> QED
      BY <3>1
  <2>4. ASSUME NEW i \in 1..n - 2, u[i].role = "call"
        PROVE  \E j \in 1..n - 2 : i < j /\ u[j].role = "tool" /\ u[j].call = u[i].call
    <3>1. PICK j \in 1..n - 1 : i + 1 < j /\ left[j].role = "tool" /\ left[j].call = left[i + 1].call
      BY <1>4, <1>6, <2>4
    <3>2. j # 1 /\ i < j - 1
      BY <3>1
    <3> QED
      BY <1>6, <3>1, <3>2
  <2>5. Len(u) >= 1
    OBVIOUS
  <2> QED
    BY <1>0, <1>1, <2>1, <2>2, <2>3, <2>4, <2>5 DEF LeftFits
<1>8. LeftFits(u, t)'
  BY <1>7 DEF LeftFits
<1>9. /\ IsAsked(t)
      /\ \A k \in 1..c : stored[k].turn = t => stored[k].role # "answer"
      /\ \A k \in 1..c : \A i \in 1..n - 1 :
           stored[k].turn = t /\ IsTold(stored[k]) => ~Same(stored[k], left[i])
  BY <1>0, <1>5 DEF StoredFits
<1>10. \A i \in 1..n - 1 : left[i].role = "tool" =>
         \/ \E j \in 1..n - 1 : j < i /\ left[j].role = "call" /\ left[j].call = left[i].call
         \/ \E k \in 1..c : stored[k].turn = t /\ stored[k].role = "call"
                            /\ stored[k].call = left[i].call
  BY <1>0, <1>5 DEF StoredFits
<1>11. \A k \in 1..c : stored[k].turn = t /\ stored[k].role = "call" =>
         \/ \E l \in 1..c : stored[l].turn = t /\ stored[l].role = "tool"
                            /\ stored[l].call = stored[k].call
         \/ \E i \in 1..n - 1 : left[i].role = "tool" /\ left[i].call = stored[k].call
  BY <1>0, <1>5 DEF StoredFits
<1>12. IsAsked(t)'
  BY <1>5, <1>9 DEF IsAsked
<1>13. IsTold(m) /\ m.turn = t
  BY <1>2, <1>6
<1>14. \A k \in 1..c + 1 : stored'[k].turn = t => stored'[k].role # "answer"
  BY <1>5, <1>9, <1>13 DEF IsTold
<1>15. \A k \in 1..c + 1 : \A i \in 1..n - 2 :
         stored'[k].turn = t /\ IsTold(stored'[k]) => ~Same(stored'[k], u[i])
  <2> TAKE k \in 1..c + 1
  <2> TAKE i \in 1..n - 2
  <2>1. u[i] = left[i + 1] /\ i + 1 \in 1..n - 1 /\ i + 1 # 1
    BY <1>6
  <2>2. CASE k \in 1..c
    BY <1>5, <1>9, <2>1, <2>2
  <2>3. CASE k = c + 1
    <3>1. ~Same(left[1], left[i + 1])
      BY <1>3, <1>6, <2>1
    <3> QED
      BY <1>5, <2>1, <2>3, <3>1
  <2> QED
    BY <1>5, <2>2, <2>3
<1>16. ASSUME NEW i \in 1..n - 2, u[i].role = "tool"
       PROVE  \/ \E j \in 1..n - 2 : j < i /\ u[j].role = "call" /\ u[j].call = u[i].call
              \/ \E k \in 1..c + 1 : stored'[k].turn = t /\ stored'[k].role = "call"
                                     /\ stored'[k].call = u[i].call
  <2>1. u[i] = left[i + 1] /\ i + 1 \in 1..n - 1
    BY <1>6
  <2>2. ASSUME NEW j \in 1..n - 1, j < i + 1, left[j].role = "call", left[j].call = left[i + 1].call, j # 1
        PROVE  \E l \in 1..n - 2 : l < i /\ u[l].role = "call" /\ u[l].call = u[i].call
    <3>1. j - 1 \in 1..n - 2 /\ u[j - 1] = left[j]
      BY <1>6, <2>2
    <3>2. j - 1 < i
      BY <2>2
    <3> QED
      BY <2>1, <2>2, <3>1, <3>2
  <2>3. ASSUME left[1].role = "call", left[1].call = left[i + 1].call
        PROVE  stored'[c + 1].turn = t /\ stored'[c + 1].role = "call" /\ stored'[c + 1].call = u[i].call
    BY <1>5, <1>13, <2>1, <2>3
  <2>4. ASSUME NEW k \in 1..c, stored[k].turn = t, stored[k].role = "call",
               stored[k].call = left[i + 1].call
        PROVE  \E l \in 1..c + 1 : stored'[l].turn = t /\ stored'[l].role = "call"
                                   /\ stored'[l].call = u[i].call
    BY <1>5, <2>1, <2>4
  <2>5. left[i + 1].role = "tool"
    BY <1>16, <2>1
  <2>6. \/ \E j \in 1..n - 1 : j < i + 1 /\ left[j].role = "call" /\ left[j].call = left[i + 1].call
        \/ \E k \in 1..c : stored[k].turn = t /\ stored[k].role = "call"
                           /\ stored[k].call = left[i + 1].call
    BY <1>10, <2>1, <2>5
  <2>7. CASE \E k \in 1..c : stored[k].turn = t /\ stored[k].role = "call"
                           /\ stored[k].call = left[i + 1].call
    BY <2>4, <2>7
  <2>8. ASSUME NEW j \in 1..n - 1, j < i + 1, left[j].role = "call", left[j].call = left[i + 1].call
        PROVE  \/ \E l \in 1..n - 2 : l < i /\ u[l].role = "call" /\ u[l].call = u[i].call
               \/ \E k \in 1..c + 1 : stored'[k].turn = t /\ stored'[k].role = "call"
                                      /\ stored'[k].call = u[i].call
    <3>1. CASE j = 1
      BY <1>5, <2>3, <2>8, <3>1
    <3>2. CASE j # 1
      BY <2>2, <2>8, <3>2
    <3> QED
      BY <3>1, <3>2
  <2> QED
    BY <2>6, <2>7, <2>8
<1>17. ASSUME NEW k \in 1..c + 1, stored'[k].turn = t, stored'[k].role = "call"
       PROVE  \/ \E l \in 1..c + 1 : stored'[l].turn = t /\ stored'[l].role = "tool"
                                     /\ stored'[l].call = stored'[k].call
              \/ \E i \in 1..n - 2 : u[i].role = "tool" /\ u[i].call = stored'[k].call
  <2>1. CASE k = c + 1
    <3>1. PICK j \in 1..n - 1 : 1 < j /\ left[j].role = "tool" /\ left[j].call = left[1].call
      BY <1>4, <1>5, <1>6, <1>17, <2>1
    <3>2. j - 1 \in 1..n - 2 /\ u[j - 1] = left[j]
      BY <1>6, <3>1
    <3> QED
      BY <1>5, <2>1, <3>1, <3>2
  <2>2. CASE k \in 1..c
    <3>1. stored'[k] = stored[k]
      BY <1>5, <2>2
    <3>2. ASSUME NEW l \in 1..c, stored[l].turn = t, stored[l].role = "tool",
                 stored[l].call = stored[k].call
          PROVE  \E x \in 1..c + 1 : stored'[x].turn = t /\ stored'[x].role = "tool"
                                     /\ stored'[x].call = stored'[k].call
      BY <1>5, <3>1, <3>2
    <3>3. ASSUME NEW i \in 1..n - 1, left[i].role = "tool", left[i].call = stored[k].call, i # 1
          PROVE  \E x \in 1..n - 2 : u[x].role = "tool" /\ u[x].call = stored'[k].call
      <4>1. i - 1 \in 1..n - 2 /\ u[i - 1] = left[i]
        BY <1>6, <3>3
      <4>2. u[i - 1].role = "tool" /\ u[i - 1].call = stored'[k].call
        BY <3>1, <3>3, <4>1
      <4> QED
        BY <4>1, <4>2
    <3>4. ASSUME left[1].role = "tool", left[1].call = stored[k].call
          PROVE  /\ stored'[c + 1].turn = t /\ stored'[c + 1].role = "tool"
                 /\ stored'[c + 1].call = stored'[k].call
      BY <1>5, <1>13, <3>1, <3>4
    <3> QED
      BY <1>5, <1>11, <1>17, <2>2, <3>1, <3>2, <3>3, <3>4
  <2> QED
    BY <1>5, <2>1, <2>2
<1>18. StoredFits(u, t)'
  <2>1. Len(u) - 1 = n - 2
    BY <1>0
  <2>2. \A k \in DOMAIN stored' : stored'[k].turn = t => stored'[k].role # "answer"
    BY <1>5, <1>14
  <2>3. \A k \in DOMAIN stored' : \A i \in 1..Len(u) - 1 :
          stored'[k].turn = t /\ IsTold(stored'[k]) => ~Same(stored'[k], u[i])
    BY <1>5, <1>15, <2>1
  <2>4. \A i \in 1..Len(u) - 1 : u[i].role = "tool" =>
          \/ \E j \in 1..Len(u) - 1 : j < i /\ u[j].role = "call" /\ u[j].call = u[i].call
          \/ \E k \in DOMAIN stored' : stored'[k].turn = t /\ stored'[k].role = "call"
                                       /\ stored'[k].call = u[i].call
    BY <1>5, <1>16, <2>1
  <2>5. \A k \in DOMAIN stored' : stored'[k].turn = t /\ stored'[k].role = "call" =>
          \/ \E l \in DOMAIN stored' : stored'[l].turn = t /\ stored'[l].role = "tool"
                                       /\ stored'[l].call = stored'[k].call
          \/ \E i \in 1..Len(u) - 1 : u[i].role = "tool" /\ u[i].call = stored'[k].call
    BY <1>5, <1>17, <2>1
  <2> QED
    BY <1>12, <2>2, <2>3, <2>4, <2>5, Zenon DEF StoredFits
<1> QED
  BY <1>8, <1>18

LEMMA WriteStep ==
  ASSUME ConversationInv, NEW r \in Request, Write(r)
  PROVE  ConversationInv'
<1>1. PICK q \in Appending : q = request[r] /\ q.at = "writing"
  BY DEF Write, ConversationInv, ConversationTypes, RequestState, Quiet, Preparing, Thinking
<1>2. PICK left \in Seq(StoredMessage) : left = q.left
  BY DEF Appending
<1>3. PICK t : t = TurnOf(q) /\ t = left[1].turn
  BY <1>1, <1>2 DEF TurnOf
<1>4. Fits(q) /\ t \in 1..questions /\ LeftFits(left, t) /\ StoredFits(left, t)
  BY <1>1, <1>2, <1>3 DEF ConversationInv, RequestsFit, Fits
<1>5. PICK n \in Nat \ {0} : n = Len(left) /\ n >= 1
  BY <1>4, LenProperties DEF LeftFits
<1>6. PICK m \in StoredMessage : m = left[1] /\ m = Head(left)
  <2>1. 1 \in 1..Len(left)
    BY <1>5
  <2>2. left[1] \in StoredMessage
    BY <2>1, ElementOfSeq
  <2>3. Head(left) = left[1]
    <3>1. left # << >>
      BY <1>5, EmptySeq
    <3> QED
      BY <3>1
  <2> QED
    BY <2>2, <2>3
<1>7. /\ stored' = Append(stored, m) /\ UNCHANGED <<questions, read, checked>>
  BY <1>1, <1>2, <1>6 DEF Write
<1>8. stored \in Seq(StoredMessage) /\ StoredOnce /\ TranscriptWellFormed
  BY DEF ConversationInv, ConversationTypes
<1>9. PICK c \in Nat : GrowsBy(c, m)
  BY <1>7, <1>8, Grown
<1>10. /\ IsAsked(t)
       /\ \A k \in DOMAIN stored : stored[k].turn = t => stored[k].role # "answer"
  BY <1>4 DEF StoredFits
<1>11. m.turn = t /\ request[r].at # "idle" /\ TurnOf(request[r]) = t
  BY <1>1, <1>3, <1>6
<1>12. CASE n = 1
  <2>1. PICK to : to = Quiet
    OBVIOUS
  <2>2. to \in RequestState /\ to.at = "idle" /\ request' = [request EXCEPT ![r] = to]
    BY <1>1, <1>2, <1>5, <1>12, <2>1 DEF RequestState, Quiet, Write, RequestGoes
  <2>3. m.role = "answer" /\ (\A s \in m.sources : <<t, s>> \in read)
    BY <1>4, <1>5, <1>6, <1>12 DEF LeftFits
  <2>4. \A k \in DOMAIN stored : stored[k].turn = t /\ stored[k].role = "call" =>
          \E l \in DOMAIN stored : stored[l].turn = t /\ stored[l].role = "tool"
                                   /\ stored[l].call = stored[k].call
    <3>1. ~ \E i \in 1..n - 1 : TRUE
      BY <1>12
    <3> QED
      BY <1>4, <1>5, <3>1 DEF StoredFits
  <2>5. Cardinality({j \in DOMAIN stored : stored[j].turn = t /\ stored[j].role = "call"})
          = Cardinality({j \in DOMAIN stored : stored[j].turn = t /\ stored[j].role = "tool"})
    BY <1>8, <2>4, AsMany
  <2>6. Placed(m)
    BY <1>10, <1>11, <2>3, <2>5 DEF Placed, IsAsked
  <2>7. ~IsTold(m)
    BY <2>3 DEF IsTold
  <2>8. \A k \in DOMAIN stored : stored[k].turn = m.turn /\ IsTold(stored[k]) => ~Same(stored[k], m)
    BY <2>3 DEF IsTold, Same
  <2> QED
    BY <1>7, <1>11, <2>2, <2>3, <2>6, <2>7, <2>8, MessageStep
<1>13. CASE n # 1
  <2>1. left # << >> /\ n > 1
    BY <1>5, <1>13
  <2>2. PICK u \in Seq(StoredMessage) :
          /\ u = Tail(left) /\ Len(u) = n - 1
          /\ \A i \in 1..n - 1 : u[i] = left[i + 1]
    <3>1. /\ Tail(left) \in Seq(StoredMessage) /\ Len(Tail(left)) = Len(left) - 1
          /\ \A i \in 1..Len(Tail(left)) : Tail(left)[i] = left[i + 1]
      BY <1>2, <2>1, HeadTailProperties
    <3>2. Len(Tail(left)) = n - 1
      BY <1>5, <3>1
    <3>3. \A i \in 1..n - 1 : Tail(left)[i] = left[i + 1]
      BY <3>1, <3>2
    <3> QED
      BY <3>1, <3>2, <3>3
  <2>3. LeftFits(u, t)' /\ StoredFits(u, t)'
    <3>1. UNCHANGED <<read, checked>> /\ n - 1 = Len(u)
      BY <1>7, <2>2
    <3> QED
      BY <1>4, <1>5, <1>6, <1>9, <2>1, <2>2, <3>1, RestOfFits
  <2>4. PICK to : to = [at |-> "writing", left |-> u]
    OBVIOUS
  <2>5. /\ to \in RequestState /\ to.at = "writing" /\ to.left = u
        /\ request' = [request EXCEPT ![r] = to]
    <3>1. to \in Appending /\ to.at = "writing" /\ to.left = u
      BY <2>4 DEF Appending
    <3>2. request' = [request EXCEPT ![r] = to]
      BY <1>1, <1>2, <1>5, <1>13, <2>2, <2>4 DEF Write, RequestGoes
    <3> QED
      BY <3>1, <3>2 DEF RequestState
  <2>6. /\ left[n].role = "answer" /\ left[n].turn = t
        /\ \A i \in 1..n - 1 : IsTold(left[i]) /\ left[i].turn = t /\ left[i].call[1] = t
    BY <1>4, <1>5 DEF LeftFits
  <2>7. u[1].turn = t
    <3>1. 1 \in 1..n - 1 /\ u[1] = left[1 + 1]
      BY <2>1, <2>2
    <3>2. 2 \in 1..n - 1 \/ 2 = n
      BY <2>1
    <3> QED
      BY <2>6, <3>1, <3>2
  <2>8. TurnOf(to) = t
    BY <2>5, <2>7 DEF TurnOf
  <2>9. Fits(to)'
    BY <1>4, <1>7, <2>3, <2>5, <2>7 DEF Fits, TurnOf
  <2>10. IsTold(m) /\ m.call[1] = t /\ 1 \in 1..n - 1
    <3>1. 1 \in 1..n - 1
      BY <2>1
    <3> QED
      BY <1>6, <2>6, <3>1
  <2>11. m.role = "tool" => \E k \in DOMAIN stored : stored[k].turn = t /\ stored[k].role = "call"
                                                     /\ stored[k].call = m.call
    <3>1. ~ \E j \in 1..n - 1 : j < 1
      OBVIOUS
    <3>2. left[1].role = "tool" =>
            \/ \E j \in 1..n - 1 : j < 1 /\ left[j].role = "call" /\ left[j].call = left[1].call
            \/ \E k \in DOMAIN stored : stored[k].turn = t /\ stored[k].role = "call"
                                        /\ stored[k].call = left[1].call
      BY <1>4, <1>5, <2>10 DEF StoredFits
    <3> QED
      BY <1>6, <3>1, <3>2
  <2>12. Placed(m)
    <3>1. m.role # "answer"
      BY <2>10 DEF IsTold
    <3> QED
      BY <1>10, <1>11, <2>11, <3>1 DEF Placed, IsAsked
  <2>13. \A k \in DOMAIN stored : stored[k].turn = m.turn /\ IsTold(stored[k]) => ~Same(stored[k], m)
    BY <1>4, <1>5, <1>6, <1>11, <2>10 DEF StoredFits
  <2>14. m.role # "answer" /\ TurnOf(to) = TurnOf(request[r]) /\ m.turn = TurnOf(request[r])
         /\ m.call[1] = m.turn
    BY <1>11, <2>8, <2>10 DEF IsTold
  <2> QED
    BY <1>7, <1>11, <2>5, <2>9, <2>12, <2>13, <2>14, MessageStep
<1> QED
  BY <1>12, <1>13
-----------------------------------------------------------------------------
LEMMA ConversationInitInv == ConversationInit => ConversationInv
<1> SUFFICES ASSUME ConversationInit PROVE ConversationInv
  OBVIOUS
<1>1. /\ stored = << >> /\ DOMAIN stored = {} /\ questions = 0 /\ read = {} /\ checked = {}
      /\ request = [r \in Request |-> Quiet]
  BY DEF ConversationInit
<1>2. ConversationTypes
  <2>1. 0 \in 0..MaxQuestions
    BY ConversationAssumption
  <2>2. Quiet \in RequestState
    BY DEF RequestState
  <2>3. << >> \in Seq(StoredMessage)
    OBVIOUS
  <2> QED
    BY <1>1, <2>1, <2>2, <2>3 DEF ConversationTypes
<1>3. RequestsFit
  BY <1>1 DEF RequestsFit, Quiet
<1>4. StoredOnce /\ TranscriptWellFormed /\ SourcesWereRead
  BY <1>1 DEF StoredOnce, TranscriptWellFormed, SourcesWereRead
<1> QED
  BY <1>1, <1>2, <1>3, <1>4 DEF ConversationInv

LEMMA ConversationStep ==
  ConversationInv /\ [ConversationNext]_conversationVars => ConversationInv'
<1> SUFFICES ASSUME ConversationInv, [ConversationNext]_conversationVars PROVE ConversationInv'
  OBVIOUS
<1>1. CASE ConversationNext
  <2>1. PICK r \in Request :
          \/ \E grounded \in Grounding, ephemeral \in BOOLEAN : Begin(r, grounded, ephemeral)
          \/ StoreQuestion(r)
          \/ \E toolsEnabled, ok \in BOOLEAN : CheckLive(r, toolsEnabled, ok)
          \/ \E used \in SUBSET Tool : \E ok \in SUBSET used : UseTools(r, used, ok)
          \/ Drafts(r) \/ (\E by \in Source : Review(r, by))
          \/ Write(r) \/ RequestLost(r)
    BY <1>1 DEF ConversationNext
  <2> QED
    BY <2>1, BeginStep, StoreQuestionStep, CheckLiveStep, UseToolsStep, DraftsStep, ReviewStep,
       WriteStep, LostStep
<1>2. CASE UNCHANGED conversationVars
  <2>1. UNCHANGED <<stored, request, questions, read, checked>>
    BY <1>2 DEF conversationVars
  <2>2. questions \in Nat
    BY DEF ConversationInv, ConversationTypes
  <2>3. questions' \in Nat /\ questions <= questions' /\ read \subseteq read'
    BY <2>1, <2>2
  <2>4. StoredOnce' /\ TranscriptWellFormed' /\ SourcesWereRead'
    BY <2>1, <2>3, NothingStored
  <2>5. RequestsFit'
    <3>1. ASSUME NEW r \in Request, request'[r].at # "idle" PROVE Fits(request[r])'
      <4>1. PICK q : q = request[r]
        OBVIOUS
      <4>2. Fits(q)
        BY <2>1, <3>1, <4>1 DEF ConversationInv, RequestsFit
      <4>3. PICK t : t = TurnOf(q)
        OBVIOUS
      <4>4. KeepsTurn(t) /\ (t \in checked' => t \in checked)
        BY <2>1, SameKeeps
      <4>5. Fits(q)'
        BY <2>2, <2>3, <4>2, <4>3, <4>4, OtherFits
      <4> QED
        BY <2>1, <4>1, <4>5
    <3>2. \A r, s \in Request : r # s /\ request'[r].at # "idle" /\ request'[s].at # "idle" =>
            TurnOf(request'[r]) # TurnOf(request'[s])
      BY <2>1 DEF ConversationInv, RequestsFit
    <3> QED
      BY <3>1, <3>2 DEF RequestsFit, TurnOf
  <2> QED
    BY <2>1, <2>4, <2>5 DEF ConversationInv, ConversationTypes
<1> QED
  BY <1>1, <1>2

LEMMA ConversationInvImplies ==
  ConversationInv => /\ ConversationTypeOK /\ RoundsAreValid /\ TranscriptWellFormed
                     /\ SourcesWereRead /\ GroundedIsFormatted
<1> SUFFICES ASSUME ConversationInv
             PROVE  /\ ConversationTypeOK /\ RoundsAreValid /\ TranscriptWellFormed
                    /\ SourcesWereRead /\ GroundedIsFormatted
  OBVIOUS
<1>1. \A i \in DOMAIN stored : stored[i] \in StoredMessage
  BY LenProperties, ElementOfSeq DEF ConversationInv, ConversationTypes
<1>2. ASSUME NEW i \in DOMAIN stored
      PROVE  LET m == stored[i] IN
             /\ m.role \in {"user", "call", "tool", "answer"} /\ m.turn \in Turn
             /\ m.role \in {"call", "tool"} => m.call \in CallId /\ m.call[1] = m.turn
             /\ m.role = "answer" => m.by \in Source /\ m.sources \subseteq Tool
  <2>1. PICK m \in StoredMessage : m = stored[i]
    BY <1>1
  <2>2. IsTold(m) => m.call[1] = m.turn
    BY <2>1 DEF ConversationInv, StoredOnce
  <2>3. m.role \in {"user", "call", "tool", "answer"} /\ m.turn \in Turn
    BY DEF StoredMessage
  <2>4. m.role \in {"call", "tool"} => m.call \in CallId
    BY DEF StoredMessage
  <2>5. m.role = "answer" => m.by \in Source /\ m.sources \subseteq Tool
    BY DEF StoredMessage
  <2> QED
    BY <2>1, <2>2, <2>3, <2>4, <2>5 DEF IsTold
<1>3. \A r \in Request : request[r].at \in
        {"idle", "storing", "checking", "asking", "reviewing", "writing"}
  BY DEF ConversationInv, ConversationTypes, RequestState, Quiet, Preparing, Thinking, Appending
<1>4. ConversationTypeOK
  BY <1>2, <1>3 DEF ConversationTypeOK, ConversationInv, ConversationTypes
<1>5. RoundsAreValid
  BY DEF RoundsAreValid, ConversationInv, RequestsFit, Fits, ThinkingFits
<1>6. GroundedIsFormatted
  <2> SUFFICES ASSUME NEW r \in Request, request[r].at = "writing",
                      Last(request[r].left).turn \in checked
               PROVE  Last(request[r].left).by = "formatted"
    BY DEF GroundedIsFormatted
  <2>1. LeftFits(request[r].left, TurnOf(request[r]))
    BY DEF ConversationInv, RequestsFit, Fits
  <2> QED
    BY <2>1 DEF LeftFits, Last
<1> QED
  BY <1>4, <1>5, <1>6 DEF ConversationInv

(* However requests of a session overlap and are lost, each turn is stored *)
(* in its order, its results after their calls; what is sent is valid, the *)
(* sources were read, and a live check is formatted.                       *)
THEOREM ConversationCorrect ==
  ConversationSpec => [](/\ ConversationTypeOK /\ RoundsAreValid /\ TranscriptWellFormed
                         /\ SourcesWereRead /\ GroundedIsFormatted)
<1>1. ConversationSpec => []ConversationInv
  BY ConversationInitInv, ConversationStep, PTL DEF ConversationSpec
<1> QED
  BY <1>1, ConversationInvImplies, PTL
===============================================================================
