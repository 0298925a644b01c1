---------------------------- MODULE GbnLinkProofs ----------------------------
(***************************************************************************)
(* Proofs about GbnLink, for every sequence space that holds two windows   *)
(* and a number, every window, ring, buffer and burst size, and any number *)
(* of losses and sessions.                                                 *)
(***************************************************************************)
EXTENDS GbnLink, SeqSpaceProofs, FiniteSetTheorems, SequenceTheorems

(* Lines                                                                   *)

\* DataInv and CtrlInv of an arbitrary line.
GoodData(d, c, n) ==
  /\ \A i \in 1..Len(d) :
       /\ d[i].seq = SeqOf(d[i].idx)
       /\ d[i].idx < n
       /\ c <= d[i].idx + PIPELINE_WINDOW
       /\ d[i].len <= AppCap
  /\ \A i, j \in 1..Len(d) : i < j => d[i].idx < d[j].idx + PIPELINE_WINDOW

GoodReply(r) ==
  /\ r.type = "ACK" => r.upto > 0 /\ r.seq = SeqOf(r.upto - 1)
  /\ r.type = "NAK" => r.seq = SeqOf(r.upto)

GoodCtrl(q, f, c) ==
  /\ \A i \in 1..Len(q) :
       GoodReply(q[i]) /\ q[i].upto <= c /\ f <= q[i].upto + PIPELINE_WINDOW
  /\ \A i, j \in 1..Len(q) : i < j => q[i].upto <= q[j].upto + PIPELINE_WINDOW

\* Taking the first frame off a line leaves a good line, also for a receiver
\* that moved to that frame.
LEMMA DataTail ==
  ASSUME NEW c \in Nat, NEW n \in Nat, NEW d \in Seq(DataFrames), d # <<>>,
         GoodData(d, c, n)
  PROVE  /\ Head(d) \in DataFrames /\ Tail(d) \in Seq(DataFrames)
         /\ Head(d).seq = SeqOf(Head(d).idx) /\ Head(d).idx < n
         /\ c <= Head(d).idx + PIPELINE_WINDOW /\ Head(d).len <= AppCap
         /\ GoodData(Tail(d), c, n)
         /\ GoodData(Tail(d), Head(d).idx + 1, n)
<1> USE SpaceAssumption
<1>1. Len(d) \in Nat \ {0} /\ Head(d) = d[1] /\ Tail(d) \in Seq(DataFrames)
      /\ Len(Tail(d)) = Len(d) - 1
      /\ \A i \in 1..(Len(d) - 1) : Tail(d)[i] = d[i + 1]
  OBVIOUS
<1>2. \A i \in 1..Len(d) : d[i] \in DataFrames
  OBVIOUS
<1>3. 1 \in 1..Len(d) /\ \A i \in 1..(Len(d) - 1) : i + 1 \in 1..Len(d) /\ 1 < i + 1
  BY <1>1
<1>4. GoodData(Tail(d), c, n)
  BY <1>1, <1>3 DEF GoodData
<1>5. \A i \in 1..(Len(d) - 1) : d[1].idx + 1 <= d[i + 1].idx + PIPELINE_WINDOW
  <2> TAKE i \in 1..(Len(d) - 1)
  <2>1. d[1].idx < d[i + 1].idx + PIPELINE_WINDOW
    BY <1>3 DEF GoodData
  <2>2. d[1].idx \in Nat /\ d[i + 1].idx \in Nat
    BY <1>2, <1>3 DEF DataFrames
  <2> QED
    BY <2>1, <2>2
<1>6. GoodData(Tail(d), Head(d).idx + 1, n)
  BY <1>1, <1>4, <1>5 DEF GoodData
<1> QED
  BY <1>1, <1>2, <1>3, <1>4, <1>6 DEF GoodData

\* Putting chunks of the window on a line leaves a good line.
LEMMA DataConcat ==
  ASSUME NEW c \in Nat, NEW n \in Nat, NEW f \in Nat, NEW m \in Nat,
         NEW d \in Seq(DataFrames), NEW t \in Seq(DataFrames),
         GoodData(d, c, m), m <= n, c <= n, n <= f + PIPELINE_WINDOW,
         \A i \in 1..Len(t) : /\ t[i].seq = SeqOf(t[i].idx) /\ t[i].len <= AppCap
                              /\ f <= t[i].idx /\ t[i].idx < n
  PROVE  d \o t \in Seq(DataFrames) /\ GoodData(d \o t, c, n)
<1> USE SpaceAssumption
<1> DEFINE e == d \o t
<1>1. /\ e \in Seq(DataFrames) /\ Len(e) = Len(d) + Len(t)
      /\ Len(d) \in Nat /\ Len(t) \in Nat
      /\ \A i \in 1..Len(e) : e[i] = IF i <= Len(d) THEN d[i] ELSE t[i - Len(d)]
  OBVIOUS
<1>2. \A i \in 1..Len(e) : i <= Len(d) => i \in 1..Len(d)
  BY <1>1
<1>3. \A i \in 1..Len(e) : ~(i <= Len(d)) => i - Len(d) \in 1..Len(t)
  BY <1>1
<1> HIDE DEF e
<1>4. \A i \in 1..Len(e) : e[i].idx \in Nat
  <2>1. \A i \in 1..Len(e) : e[i] \in DataFrames
    BY <1>1
  <2> QED
    BY <2>1 DEF DataFrames
<1>5. ASSUME NEW i \in 1..Len(e)
      PROVE  /\ e[i].seq = SeqOf(e[i].idx) /\ e[i].idx < n
             /\ c <= e[i].idx + PIPELINE_WINDOW /\ e[i].len <= AppCap
             /\ ~(i <= Len(d)) => f <= e[i].idx
  <2>1. CASE i <= Len(d)
    <3>1. d[i] = e[i] /\ i \in 1..Len(d)
      BY <1>1, <1>2, <2>1
    <3>2. e[i].idx < m /\ e[i].seq = SeqOf(e[i].idx) /\ c <= e[i].idx + PIPELINE_WINDOW
          /\ e[i].len <= AppCap
      BY <3>1 DEF GoodData
    <3> QED
      BY <3>2, <2>1, <1>4, SMTT(30)
  <2>2. CASE ~(i <= Len(d))
    <3>1. t[i - Len(d)] = e[i] /\ i - Len(d) \in 1..Len(t)
      BY <1>1, <1>3, <2>2
    <3>2. e[i].seq = SeqOf(e[i].idx) /\ e[i].len <= AppCap /\ f <= e[i].idx /\ e[i].idx < n
      BY <3>1
    <3> QED
      BY <3>2, <1>4, SMTT(30)
  <2> QED
    BY <2>1, <2>2
<1>6. ASSUME NEW i \in 1..Len(e), NEW j \in 1..Len(e), i < j
      PROVE  e[i].idx < e[j].idx + PIPELINE_WINDOW
  <2>1. CASE j <= Len(d)
    <3>1. i \in 1..Len(d) /\ j \in 1..Len(d) /\ d[i] = e[i] /\ d[j] = e[j]
      BY <1>1, <1>6, <2>1
    <3> QED
      BY <3>1, <1>6 DEF GoodData
  <2>2. CASE ~(j <= Len(d))
    <3>1. e[i].idx < n /\ f <= e[j].idx
      BY <1>5, <2>2
    <3> QED
      BY <3>1, <1>4, SMTT(30)
  <2> QED
    BY <2>1, <2>2
<1>7. GoodData(e, c, n)
  BY <1>5, <1>6 DEF GoodData
<1> QED
  BY <1>1, <1>7 DEF e

\* A line that lost its unsent end is still good.
LEMMA DataPrefix ==
  ASSUME NEW c \in Nat, NEW n \in Nat, NEW d \in Seq(DataFrames), GoodData(d, c, n),
         NEW e \in Truncated(d)
  PROVE  e \in Seq(DataFrames) /\ GoodData(e, c, n)
<1>1. PICK k \in 0..Len(d) : e = SubSeq(d, 1, k)
  BY DEF Truncated
<1>2. e \in Seq(DataFrames) /\ Len(e) = k /\ \A i \in 1..k : e[i] = d[i]
  BY <1>1
<1>3. \A i \in 1..k : i \in 1..Len(d)
  BY <1>1
<1> QED
  BY <1>2, <1>3 DEF GoodData

\* What is left of the ACK/NAK line after discardTx() keeps its bounds.
LEMMA CtrlPrefix ==
  ASSUME NEW f \in Nat, NEW c \in Nat, NEW q \in Seq(CtrlFrames), GoodCtrl(q, f, c),
         NEW e \in Truncated(q)
  PROVE  e \in Seq(CtrlFrames) /\ GoodCtrl(e, f, c)
<1>1. PICK k \in 0..Len(q) : e = SubSeq(q, 1, k)
  BY DEF Truncated
<1>2. e \in Seq(CtrlFrames) /\ Len(e) = k /\ \A i \in 1..k : e[i] = q[i]
  BY <1>1
<1>3. \A i \in 1..k : i \in 1..Len(q)
  BY <1>1
<1> QED
  BY <1>2, <1>3 DEF GoodCtrl

\* Consuming a reply leaves a good line, also for a sender that released
\* what the reply confirms.
LEMMA CtrlTail ==
  ASSUME NEW f \in Nat, NEW c \in Nat, NEW q \in Seq(CtrlFrames), q # <<>>,
         GoodCtrl(q, f, c)
  PROVE  /\ Head(q) \in CtrlFrames /\ Tail(q) \in Seq(CtrlFrames)
         /\ GoodReply(Head(q)) /\ Head(q).upto <= c /\ f <= Head(q).upto + PIPELINE_WINDOW
         /\ GoodCtrl(Tail(q), f, c)
         /\ GoodCtrl(Tail(q), Head(q).upto, c)
<1> USE SpaceAssumption
<1>1. Len(q) \in Nat \ {0} /\ Head(q) = q[1] /\ Tail(q) \in Seq(CtrlFrames)
      /\ Len(Tail(q)) = Len(q) - 1
      /\ \A i \in 1..(Len(q) - 1) : Tail(q)[i] = q[i + 1]
  OBVIOUS
<1>2. \A i \in 1..Len(q) : q[i] \in CtrlFrames
  OBVIOUS
<1>3. 1 \in 1..Len(q) /\ \A i \in 1..(Len(q) - 1) : i + 1 \in 1..Len(q) /\ 1 < i + 1
  BY <1>1
<1>4. GoodCtrl(Tail(q), f, c)
  BY <1>1, <1>3 DEF GoodCtrl
<1>5. \A i \in 1..(Len(q) - 1) : q[1].upto <= q[i + 1].upto + PIPELINE_WINDOW
  BY <1>3 DEF GoodCtrl
<1>6. GoodCtrl(Tail(q), Head(q).upto, c)
  BY <1>1, <1>4, <1>5 DEF GoodCtrl
<1> QED
  BY <1>1, <1>2, <1>3, <1>4, <1>6 DEF GoodCtrl

\* A reply whose claim is at most a window below the cursor keeps the line
\* good, whether the ring had room for it or not; c2 is the cursor after it.
LEMMA CtrlAppend ==
  ASSUME NEW f \in Nat, NEW c \in Nat, NEW c2 \in Nat, NEW q \in Seq(CtrlFrames),
         GoodCtrl(q, f, c), f <= c, c <= c2, NEW r \in CtrlFrames,
         GoodReply(r), r.upto <= c2, c <= r.upto + PIPELINE_WINDOW
  PROVE  /\ Append(q, r) \in Seq(CtrlFrames) /\ GoodCtrl(Append(q, r), f, c2)
         /\ GoodCtrl(q, f, c2)
<1> USE SpaceAssumption
<1> DEFINE e == Append(q, r)
<1>1. /\ e \in Seq(CtrlFrames) /\ Len(e) = Len(q) + 1 /\ Len(q) \in Nat
      /\ \A i \in 1..Len(q) : e[i] = q[i]
      /\ e[Len(q) + 1] = r
  OBVIOUS
<1>2. \A i \in 1..Len(q) : q[i].upto \in Nat
  <2>1. \A i \in 1..Len(q) : q[i] \in CtrlFrames
    OBVIOUS
  <2> QED
    BY <2>1 DEF CtrlFrames
<1>3. r.upto \in Nat
  BY DEF CtrlFrames
<1> HIDE DEF e
<1>4. GoodCtrl(q, f, c2)
  BY <1>2 DEF GoodCtrl
<1>5. \A i \in 1..Len(e) : i \in 1..Len(q) \/ i = Len(q) + 1
  BY <1>1
<1>6. ASSUME NEW i \in 1..Len(e)
      PROVE  GoodReply(e[i]) /\ e[i].upto <= c2 /\ f <= e[i].upto + PIPELINE_WINDOW
  <2>1. CASE i \in 1..Len(q)
    BY <2>1, <1>1, <1>4 DEF GoodCtrl
  <2>2. CASE i = Len(q) + 1
    BY <2>2, <1>1, <1>3
  <2> QED
    BY <2>1, <2>2, <1>5
<1>7. ASSUME NEW i \in 1..Len(e), NEW j \in 1..Len(e), i < j
      PROVE  e[i].upto <= e[j].upto + PIPELINE_WINDOW
  <2>1. i \in 1..Len(q) /\ e[i] = q[i]
    BY <1>1, <1>7
  <2>2. CASE j \in 1..Len(q)
    BY <2>1, <2>2, <1>1, <1>7 DEF GoodCtrl
  <2>3. CASE j = Len(q) + 1
    <3>1. q[i].upto <= c /\ q[i].upto \in Nat
      BY <2>1, <1>2 DEF GoodCtrl
    <3> QED
      BY <3>1, <2>1, <2>3, <1>1, <1>3, SMTT(30)
  <2> QED
    BY <2>2, <2>3, <1>5
<1>8. GoodCtrl(e, f, c2)
  BY <1>6, <1>7 DEF GoodCtrl
<1> QED
  BY <1>1, <1>4, <1>8 DEF e

-----------------------------------------------------------------------------
(* The sender's window                                                     *)

Window(f, n) == {budgetIdx(SeqOf(i)) : i \in f..(n - 1)}

\* pending_[] has an entry of its own for every chunk in flight.
LEMMA WindowCount ==
  ASSUME NEW f \in Nat, NEW n \in Nat, f <= n, n <= f + PIPELINE_WINDOW
  PROVE  /\ Window(f, n) \subseteq BudgetSlots
         /\ IsFiniteSet(Window(f, n))
         /\ Cardinality(Window(f, n)) = n - f
         /\ (Window(f, n) # {}) <=> f < n
         /\ \A i \in f..(f + PIPELINE_WINDOW - 1) :
              budgetIdx(SeqOf(i)) \in Window(f, n) => i < n
<1> USE SpaceAssumption
<1> DEFINE I == f..(n - 1)
           g == [i \in I |-> budgetIdx(SeqOf(i))]
<1>0. \A i \in Nat : SeqOf(i) \in Seqs /\ budgetIdx(SeqOf(i)) \in BudgetSlots
  BY SeqOfType DEF budgetIdx, BudgetSlots, Seqs
<1>1. \A i \in I : i \in Nat /\ i \in f..(f + PIPELINE_WINDOW - 1)
  OBVIOUS
<1>2. \A i, j \in f..(f + PIPELINE_WINDOW - 1) :
        budgetIdx(SeqOf(i)) = budgetIdx(SeqOf(j)) => i = j
  BY BudgetIsInjective
<1>3. g \in Bijection(I, Window(f, n))
  BY <1>1, <1>2 DEF Bijection, Injection, Surjection, IsInjective, Window
<1>4. IsFiniteSet(I) /\ Cardinality(I) = n - f
  <2>1. f \in Int /\ n - 1 \in Int
    OBVIOUS
  <2>2. IsFiniteSet(I) /\ Cardinality(I) = IF f > n - 1 THEN 0 ELSE (n - 1) - f + 1
    BY <2>1, FS_Interval
  <2> QED
    BY <2>2
<1>5. ExistsBijection(I, Window(f, n))
  BY <1>3 DEF ExistsBijection
<1>6. IsFiniteSet(Window(f, n)) /\ Cardinality(Window(f, n)) = n - f
  BY <1>4, <1>5, FS_Bijection
<1>7. Window(f, n) \subseteq BudgetSlots
  BY <1>0, <1>1 DEF Window
<1>8. (Window(f, n) # {}) <=> f < n
  <2>1. f < n => f \in I
    OBVIOUS
  <2>2. ~(f < n) => I = {}
    OBVIOUS
  <2> QED
    BY <2>1, <2>2 DEF Window
<1>9. ASSUME NEW i \in f..(f + PIPELINE_WINDOW - 1), budgetIdx(SeqOf(i)) \in Window(f, n)
      PROVE  i < n
  <2>1. PICK j \in I : budgetIdx(SeqOf(i)) = budgetIdx(SeqOf(j))
    BY <1>9 DEF Window
  <2>2. i = j
    BY <1>1, <1>2, <2>1
  <2> QED
    BY <2>2
<1> QED
  BY <1>6, <1>7, <1>8, <1>9

\* What an in-flight chunk's cache entry must be.
Cached(cch, f, n) ==
  \A i \in f..(n - 1) :
    cch[SeqOf(i)] \in Chunks /\ cch[SeqOf(i)].idx = i /\ cch[SeqOf(i)].len <= AppCap

\* gbnResendWindow puts chunks of the window on the line, each under its own
\* number, and nothing else.
LEMMA ResendIsGood ==
  ASSUME NEW f \in Nat, sent \in Nat, cursor \in Nat,
         f <= sent, cursor <= sent, sent <= f + PIPELINE_WINDOW,
         data \in Seq(DataFrames), GoodData(data, cursor, sent),
         NEW cch, Cached(cch, f, sent)
  PROVE  LET d == ResendWindow(SeqOf(f), Window(f, sent), cch)
         IN  d \in Seq(DataFrames) /\ GoodData(d, cursor, sent)
<1> USE SpaceAssumption, LinkAssumption
<1> DEFINE pend == Window(f, sent)
           base == SeqOf(f)
           burst == IF Cardinality(pend) < BurstMax THEN Cardinality(pend) ELSE BurstMax
           hits == {k \in 0..(burst - 1) : cch[Ahead(base, k)] # NoChunk}
           room == RingCap - Len(data)
           n == IF Cardinality(hits) < room THEN Cardinality(hits) ELSE room
           Frame(s) == [seq |-> s, idx |-> cch[s].idx, len |-> cch[s].len]
           t == [i \in 1..n |-> Frame(Ahead(base, Nth(hits, i)))]
<1>1. Cardinality(pend) = sent - f
  BY WindowCount
<1>2. burst \in Nat /\ burst <= sent - f
  BY <1>1
<1> HIDE DEF burst
<1>3. ASSUME NEW k \in 0..(burst - 1)
      PROVE  /\ f + k \in f..(sent - 1)
             /\ Ahead(base, k) = SeqOf(f + k) /\ SeqOf(f + k) \in Seqs
             /\ cch[Ahead(base, k)] \in Chunks
             /\ cch[Ahead(base, k)].idx = f + k /\ cch[Ahead(base, k)].len <= AppCap
  <2>1. f + k \in f..(sent - 1) /\ k \in 0..(COBS_SEQ_SPACE - 1)
    BY <1>2
  <2>2. Ahead(base, k) = SeqOf(f + k) /\ SeqOf(f + k) \in Seqs
    BY <2>1, AheadSeq, SeqOfType
  <2> QED
    BY <2>1, <2>2 DEF Cached
<1>4. hits = 0..(burst - 1)
  BY <1>3 DEF Chunks
<1> HIDE DEF hits
<1>5. IsFiniteSet(hits) /\ Cardinality(hits) = burst
  <2>1. 0 \in Int /\ burst - 1 \in Int
    BY <1>2
  <2>2. /\ IsFiniteSet(0..(burst - 1))
        /\ Cardinality(0..(burst - 1)) =
             IF 0 > burst - 1 THEN 0 ELSE (burst - 1) - 0 + 1
    BY <2>1, FS_Interval, Zenon
  <2> QED
    BY <2>2, <1>2, <1>4
<1>6. n \in Int /\ n <= burst
  <2>1. room \in Int
    BY LenProperties
  <2> QED
    BY <1>2, <1>5, <2>1
<1> HIDE DEF pend, base, n
<1>7. ASSUME NEW i \in 1..n PROVE Nth(hits, i) \in 0..(burst - 1)
  <2>1. i - 1 \in hits
    BY <1>2, <1>4, <1>6
  <2>2. {j \in hits : j < i - 1} = 0..(i - 2)
    BY <1>2, <1>4, <1>6
  <2>3. Cardinality(0..(i - 2)) = i - 1
    <3>1. i - 2 \in Int /\ i >= 1
      OBVIOUS
    <3>2. Cardinality(0..(i - 2)) = IF 0 > i - 2 THEN 0 ELSE (i - 2) - 0 + 1
      BY <3>1, FS_Interval
    <3> QED
      BY <3>1, <3>2
  <2>4. Cardinality({j \in hits : j < i - 1}) = i - 1
    BY <2>2, <2>3
  <2>5. Nth(hits, i) \in hits
    BY <2>1, <2>4 DEF Nth
  <2> QED
    BY <2>5, <1>4
<1>8. ASSUME NEW i \in 1..n
      PROVE  LET x == Frame(Ahead(base, Nth(hits, i)))
             IN  /\ x \in DataFrames /\ x.seq = SeqOf(x.idx) /\ x.len <= AppCap
                 /\ f <= x.idx /\ x.idx < sent
  <2> DEFINE k == Nth(hits, i)
             s == Ahead(base, k)
  <2>1. k \in 0..(burst - 1)
    BY <1>7
  <2> HIDE DEF k
  <2>2. /\ f + k \in f..(sent - 1) /\ s = SeqOf(f + k) /\ SeqOf(f + k) \in Seqs
        /\ cch[s] \in Chunks /\ cch[s].idx = f + k /\ cch[s].len <= AppCap
    BY <2>1, <1>3
  <2> HIDE DEF s
  <2>3. /\ Frame(s) \in DataFrames /\ Frame(s).seq = SeqOf(Frame(s).idx)
        /\ Frame(s).len <= AppCap /\ f <= Frame(s).idx /\ Frame(s).idx < sent
    BY <2>2, SMTT(30) DEF DataFrames, Chunks
  <2> QED
    BY <2>3 DEF s, k
<1> HIDE DEF Frame
<1>9. t \in Seq(DataFrames) /\ \A i \in 1..Len(t) : i \in 1..n
  <2>1. CASE n >= 0
    <3>1. n \in Nat
      BY <1>6, <2>1
    <3>2. t \in [1..n -> DataFrames]
      BY <1>8
    <3>3. t \in Seq(DataFrames) /\ Len(t) = n
      BY <3>1, <3>2
    <3> QED
      BY <3>3
  <2>2. CASE ~(n >= 0)
    <3>1. 1..n = {} /\ t = <<>>
      BY <1>6, <2>2
    <3> HIDE DEF t
    <3>2. Len(t) = 0 /\ t \in Seq(DataFrames)
      BY <3>1
    <3> QED
      BY <3>2
  <2> QED
    BY <2>1, <2>2
<1>10. \A i \in 1..n : t[i] = Frame(Ahead(base, Nth(hits, i)))
  OBVIOUS
<1>11. ResendWindow(SeqOf(f), Window(f, sent), cch) = data \o t
  BY DEF ResendWindow, pend, base, burst, hits, n, Frame
<1> HIDE DEF t
<1>12. \A i \in 1..Len(t) : /\ t[i].seq = SeqOf(t[i].idx) /\ t[i].len <= AppCap
                           /\ f <= t[i].idx /\ t[i].idx < sent
  <2> TAKE i \in 1..Len(t)
  <2>1. i \in 1..n /\ t[i] = Frame(Ahead(base, Nth(hits, i)))
    BY <1>9, <1>10
  <2> QED
    BY <2>1, <1>8
<1>13. data \o t \in Seq(DataFrames) /\ GoodData(data \o t, cursor, sent)
  <2>1. sent <= sent
    OBVIOUS
  <2> QED
    BY <2>1, <1>9, <1>12, DataConcat, Zenon
<1> QED
  BY <1>11, <1>13

-----------------------------------------------------------------------------
(* The actions                                                             *)

\* The invariants of the lines and of the window in the form of the lemmas.
LEMMA Lines ==
  /\ DataInv <=> GoodData(data, cursor, sent)
  /\ DataInv' <=> GoodData(data', cursor', sent')
  /\ CtrlInv <=> GoodCtrl(ctrl, freed, cursor)
  /\ CtrlInv' <=> GoodCtrl(ctrl', freed', cursor')
  BY DEF DataInv, CtrlInv, GoodData, GoodCtrl, GoodReply

\* The types of the parameters and of the invariant, as the provers use them.
LEMMA Basics ==
  ASSUME IInv
  PROVE  /\ TypeOK /\ SessionInv /\ SenderInv /\ ReceiverInv /\ DeliveredInOrder
         /\ freed \in Nat /\ cursor \in Nat /\ sent \in Nat
         /\ freed <= cursor /\ cursor <= sent /\ sent <= freed + PIPELINE_WINDOW
         /\ data \in Seq(DataFrames) /\ GoodData(data, cursor, sent)
         /\ ctrl \in Seq(CtrlFrames) /\ GoodCtrl(ctrl, freed, cursor)
  BY Lines DEF IInv, TypeOK, CountersInv

\* The in-flight chunks of a sender that is up.
LEMMA SenderWindow ==
  ASSUME IInv, sState = "OK"
  PROVE  /\ pending = Window(freed, sent) /\ pendingCount = sent - freed
         /\ Cached(cache, freed, sent)
         /\ (gbnActive <=> freed < sent) /\ txSeq = SeqOf(sent)
         /\ gbnActive => gbnBase = SeqOf(freed)
         /\ sent + job <= freed + AdmitWindow
<1>1. SenderInv /\ TypeOK /\ freed \in Nat /\ sent \in Nat /\ freed <= sent
      /\ sent <= freed + PIPELINE_WINDOW
  BY Basics, SpaceAssumption
<1>2. pending = Window(freed, sent)
  BY <1>1 DEF SenderInv, Window
<1>3. Cached(cache, freed, sent)
  <2> SUFFICES ASSUME NEW i \in freed..(sent - 1)
               PROVE  /\ cache[SeqOf(i)] \in Chunks
                      /\ cache[SeqOf(i)].idx = i /\ cache[SeqOf(i)].len <= AppCap
    BY DEF Cached
  <2>1. SeqOf(i) \in Seqs
    BY <1>1, SeqOfType
  <2> QED
    BY <1>1, <2>1 DEF SenderInv, TypeOK
<1>4. pendingCount = sent - freed
  BY <1>1, <1>2, WindowCount DEF pendingCount
<1> QED
  BY <1>1, <1>2, <1>3, <1>4 DEF SenderInv

\* A further chunk on the line and in the window.
LEMMA SendFrameKeeps ==
  ASSUME IInv, sState = "OK", NEW len \in Nat, len <= AppCap,
         SendCobsFrameAcked(len),
         NEW j \in 0..(AdmitWindow - 1), job' = j, sent + 1 + j <= freed + AdmitWindow,
         UNCHANGED <<sState, receiver, ctrl, sessions, freed, cursor, delivered, losses>>
  PROVE  IInv'
<1> USE SpaceAssumption, LinkAssumption
<1>b. /\ TypeOK /\ SessionInv /\ SenderInv /\ ReceiverInv /\ DeliveredInOrder
      /\ freed \in Nat /\ cursor \in Nat /\ sent \in Nat
      /\ freed <= cursor /\ cursor <= sent /\ sent <= freed + PIPELINE_WINDOW
      /\ data \in Seq(DataFrames) /\ GoodData(data, cursor, sent)
      /\ ctrl \in Seq(CtrlFrames) /\ GoodCtrl(ctrl, freed, cursor)
  BY Basics
<1>w. /\ pending = Window(freed, sent) /\ Cached(cache, freed, sent)
      /\ (gbnActive <=> freed < sent) /\ txSeq = SeqOf(sent)
      /\ gbnActive => gbnBase = SeqOf(freed)
  BY SenderWindow
<1>n. /\ data' = Append(data, [seq |-> txSeq, idx |-> sent, len |-> len])
      /\ txSeq' = NextSeq(txSeq)
      /\ gbnBase' = IF gbnActive THEN gbnBase ELSE txSeq
      /\ gbnActive' = TRUE
      /\ pending' = pending \cup {budgetIdx(txSeq)}
      /\ cache' = [cache EXCEPT ![txSeq] = [idx |-> sent, len |-> len]]
      /\ sent' = sent + 1
  BY DEF SendCobsFrameAcked
<1>u. /\ sState' = sState /\ ctrl' = ctrl /\ freed' = freed /\ cursor' = cursor
      /\ rState' = rState /\ rxSeq' = rxSeq /\ rxSeqSet' = rxSeqSet /\ hold' = hold
      /\ appBuf' = appBuf /\ appFree' = appFree /\ session' = session
      /\ joined' = joined /\ rLocks' = rLocks /\ delivered' = delivered /\ losses' = losses
  BY DEF receiver, sessions
<1>s. SeqOf(sent) \in Seqs /\ SeqOf(sent + 1) \in Seqs /\ NextSeq(SeqOf(sent)) = SeqOf(sent + 1)
  BY <1>b, SeqOfType, NextSeqOf
<1>c. freed <= sent + 1 /\ sent + 1 <= freed + PIPELINE_WINDOW /\ sent + 1 \in Nat
  BY <1>b
<1>1. pending' = Window(freed, sent + 1)
  <2>1. freed..((sent + 1) - 1) = freed..(sent - 1) \cup {sent}
    BY <1>b
  <2> QED
    BY <2>1, <1>n, <1>w DEF Window
<1>2. Cached(cache', freed, sent + 1)
  <2> SUFFICES ASSUME NEW i \in freed..((sent + 1) - 1)
               PROVE  /\ cache'[SeqOf(i)] \in Chunks
                      /\ cache'[SeqOf(i)].idx = i /\ cache'[SeqOf(i)].len <= AppCap
    BY DEF Cached
  <2>1. cache \in [Seqs -> Chunks \cup {NoChunk}] /\ i \in Nat /\ SeqOf(i) \in Seqs
    BY <1>b, SeqOfType DEF TypeOK
  <2>2. CASE i = sent
    BY <2>1, <2>2, <1>n, <1>w, <1>b DEF Chunks
  <2>3. CASE i # sent
    <3>1. i \in freed..(sent - 1) /\ sent - i \in 1..(COBS_SEQ_SPACE - 1) /\ i + (sent - i) = sent
      BY <2>3, <1>b
    <3>2. SeqOf(i + (sent - i)) # SeqOf(i)
      BY <2>1, <3>1, SeqOfInjective
    <3>3. SeqOf(sent) # SeqOf(i)
      BY <3>1, <3>2
    <3>4. cache'[SeqOf(i)] = cache[SeqOf(i)]
      BY <2>1, <3>3, <1>n, <1>w
    <3> QED
      BY <3>1, <3>4, <1>w DEF Cached
  <2> QED
    BY <2>2, <2>3
<1>3. data' \in Seq(DataFrames) /\ GoodData(data', cursor, sent + 1)
  <2> DEFINE x == [seq |-> txSeq, idx |-> sent, len |-> len]
             t == <<x>>
  <2>1. x \in DataFrames /\ x.seq = SeqOf(x.idx) /\ x.len <= AppCap /\ x.idx = sent
    BY <1>b, <1>s, <1>w DEF DataFrames
  <2> HIDE DEF x
  <2>2. t \in Seq(DataFrames) /\ Len(t) = 1 /\ t[1] = x
    BY <2>1
  <2>3. data' = data \o t
    BY <1>n, <1>b, <2>1 DEF x
  <2> HIDE DEF t
  <2>4. \A i \in 1..Len(t) : /\ t[i].seq = SeqOf(t[i].idx) /\ t[i].len <= AppCap
                             /\ freed <= t[i].idx /\ t[i].idx < sent + 1
    BY <2>1, <2>2, <1>b
  <2>5. sent <= sent + 1 /\ cursor <= sent + 1
    BY <1>b
  <2>6. data \o t \in Seq(DataFrames) /\ GoodData(data \o t, cursor, sent + 1)
    BY <2>2, <2>4, <2>5, <1>b, <1>c, DataConcat, Zenon
  <2> QED
    BY <2>3, <2>6
<1>4. TypeOK'
  <2>1. cache' \in [Seqs -> Chunks \cup {NoChunk}]
    BY <1>b, <1>n DEF TypeOK, Chunks
  <2>2. pending' \subseteq BudgetSlots
    BY <1>1, <1>b, <1>c, WindowCount
  <2>3. txSeq' \in Seqs /\ gbnBase' \in Seqs /\ gbnActive' \in BOOLEAN /\ sent' \in Nat
    BY <1>b, <1>n, <1>w, <1>s DEF TypeOK
  <2> QED
    BY <2>1, <2>2, <2>3, <1>3, <1>u, <1>b DEF TypeOK
<1>5. CountersInv'
  BY <1>b, <1>c, <1>n, <1>u DEF CountersInv
<1>6. SessionInv'
  BY <1>b, <1>n, <1>u DEF SessionInv
<1>7. SenderInv'
  <2>1. gbnActive' <=> freed < sent + 1
    BY <1>b, <1>n
  <2>2. gbnBase' = SeqOf(freed)
    <3>1. CASE gbnActive
      BY <3>1, <1>n, <1>w
    <3>2. CASE ~gbnActive
      <4>1. freed = sent
        BY <3>2, <1>w, <1>b
      <4> QED
        BY <3>2, <4>1, <1>n, <1>w
    <3> QED
      BY <3>1, <3>2
  <2>3. txSeq' = SeqOf(sent + 1)
    BY <1>n, <1>w, <1>s
  <2> QED
    BY <1>1, <1>2, <1>n, <1>u, <2>1, <2>2, <2>3, SMTT(30) DEF SenderInv, Cached, Window, Chunks
<1>8. ReceiverInv'
  BY <1>b, <1>u DEF ReceiverInv
<1>9. DataInv' /\ CtrlInv'
  BY <1>3, <1>b, <1>u, <1>n, Lines
<1>10. DeliveredInOrder'
  BY <1>b, <1>u DEF DeliveredInOrder
<1> QED
  BY <1>4, <1>5, <1>6, <1>7, <1>8, <1>9, <1>10 DEF IInv

\* sendMsg() up to its first frame.
LEMMA SendMsgKeeps ==
  ASSUME IInv, NEW n \in 1..AdmitWindow, SendMsg(n)
  PROVE  IInv'
<1> USE SpaceAssumption, LinkAssumption
<1>1. /\ sState = "OK" /\ SendCobsFrameAcked(1) /\ job' = n - 1
      /\ pendingCount + n <= AdmitWindow
      /\ UNCHANGED <<sState, receiver, ctrl, sessions, freed, cursor, delivered, losses>>
  BY DEF SendMsg
<1>2. pendingCount = sent - freed /\ sent \in Nat /\ freed \in Nat
  BY <1>1, SenderWindow, Basics
<1>3. n - 1 \in 0..(AdmitWindow - 1) /\ sent + 1 + (n - 1) <= freed + AdmitWindow
  BY <1>1, <1>2
<1>4. 1 \in Nat /\ 1 <= AppCap
  OBVIOUS
<1> QED
  BY <1>1, <1>3, <1>4, SendFrameKeeps, Zenon

\* A further chunk of sendMsg().
LEMMA SendChunkKeeps ==
  ASSUME IInv, SendChunk
  PROVE  IInv'
<1> USE SpaceAssumption, LinkAssumption
<1>1. /\ sState = "OK" /\ job > 0 /\ SendCobsFrameAcked(BodyLen) /\ job' = job - 1
      /\ UNCHANGED <<sState, receiver, ctrl, sessions, freed, cursor, delivered, losses>>
  BY DEF SendChunk
<1>2. sent + job <= freed + AdmitWindow /\ sent \in Nat /\ freed \in Nat
  BY <1>1, SenderWindow, Basics
<1>3. job \in 0..(AdmitWindow - 1)
  BY Basics DEF TypeOK
<1>4. job - 1 \in 0..(AdmitWindow - 1) /\ sent + 1 + (job - 1) <= freed + AdmitWindow
  BY <1>1, <1>2, <1>3
<1>5. BodyLen \in Nat /\ BodyLen <= AppCap
  OBVIOUS
<1> QED
  BY <1>1, <1>4, <1>5, SendFrameKeeps, Zenon

\* A sendMsg that gives up changes nothing but its own progress.
LEMMA AbortMsgKeeps ==
  ASSUME IInv, AbortMsg
  PROVE  IInv'
<1> USE SpaceAssumption, LinkAssumption
<1>1. /\ job' = 0 /\ sState' = sState /\ txSeq' = txSeq /\ gbnActive' = gbnActive
      /\ gbnBase' = gbnBase /\ pending' = pending /\ cache' = cache
      /\ rState' = rState /\ rxSeq' = rxSeq /\ rxSeqSet' = rxSeqSet /\ hold' = hold
      /\ appBuf' = appBuf /\ appFree' = appFree /\ data' = data /\ ctrl' = ctrl
      /\ session' = session /\ joined' = joined /\ rLocks' = rLocks
      /\ sent' = sent /\ freed' = freed /\ cursor' = cursor /\ delivered' = delivered
      /\ losses' = losses
  BY DEF AbortMsg, receiver, sessions, history
<1>2. TypeOK'
  BY <1>1 DEF IInv, TypeOK
<1>3. SenderInv'
  <2>1. job \in Nat /\ sent \in Nat /\ freed \in Nat /\ AdmitWindow \in Nat
    BY Basics DEF TypeOK
  <2>2. sState = "OK" => sent + job <= freed + AdmitWindow
    BY SenderWindow
  <2>3. sState = "OK" => sent + 0 <= freed + AdmitWindow
    BY <2>1, <2>2
  <2> QED
    BY <1>1, <2>3 DEF IInv, SenderInv
<1>4. CountersInv' /\ SessionInv' /\ ReceiverInv' /\ DataInv' /\ CtrlInv' /\ DeliveredInOrder'
  BY <1>1 DEF IInv, CountersInv, SessionInv, ReceiverInv, DataInv, CtrlInv, DeliveredInOrder
<1> QED
  BY <1>2, <1>3, <1>4 DEF IInv

\* The cumulative walk from the base takes exactly the first n chunks of the
\* window out of pending_[] and of the cache.
LEMMA Walk ==
  ASSUME IInv, sState = "OK", gbnActive, NEW n \in 0..(sent - freed)
  PROVE  /\ PendingAfter(n) = Window(freed + n, sent)
         /\ CacheAfter(n) \in [Seqs -> Chunks \cup {NoChunk}]
         /\ Cached(CacheAfter(n), freed + n, sent)
<1> USE SpaceAssumption, LinkAssumption
<1>b. /\ freed \in Nat /\ sent \in Nat /\ freed <= sent /\ sent <= freed + PIPELINE_WINDOW
      /\ cache \in [Seqs -> Chunks \cup {NoChunk}]
  BY Basics, SMTT(30) DEF TypeOK
<1>w. pending = Window(freed, sent) /\ Cached(cache, freed, sent) /\ gbnBase = SeqOf(freed)
  BY SenderWindow
<1>k. ASSUME NEW k \in 0..(n - 1) 
      PROVE  Ahead(gbnBase, k) = SeqOf(freed + k) /\ freed + k \in freed..(sent - 1)
  <2>1. k \in 0..(COBS_SEQ_SPACE - 1) /\ freed + k \in freed..(sent - 1)
    BY <1>b
  <2>2. Ahead(SeqOf(freed), k) = SeqOf(freed + k)
    BY <2>1, <1>b, AheadSeq
  <2> QED
    BY <2>1, <2>2, <1>w
<1>i. \A i, j \in freed..(sent - 1) : budgetIdx(SeqOf(i)) = budgetIdx(SeqOf(j)) => i = j
  <2>1. \A i \in freed..(sent - 1) : i \in freed..(freed + PIPELINE_WINDOW - 1)
    BY <1>b
  <2>2. \A i, j \in freed..(freed + PIPELINE_WINDOW - 1) :
          budgetIdx(SeqOf(i)) = budgetIdx(SeqOf(j)) => i = j
    BY <1>b, BudgetIsInjective
  <2> QED
    BY <2>1, <2>2
<1>1. PendingAfter(n) = Window(freed + n, sent)
  <2> DEFINE D == {budgetIdx(Ahead(gbnBase, k)) : k \in 0..(n - 1)}
             E == {budgetIdx(SeqOf(i)) : i \in freed..(freed + n - 1)}
  <2>1. \A k \in 0..(n - 1) : freed + k \in freed..(freed + n - 1)
    BY <1>b
  <2>2. \A i \in freed..(freed + n - 1) : i - freed \in 0..(n - 1) /\ freed + (i - freed) = i
    BY <1>b
  <2>3. D \subseteq E
    BY <2>1, <1>k
  <2>4. E \subseteq D
    <3> SUFFICES ASSUME NEW i \in freed..(freed + n - 1) PROVE budgetIdx(SeqOf(i)) \in D
      OBVIOUS
    <3>1. Ahead(gbnBase, i - freed) = SeqOf(i) /\ i - freed \in 0..(n - 1)
      BY <2>2, <1>k
    <3> QED
      BY <3>1
  <2>5. PendingAfter(n) = Window(freed, sent) \ E
    BY <2>3, <2>4, <1>w DEF PendingAfter
  <2>6. /\ \A i \in freed..(freed + n - 1) : i \in freed..(sent - 1)
        /\ \A i \in (freed + n)..(sent - 1) : i \in freed..(sent - 1)
        /\ \A i \in freed..(sent - 1) :
             (i \in freed..(freed + n - 1)) <=> ~(i \in (freed + n)..(sent - 1))
    BY <1>b
  <2>7. Window(freed, sent) \ E \subseteq Window(freed + n, sent)
    BY <2>6 DEF Window
  <2>8. Window(freed + n, sent) \subseteq Window(freed, sent) \ E
    <3> SUFFICES ASSUME NEW i \in (freed + n)..(sent - 1)
                 PROVE  budgetIdx(SeqOf(i)) \in Window(freed, sent) \ E
      BY DEF Window
    <3>1. budgetIdx(SeqOf(i)) \in Window(freed, sent)
      BY <2>6 DEF Window
    <3>2. ASSUME NEW j \in freed..(freed + n - 1), budgetIdx(SeqOf(i)) = budgetIdx(SeqOf(j))
          PROVE  FALSE
      <4>1. i = j
        BY <3>2, <2>6, <1>i
      <4> QED
        BY <4>1, <2>6
    <3> QED
      BY <3>1, <3>2
  <2> QED
    BY <2>5, <2>7, <2>8
<1>2. CacheAfter(n) \in [Seqs -> Chunks \cup {NoChunk}]
  BY <1>b DEF CacheAfter
<1>3. Cached(CacheAfter(n), freed + n, sent)
  <2> SUFFICES ASSUME NEW i \in (freed + n)..(sent - 1)
               PROVE  /\ CacheAfter(n)[SeqOf(i)] = cache[SeqOf(i)]
                      /\ i \in freed..(sent - 1)
    BY <1>w DEF Cached
  <2>1. i \in freed..(sent - 1) /\ i \in Nat
    BY <1>b
  <2>2. SeqOf(i) \in Seqs
    BY <2>1, SeqOfType
  <2>3. ASSUME NEW k \in 0..(n - 1), SeqOf(i) = Ahead(gbnBase, k) PROVE FALSE
    <3>1. SeqOf(i) = SeqOf(freed + k) /\ freed + k \in freed..(sent - 1)
      BY <2>3, <1>k
    <3>2. i = freed + k
      BY <3>1, <2>1, <1>i
    <3> QED
      BY <3>2, <1>b
  <2> QED
    BY <2>1, <2>2, <2>3 DEF CacheAfter
<1> QED
  BY <1>1, <1>2, <1>3

\* The state after a cumulative release of n chunks.
LEMMA ReleaseKeeps ==
  ASSUME IInv, sState = "OK", gbnActive, NEW n \in 0..(sent - freed), freed + n <= cursor,
         pending' = PendingAfter(n), cache' = CacheAfter(n), freed' = freed + n,
         gbnActive' \in BOOLEAN, gbnActive' <=> freed + n < sent,
         gbnBase' = SeqOf(freed + n),
         ctrl' \in Seq(CtrlFrames), GoodCtrl(ctrl', freed + n, cursor),
         data' \in Seq(DataFrames), GoodData(data', cursor, sent),
         UNCHANGED <<sState, txSeq, job, sent, cursor, delivered>>,
         UNCHANGED <<receiver, sessions, losses>>
  PROVE  IInv'
<1> USE SpaceAssumption, LinkAssumption
<1>b. /\ TypeOK /\ SessionInv /\ ReceiverInv /\ DeliveredInOrder
      /\ freed \in Nat /\ cursor \in Nat /\ sent \in Nat
      /\ freed <= cursor /\ cursor <= sent /\ sent <= freed + PIPELINE_WINDOW
  BY Basics
<1>w. txSeq = SeqOf(sent) /\ sent + job <= freed + AdmitWindow /\ job \in Nat
  BY <1>b, SenderWindow DEF TypeOK
<1>p. /\ pending' = Window(freed + n, sent)
      /\ cache' \in [Seqs -> Chunks \cup {NoChunk}]
      /\ Cached(cache', freed + n, sent)
  BY Walk
<1>u. /\ sState' = sState /\ txSeq' = txSeq /\ job' = job /\ sent' = sent /\ cursor' = cursor
      /\ delivered' = delivered /\ losses' = losses
      /\ rState' = rState /\ rxSeq' = rxSeq /\ rxSeqSet' = rxSeqSet /\ hold' = hold
      /\ appBuf' = appBuf /\ appFree' = appFree
      /\ session' = session /\ joined' = joined /\ rLocks' = rLocks
  BY DEF receiver, sessions
<1>c. freed + n \in Nat /\ freed + n <= sent /\ sent <= (freed + n) + PIPELINE_WINDOW
      /\ sent + job <= (freed + n) + AdmitWindow
  BY <1>b, <1>w
<1>1. TypeOK'
  <2>1. pending' \subseteq BudgetSlots
    <3>1. Window(freed + n, sent) \subseteq BudgetSlots
      BY <1>b, <1>c, WindowCount
    <3> QED
      BY <3>1, <1>p
  <2>2. gbnBase' \in Seqs /\ freed' \in Nat
    BY <1>c, SeqOfType
  <2> QED
    BY <2>1, <2>2, <1>b, <1>p, <1>u DEF TypeOK
<1>2. CountersInv'
  BY <1>b, <1>c, <1>u DEF CountersInv
<1>3. SessionInv'
  BY <1>b, <1>u DEF SessionInv
<1>4. SenderInv'
  BY <1>p, <1>u, <1>w, <1>c DEF SenderInv, Cached, Window, Chunks
<1>5. ReceiverInv' /\ DeliveredInOrder'
  BY <1>b, <1>u DEF ReceiverInv, DeliveredInOrder
<1>6. DataInv' /\ CtrlInv'
  BY <1>u, Lines
<1> QED
  BY <1>1, <1>2, <1>3, <1>4, <1>5, <1>6 DEF IInv

\* A reply that is ignored or lost.
LEMMA IgnoredKeeps ==
  ASSUME IInv, ctrl # <<>>, ctrl' = Tail(ctrl), data' = data, losses' \in Nat,
         UNCHANGED <<sender, receiver, sessions, history>>
  PROVE  IInv'
<1>1. ctrl' \in Seq(CtrlFrames) /\ GoodCtrl(ctrl', freed, cursor)
  BY Basics, CtrlTail
<1>2. /\ job' = job /\ sState' = sState /\ txSeq' = txSeq /\ gbnActive' = gbnActive
      /\ gbnBase' = gbnBase /\ pending' = pending /\ cache' = cache
      /\ rState' = rState /\ rxSeq' = rxSeq /\ rxSeqSet' = rxSeqSet /\ hold' = hold
      /\ appBuf' = appBuf /\ appFree' = appFree
      /\ session' = session /\ joined' = joined /\ rLocks' = rLocks
      /\ sent' = sent /\ freed' = freed /\ cursor' = cursor /\ delivered' = delivered
  BY DEF sender, receiver, sessions, history
<1>3. CtrlInv'
  BY <1>1, <1>2, Lines
<1>4. TypeOK'
  BY <1>1, <1>2 DEF IInv, TypeOK
<1>5. SenderInv' /\ ReceiverInv'
  BY <1>2 DEF IInv, SenderInv, ReceiverInv
<1>6. CountersInv' /\ SessionInv' /\ DataInv' /\ DeliveredInOrder'
  BY <1>2 DEF IInv, CountersInv, SessionInv, DataInv, DeliveredInOrder
<1> QED
  BY <1>3, <1>4, <1>5, <1>6 DEF IInv

\* onAck(), with its walk from the base.
LEMMA OnAckKeeps ==
  ASSUME IInv, OnAck
  PROVE  IInv'
<1> USE SpaceAssumption, LinkAssumption
<1> DEFINE s == Head(ctrl).seq
           u == Head(ctrl).upto
           i == idxOf(gbnBase, s)
<1>1. /\ ctrl # <<>> /\ Head(ctrl).type = "ACK" /\ ctrl' = Tail(ctrl)
      /\ UNCHANGED <<receiver, data, sessions, losses>>
  BY DEF OnAck
<1>b. /\ freed \in Nat /\ cursor \in Nat /\ sent \in Nat
      /\ freed <= cursor /\ cursor <= sent /\ sent <= freed + PIPELINE_WINDOW
      /\ data \in Seq(DataFrames) /\ GoodData(data, cursor, sent)
      /\ ctrl \in Seq(CtrlFrames) /\ GoodCtrl(ctrl, freed, cursor)
  BY Basics
<1>2. CASE sState # "OK" \/ budgetIdx(s) \notin pending \/ i < 0
  <2>1. UNCHANGED <<sender, history>>
    BY <1>2 DEF OnAck
  <2>2. UNCHANGED <<sender, receiver, sessions, history>> /\ data' = data /\ losses' \in Nat
    BY <1>1, <2>1, Basics DEF TypeOK
  <2> QED
    BY <1>1, <2>2, IgnoredKeeps
<1>3. CASE ~(sState # "OK" \/ budgetIdx(s) \notin pending \/ i < 0)
  <2>1. /\ Head(ctrl) \in CtrlFrames /\ Tail(ctrl) \in Seq(CtrlFrames)
        /\ GoodReply(Head(ctrl)) /\ u <= cursor /\ freed <= u + PIPELINE_WINDOW
        /\ GoodCtrl(Tail(ctrl), u, cursor)
    BY <1>1, <1>b, CtrlTail
  <2>2. u \in Nat /\ u > 0 /\ s = SeqOf(u - 1)
    BY <1>1, <2>1 DEF GoodReply, CtrlFrames
  <2>a. sState = "OK" /\ budgetIdx(s) \in pending /\ ~(i < 0)
    BY <1>3
  <2>w. /\ pending = Window(freed, sent) /\ (gbnActive <=> freed < sent)
        /\ (gbnActive => gbnBase = SeqOf(freed))
    BY <2>a, SenderWindow
  <2>3. gbnActive /\ gbnBase = SeqOf(freed)
    <3>1. pending # {}
      BY <2>a
    <3>2. freed < sent
      BY <3>1, <2>w, <1>b, WindowCount
    <3> QED
      BY <3>2, <2>w
  <2>4. i = u - 1 - freed /\ freed <= u - 1
    <3>1. u - 1 \in Nat /\ u - 1 <= freed + PIPELINE_WINDOW
          /\ freed <= (u - 1) + PIPELINE_WINDOW + 1
      BY <1>b, <2>1, <2>2
    <3>2. idxOf(SeqOf(freed), SeqOf(u - 1)) =
            IF freed <= u - 1 /\ u - 1 < freed + PIPELINE_WINDOW THEN (u - 1) - freed ELSE -1
      BY <3>1, <1>b, IdxOfIsPlace
    <3> QED
      BY <3>2, <2>2, <2>3, <2>a, <1>b
  <2> DEFINE n == i + 1
  <2>e. u <= cursor
    BY <2>1
  <2> HIDE DEF i, u
  <2>5. n \in 0..(sent - freed) /\ freed + n = u /\ freed + n <= cursor
    BY <2>e, <2>2, <2>4, <1>b
  <2>6. /\ pending' = PendingAfter(n) /\ cache' = CacheAfter(n)
        /\ gbnBase' = NextSeq(s) /\ gbnActive' = (pending' # {})
        /\ freed' = freed + i + 1
        /\ UNCHANGED <<sState, txSeq, job, sent, cursor, delivered>>
    BY <1>3 DEF OnAck, i
  <2>7. gbnBase' = SeqOf(freed + n)
    <3>1. NextSeq(SeqOf(u - 1)) = SeqOf((u - 1) + 1)
      BY <2>2, NextSeqOf
    <3>2. (u - 1) + 1 = freed + n
      BY <2>2, <2>5
    <3> QED
      BY <3>1, <3>2, <2>2, <2>6
  <2>8. gbnActive' \in BOOLEAN /\ (gbnActive' <=> freed + n < sent)
    <3>1. pending' = Window(freed + n, sent)
      BY <2>a, <2>3, <2>5, <2>6, Walk
    <3>2. (Window(freed + n, sent) # {}) <=> freed + n < sent
      <4>1. freed + n \in Nat /\ freed + n <= sent /\ sent <= (freed + n) + PIPELINE_WINDOW
        BY <1>b, <2>5
      <4> QED
        BY <4>1, <1>b, WindowCount
    <3> QED
      BY <3>1, <3>2, <2>6
  <2>9. freed' = freed + n
    BY <2>6, <2>4, <1>b, <2>2
  <2>10. GoodCtrl(ctrl', freed + n, cursor) /\ ctrl' \in Seq(CtrlFrames)
    <3>1. GoodCtrl(Tail(ctrl), freed + n, cursor)
      BY <2>1, <2>5, Zenon
    <3> QED
      BY <3>1, <1>1, <2>1, Zenon
  <2>11. data' \in Seq(DataFrames) /\ GoodData(data', cursor, sent)
    BY <1>1, <1>b, Zenon
  <2>12. UNCHANGED <<receiver, sessions, losses>>
    BY <1>1
  <2> HIDE DEF n
  <2> QED
    BY <2>a, <2>3, <2>5, <2>6, <2>7, <2>8, <2>9, <2>10, <2>11, <2>12, ReleaseKeeps, Zenon
<1> QED
  BY <1>2, <1>3

\* onNak(): the walk as for an ACK, then the resend.
LEMMA OnNakKeeps ==
  ASSUME IInv, OnNak
  PROVE  IInv'
<1> USE SpaceAssumption, LinkAssumption
<1> DEFINE s == Head(ctrl).seq
           u == Head(ctrl).upto
           i == idxOf(gbnBase, s)
           n == IF gbnActive /\ i > 0 THEN i ELSE 0
           base == IF n > 0 THEN s ELSE gbnBase
<1>1. /\ ctrl # <<>> /\ Head(ctrl).type = "NAK" /\ ctrl' = Tail(ctrl)
      /\ UNCHANGED <<receiver, sessions, sent, cursor, delivered, losses>>
  BY DEF OnNak
<1>b. /\ freed \in Nat /\ cursor \in Nat /\ sent \in Nat
      /\ freed <= cursor /\ cursor <= sent /\ sent <= freed + PIPELINE_WINDOW
      /\ data \in Seq(DataFrames) /\ GoodData(data, cursor, sent)
      /\ ctrl \in Seq(CtrlFrames) /\ GoodCtrl(ctrl, freed, cursor)
  BY Basics
<1>2. CASE sState # "OK" \/ budgetIdx(s) \notin pending
  <2>1. UNCHANGED <<sender, data, freed>>
    BY <1>2 DEF OnNak
  <2>2. UNCHANGED <<sender, receiver, sessions, history>> /\ data' = data /\ losses' \in Nat
    BY <1>1, <2>1, Basics DEF history, TypeOK
  <2> QED
    BY <1>1, <2>2, IgnoredKeeps
<1>3. CASE ~(sState # "OK" \/ budgetIdx(s) \notin pending)
  <2>1. /\ Head(ctrl) \in CtrlFrames /\ Tail(ctrl) \in Seq(CtrlFrames)
        /\ GoodReply(Head(ctrl)) /\ u <= cursor /\ freed <= u + PIPELINE_WINDOW
        /\ GoodCtrl(Tail(ctrl), u, cursor) /\ GoodCtrl(Tail(ctrl), freed, cursor)
    BY <1>1, <1>b, CtrlTail
  <2>2. u \in Nat /\ s = SeqOf(u) /\ u <= cursor
    BY <1>1, <2>1 DEF GoodReply, CtrlFrames
  <2>a. sState = "OK" /\ budgetIdx(s) \in pending
    BY <1>3
  <2>w. /\ pending = Window(freed, sent) /\ (gbnActive <=> freed < sent)
        /\ (gbnActive => gbnBase = SeqOf(freed)) /\ Cached(cache, freed, sent)
    BY <2>a, SenderWindow
  <2>3. gbnActive /\ gbnBase = SeqOf(freed) /\ freed < sent
    <3>1. pending # {}
      BY <2>a
    <3>2. freed < sent
      BY <3>1, <2>w, <1>b, WindowCount
    <3> QED
      BY <3>2, <2>w
  <2>6. /\ pending' = PendingAfter(n) /\ cache' = CacheAfter(n)
        /\ gbnBase' = base /\ freed' = freed + n
        /\ \/ data' = ResendWindow(base, pending', cache')
           \/ data' = data
        /\ gbnActive' = gbnActive
        /\ UNCHANGED <<sState, txSeq, job>>
    BY <1>3 DEF OnNak
  <2>g. freed <= u + PIPELINE_WINDOW
    BY <2>1
  <2>c. GoodCtrl(Tail(ctrl), u, cursor) /\ GoodCtrl(Tail(ctrl), freed, cursor)
        /\ Tail(ctrl) \in Seq(CtrlFrames)
    BY <2>1
  <2> HIDE DEF s, u
  <2>4. i = IF freed <= u /\ u < freed + PIPELINE_WINDOW THEN u - freed ELSE -1
    <3>1. u <= freed + PIPELINE_WINDOW /\ freed <= u + PIPELINE_WINDOW + 1
      BY <1>b, <2>2, <2>g
    <3>2. idxOf(SeqOf(freed), SeqOf(u)) =
            IF freed <= u /\ u < freed + PIPELINE_WINDOW THEN u - freed ELSE -1
      BY <3>1, <2>2, <1>b, IdxOfIsPlace
    <3> QED
      BY <3>2, <2>2, <2>3
  <2> HIDE DEF i
  <2>5. /\ n \in 0..(sent - freed) /\ freed + n <= cursor /\ freed + n < sent
        /\ base = SeqOf(freed + n)
        /\ n > 0 => freed + n = u
    <3>1. CASE freed < u /\ u < freed + PIPELINE_WINDOW
      <4>1. n = u - freed /\ n > 0 /\ freed + n = u
        BY <3>1, <2>2, <2>3, <2>4, <1>b
      <4>2. u < sent
        <5>1. u \in freed..(freed + PIPELINE_WINDOW - 1)
          BY <3>1, <2>2, <1>b
        <5>2. budgetIdx(SeqOf(u)) \in Window(freed, sent)
          BY <2>2, <2>a, <2>w
        <5>3. freed <= sent
          BY <1>b
        <5> QED
          BY <5>1, <5>2, <5>3, <1>b, WindowCount
      <4>3. base = SeqOf(freed + n)
        BY <4>1, <2>2
      <4> QED
        BY <4>1, <4>2, <4>3, <2>2, <1>b
    <3>2. CASE ~(freed < u /\ u < freed + PIPELINE_WINDOW)
      <4>1. n = 0 /\ freed + n = freed
        BY <3>2, <2>2, <2>4, <1>b
      <4> QED
        BY <4>1, <2>3, <1>b
    <3> QED
      BY <3>1, <3>2
  <2> HIDE DEF n, base
  <2>7. /\ pending' = Window(freed + n, sent) /\ Cached(cache', freed + n, sent)
    BY <2>a, <2>3, <2>5, <2>6, Walk
  <2>8. data' \in Seq(DataFrames) /\ GoodData(data', cursor, sent)
    <3>1. CASE data' = ResendWindow(base, pending', cache')
      <4>1. freed + n \in Nat /\ freed + n <= sent /\ sent <= (freed + n) + PIPELINE_WINDOW
        BY <1>b, <2>5
      <4>2. LET d == ResendWindow(SeqOf(freed + n), Window(freed + n, sent), cache')
            IN  d \in Seq(DataFrames) /\ GoodData(d, cursor, sent)
        BY <4>1, <2>7, <1>b, ResendIsGood, Zenon
      <4> QED
        BY <4>2, <3>1, <2>5, <2>7, Zenon
    <3>2. CASE data' = data
      BY <3>2, <1>b, Zenon
    <3> QED
      BY <3>1, <3>2, <2>6
  <2>9. GoodCtrl(ctrl', freed + n, cursor) /\ ctrl' \in Seq(CtrlFrames)
    <3>1. freed + n = u \/ freed + n = freed
      BY <2>5, <1>b
    <3> QED
      BY <3>1, <2>c, <1>1, Zenon
  <2>10. gbnActive' \in BOOLEAN /\ (gbnActive' <=> freed + n < sent)
    <3>1. gbnActive \in BOOLEAN
      BY Basics DEF TypeOK
    <3> QED
      BY <3>1, <2>3, <2>5, <2>6
  <2>11. /\ UNCHANGED <<sState, txSeq, job, sent, cursor, delivered>>
         /\ UNCHANGED <<receiver, sessions, losses>>
    BY <1>1, <2>6
  <2>12. gbnBase' = SeqOf(freed + n)
    BY <2>5, <2>6
  <2> QED
    BY <2>a, <2>3, <2>5, <2>6, <2>8, <2>9, <2>10, <2>11, <2>12, ReleaseKeeps, Zenon
<1> QED
  BY <1>2, <1>3

\* A step that only changes the data line.
LEMMA DataLineKeeps ==
  ASSUME IInv, data' \in Seq(DataFrames), GoodData(data', cursor, sent), losses' \in Nat,
         UNCHANGED <<sender, receiver, ctrl, sessions, history>>
  PROVE  IInv'
<1>2. /\ job' = job /\ sState' = sState /\ txSeq' = txSeq /\ gbnActive' = gbnActive
      /\ gbnBase' = gbnBase /\ pending' = pending /\ cache' = cache
      /\ rState' = rState /\ rxSeq' = rxSeq /\ rxSeqSet' = rxSeqSet /\ hold' = hold
      /\ appBuf' = appBuf /\ appFree' = appFree /\ ctrl' = ctrl
      /\ session' = session /\ joined' = joined /\ rLocks' = rLocks
      /\ sent' = sent /\ freed' = freed /\ cursor' = cursor /\ delivered' = delivered
  BY DEF sender, receiver, sessions, history
<1>3. DataInv'
  BY <1>2, Lines
<1>4. TypeOK'
  BY <1>2 DEF IInv, TypeOK
<1>5. SenderInv' /\ ReceiverInv'
  BY <1>2 DEF IInv, SenderInv, ReceiverInv
<1>6. CountersInv' /\ SessionInv' /\ CtrlInv' /\ DeliveredInOrder'
  BY <1>2 DEF IInv, CountersInv, SessionInv, CtrlInv, DeliveredInOrder
<1> QED
  BY <1>3, <1>4, <1>5, <1>6 DEF IInv

\* The retransmit timeout.
LEMMA SweepRetxKeeps ==
  ASSUME IInv, SweepRetx
  PROVE  IInv'
<1> USE SpaceAssumption
<1>1. /\ sState = "OK" /\ gbnActive /\ data' = ResendWindow(gbnBase, pending, cache)
      /\ UNCHANGED <<sender, receiver, ctrl, sessions, history>> /\ losses' = losses
  BY DEF SweepRetx
<1>b. /\ freed \in Nat /\ cursor \in Nat /\ sent \in Nat
      /\ freed <= sent /\ cursor <= sent /\ sent <= freed + PIPELINE_WINDOW
      /\ data \in Seq(DataFrames) /\ GoodData(data, cursor, sent)
  BY Basics
<1>w. pending = Window(freed, sent) /\ Cached(cache, freed, sent) /\ gbnBase = SeqOf(freed)
  BY <1>1, SenderWindow
<1>2. LET d == ResendWindow(SeqOf(freed), Window(freed, sent), cache)
      IN  d \in Seq(DataFrames) /\ GoodData(d, cursor, sent)
  BY <1>b, <1>w, ResendIsGood, Zenon
<1>3. data' \in Seq(DataFrames) /\ GoodData(data', cursor, sent)
  BY <1>1, <1>2, <1>w, Zenon
<1>4. losses' \in Nat
  BY <1>1, Basics DEF TypeOK
<1> QED
  BY <1>1, <1>3, <1>4, DataLineKeeps

\* A corrupted frame.
LEMMA LossKeeps ==
  ASSUME IInv, LoseData \/ LoseCtrl \/ ReceiveSweeping
  PROVE  IInv'
<1>b. /\ freed \in Nat /\ cursor \in Nat /\ sent \in Nat
      /\ data \in Seq(DataFrames) /\ GoodData(data, cursor, sent) /\ losses \in Nat
  BY Basics DEF TypeOK
<1>1. CASE LoseData \/ ReceiveSweeping
  <2>1. /\ data # <<>> /\ data' = Tail(data) /\ losses' \in Nat
        /\ UNCHANGED <<sender, receiver, ctrl, sessions, history>>
    BY <1>1, <1>b DEF LoseData, ReceiveSweeping
  <2>2. Tail(data) \in Seq(DataFrames) /\ GoodData(Tail(data), cursor, sent)
    BY <2>1, <1>b, DataTail
  <2>3. data' \in Seq(DataFrames) /\ GoodData(data', cursor, sent)
    BY <2>1, <2>2, Zenon
  <2> QED
    BY <2>1, <2>3, DataLineKeeps
<1>2. CASE LoseCtrl
  <2>1. /\ ctrl # <<>> /\ ctrl' = Tail(ctrl) /\ data' = data /\ losses' = losses + 1
        /\ UNCHANGED <<sender, receiver, sessions, history>>
    BY <1>2 DEF LoseCtrl
  <2>2. losses' \in Nat
    BY <2>1, <1>b
  <2> QED
    BY <2>1, <2>2, IgnoredKeeps
<1> QED
  BY <1>1, <1>2

\* What the receiver's classification says about the first frame on the line.
LEMMA FirstFrame ==
  ASSUME IInv, rState = "OK", data # <<>>
  PROVE  /\ frame \in DataFrames /\ frame.seq = SeqOf(frame.idx)
         /\ frame.idx \in Nat /\ frame.idx < sent /\ frame.len <= AppCap
         /\ cursor <= frame.idx + PIPELINE_WINDOW
         /\ Tail(data) \in Seq(DataFrames) /\ GoodData(Tail(data), cursor, sent)
         /\ GoodData(Tail(data), frame.idx + 1, sent)
         /\ rxSeqSet => classifyGap(frame.seq, rxSeq, rxSeqSet) =
                          IF frame.idx = cursor THEN "Forward"
                          ELSE IF frame.idx < cursor THEN "Stale" ELSE "Gap"
         /\ ~rxSeqSet => /\ classifyGap(frame.seq, rxSeq, rxSeqSet) = "Forward"
                         /\ cursor = 0 /\ appFree = AppCap /\ appBuf = <<>>
<1> USE SpaceAssumption DEF frame
<1>b. /\ freed \in Nat /\ cursor \in Nat /\ sent \in Nat
      /\ freed <= cursor /\ cursor <= sent /\ sent <= freed + PIPELINE_WINDOW
      /\ data \in Seq(DataFrames) /\ GoodData(data, cursor, sent)
      /\ ReceiverInv /\ TypeOK
  BY Basics
<1>1. /\ Head(data) \in DataFrames /\ Tail(data) \in Seq(DataFrames)
      /\ Head(data).seq = SeqOf(Head(data).idx) /\ Head(data).idx < sent
      /\ cursor <= Head(data).idx + PIPELINE_WINDOW /\ Head(data).len <= AppCap
      /\ GoodData(Tail(data), cursor, sent)
      /\ GoodData(Tail(data), Head(data).idx + 1, sent)
  BY <1>b, DataTail
<1>2. Head(data).idx \in Nat
  BY <1>1 DEF DataFrames
<1>3. ASSUME rxSeqSet
      PROVE  classifyGap(frame.seq, rxSeq, rxSeqSet) =
               IF frame.idx = cursor THEN "Forward"
               ELSE IF frame.idx < cursor THEN "Stale" ELSE "Gap"
  <2>1. NextSeq(rxSeq) = SeqOf(cursor) /\ rxSeq \in Seqs /\ rxSeqSet = TRUE
    BY <1>3, <1>b DEF ReceiverInv, TypeOK
  <2> DEFINE x == Head(data).idx
  <2>2. x \in Nat /\ x < sent /\ cursor <= x + PIPELINE_WINDOW
    BY <1>1, <1>2
  <2> HIDE DEF x
  <2>3. x < cursor + PIPELINE_WINDOW
    BY <2>2, <1>b
  <2>4. classifyGap(SeqOf(x), rxSeq, TRUE) =
          IF x = cursor THEN "Forward" ELSE IF x < cursor THEN "Stale" ELSE "Gap"
    BY <2>1, <2>2, <2>3, <1>b, ClassifyGapIsOrder, Zenon
  <2> QED
    BY <2>1, <2>4, <1>1 DEF x
<1>4. ASSUME ~rxSeqSet
      PROVE  /\ classifyGap(frame.seq, rxSeq, rxSeqSet) = "Forward"
             /\ cursor = 0 /\ appFree = AppCap /\ appBuf = <<>>
  BY <1>4, <1>b DEF classifyGap, ReceiverInv
<1> QED
  BY <1>1, <1>2, <1>3, <1>4

\* The state after a frame is handled: c2 is the new cursor.
LEMMA ReceiveKeeps ==
  ASSUME IInv, rState = "OK", data # <<>>, data' = Tail(data), rState' = rState,
         UNCHANGED <<sender, sessions, sent, freed, losses>>,
         NEW c2 \in Nat, cursor' = c2, cursor <= c2, c2 <= sent,
         GoodData(Tail(data), c2, sent),
         ctrl' \in Seq(CtrlFrames), GoodCtrl(ctrl', freed, c2),
         rxSeq' \in Seqs, rxSeqSet' \in BOOLEAN,
         hold' \in [seq : Seqs \cup {-1}, sameLap : BOOLEAN, free : Int],
         appBuf' \in Seq(Chunks), appFree' \in Int, delivered' \subseteq Nat,
         ReceiverInv', DeliveredInOrder'
  PROVE  IInv'
<1>b. /\ freed \in Nat /\ cursor \in Nat /\ sent \in Nat /\ freed <= cursor
      /\ sent <= freed + PIPELINE_WINDOW /\ TypeOK /\ SessionInv /\ SenderInv
  BY Basics
<1>u. /\ job' = job /\ sState' = sState /\ txSeq' = txSeq /\ gbnActive' = gbnActive
      /\ gbnBase' = gbnBase /\ pending' = pending /\ cache' = cache
      /\ session' = session /\ joined' = joined /\ rLocks' = rLocks
      /\ sent' = sent /\ freed' = freed /\ losses' = losses
  BY DEF sender, sessions
<1>d. Tail(data) \in Seq(DataFrames)
  BY FirstFrame
<1>1. TypeOK'
  BY <1>b, <1>d, <1>u DEF TypeOK
<1>2. CountersInv'
  BY <1>b, <1>u DEF CountersInv
<1>3. SessionInv'
  BY <1>b, <1>u DEF SessionInv
<1>4. SenderInv'
  BY <1>b, <1>u DEF SenderInv
<1>5. DataInv' /\ CtrlInv'
  <2>1. GoodData(data', cursor', sent') /\ GoodCtrl(ctrl', freed', cursor')
    BY <1>u, Zenon
  <2> QED
    BY <2>1, Lines
<1> QED
  BY <1>1, <1>2, <1>3, <1>4, <1>5 DEF IInv

\* A reply is put on the line, or dropped by a full ring.
LEMMA ReplyKeeps ==
  ASSUME IInv, NEW c2 \in Nat, cursor <= c2, NEW type \in {"ACK", "NAK"}, NEW s \in Seqs,
         NEW upto \in Nat, type = "ACK" => upto > 0 /\ s = SeqOf(upto - 1),
         type = "NAK" => s = SeqOf(upto), upto <= c2, cursor <= upto + PIPELINE_WINDOW,
         Reply(type, s, upto) \/ ctrl' = ctrl
  PROVE  ctrl' \in Seq(CtrlFrames) /\ GoodCtrl(ctrl', freed, c2)
<1> DEFINE r == [type |-> type, seq |-> s, upto |-> upto]
<1>b. /\ freed \in Nat /\ cursor \in Nat /\ freed <= cursor
      /\ ctrl \in Seq(CtrlFrames) /\ GoodCtrl(ctrl, freed, cursor)
  BY Basics
<1>1. r \in CtrlFrames /\ GoodReply(r) /\ r.upto = upto
  BY DEF CtrlFrames, GoodReply
<1>2. ctrl' = Append(ctrl, r) \/ ctrl' = ctrl
  BY DEF Reply
<1> HIDE DEF r
<1>3. r.upto <= c2 /\ cursor <= r.upto + PIPELINE_WINDOW
  BY <1>1
<1>4. /\ Append(ctrl, r) \in Seq(CtrlFrames) /\ GoodCtrl(Append(ctrl, r), freed, c2)
      /\ GoodCtrl(ctrl, freed, c2)
  BY <1>b, <1>1, <1>3, CtrlAppend, Zenon
<1> QED
  BY <1>b, <1>2, <1>4, Zenon

\* A frame that is not delivered: the receiver answers at most, with a claim
\* that is not beyond its cursor.
LEMMA NotDeliveredKeeps ==
  ASSUME IInv, rState = "OK", data # <<>>, data' = Tail(data),
         UNCHANGED <<sender, sessions, sent, freed, losses>>,
         UNCHANGED <<rState, rxSeq, rxSeqSet, appBuf, appFree, cursor, delivered>>,
         hold' \in [seq : Seqs \cup {-1}, sameLap : BOOLEAN, free : Int],
         ctrl' \in Seq(CtrlFrames), GoodCtrl(ctrl', freed, cursor)
  PROVE  IInv'
<1>b. /\ freed \in Nat /\ cursor \in Nat /\ sent \in Nat /\ cursor <= sent
      /\ TypeOK /\ ReceiverInv /\ DeliveredInOrder
  BY Basics
<1>u. /\ rState' = rState /\ rxSeq' = rxSeq /\ rxSeqSet' = rxSeqSet /\ appBuf' = appBuf
      /\ appFree' = appFree /\ cursor' = cursor /\ delivered' = delivered /\ rLocks' = rLocks
  BY DEF sessions
<1>1. ReceiverInv' /\ DeliveredInOrder'
  BY <1>b, <1>u DEF ReceiverInv, DeliveredInOrder
<1>2. /\ rxSeq' \in Seqs /\ rxSeqSet' \in BOOLEAN /\ appBuf' \in Seq(Chunks)
      /\ appFree' \in Int /\ delivered' \subseteq Nat
  BY <1>b, <1>u DEF TypeOK
<1>3. cursor <= cursor /\ GoodData(Tail(data), cursor, sent)
  BY <1>b, FirstFrame
<1> QED
  BY <1>b, <1>u, <1>1, <1>2, <1>3, ReceiveKeeps, Zenon

\* onPayload() of a duplicate.
LEMMA ReceiveStaleKeeps ==
  ASSUME IInv, ReceiveStale
  PROVE  IInv'
<1> USE SpaceAssumption
<1>1. /\ rState = "OK" /\ data # <<>> /\ data' = Tail(data)
      /\ classifyGap(frame.seq, rxSeq, rxSeqSet) = "Stale"
      /\ UNCHANGED <<sender, sessions, sent, freed, losses>>
      /\ Reply("ACK", frame.seq, frame.idx + 1) \/ ctrl' = ctrl
      /\ UNCHANGED <<receiver, cursor, delivered>>
  BY DEF ReceiveStale, Receive
<1>2. /\ rxSeqSet /\ frame.idx < cursor /\ frame.idx \in Nat /\ frame.seq \in Seqs
      /\ frame.seq = SeqOf(frame.idx) /\ cursor <= frame.idx + PIPELINE_WINDOW
  BY <1>1, FirstFrame DEF DataFrames
<1>b. cursor \in Nat /\ TypeOK
  BY Basics
<1> DEFINE x == frame.idx
           s == frame.seq
<1>3. x \in Nat /\ s \in Seqs /\ s = SeqOf(x) /\ x < cursor /\ cursor <= x + PIPELINE_WINDOW
      /\ (Reply("ACK", s, x + 1) \/ ctrl' = ctrl)
  BY <1>1, <1>2
<1> HIDE DEF x, s
<1>4. /\ x + 1 \in Nat /\ x + 1 > 0 /\ (x + 1) - 1 = x /\ x + 1 <= cursor
      /\ cursor <= (x + 1) + PIPELINE_WINDOW /\ cursor <= cursor
  BY <1>3, <1>b
<1>5. s = SeqOf((x + 1) - 1)
  BY <1>3, <1>4
<1>6. ctrl' \in Seq(CtrlFrames) /\ GoodCtrl(ctrl', freed, cursor)
  BY <1>3, <1>4, <1>5, <1>b, ReplyKeeps
<1>7. /\ UNCHANGED <<rState, rxSeq, rxSeqSet, appBuf, appFree, cursor, delivered>>
      /\ hold' \in [seq : Seqs \cup {-1}, sameLap : BOOLEAN, free : Int]
  BY <1>1, <1>b DEF receiver, TypeOK
<1> QED
  BY <1>1, <1>6, <1>7, NotDeliveredKeeps

\* onPayload() after a gap.
LEMMA ReceiveGapKeeps ==
  ASSUME IInv, ReceiveGap
  PROVE  IInv'
<1> USE SpaceAssumption
<1>1. /\ rState = "OK" /\ data # <<>> /\ data' = Tail(data)
      /\ classifyGap(frame.seq, rxSeq, rxSeqSet) = "Gap"
      /\ UNCHANGED <<sender, sessions, sent, freed, losses>>
      /\ Reply("NAK", NextSeq(rxSeq), cursor) \/ ctrl' = ctrl
      /\ UNCHANGED <<receiver, cursor, delivered>>
  BY DEF ReceiveGap, Receive, reorderExpectedSeq
<1>b. cursor \in Nat /\ TypeOK /\ ReceiverInv
  BY Basics
<1>2. rxSeqSet
  BY <1>1, FirstFrame
<1>3. NextSeq(rxSeq) = SeqOf(cursor) /\ SeqOf(cursor) \in Seqs
  BY <1>1, <1>2, <1>b, SeqOfType DEF ReceiverInv
<1>4. cursor <= cursor /\ cursor <= cursor + PIPELINE_WINDOW
  BY <1>b
<1>5. Reply("NAK", SeqOf(cursor), cursor) \/ ctrl' = ctrl
  BY <1>1, <1>3
<1>6. ctrl' \in Seq(CtrlFrames) /\ GoodCtrl(ctrl', freed, cursor)
  BY <1>b, <1>3, <1>4, <1>5, ReplyKeeps
<1>7. /\ UNCHANGED <<rState, rxSeq, rxSeqSet, appBuf, appFree, cursor, delivered>>
      /\ hold' \in [seq : Seqs \cup {-1}, sameLap : BOOLEAN, free : Int]
  BY <1>1, <1>b DEF receiver, TypeOK
<1> QED
  BY <1>1, <1>6, <1>7, NotDeliveredKeeps

\* onPayload() with a full app buffer.
LEMMA ReceiveHeldKeeps ==
  ASSUME IInv, ReceiveHeld
  PROVE  IInv'
<1> USE SpaceAssumption, LinkAssumption
<1>1. /\ rState = "OK" /\ data # <<>> /\ data' = Tail(data)
      /\ classifyGap(frame.seq, rxSeq, rxSeqSet) = "Forward"
      /\ UNCHANGED <<sender, sessions, sent, freed, losses>>
      /\ appFree < frame.len
      /\ Reply("NAK", frame.seq, frame.idx) \/ ctrl' = ctrl
      /\ hold' = hold \/ hold' = [seq |-> frame.seq, sameLap |-> TRUE, free |-> appFree]
      /\ UNCHANGED <<rState, rxSeq, rxSeqSet, appBuf, appFree, cursor, delivered>>
  BY DEF ReceiveHeld, Receive
<1>b. cursor \in Nat /\ TypeOK /\ ReceiverInv /\ appFree \in Int
  BY Basics DEF TypeOK
<1>f. /\ frame.idx \in Nat /\ frame.seq \in Seqs /\ frame.seq = SeqOf(frame.idx)
      /\ frame.len \in Nat /\ frame.len <= AppCap
  BY <1>1, FirstFrame DEF DataFrames
<1>2. rxSeqSet
  <2> SUFFICES ASSUME ~rxSeqSet PROVE FALSE
    OBVIOUS
  <2>1. appFree = AppCap
    BY <1>1, FirstFrame
  <2> DEFINE l == frame.len
  <2>2. l \in Nat /\ l <= AppCap /\ appFree < l
    BY <1>1, <1>f
  <2> HIDE DEF l
  <2> QED
    BY <2>1, <2>2, <1>b
<1>3. frame.idx = cursor
  <2>1. classifyGap(frame.seq, rxSeq, rxSeqSet) =
          IF frame.idx = cursor THEN "Forward"
          ELSE IF frame.idx < cursor THEN "Stale" ELSE "Gap"
    BY <1>1, <1>2, FirstFrame
  <2> QED
    BY <2>1, <1>1
<1>4. cursor <= cursor /\ cursor <= cursor + PIPELINE_WINDOW
  BY <1>b
<1>5. Reply("NAK", frame.seq, cursor) \/ ctrl' = ctrl
  BY <1>1, <1>3
<1>6. ctrl' \in Seq(CtrlFrames) /\ GoodCtrl(ctrl', freed, cursor)
  <2>1. frame.seq = SeqOf(cursor)
    BY <1>3, <1>f
  <2> QED
    BY <1>b, <1>f, <1>4, <1>5, <2>1, ReplyKeeps
<1>7. hold' \in [seq : Seqs \cup {-1}, sameLap : BOOLEAN, free : Int]
  <2>1. hold \in [seq : Seqs \cup {-1}, sameLap : BOOLEAN, free : Int]
    BY <1>b DEF TypeOK
  <2>2. [seq |-> frame.seq, sameLap |-> TRUE, free |-> appFree]
          \in [seq : Seqs \cup {-1}, sameLap : BOOLEAN, free : Int]
    BY <1>b, <1>f
  <2> QED
    BY <1>1, <2>1, <2>2, Zenon
<1> QED
  BY <1>1, <1>6, <1>7, NotDeliveredKeeps

\* The one action that moves the cursor.
LEMMA ReceiveForwardKeeps ==
  ASSUME IInv, ReceiveForward
  PROVE  IInv'
<1> USE SpaceAssumption, LinkAssumption
<1> DEFINE x == frame.idx
           s == frame.seq
           l == frame.len
<1>1. /\ rState = "OK" /\ data # <<>> /\ data' = Tail(data)
      /\ classifyGap(frame.seq, rxSeq, rxSeqSet) = "Forward"
      /\ UNCHANGED <<sender, sessions, sent, freed, losses>>
      /\ appFree >= l
      /\ appBuf' = Append(appBuf, [idx |-> x, len |-> l])
      /\ appFree' = appFree - l
      /\ hold' = IF hold = NoHold \/ (hold.seq = frame.seq /\ hold.sameLap)
                   THEN NoHold
                   ELSE [hold EXCEPT !.sameLap = @ /\ ~NewLap]
      /\ rxSeq' = s /\ rxSeqSet' = TRUE
      /\ Reply("ACK", s, x + 1)
      /\ cursor' = x + 1
      /\ delivered' = delivered \cup {x}
      /\ rState' = rState
  BY DEF ReceiveForward, Receive
<1>b. /\ freed \in Nat /\ cursor \in Nat /\ sent \in Nat /\ cursor <= sent
      /\ TypeOK /\ ReceiverInv /\ DeliveredInOrder
  BY Basics
<1>f. /\ x \in Nat /\ s \in Seqs /\ s = SeqOf(x) /\ l \in Nat /\ x < sent
      /\ GoodData(Tail(data), x + 1, sent)
  BY <1>1, FirstFrame DEF DataFrames
<1>2. x = cursor \/ (~rxSeqSet /\ cursor = 0 /\ appBuf = <<>>)
  <2>1. CASE rxSeqSet
    <3>1. classifyGap(frame.seq, rxSeq, rxSeqSet) =
            IF frame.idx = cursor THEN "Forward"
            ELSE IF frame.idx < cursor THEN "Stale" ELSE "Gap"
      BY <1>1, <2>1, FirstFrame
    <3> QED
      BY <3>1, <1>1
  <2>2. CASE ~rxSeqSet
    BY <1>1, <2>2, FirstFrame
  <2> QED
    BY <2>1, <2>2
<1>n. NextSeq(s) = SeqOf(x + 1)
  BY <1>f, NextSeqOf
<1>h. hold' \in [seq : Seqs \cup {-1}, sameLap : BOOLEAN, free : Int]
  <2>1. hold \in [seq : Seqs \cup {-1}, sameLap : BOOLEAN, free : Int]
    BY <1>b DEF TypeOK
  <2>2. NoHold \in [seq : Seqs \cup {-1}, sameLap : BOOLEAN, free : Int]
    BY DEF NoHold
  <2>3. [hold EXCEPT !.sameLap = @ /\ ~NewLap]
          \in [seq : Seqs \cup {-1}, sameLap : BOOLEAN, free : Int]
    BY <2>1
  <2> QED
    BY <1>1, <2>2, <2>3
<1>d. DeliveredInOrder'
  <2> DEFINE y == [idx |-> x, len |-> l]
             e == Append(appBuf, y)
  <2>1. appBuf \in Seq(Chunks) /\ y.idx = x /\ y \in Chunks
    BY <1>b, <1>f DEF TypeOK, Chunks
  <2> HIDE DEF y
  <2>2. /\ Len(e) = Len(appBuf) + 1 /\ Len(appBuf) \in Nat
        /\ \A i \in 1..Len(appBuf) : e[i] = appBuf[i]
        /\ e[Len(appBuf) + 1] = y
    BY <2>1
  <2>3. appBuf' = e
    BY <1>1 DEF y
  <2> HIDE DEF e, x
  <2>4. ASSUME NEW i \in 1..Len(e)
        PROVE  e[i].idx = (x + 1) - Len(e) + i - 1
    <3>1. CASE i = Len(appBuf) + 1
      BY <3>1, <2>1, <2>2, <1>f
    <3>2. CASE i # Len(appBuf) + 1
      <4>1. i \in 1..Len(appBuf)
        BY <3>2, <2>2
      <4>2. x = cursor
        <5>1. appBuf # <<>>
          BY <4>1, <2>1
        <5> QED
          BY <5>1, <1>2
      <4>3. appBuf[i].idx = cursor - Len(appBuf) + i - 1
        BY <4>1, <1>b DEF DeliveredInOrder
      <4> QED
        BY <4>1, <4>2, <4>3, <2>2, <1>b
    <3> QED
      BY <3>1, <3>2
  <2>5. cursor' = x + 1
    BY <1>1 DEF x
  <2> QED
    BY <2>3, <2>4, <2>5 DEF DeliveredInOrder
<1> HIDE DEF x, s, l
<1>3. /\ x + 1 \in Nat /\ cursor <= x + 1 /\ x + 1 <= sent /\ x + 1 > 0 /\ (x + 1) - 1 = x
      /\ x + 1 <= x + 1 /\ cursor <= (x + 1) + PIPELINE_WINDOW
  BY <1>f, <1>2, <1>b
<1>4. ctrl' \in Seq(CtrlFrames) /\ GoodCtrl(ctrl', freed, x + 1)
  <2>1. s = SeqOf((x + 1) - 1)
    BY <1>f, <1>3
  <2> QED
    BY <1>1, <1>3, <1>f, <2>1, ReplyKeeps
<1>5. ReceiverInv'
  <2>1. rLocks' = rLocks /\ rLocks > 0 /\ rLocks # 0
    BY <1>1, <1>b DEF sessions, ReceiverInv, TypeOK
  <2>2. rLocks = 1 /\ ~rIsMaster => delivered \cup {x} = 0..((x + 1) - 1)
    <3> SUFFICES ASSUME rLocks = 1, ~rIsMaster PROVE delivered \cup {x} = 0..((x + 1) - 1)
      OBVIOUS
    <3>1. delivered = 0..(cursor - 1) /\ rxSeqSet
      BY <1>1, <1>b DEF ReceiverInv
    <3>2. x = cursor
      BY <3>1, <1>2
    <3> QED
      BY <3>1, <3>2, <1>b
  <2> QED
    BY <1>1, <1>n, <2>1, <2>2 DEF ReceiverInv
<1>6. /\ rxSeq' \in Seqs /\ rxSeqSet' \in BOOLEAN /\ appBuf' \in Seq(Chunks)
      /\ appFree' \in Int /\ delivered' \subseteq Nat
  <2>1. [idx |-> x, len |-> l] \in Chunks
    BY <1>f DEF Chunks
  <2>2. appBuf \in Seq(Chunks) /\ appFree \in Int /\ delivered \subseteq Nat
    BY <1>b DEF TypeOK
  <2>3. appFree' = appFree - l /\ l \in Nat
    BY <1>1, <1>f
  <2>4. appFree' \in Int
    BY <2>2, <2>3
  <2>5. Append(appBuf, [idx |-> x, len |-> l]) \in Seq(Chunks)
    BY <2>1, <2>2
  <2>6. appBuf' \in Seq(Chunks)
    BY <1>1, <2>5, Zenon
  <2>7. rxSeq' \in Seqs /\ rxSeqSet' \in BOOLEAN /\ delivered' \subseteq Nat
    BY <1>1, <1>f, <2>2, Zenon
  <2> QED
    BY <2>4, <2>6, <2>7
<1> QED
  BY <1>1, <1>3, <1>4, <1>5, <1>6, <1>f, <1>h, <1>d, ReceiveKeeps, Zenon

\* The application reads.
LEMMA AppReadKeeps ==
  ASSUME IInv, AppRead
  PROVE  IInv'
<1>1. /\ appBuf # <<>> /\ appBuf' = Tail(appBuf) /\ appFree' = appFree + Head(appBuf).len
      /\ job' = job /\ sState' = sState /\ txSeq' = txSeq /\ gbnActive' = gbnActive
      /\ gbnBase' = gbnBase /\ pending' = pending /\ cache' = cache
      /\ rState' = rState /\ rxSeq' = rxSeq /\ rxSeqSet' = rxSeqSet /\ hold' = hold
      /\ data' = data /\ ctrl' = ctrl
      /\ session' = session /\ joined' = joined /\ rLocks' = rLocks
      /\ sent' = sent /\ freed' = freed /\ cursor' = cursor /\ delivered' = delivered
      /\ losses' = losses
  BY DEF AppRead, sender, sessions, history
<1>b. /\ appBuf \in Seq(Chunks) /\ appFree \in Int /\ cursor \in Nat
      /\ TypeOK /\ ReceiverInv /\ DeliveredInOrder
  BY Basics DEF TypeOK
<1>2. /\ Tail(appBuf) \in Seq(Chunks) /\ Len(Tail(appBuf)) = Len(appBuf) - 1
      /\ Len(appBuf) \in Nat \ {0}
      /\ \A i \in 1..(Len(appBuf) - 1) : Tail(appBuf)[i] = appBuf[i + 1]
      /\ Head(appBuf) \in Chunks
  BY <1>1, <1>b
<1>3. TypeOK'
  <2>1. appFree + Head(appBuf).len \in Int
    BY <1>b, <1>2 DEF Chunks
  <2>2. appFree' \in Int /\ appBuf' \in Seq(Chunks)
    BY <1>1, <1>2, <2>1
  <2> QED
    BY <1>1, <1>b, <2>2 DEF TypeOK
<1>4. DeliveredInOrder'
  <2> SUFFICES ASSUME NEW i \in 1..(Len(appBuf) - 1)
               PROVE  Tail(appBuf)[i].idx = cursor - (Len(appBuf) - 1) + i - 1
    BY <1>1, <1>2 DEF DeliveredInOrder
  <2>1. i + 1 \in 1..Len(appBuf) /\ Tail(appBuf)[i] = appBuf[i + 1]
    BY <1>2
  <2>2. appBuf[i + 1].idx = cursor - Len(appBuf) + (i + 1) - 1
    BY <2>1, <1>b DEF DeliveredInOrder
  <2> QED
    BY <2>1, <2>2, <1>2, <1>b
<1>5. ReceiverInv'
  BY <1>1, <1>b DEF ReceiverInv
<1>6. CountersInv' /\ SessionInv' /\ DataInv' /\ CtrlInv' /\ SenderInv'
  BY <1>1 DEF IInv, CountersInv, SessionInv, SenderInv, DataInv, CtrlInv
<1> QED
  BY <1>3, <1>4, <1>5, <1>6 DEF IInv

\* reset_unlocked() on the sender's board.
LEMMA SenderResetKeeps ==
  ASSUME IInv, SenderReset
  PROVE  IInv'
<1> USE SpaceAssumption, LinkAssumption
<1>1. /\ sState' = "SWP" /\ txSeq' = 0 /\ gbnActive' = FALSE /\ gbnBase' = 0
      /\ pending' = {} /\ cache' = EmptyCache /\ data' \in Truncated(data)
      /\ job' = job /\ rState' = rState /\ rxSeq' = rxSeq /\ rxSeqSet' = rxSeqSet
      /\ hold' = hold /\ appBuf' = appBuf /\ appFree' = appFree /\ ctrl' = ctrl
      /\ session' = session /\ joined' = joined /\ rLocks' = rLocks
      /\ sent' = sent /\ freed' = freed /\ cursor' = cursor /\ delivered' = delivered
      /\ losses' = losses
  BY DEF SenderReset, receiver, sessions, history
<1>b. /\ cursor \in Nat /\ sent \in Nat /\ TypeOK
      /\ data \in Seq(DataFrames) /\ GoodData(data, cursor, sent)
  BY Basics
<1>2. data' \in Seq(DataFrames) /\ GoodData(data', cursor, sent)
  BY <1>1, <1>b, DataPrefix
<1>3. DataInv'
  BY <1>1, <1>2, Lines
<1>4. TypeOK'
  <2>1. 0 \in Seqs /\ EmptyCache \in [Seqs -> Chunks \cup {NoChunk}]
    BY DEF Seqs, EmptyCache
  <2> QED
    BY <1>1, <1>2, <1>b, <2>1 DEF TypeOK
<1>5. SenderInv' /\ SessionInv'
  BY <1>1 DEF SenderInv, SessionInv, IInv
<1>6. CountersInv' /\ ReceiverInv' /\ CtrlInv' /\ DeliveredInOrder'
  BY <1>1 DEF IInv, CountersInv, ReceiverInv, CtrlInv, DeliveredInOrder
<1> QED
  BY <1>3, <1>4, <1>5, <1>6 DEF IInv

\* reset_unlocked() on the receiver's board.
LEMMA ReceiverResetKeeps ==
  ASSUME IInv, ReceiverReset
  PROVE  IInv'
<1> USE SpaceAssumption, LinkAssumption
<1>1. /\ rState = "OK" /\ rState' = "SWP" /\ rxSeqSet' = FALSE /\ rxSeq' = 0
      /\ hold' = NoHold /\ appBuf' = <<>> /\ appFree' = AppCap /\ ctrl' \in Truncated(ctrl)
      /\ job' = job /\ sState' = sState /\ txSeq' = txSeq /\ gbnActive' = gbnActive
      /\ gbnBase' = gbnBase /\ pending' = pending /\ cache' = cache /\ data' = data
      /\ session' = session /\ joined' = joined /\ rLocks' = rLocks
      /\ sent' = sent /\ freed' = freed /\ cursor' = cursor /\ delivered' = delivered
      /\ losses' = losses
  BY DEF ReceiverReset, sender, sessions, history
<1>b. /\ cursor \in Nat /\ freed \in Nat /\ TypeOK /\ ReceiverInv
      /\ ctrl \in Seq(CtrlFrames) /\ GoodCtrl(ctrl, freed, cursor)
  BY Basics
<1>2. ctrl' \in Seq(CtrlFrames) /\ GoodCtrl(ctrl', freed, cursor)
  BY <1>1, <1>b, CtrlPrefix
<1>3. CtrlInv'
  BY <1>1, <1>2, Lines
<1>4. TypeOK'
  <2>1. 0 \in Seqs /\ NoHold \in [seq : Seqs \cup {-1}, sameLap : BOOLEAN, free : Int]
        /\ <<>> \in Seq(Chunks) /\ AppCap \in Int
    BY DEF Seqs, NoHold
  <2>2. /\ rState' \in {"OK", "SWP"} /\ rxSeq' \in Seqs /\ rxSeqSet' \in BOOLEAN
        /\ hold' \in [seq : Seqs \cup {-1}, sameLap : BOOLEAN, free : Int]
        /\ appBuf' \in Seq(Chunks) /\ appFree' \in Int
    BY <1>1, <2>1, Zenon
  <2> QED
    BY <1>1, <1>2, <1>b, <2>2 DEF TypeOK
<1>5. ReceiverInv'
  <2>1. rLocks \in Nat /\ rLocks > 0
    BY <1>1, <1>b DEF ReceiverInv, TypeOK
  <2>2. rLocks # 0
    BY <2>1
  <2> QED
    BY <1>1, <1>b, <2>2 DEF ReceiverInv
<1>6. DeliveredInOrder'
  <2>1. Len(appBuf') = 0
    BY <1>1
  <2> QED
    BY <2>1 DEF DeliveredInOrder
<1>7. CountersInv' /\ SessionInv' /\ SenderInv' /\ DataInv'
  BY <1>1 DEF IInv, CountersInv, SessionInv, SenderInv, DataInv
<1> QED
  BY <1>3, <1>4, <1>5, <1>6, <1>7 DEF IInv

\* What a lock does to the session: a new one starts with empty lines and
\* nothing sent, and whoever joins has sent or received nothing in it.
LEMMA SessionStart ==
  ASSUME IInv, NEW side \in {"sender", "receiver"}, NEW other,
         NewSession(side) \/ JoinSession(side, other),
         data' = data, ctrl' = ctrl
  PROVE  /\ GoodData(data', cursor', sent') /\ GoodCtrl(ctrl', freed', cursor')
         /\ session' \in Nat /\ joined' \subseteq {"sender", "receiver"} /\ side \in joined'
         /\ side = "sender" => sent' = 0 /\ freed' = 0 /\ cursor' = 0
         /\ side = "receiver" => cursor' = 0 /\ freed' = 0 /\ delivered' = {}
         /\ \/ /\ sState = "SWP" /\ rState = "SWP" /\ joined' = {side}
               /\ sent' = 0 /\ freed' = 0 /\ cursor' = 0 /\ delivered' = {}
            \/ /\ joined' = joined \cup {side} /\ side \notin joined
               /\ sent' = sent /\ freed' = freed /\ cursor' = cursor /\ delivered' = delivered
<1>b. /\ freed \in Nat /\ cursor \in Nat /\ sent \in Nat /\ freed <= cursor /\ cursor <= sent
      /\ GoodData(data, cursor, sent) /\ GoodCtrl(ctrl, freed, cursor)
      /\ TypeOK /\ SessionInv
  BY Basics
<1>1. CASE NewSession(side)
  <2>1. /\ sState = "SWP" /\ rState = "SWP" /\ data = <<>> /\ ctrl = <<>>
        /\ session' = session + 1 /\ joined' = {side}
        /\ sent' = 0 /\ freed' = 0 /\ cursor' = 0 /\ delivered' = {}
    BY <1>1 DEF NewSession
  <2>2. Len(data') = 0 /\ Len(ctrl') = 0
    BY <2>1
  <2>3. GoodData(data', cursor', sent') /\ GoodCtrl(ctrl', freed', cursor')
    BY <2>2 DEF GoodData, GoodCtrl
  <2>4. session' \in Nat
    BY <2>1, <1>b DEF TypeOK
  <2> QED
    BY <2>1, <2>3, <2>4
<1>2. CASE JoinSession(side, other)
  <2>1. /\ side \notin joined /\ joined' = joined \cup {side} /\ session' = session
        /\ sent' = sent /\ freed' = freed /\ cursor' = cursor /\ delivered' = delivered
    BY <1>2 DEF JoinSession, history
  <2>2. GoodData(data', cursor', sent') /\ GoodCtrl(ctrl', freed', cursor')
    BY <2>1, <1>b, Zenon
  <2>3. side = "sender" => sent = 0
    BY <2>1, <1>b DEF SessionInv
  <2>4. side = "receiver" => cursor = 0 /\ delivered = {}
    BY <2>1, <1>b DEF SessionInv
  <2>5. /\ sent = 0 => freed = 0 /\ cursor = 0
        /\ cursor = 0 => freed = 0
    BY <1>b
  <2>6. session' \in Nat /\ joined' \subseteq {"sender", "receiver"}
    BY <2>1, <1>b DEF TypeOK
  <2> QED
    BY <2>1, <2>2, <2>3, <2>4, <2>5, <2>6
<1> QED
  BY <1>1, <1>2

\* lockOk_unlocked() on the sender's board.
LEMMA SenderLockKeeps ==
  ASSUME IInv, SenderLock
  PROVE  IInv'
<1> USE SpaceAssumption, LinkAssumption
<1>1. /\ sState = "SWP" /\ sState' = "OK"
      /\ NewSession("sender") \/ JoinSession("sender", rState)
      /\ txSeq' = txSeq /\ gbnActive' = gbnActive /\ gbnBase' = gbnBase
      /\ pending' = pending /\ cache' = cache /\ job' = job
      /\ rState' = rState /\ rxSeq' = rxSeq /\ rxSeqSet' = rxSeqSet
      /\ hold' = hold /\ appBuf' = appBuf /\ appFree' = appFree
      /\ data' = data /\ ctrl' = ctrl /\ rLocks' = rLocks /\ losses' = losses
  BY DEF SenderLock, receiver
<1>b. TypeOK /\ SessionInv /\ SenderInv /\ ReceiverInv /\ DeliveredInOrder
      /\ delivered \subseteq Nat /\ job \in 0..(AdmitWindow - 1)
  BY Basics DEF TypeOK
<1>2. /\ GoodData(data', cursor', sent') /\ GoodCtrl(ctrl', freed', cursor')
      /\ session' \in Nat /\ joined' \subseteq {"sender", "receiver"} /\ "sender" \in joined'
      /\ sent' = 0 /\ freed' = 0 /\ cursor' = 0
      /\ \/ /\ rState = "SWP" /\ joined' = {"sender"} /\ delivered' = {}
         \/ /\ joined' = joined \cup {"sender"}
            /\ cursor' = cursor /\ delivered' = delivered
  BY <1>1, SessionStart
<1>3. TypeOK'
  <2>1. sent' \in Nat /\ freed' \in Nat /\ cursor' \in Nat /\ delivered' \subseteq Nat
        /\ sState' \in {"OK", "SWP"}
    BY <1>1, <1>2, <1>b
  <2> QED
    BY <1>1, <1>2, <1>b, <2>1 DEF TypeOK
<1>4. CountersInv'
  BY <1>2 DEF CountersInv
<1>5. SessionInv'
  BY <1>1, <1>2, <1>b DEF SessionInv
<1>6. SenderInv'
  <2>1. txSeq = 0 /\ ~gbnActive /\ pending = {}
    BY <1>1, <1>b DEF SenderInv
  <2>2. SeqOf(0) = 0
    BY DEF SeqOf
  <2>3. 0..(0 - 1) = {} /\ 0 + job <= 0 + AdmitWindow
    BY <1>b
  <2> QED
    BY <1>1, <1>2, <2>1, <2>2, <2>3 DEF SenderInv
<1>7. ReceiverInv'
  <2>1. CASE rState = "SWP" /\ delivered' = {}
    <3>1. 0..(0 - 1) = {}
      OBVIOUS
    <3> QED
      BY <1>1, <1>2, <1>b, <2>1, <3>1 DEF ReceiverInv
  <2>2. CASE cursor' = cursor /\ delivered' = delivered
    BY <1>1, <1>b, <2>2 DEF ReceiverInv
  <2> QED
    BY <1>2, <2>1, <2>2
<1>8. DeliveredInOrder'
  <2>1. CASE rState = "SWP"
    <3>1. Len(appBuf') = 0
      BY <1>1, <1>b, <2>1 DEF ReceiverInv
    <3> QED
      BY <3>1 DEF DeliveredInOrder
  <2>2. CASE cursor' = cursor
    BY <1>1, <1>b, <2>2 DEF DeliveredInOrder
  <2> QED
    BY <1>2, <2>1, <2>2
<1>9. DataInv' /\ CtrlInv'
  BY <1>2, Lines
<1> QED
  BY <1>3, <1>4, <1>5, <1>6, <1>7, <1>8, <1>9 DEF IInv

\* lockOk_unlocked() on the receiver's board.
LEMMA ReceiverLockKeeps ==
  ASSUME IInv, ReceiverLock
  PROVE  IInv'
<1> USE SpaceAssumption, LinkAssumption
<1>1. /\ rState = "SWP" /\ rState' = "OK"
      /\ NewSession("receiver") \/ JoinSession("receiver", sState)
      /\ appBuf' = <<>> /\ appFree' = AppCap /\ rLocks' = rLocks + 1
      /\ sState' = sState /\ txSeq' = txSeq /\ gbnActive' = gbnActive /\ gbnBase' = gbnBase
      /\ pending' = pending /\ cache' = cache /\ job' = job
      /\ rxSeq' = rxSeq /\ rxSeqSet' = rxSeqSet /\ hold' = hold
      /\ data' = data /\ ctrl' = ctrl /\ losses' = losses
  BY DEF ReceiverLock, sender
<1>b. /\ TypeOK /\ SessionInv /\ SenderInv /\ ReceiverInv /\ rLocks \in Nat
      /\ sent \in Nat /\ freed \in Nat /\ cursor \in Nat
      /\ sent <= freed + PIPELINE_WINDOW
  BY Basics DEF TypeOK
<1>2. /\ GoodData(data', cursor', sent') /\ GoodCtrl(ctrl', freed', cursor')
      /\ session' \in Nat /\ joined' \subseteq {"sender", "receiver"} /\ "receiver" \in joined'
      /\ freed' = 0 /\ cursor' = 0 /\ delivered' = {}
      /\ \/ /\ sState = "SWP" /\ joined' = {"receiver"} /\ sent' = 0
         \/ /\ joined' = joined \cup {"receiver"} /\ sent' = sent /\ freed' = freed
  BY <1>1, SessionStart
<1>3. TypeOK'
  <2>1. <<>> \in Seq(Chunks) /\ AppCap \in Int /\ rLocks + 1 \in Nat /\ 0 \in Nat
    BY <1>b
  <2>2. /\ rState' \in {"OK", "SWP"} /\ appBuf' \in Seq(Chunks) /\ appFree' \in Int
        /\ rLocks' \in Nat
    BY <1>1, <2>1, Zenon
  <2>3. sent' \in Nat /\ freed' \in Nat /\ cursor' \in Nat /\ delivered' \subseteq Nat
    BY <1>2, <1>b, <2>1, Zenon
  <2> QED
    BY <1>1, <1>2, <1>b, <2>2, <2>3 DEF TypeOK
<1>4. CountersInv'
  <2>1. CASE sent' = 0
    BY <1>2, <2>1 DEF CountersInv
  <2>2. CASE sent' = sent /\ freed' = freed
    <3>1. freed = 0
      BY <1>2, <2>2
    <3> QED
      BY <1>2, <1>b, <2>2, <3>1 DEF CountersInv
  <2> QED
    BY <1>2, <2>1, <2>2
<1>5. SessionInv'
  BY <1>1, <1>2, <1>b DEF SessionInv
<1>6. SenderInv'
  <2>1. CASE sState = "SWP"
    BY <1>1, <1>b, <2>1 DEF SenderInv
  <2>2. CASE sent' = sent /\ freed' = freed
    BY <1>1, <1>b, <2>2 DEF SenderInv
  <2> QED
    BY <1>2, <2>1, <2>2
<1>7. ReceiverInv'
  <2>1. rLocks' > 0 /\ rLocks' # 0 /\ (rLocks' = 1 => rLocks = 0) /\ rLocks + 1 > 0
    BY <1>1, <1>b
  <2>2. SeqOf(0) = 0 /\ 0..(0 - 1) = {}
    BY DEF SeqOf
  <2>3. rxSeqSet => rLocks = 0
    BY <1>1, <1>b DEF ReceiverInv
  <2>4. /\ rLocks = 0 /\ rxSeqSet => NextSeq(rxSeq) = 0
        /\ rLocks = 0 /\ ~rIsMaster => rxSeqSet
    BY <1>b DEF ReceiverInv
  <2> QED
    BY <1>1, <1>2, <2>1, <2>2, <2>3, <2>4 DEF ReceiverInv
<1>8. DeliveredInOrder'
  <2>1. Len(appBuf') = 0
    BY <1>1
  <2> QED
    BY <2>1 DEF DeliveredInOrder
<1>9. DataInv' /\ CtrlInv'
  BY <1>2, Lines
<1> QED
  BY <1>3, <1>4, <1>5, <1>6, <1>7, <1>8, <1>9 DEF IInv

-----------------------------------------------------------------------------
\* The boards boot into the invariant.
LEMMA InitLink == Init => IInv
<1> SUFFICES ASSUME Init PROVE IInv
  OBVIOUS
<1> USE SpaceAssumption, LinkAssumption DEF Init
<1>1. TypeOK
  <2>1. /\ 0 \in Seqs /\ COBS_SEQ_SPACE - 1 \in Seqs /\ AppCap \in Int
        /\ EmptyCache \in [Seqs -> Chunks \cup {NoChunk}]
        /\ NoHold \in [seq : Seqs \cup {-1}, sameLap : BOOLEAN, free : Int]
    BY DEF Seqs, EmptyCache, NoHold
  <2>2. <<>> \in Seq(Chunks) /\ <<>> \in Seq(DataFrames) /\ <<>> \in Seq(CtrlFrames)
    OBVIOUS
  <2>3. 0 \in 0..(AdmitWindow - 1) /\ 0 \in Nat
    OBVIOUS
  <2> QED
    BY <2>1, <2>2, <2>3, Zenon DEF TypeOK
<1>2. CountersInv /\ SessionInv /\ SenderInv
  BY DEF CountersInv, SessionInv, SenderInv
<1>3. ReceiverInv
  <2>1. rxSeqSet \in BOOLEAN /\ (rxSeqSet => ~rIsMaster) /\ (~rxSeqSet => rIsMaster)
    OBVIOUS
  <2>2. rxSeqSet => NextSeq(rxSeq) = 0
    BY DEF NextSeq
  <2> QED
    BY <2>1, <2>2 DEF ReceiverInv
<1>4. DataInv /\ CtrlInv /\ DeliveredInOrder
  BY DEF DataInv, CtrlInv, DeliveredInOrder
<1> QED
  BY <1>1, <1>2, <1>3, <1>4 DEF IInv

\* Every step of either board and of the lines keeps the invariant.
LEMMA NextLink == IInv /\ [Next]_vars => IInv'
<1> SUFFICES ASSUME IInv, [Next]_vars PROVE IInv'
  OBVIOUS
<1>1. ASSUME SenderNext PROVE IInv'
  BY <1>1, SendMsgKeeps, SendChunkKeeps, AbortMsgKeeps, OnAckKeeps, OnNakKeeps,
     SweepRetxKeeps DEF SenderNext
<1>2. ASSUME ReceiverNext PROVE IInv'
  BY <1>2, LossKeeps, ReceiveStaleKeeps, ReceiveGapKeeps, ReceiveHeldKeeps,
     ReceiveForwardKeeps, AppReadKeeps DEF ReceiverNext
<1>3. ASSUME SessionNext PROVE IInv'
  BY <1>3, SenderResetKeeps, ReceiverResetKeeps, SenderLockKeeps, ReceiverLockKeeps
     DEF SessionNext
<1>4. ASSUME LoseData \/ LoseCtrl PROVE IInv'
  BY <1>4, LossKeeps
<1>5. CASE UNCHANGED vars
  BY <1>5 DEF vars, sender, receiver, sessions, history, IInv, TypeOK, CountersInv,
     SessionInv, SenderInv, ReceiverInv, DataInv, CtrlInv, DeliveredInOrder
<1> QED
  BY <1>1, <1>2, <1>3, <1>4, <1>5 DEF Next

\* The inductive invariant holds in every reachable state of the link.
THEOREM LinkInvariant == Spec => []IInv
  BY InitLink, NextLink, PTL DEF Spec

\* Every field of sender and receiver keeps its type.
THEOREM LinkTypes == Spec => []TypeOK
<1>1. IInv => TypeOK
  BY DEF IInv
<1> QED
  BY <1>1, LinkInvariant, PTL

\* onPayload delivers in order, each chunk once and without holes inside a
\* session, whatever is lost, repeated, held back or wrapped.
THEOREM DeliversInOrder == Spec => []DeliveredInOrder
<1>1. IInv => DeliveredInOrder
  BY DEF IInv
<1> QED
  BY <1>1, LinkInvariant, PTL

\* onAck and onNak never release a chunk the receiver has not moved past.
THEOREM ReleasesOnlyReceived == Spec => []ReleasedWithinReceived
<1>1. IInv => ReleasedWithinReceived
  BY DEF IInv, CountersInv, ReleasedWithinReceived
<1> QED
  BY <1>1, LinkInvariant, PTL

\* The first session of a slave's receiver loses nothing.
THEOREM FirstSessionLosesNothing ==
  ASSUME ~rIsMaster
  PROVE  Spec => []FirstSessionLossless
<1>1. IInv => FirstSessionLossless
  BY DEF IInv, ReceiverInv, FirstSessionLossless
<1> QED
  BY <1>1, LinkInvariant, PTL

\* The chunks in flight are contiguous from the base, each with an entry in
\* pending_[] and its own bytes in the cache.
THEOREM WindowStaysIntact == Spec => []WindowIntact
<1> USE SpaceAssumption, LinkAssumption
<1>1. ASSUME IInv, sState = "OK"
      PROVE  /\ gbnActive <=> freed < sent
             /\ sent + job - freed <= AdmitWindow
             /\ pending = {budgetIdx(Ahead(gbnBase, k)) : k \in 0..(sent - freed - 1)}
             /\ \A k \in 0..(sent - freed - 1) :
                  /\ cache[Ahead(gbnBase, k)] # NoChunk
                  /\ cache[Ahead(gbnBase, k)].idx = freed + k
  <2>b. /\ freed \in Nat /\ sent \in Nat /\ freed <= sent /\ sent <= freed + PIPELINE_WINDOW
        /\ job \in Nat
    BY <1>1, Basics DEF TypeOK
  <2>w. /\ pending = Window(freed, sent) /\ Cached(cache, freed, sent)
        /\ (gbnActive <=> freed < sent) /\ (gbnActive => gbnBase = SeqOf(freed))
        /\ sent + job <= freed + AdmitWindow
    BY <1>1, SenderWindow
  <2>k. ASSUME NEW k \in 0..(sent - freed - 1)
        PROVE  Ahead(gbnBase, k) = SeqOf(freed + k) /\ freed + k \in freed..(sent - 1)
    <3>1. freed < sent /\ k \in 0..(COBS_SEQ_SPACE - 1) /\ freed + k \in freed..(sent - 1)
      BY <2>b
    <3>2. Ahead(SeqOf(freed), k) = SeqOf(freed + k)
      BY <2>b, <3>1, AheadSeq
    <3> QED
      BY <3>1, <3>2, <2>w
  <2>1. \A i \in freed..(sent - 1) : i - freed \in 0..(sent - freed - 1) /\ freed + (i - freed) = i
    BY <2>b
  <2>2. pending = {budgetIdx(Ahead(gbnBase, k)) : k \in 0..(sent - freed - 1)}
    <3> DEFINE D == {budgetIdx(Ahead(gbnBase, k)) : k \in 0..(sent - freed - 1)}
    <3>1. D \subseteq Window(freed, sent)
      BY <2>k DEF Window
    <3>2. ASSUME NEW i \in freed..(sent - 1) PROVE budgetIdx(SeqOf(i)) \in D
      <4>1. i - freed \in 0..(sent - freed - 1) /\ Ahead(gbnBase, i - freed) = SeqOf(i)
        BY <2>1, <2>k
      <4> QED
        BY <4>1
    <3>3. Window(freed, sent) \subseteq D
      BY <3>2 DEF Window
    <3> QED
      BY <3>1, <3>3, <2>w
  <2>3. \A k \in 0..(sent - freed - 1) :
          /\ cache[Ahead(gbnBase, k)] # NoChunk
          /\ cache[Ahead(gbnBase, k)].idx = freed + k
    BY <2>k, <2>w DEF Cached, Chunks
  <2> QED
    BY <2>b, <2>w, <2>2, <2>3
<1>2. IInv => WindowIntact
  BY <1>1 DEF WindowIntact
<1> QED
  BY <1>2, LinkInvariant, PTL

\* In every session what is delivered is a run that ends below the cursor.
THEOREM DeliversARun == Spec => []DeliveredIsRun
<1>1. Init => DeliveredIsRun
  BY DEF Init, DeliveredIsRun
<1>2. IInv /\ DeliveredIsRun /\ [Next]_vars => DeliveredIsRun'
  <2> SUFFICES ASSUME IInv, DeliveredIsRun, [Next]_vars PROVE DeliveredIsRun'
    OBVIOUS
  <2>1. CASE ReceiveForward
    <3>1. /\ rState = "OK" /\ data # <<>> /\ classifyGap(frame.seq, rxSeq, rxSeqSet) = "Forward"
          /\ cursor' = frame.idx + 1 /\ delivered' = delivered \cup {frame.idx}
      BY <2>1 DEF ReceiveForward, Receive
    <3>b. cursor \in Nat /\ delivered \subseteq Nat /\ ReceiverInv
      BY Basics DEF TypeOK
    <3> DEFINE x == frame.idx
    <3>2. x \in Nat /\ (rxSeqSet => x = cursor) /\ (~rxSeqSet => delivered = {})
      BY <3>1, <3>b, FirstFrame DEF ReceiverInv
    <3>3. cursor' = x + 1 /\ delivered' = delivered \cup {x}
      BY <3>1
    <3> HIDE DEF x
    <3>4. CASE delivered = {}
      BY <3>2, <3>3, <3>4 DEF DeliveredIsRun
    <3>5. CASE delivered # {}
      <4>1. x = cursor
        BY <3>2, <3>5
      <4>2. \A i \in delivered : i..(cursor - 1) \subseteq delivered
        BY <3>5 DEF DeliveredIsRun
      <4>3. \A i \in delivered : i..cursor \subseteq delivered \cup {cursor}
        BY <4>2, <3>b
      <4>4. cursor..cursor \subseteq delivered \cup {cursor} /\ (cursor + 1) - 1 = cursor
        BY <3>b
      <4> QED
        BY <4>1, <4>3, <4>4, <3>3 DEF DeliveredIsRun
    <3> QED
      BY <3>4, <3>5
  <2>2. CASE delivered' = {}
    BY <2>2 DEF DeliveredIsRun
  <2>3. CASE UNCHANGED <<cursor, delivered>>
    BY <2>3 DEF DeliveredIsRun
  <2>4. ReceiveForward \/ delivered' = {} \/ UNCHANGED <<cursor, delivered>>
    BY DEF Next, SenderNext, ReceiverNext, SessionNext, SendMsg, SendChunk, AbortMsg, OnAck,
       OnNak, SweepRetx, ReceiveSweeping, ReceiveStale, ReceiveGap, ReceiveHeld, AppRead,
       SenderReset, ReceiverReset, SenderLock, ReceiverLock, NewSession, JoinSession,
       LoseData, LoseCtrl, vars, history
  <2> QED
    BY <2>1, <2>2, <2>3, <2>4
<1> QED
  BY <1>1, <1>2, LinkInvariant, PTL DEF Spec

-----------------------------------------------------------------------------
(* Refinement                                                              *)

\* A reply releases chunks the receiver has, or nothing.
LEMMA ReplyReleases ==
  ASSUME IInv, IInv', OnAck \/ OnNak
  PROVE  Stream!Release \/ UNCHANGED Stream!vars
<1>b. freed \in Nat /\ gbnBase \in Seqs /\ ctrl \in Seq(CtrlFrames)
  BY Basics DEF TypeOK
<1>1. /\ ctrl # <<>> /\ sent' = sent /\ cursor' = cursor /\ rLocks' = rLocks
      /\ \/ freed' = freed
         \/ \E n \in Int : n > 0 /\ freed' = freed + n
  <2> DEFINE i == idxOf(gbnBase, Head(ctrl).seq)
  <2>1. ctrl # <<>>
    BY DEF OnAck, OnNak
  <2>2. Head(ctrl).seq \in Seqs
    <3>1. Head(ctrl) \in CtrlFrames
      BY <1>b, <2>1
    <3> QED
      BY <3>1 DEF CtrlFrames
  <2>3. i \in Int
    BY <1>b, <2>2, SpaceAssumption DEF idxOf, Seqs
  <2>4. CASE OnAck
    <3>1. /\ sent' = sent /\ cursor' = cursor /\ rLocks' = rLocks
          /\ freed' = freed \/ (~(i < 0) /\ freed' = freed + i + 1)
      BY <2>4 DEF OnAck, history, sessions
    <3> HIDE DEF i
    <3>2. ~(i < 0) => i + 1 \in Int /\ i + 1 > 0 /\ freed + i + 1 = freed + (i + 1)
      BY <2>3, <1>b
    <3> QED
      BY <2>1, <3>1, <3>2
  <2>5. CASE OnNak
    <3>1. /\ sent' = sent /\ cursor' = cursor /\ rLocks' = rLocks
          /\ \/ freed' = freed
             \/ i > 0 /\ freed' = freed + i
             \/ freed' = freed + 0
      BY <2>5 DEF OnNak, sessions
    <3> HIDE DEF i
    <3> QED
      BY <2>1, <2>3, <3>1, <1>b
  <2> QED
    BY <2>4, <2>5
<1>2. CASE freed' = freed
  BY <1>1, <1>2 DEF Stream!vars
<1>3. CASE \E n \in Int : n > 0 /\ freed' = freed + n
  <2>1. PICK n \in Int : n > 0 /\ freed' = freed + n
    BY <1>3
  <2>2. freed' <= cursor' /\ cursor \in Nat
    BY Basics DEF IInv, CountersInv
  <2>3. freed + n <= cursor
    BY <1>1, <2>1, <2>2
  <2>4. freed + n \in (freed + 1)..cursor
    BY <1>b, <2>1, <2>2, <2>3
  <2> QED
    BY <1>1, <2>1, <2>4 DEF Stream!Release
<1> QED
  BY <1>1, <1>2, <1>3

\* A delivery is the next chunk, or in a session without an anchor the first
\* one heard.
LEMMA ForwardDelivers ==
  ASSUME IInv, ReceiveForward
  PROVE  Stream!Deliver
<1>1. /\ rState = "OK" /\ data # <<>> /\ classifyGap(frame.seq, rxSeq, rxSeqSet) = "Forward"
      /\ cursor' = frame.idx + 1 /\ sent' = sent /\ freed' = freed /\ rLocks' = rLocks
  BY DEF ReceiveForward, Receive, sessions
<1>b. cursor \in Nat /\ sent \in Nat /\ ReceiverInv /\ rLocks \in Nat
  BY Basics DEF TypeOK
<1> DEFINE x == frame.idx
<1>2. /\ x \in Nat /\ x < sent /\ (rxSeqSet => x = cursor) /\ (~rxSeqSet => cursor = 0)
      /\ cursor' = x + 1
  BY <1>1, FirstFrame
<1>3. ~rIsMaster /\ rLocks <= 1 => rxSeqSet
  <2>1. rLocks > 0 /\ (rLocks = 1 /\ ~rIsMaster => rxSeqSet)
    BY <1>1, <1>b DEF ReceiverInv
  <2> QED
    BY <2>1, <1>b
<1> HIDE DEF x
<1>4. x + 1 \in (cursor + 1)..sent
  BY <1>2, <1>b
<1>5. (~rIsMaster /\ rLocks <= 1) \/ cursor > 0 => x + 1 = cursor + 1
  BY <1>2, <1>3, <1>b
<1> QED
  BY <1>1, <1>2, <1>4, <1>5 DEF Stream!Deliver

\* A lock restarts the stream or joins it.
LEMMA LockRestarts ==
  ASSUME IInv, SenderLock \/ ReceiverLock
  PROVE  Stream!Next \/ UNCHANGED Stream!vars
<1>b. cursor \in Nat /\ sent \in Nat /\ rLocks \in Nat
  BY Basics DEF TypeOK
<1>1. CASE SenderLock
  <2>1. /\ rLocks' = rLocks /\ data' = data /\ ctrl' = ctrl
        /\ NewSession("sender") \/ JoinSession("sender", rState)
    BY <1>1 DEF SenderLock
  <2> QED
    BY <2>1 DEF NewSession, JoinSession, history, Stream!Next, Stream!Restart, Stream!vars
<1>2. CASE ReceiverLock
  <2>1. /\ rLocks' = rLocks + 1
        /\ NewSession("receiver") \/ JoinSession("receiver", sState)
    BY <1>2 DEF ReceiverLock
  <2>2. rLocks + 1 <= 1 => rLocks <= 1
    BY <1>b
  <2>3. CASE NewSession("receiver")
    BY <2>1, <2>2, <2>3 DEF NewSession, Stream!Next, Stream!Restart
  <2>4. CASE JoinSession("receiver", sState)
    <3>1. /\ cursor = 0 /\ sent' = sent /\ freed' = freed /\ cursor' = cursor
      BY <2>4, Basics DEF JoinSession, SessionInv, history
    <3>2. CASE rIsMaster \/ rLocks + 1 <= 1
      BY <2>1, <2>2, <3>1, <3>2 DEF Stream!vars
    <3>3. CASE ~rIsMaster /\ ~(rLocks + 1 <= 1)
      BY <2>1, <3>1, <3>3 DEF Stream!Next, Stream!Join
    <3> QED
      BY <3>2, <3>3
  <2> QED
    BY <2>1, <2>3, <2>4
<1> QED
  BY <1>1, <1>2

\* The go-back-N link implements the abstract stream: chunks are accepted,
\* delivered and released in order, and a slave's receiver starts its first
\* session with the first chunk.
THEOREM LinkImplementsStream == Spec => ImplementsStream
<1>1. Init => Stream!Init
  BY LinkAssumption DEF Init, Stream!Init
<1>2. IInv /\ IInv' /\ [Next]_vars => [Stream!Next]_(Stream!vars)
  <2> SUFFICES ASSUME IInv, IInv', [Next]_vars
               PROVE  Stream!Next \/ UNCHANGED Stream!vars
    OBVIOUS
  <2>1. CASE (\E n \in 1..AdmitWindow : SendMsg(n)) \/ SendChunk
    <3>1. /\ sent' = sent + 1 /\ cursor' = cursor /\ freed' = freed /\ rLocks' = rLocks
      BY <2>1 DEF SendMsg, SendChunk, SendCobsFrameAcked, sessions
    <3> QED
      BY <3>1 DEF Stream!Next, Stream!Accept
  <2>2. CASE OnAck \/ OnNak
    BY <2>2, ReplyReleases DEF Stream!Next
  <2>3. CASE ReceiveForward
    BY <2>3, ForwardDelivers DEF Stream!Next
  <2>4. CASE SenderLock \/ ReceiverLock
    BY <2>4, LockRestarts
  <2>5. CASE \/ AbortMsg \/ SweepRetx \/ ReceiveSweeping \/ ReceiveStale \/ ReceiveGap
             \/ ReceiveHeld \/ AppRead \/ SenderReset \/ ReceiverReset \/ LoseData
             \/ LoseCtrl \/ UNCHANGED vars
    <3>1. sent' = sent /\ cursor' = cursor /\ freed' = freed /\ rLocks' = rLocks
      BY <2>5 DEF AbortMsg, SweepRetx, ReceiveSweeping, ReceiveStale, ReceiveGap,
         ReceiveHeld, AppRead, SenderReset, ReceiverReset, LoseData, LoseCtrl, Receive,
         sessions, history, vars
    <3> QED
      BY <3>1 DEF Stream!vars
  <2> QED
    BY <2>1, <2>2, <2>3, <2>4, <2>5 DEF Next, SenderNext, ReceiverNext, SessionNext
<1> QED
  BY <1>1, <1>2, LinkInvariant, PTL DEF Spec, ImplementsStream, Stream!Spec
=============================================================================
