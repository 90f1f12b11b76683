--------------------------- MODULE KvSearch_proofs ---------------------------
(***************************************************************************)
(* Proofs about the loop of find_slot (KvCache): it ends, and with the     *)
(* right answer, for every content of the cells, every length of a ubatch  *)
(* that fits the cache and every cell it starts at.                        *)
(***************************************************************************)
EXTENDS KvCache_proofs

\* The cells that are in the way of a slot at h, by their distance to h.
TakenFrom(n, h) == {i \in 0..(n - 1) : cells[h + i].pos >= 0}

\* How far the loop moves on from h.
NextFrom(n, h) == MinOf(TakenFrom(n, h)) + 1

Wrapped(s) == At(0, s.tested + Size - s.head)

Past(n, s) == At(s.head + NextFrom(n, s.head), s.tested + NextFrom(n, s.head))

\* One round of the loop, which goes on with f.
Round(n, f) ==
  [s \in Search |->
     IF s.head + n > Size THEN f[Wrapped(s)]
     ELSE IF TakenFrom(n, s.head) = {} THEN [found |-> TRUE, at |-> s.head]
     ELSE IF s.tested + NextFrom(n, s.head) >= Size
          THEN [found |-> FALSE, at |-> s.head + NextFrom(n, s.head)]
     ELSE f[Past(n, s)]]

\* Scan is one of the functions that are their own round.
LEMMA ScanChoice ==
  ASSUME NEW n
  PROVE  Scan(n) = CHOOSE f : f = Round(n, f)
BY DEF Scan, Round, Wrapped, Past, TakenFrom, NextFrom

-----------------------------------------------------------------------------
\* The rounds end.

\* The rounds left: a cell more is tested in each, but for starting over, which
\* happens in no two rounds in a row.
Left(n, s) ==
  2 * (IF s.tested < Size THEN Size - s.tested ELSE 0) + (IF s.head + n > Size THEN 1 ELSE 0)

\* The first taken cell in the way of a slot, and what can be said before it.
LEMMA TakenFirst ==
  ASSUME CellsInv, NEW n \in 1..Size, NEW h \in Nat, h + n <= Size
  PROVE  /\ TakenFrom(n, h) = {} => Fits(h, n)
         /\ TakenFrom(n, h) # {} =>
              /\ NextFrom(n, h) \in 1..n
              /\ cells[h + NextFrom(n, h) - 1].pos >= 0
<1> DEFINE taken == TakenFrom(n, h)
<1>1. n \in Nat /\ Size \in Nat
  BY CacheAssumption
<1>2. \A i \in h..(h + n - 1) : i \in Cell /\ i - h \in 0..(n - 1) /\ h + (i - h) = i
  BY <1>1 DEF Cell
<1>3. ASSUME taken = {} PROVE Fits(h, n)
  <2> SUFFICES ASSUME NEW i \in h..(h + n - 1) PROVE cells[i].pos < 0
    BY DEF Fits
  <2>1. ~(cells[i].pos >= 0)
    BY <1>2, <1>3 DEF TakenFrom
  <2>2. cells[i].pos \in Int
    BY <1>2, CellFields
  <2> QED
    BY <2>1, <2>2
<1>4. ASSUME taken # {}
      PROVE  NextFrom(n, h) \in 1..n /\ cells[h + NextFrom(n, h) - 1].pos >= 0
  <2>1. taken \in SUBSET Nat /\ taken \subseteq 0..(n - 1)
    BY <1>1 DEF TakenFrom
  <2>2. MinOf(taken) \in taken
    BY <1>4, <2>1, MinExists
  <2>3. MinOf(taken) \in 0..(n - 1) /\ cells[h + MinOf(taken)].pos >= 0
    BY <2>1, <2>2 DEF TakenFrom
  <2> DEFINE i == MinOf(taken)
  <2>4. NextFrom(n, h) = i + 1
    BY DEF NextFrom
  <2> HIDE DEF i, taken
  <2>5. i \in Nat /\ i <= n - 1
    BY <1>1, <2>3 DEF i
  <2>6. h + NextFrom(n, h) - 1 = h + i
    BY <2>4, <2>5
  <2> QED
    BY <1>1, <2>3, <2>4, <2>5, <2>6 DEF i
<1> QED
  BY <1>3, <1>4

\* Starting over leaves fewer rounds.
LEMMA WrappedLess ==
  ASSUME NEW n \in 1..Size, NEW s \in Search, s.head + n > Size
  PROVE  /\ Wrapped(s) \in Search
         /\ Left(n, Wrapped(s)) \in Nat
         /\ Left(n, Wrapped(s)) < Left(n, s)
<1>1. /\ s.head \in Nat /\ s.head <= Size /\ s.tested \in Nat
      /\ Size \in Nat /\ n \in Nat /\ n <= Size
  BY CacheAssumption DEF Search
<1> DEFINE t == s.tested + Size - s.head
<1>2. t \in Nat /\ t >= s.tested
  BY <1>1
<1>3. Wrapped(s) \in Search /\ Wrapped(s).head = 0 /\ Wrapped(s).tested = t
  BY <1>1, <1>2 DEF Wrapped, At, Search
<1> HIDE DEF t
<1> QED
  BY <1>1, <1>2, <1>3 DEF Left

\* So does moving on.
LEMMA PastLess ==
  ASSUME CellsInv, NEW n \in 1..Size, NEW s \in Search, ~(s.head + n > Size),
         TakenFrom(n, s.head) # {}, ~(s.tested + NextFrom(n, s.head) >= Size)
  PROVE  /\ Past(n, s) \in Search
         /\ Left(n, Past(n, s)) \in Nat
         /\ Left(n, Past(n, s)) < Left(n, s)
<1>1. /\ s.head \in Nat /\ s.head + n <= Size /\ s.tested \in Nat
      /\ Size \in Nat /\ n \in Nat /\ n <= Size
  BY CacheAssumption DEF Search
<1> DEFINE k == NextFrom(n, s.head)
<1>2. k \in Nat /\ 1 <= k /\ k <= n
  <2>1. k \in 1..n
    BY <1>1, TakenFirst
  <2> HIDE DEF k
  <2> QED
    BY <1>1, <2>1
<1>3. s.tested + k < Size
  BY <1>1, <1>2
<1>4. /\ Past(n, s) \in Search
      /\ Past(n, s).head = s.head + k /\ Past(n, s).tested = s.tested + k
  BY <1>1, <1>2 DEF Past, At, Search
<1> HIDE DEF k
<1>5. Left(n, s) = 2 * (Size - s.tested)
  BY <1>1, <1>2, <1>3 DEF Left
<1>6. /\ Left(n, Past(n, s)) \in Nat
      /\ Left(n, Past(n, s)) <= 2 * (Size - s.tested - k) + 1
  BY <1>1, <1>2, <1>3, <1>4 DEF Left
<1> QED
  BY <1>1, <1>2, <1>4, <1>5, <1>6

\* The rounds left are a number.
LEMMA LeftType ==
  ASSUME NEW n \in 1..Size, NEW s \in Search
  PROVE  Left(n, s) \in Nat /\ Left(n, s) < 2 * Size + 2
<1>1. s.head \in Nat /\ s.tested \in Nat /\ Size \in Nat /\ n \in Nat
  BY CacheAssumption DEF Search
<1> QED
  BY <1>1 DEF Left

\* f is its own round wherever fewer than m rounds are left.
Settled(n, f, m) == \A s \in Search : Left(n, s) < m => f[s] = Round(n, f)[s]

\* Another round settles one more.
LEMMA SettledMore ==
  ASSUME CellsInv, NEW n \in 1..Size, NEW m \in Nat, NEW f, Settled(n, f, m)
  PROVE  Settled(n, Round(n, f), m + 1)
<1> SUFFICES ASSUME NEW s \in Search, Left(n, s) < m + 1
             PROVE  Round(n, f)[s] = Round(n, Round(n, f))[s]
  BY DEF Settled
<1>0. Left(n, s) \in Nat
  BY LeftType
<1>1. ASSUME NEW r \in Search, Left(n, r) \in Nat, Left(n, r) < Left(n, s)
      PROVE  f[r] = Round(n, f)[r]
  <2>1. Left(n, r) < m
    BY <1>0, <1>1
  <2> QED
    BY <2>1 DEF Settled
<1> DEFINE g == Round(n, f)
<1>2. CASE s.head + n > Size
  <2>1. f[Wrapped(s)] = g[Wrapped(s)]
    BY <1>1, <1>2, WrappedLess
  <2>2. Round(n, f)[s] = f[Wrapped(s)]
    BY <1>2 DEF Round
  <2> HIDE DEF g
  <2>3. Round(n, g)[s] = g[Wrapped(s)]
    BY <1>2 DEF Round
  <2> QED
    BY <2>1, <2>2, <2>3 DEF g
<1>3. CASE ~(s.head + n > Size) /\ TakenFrom(n, s.head) = {}
  <2> HIDE DEF g
  <2>1. Round(n, f)[s] = Round(n, g)[s]
    BY <1>3 DEF Round
  <2> QED
    BY <2>1 DEF g
<1>4. CASE /\ ~(s.head + n > Size) /\ TakenFrom(n, s.head) # {}
           /\ s.tested + NextFrom(n, s.head) >= Size
  <2> HIDE DEF g
  <2>1. Round(n, f)[s] = Round(n, g)[s]
    BY <1>4 DEF Round
  <2> QED
    BY <2>1 DEF g
<1>5. CASE /\ ~(s.head + n > Size) /\ TakenFrom(n, s.head) # {}
           /\ ~(s.tested + NextFrom(n, s.head) >= Size)
  <2>1. f[Past(n, s)] = g[Past(n, s)]
    BY <1>1, <1>5, PastLess
  <2>2. Round(n, f)[s] = f[Past(n, s)]
    BY <1>5 DEF Round
  <2> HIDE DEF g
  <2>3. Round(n, g)[s] = g[Past(n, s)]
    BY <1>5 DEF Round
  <2> QED
    BY <2>1, <2>2, <2>3 DEF g
<1> QED
  BY <1>2, <1>3, <1>4, <1>5

\* There is a function that is its own round: the loop ends wherever it starts.
LEMMA ScanExists ==
  ASSUME CellsInv, NEW n \in 1..Size
  PROVE  \E f : f = Round(n, f)
<1> DEFINE open == {m \in Nat : ~\E f : Settled(n, f, m)}
<1>1. ASSUME open # {} PROVE FALSE
  <2>1. PICK m \in open : \A k \in open : m <= k
    <3>1. open \in SUBSET Nat
      OBVIOUS
    <3> HIDE DEF open
    <3> QED
      BY <1>1, <3>1, LeastNatural
  <2>2. m # 0
    <3>1. Settled(n, Round(n, n), 0)
      <4>1. \A s \in Search : ~(Left(n, s) < 0)
        BY LeftType
      <4> QED
        BY <4>1 DEF Settled
    <3> QED
      BY <3>1
  <2>3. m - 1 \in Nat /\ ~(m <= m - 1) /\ m - 1 + 1 = m
    BY <2>2
  <2>4. PICK f : Settled(n, f, m - 1)
    BY <2>1, <2>3
  <2>5. Settled(n, Round(n, f), m - 1 + 1)
    BY <2>3, <2>4, SettledMore
  <2> QED
    BY <2>3, <2>5
<1>2. 2 * Size + 2 \in Nat
  BY CacheAssumption
<1>3. PICK f : Settled(n, f, 2 * Size + 2)
  BY <1>1, <1>2
<1>4. \A s \in Search : f[s] = Round(n, f)[s]
  BY <1>3, LeftType DEF Settled
<1> DEFINE g == Round(n, f)
<1>5. \A s \in Search : g[s] = f[s]
  BY <1>4
<1>6. g = [s \in Search |-> g[s]] /\ DOMAIN g = Search
  BY DEF Round
<1>7. \A s \in Search : Round(n, g)[s] = g[s]
  <2> SUFFICES ASSUME NEW s \in Search PROVE Round(n, g)[s] = Round(n, f)[s]
    OBVIOUS
  <2>1. CASE s.head + n > Size
    <3>1. g[Wrapped(s)] = f[Wrapped(s)]
      BY <1>5, <2>1, WrappedLess
    <3> HIDE DEF g
    <3> QED
      BY <2>1, <3>1 DEF Round
  <2>2. CASE /\ ~(s.head + n > Size)
             /\ TakenFrom(n, s.head) = {} \/ s.tested + NextFrom(n, s.head) >= Size
    <3> HIDE DEF g
    <3> QED
      BY <2>2 DEF Round
  <2>3. CASE /\ ~(s.head + n > Size) /\ TakenFrom(n, s.head) # {}
             /\ ~(s.tested + NextFrom(n, s.head) >= Size)
    <3>1. g[Past(n, s)] = f[Past(n, s)]
      BY <1>5, <2>3, PastLess
    <3> HIDE DEF g
    <3> QED
      BY <2>3, <3>1 DEF Round
  <2> QED
    BY <2>1, <2>2, <2>3
<1> HIDE DEF g
<1>8. Round(n, g) = g
  <2>1. Round(n, g) = [s \in Search |-> Round(n, g)[s]]
    BY DEF Round
  <2> QED
    BY <1>6, <1>7, <2>1
<1> QED
  BY <1>8

\* Scan is its own round: there is a function that is, and CHOOSE takes one.
LEMMA ScanFixed ==
  ASSUME CellsInv, NEW n \in 1..Size
  PROVE  Scan(n) = Round(n, Scan(n))
BY ScanExists, ScanChoice

\* What a round returns, in each of its cases.
LEMMA ScanRound ==
  ASSUME CellsInv, NEW n \in 1..Size, NEW s \in Search
  PROVE  /\ s.head + n > Size => Scan(n)[s] = Scan(n)[Wrapped(s)]
         /\ ~(s.head + n > Size) /\ TakenFrom(n, s.head) = {} =>
              Scan(n)[s] = [found |-> TRUE, at |-> s.head]
         /\ ~(s.head + n > Size) /\ TakenFrom(n, s.head) # {} =>
              Scan(n)[s] = IF s.tested + NextFrom(n, s.head) >= Size
                           THEN [found |-> FALSE, at |-> s.head + NextFrom(n, s.head)]
                           ELSE Scan(n)[Past(n, s)]
<1> DEFINE f == Scan(n)
<1>1. f[s] = Round(n, f)[s]
  BY ScanFixed
<1> HIDE DEF f
<1>2. /\ s.head + n > Size => Round(n, f)[s] = f[Wrapped(s)]
      /\ ~(s.head + n > Size) /\ TakenFrom(n, s.head) = {} =>
           Round(n, f)[s] = [found |-> TRUE, at |-> s.head]
      /\ ~(s.head + n > Size) /\ TakenFrom(n, s.head) # {} =>
           Round(n, f)[s] = IF s.tested + NextFrom(n, s.head) >= Size
                            THEN [found |-> FALSE, at |-> s.head + NextFrom(n, s.head)]
                            ELSE f[Past(n, s)]
  BY DEF Round
<1> QED
  BY <1>1, <1>2 DEF f

-----------------------------------------------------------------------------
\* The rounds find the slot.

\* The loop that began at start has come to s without having started over: there
\* is no slot in between.
Ahead(n, start, s) ==
  /\ s.head >= start
  /\ s.tested = s.head - start
  /\ \A g \in start..(s.head - 1) : ~Fits(g, n)

\* It has started over: there is no slot from start on, and none before s.
Around(n, start, s) ==
  /\ s.tested = Size - start + s.head
  /\ \A g \in Nat : g >= start \/ g < s.head => ~Fits(g, n)

\* It has come to the end of the cells twice: there is no slot.
Exhausted(n) == \A g \in Nat : ~Fits(g, n)

Searching(n, start, s) == Ahead(n, start, s) \/ Around(n, start, s) \/ Exhausted(n)

\* The right answer.
Answers(n, start, r) ==
  IF \E h \in Cell : Fits(h, n)
  THEN r.found /\ r.at \in Cell /\ SlotFrom(start, n, r.at)
  ELSE ~r.found /\ r.at - 1 \in Cell /\ cells[r.at - 1].pos >= 0

\* A slot ends within the cells.
LEMMA FitsWithin ==
  ASSUME NEW n \in 1..Size, NEW g \in Nat, Fits(g, n)
  PROVE  g + n <= Size /\ g \in Cell
BY CacheAssumption DEF Fits, Cell

\* There is no slot in the cells a round leaves behind.
LEMMA NoneBehind ==
  ASSUME CellsInv, NEW n \in 1..Size, NEW h \in Nat, h + n <= Size, TakenFrom(n, h) # {},
         NEW g \in Nat, h <= g, g < h + NextFrom(n, h)
  PROVE  ~Fits(g, n)
<1> DEFINE k == NextFrom(n, h)
<1>1. k \in 1..n /\ cells[h + k - 1].pos >= 0 /\ n \in Nat
  BY TakenFirst, CacheAssumption
<1> HIDE DEF k
<1>2. h + k - 1 \in g..(g + n - 1) /\ h + k - 1 \in Cell
  BY <1>1, CacheAssumption DEF Cell, k
<1>3. cells[h + k - 1].pos \in Int
  BY <1>2, CellFields
<1>4. ~(cells[h + k - 1].pos < 0)
  BY <1>1, <1>3
<1> QED
  BY <1>2, <1>4 DEF Fits

\* Starting over keeps the invariant of the loop.
LEMMA SearchingWrapped ==
  ASSUME NEW n \in 1..Size, NEW start \in 0..Size, NEW s \in Search,
         s.head + n > Size, Searching(n, start, s)
  PROVE  Searching(n, start, Wrapped(s))
<1>1. /\ s.head \in Nat /\ s.head <= Size /\ s.tested \in Nat
      /\ Size \in Nat /\ n \in Nat /\ n <= Size /\ start \in Nat
  BY CacheAssumption DEF Search
<1>2. Wrapped(s).head = 0 /\ Wrapped(s).tested = s.tested + Size - s.head
  BY DEF Wrapped, At
<1>3. ASSUME NEW g \in Nat, g >= s.head PROVE ~Fits(g, n)
  BY <1>1, <1>3, FitsWithin
<1>4. CASE Ahead(n, start, s)
  <2>1. \A g \in Nat : g >= start => ~Fits(g, n)
    <3> SUFFICES ASSUME NEW g \in Nat, g >= start, g < s.head PROVE ~Fits(g, n)
      BY <1>1, <1>3
    <3>1. g \in start..(s.head - 1)
      BY <1>1
    <3> QED
      BY <1>4, <3>1 DEF Ahead
  <2>2. Wrapped(s).tested = Size - start + Wrapped(s).head
    BY <1>1, <1>2, <1>4 DEF Ahead
  <2>3. \A g \in Nat : ~(g < Wrapped(s).head)
    BY <1>2
  <2> QED
    BY <2>1, <2>2, <2>3 DEF Searching, Around
<1>5. CASE Around(n, start, s)
  <2>1. \A g \in Nat : ~Fits(g, n)
    BY <1>1, <1>3, <1>5 DEF Around
  <2> QED
    BY <2>1 DEF Searching, Exhausted
<1> QED
  BY <1>4, <1>5 DEF Searching

\* Moving past the first taken cell keeps the invariant of the loop.
LEMMA SearchingPast ==
  ASSUME CellsInv, NEW n \in 1..Size, NEW start \in 0..Size, NEW s \in Search,
         ~(s.head + n > Size), TakenFrom(n, s.head) # {}, Searching(n, start, s)
  PROVE  Searching(n, start, Past(n, s))
<1>1. /\ s.head \in Nat /\ s.head + n <= Size /\ s.tested \in Nat
      /\ Size \in Nat /\ n \in Nat /\ start \in Nat
  BY CacheAssumption DEF Search
<1> DEFINE k == NextFrom(n, s.head)
<1>2. k \in Nat /\ 1 <= k /\ k <= n
  <2>1. k \in 1..n
    BY <1>1, TakenFirst
  <2> HIDE DEF k
  <2> QED
    BY <1>1, <2>1
<1>3. Past(n, s).head = s.head + k /\ Past(n, s).tested = s.tested + k
  BY DEF Past, At
<1>4. \A g \in Nat : s.head <= g /\ g < s.head + k => ~Fits(g, n)
  BY <1>1, NoneBehind
<1> HIDE DEF k
<1>5. CASE Ahead(n, start, s)
  <2>1. s.head >= start /\ s.tested = s.head - start
    BY <1>5 DEF Ahead
  <2>2. ASSUME NEW g \in start..(s.head + k - 1) PROVE ~Fits(g, n)
    <3>1. g \in Nat /\ g < s.head + k /\ start <= g
      BY <1>1, <1>2
    <3>2. CASE g >= s.head
      BY <1>1, <1>4, <3>1, <3>2
    <3>3. CASE ~(g >= s.head)
      <4>1. g \in start..(s.head - 1)
        BY <1>1, <3>1, <3>3
      <4> QED
        BY <1>5, <4>1 DEF Ahead
    <3> QED
      BY <3>2, <3>3
  <2> QED
    BY <1>1, <1>2, <1>3, <2>1, <2>2 DEF Searching, Ahead
<1>6. CASE Around(n, start, s)
  <2>1. s.tested = Size - start + s.head
    BY <1>6 DEF Around
  <2>2. ASSUME NEW g \in Nat, g >= start \/ g < s.head + k PROVE ~Fits(g, n)
    BY <1>1, <1>2, <1>4, <1>6, <2>2 DEF Around
  <2> QED
    BY <1>1, <1>2, <1>3, <2>1, <2>2 DEF Searching, Around
<1> QED
  BY <1>5, <1>6 DEF Searching

\* A search that stops at a slot stops at the right one.
LEMMA FoundAnswers ==
  ASSUME CellsInv, NEW n \in 1..Size, NEW start \in 0..Size, NEW s \in Search,
         ~(s.head + n > Size), TakenFrom(n, s.head) = {}, Searching(n, start, s)
  PROVE  Answers(n, start, [found |-> TRUE, at |-> s.head])
<1>1. /\ s.head \in Nat /\ s.head + n <= Size /\ s.tested \in Nat
      /\ Size \in Nat /\ n \in Nat /\ start \in Nat
  BY CacheAssumption DEF Search
<1>2. Fits(s.head, n) /\ s.head \in Cell
  BY <1>1, TakenFirst, FitsWithin
<1>3. SlotFrom(start, n, s.head)
  <2>1. CASE Ahead(n, start, s)
    BY <1>2, <2>1 DEF Ahead, SlotFrom
  <2>2. CASE Around(n, start, s)
    <3>1. s.head < start
      BY <1>1, <1>2, <2>2 DEF Around
    <3>2. \A g \in Cell : g < s.head \/ g >= start => ~Fits(g, n)
      BY <1>1, <2>2 DEF Around, Cell
    <3> QED
      BY <1>2, <3>1, <3>2 DEF SlotFrom
  <2>3. ~Exhausted(n)
    BY <1>1, <1>2 DEF Exhausted
  <2> QED
    BY <2>1, <2>2, <2>3 DEF Searching
<1> QED
  BY <1>2, <1>3 DEF Answers

\* A search that gives up has met every cell.
LEMMA GivenUpAnswers ==
  ASSUME CellsInv, NEW n \in 1..Size, NEW start \in 0..Size, NEW s \in Search,
         ~(s.head + n > Size), TakenFrom(n, s.head) # {}, Searching(n, start, s),
         s.tested + NextFrom(n, s.head) >= Size
  PROVE  Answers(n, start, [found |-> FALSE, at |-> s.head + NextFrom(n, s.head)])
<1>1. /\ s.head \in Nat /\ s.head + n <= Size /\ s.tested \in Nat
      /\ Size \in Nat /\ n \in Nat /\ start \in Nat
  BY CacheAssumption DEF Search
<1> DEFINE k == NextFrom(n, s.head)
<1>2. k \in Nat /\ 1 <= k /\ k <= n /\ cells[s.head + k - 1].pos >= 0
  BY <1>1, TakenFirst
<1>3. Past(n, s).head = s.head + k /\ Past(n, s).tested = s.tested + k
  BY DEF Past, At
<1>4. Searching(n, start, Past(n, s))
  BY SearchingPast
<1> HIDE DEF k
<1>5. s.tested + k >= Size
  BY DEF k
<1>6. ASSUME NEW g \in Cell, Fits(g, n) PROVE FALSE
  <2>1. g \in Nat /\ g < Size /\ g + n <= Size
    BY <1>1, <1>6, FitsWithin DEF Cell
  <2>2. CASE Ahead(n, start, Past(n, s))
    <3>1. start <= s.head + k /\ s.tested + k = s.head + k - start
      BY <1>1, <1>2, <1>3, <2>2 DEF Ahead
    <3>2. start = 0 /\ s.head + k = Size
      BY <1>1, <1>2, <1>5, <3>1
    <3>3. g \in start..(Past(n, s).head - 1)
      BY <1>1, <1>3, <2>1, <3>2
    <3> QED
      BY <1>6, <2>2, <3>3 DEF Ahead
  <2>3. CASE Around(n, start, Past(n, s))
    <3>1. s.tested + k = Size - start + (s.head + k)
      BY <1>3, <2>3 DEF Around
    <3>2. start <= s.head + k
      BY <1>1, <1>2, <1>5, <3>1
    <3>3. g >= start \/ g < Past(n, s).head
      BY <1>1, <1>2, <1>3, <2>1, <3>2
    <3> QED
      BY <1>6, <2>1, <2>3, <3>3 DEF Around
  <2>4. ~Exhausted(n)
    BY <1>6, <2>1 DEF Exhausted
  <2> QED
    BY <1>4, <2>2, <2>3, <2>4 DEF Searching
<1> DEFINE r == [found |-> FALSE, at |-> s.head + k]
<1>7. ~r.found /\ r.at = s.head + k
  OBVIOUS
<1> HIDE DEF r
<1>8. r.at - 1 \in Cell /\ cells[r.at - 1].pos >= 0
  <2>1. r.at - 1 = s.head + k - 1 /\ s.head + k - 1 \in 0..(Size - 1)
    BY <1>1, <1>2, <1>7
  <2>2. cells[s.head + k - 1].pos >= 0
    BY <1>2 DEF k
  <2> QED
    BY <2>1, <2>2 DEF Cell
<1>9. Answers(n, start, r)
  BY <1>6, <1>7, <1>8 DEF Answers
<1> QED
  BY <1>9 DEF r, k

\* Wherever the search has come to, its answer is right.
LEMMA SearchAnswers ==
  ASSUME CellsInv, NEW n \in 1..Size, NEW start \in 0..Size
  PROVE  \A s \in Search : Searching(n, start, s) => Answers(n, start, Scan(n)[s])
<1> DEFINE Wrong(s) == Searching(n, start, s) /\ ~Answers(n, start, Scan(n)[s])
           rounds == {Left(n, s) : s \in {r \in Search : Wrong(r)}}
<1>1. rounds \in SUBSET Nat
  BY LeftType
<1>2. ASSUME rounds # {} PROVE FALSE
  <2>1. PICK m \in rounds : \A k \in rounds : m <= k
    <3> HIDE DEF rounds
    <3> QED
      BY <1>1, <1>2, LeastNatural
  <2>2. PICK s \in Search : Wrong(s) /\ m = Left(n, s)
    BY <2>1
  <2>3. Left(n, s) \in Nat
    BY LeftType
  <2>4. ASSUME NEW r \in Search, Left(n, r) < Left(n, s), Searching(n, start, r)
        PROVE  Answers(n, start, Scan(n)[r])
    <3>1. Left(n, r) \in Nat
      BY LeftType
    <3>2. Left(n, r) \notin rounds
      BY <2>1, <2>2, <2>3, <2>4, <3>1
    <3> QED
      BY <2>4, <3>2
  <2>5. Searching(n, start, s)
    BY <2>2
  <2>6. Answers(n, start, Scan(n)[s])
    <3>1. CASE s.head + n > Size
      BY <2>4, <2>5, <3>1, WrappedLess, SearchingWrapped, ScanRound
    <3>2. CASE ~(s.head + n > Size) /\ TakenFrom(n, s.head) = {}
      BY <2>5, <3>2, FoundAnswers, ScanRound
    <3>3. CASE /\ ~(s.head + n > Size) /\ TakenFrom(n, s.head) # {}
               /\ s.tested + NextFrom(n, s.head) >= Size
      BY <2>5, <3>3, GivenUpAnswers, ScanRound
    <3>4. CASE /\ ~(s.head + n > Size) /\ TakenFrom(n, s.head) # {}
               /\ ~(s.tested + NextFrom(n, s.head) >= Size)
      BY <2>4, <2>5, <3>4, PastLess, SearchingPast, ScanRound
    <3> QED
      BY <3>1, <3>2, <3>3, <3>4
  <2> QED
    BY <2>2, <2>6
<1> QED
  BY <1>2

\* The loop of find_slot ends wherever head is, with the first slot from there on,
\* around the end of the cells if need be, and past a taken cell if there is none.
THEOREM ScanFindsSlotAlways == Spec => []ScanFindsSlot
<1>1. CellsInv => ScanFindsSlot
  <2> SUFFICES ASSUME CellsInv, NEW start \in 0..Size, NEW n \in 1..Size
               PROVE  Answers(n, start, Scan(n)[At(start, 0)])
    BY DEF ScanFindsSlot, Answers
  <2> DEFINE s == At(start, 0)
  <2>1. s \in Search /\ s.head = start /\ s.tested = 0 /\ start \in Nat
    BY CacheAssumption DEF At, Search
  <2> HIDE DEF s
  <2>2. \A g \in Int : g \notin start..(start - 1)
    BY <2>1
  <2>3. Searching(n, start, s)
    BY <2>1, <2>2 DEF Searching, Ahead
  <2> QED
    BY <2>1, <2>3, SearchAnswers DEF s
<1> QED
  BY <1>1, CellsAlways, PTL

\* Where the loop ends is where FindSlot takes the slot.
SlotIsScanned ==
  phase = "slot" /\ UBatchLen <= Size =>
    LET result == Scan(UBatchLen)[At(SearchStart, 0)]
    IN /\ \A h \in Cell : SlotFrom(SearchStart, UBatchLen, h) <=> result.found /\ result.at = h
       /\ ~result.found <=> ~\E h \in Cell : Fits(h, UBatchLen)

\* There is one first slot only.
LEMMA OneSlot ==
  ASSUME NEW start \in 0..Size, NEW n \in 1..Size, NEW g \in Cell, NEW h \in Cell,
         SlotFrom(start, n, g), SlotFrom(start, n, h)
  PROVE  g = h
<1>1. g \in Nat /\ h \in Nat /\ start \in Nat
  BY CacheAssumption DEF Cell
<1>2. Fits(g, n) /\ Fits(h, n)
  BY DEF SlotFrom
<1>3. \A a, b \in Nat : start <= a /\ a < b => a \in start..(b - 1)
  BY <1>1
<1>4. ASSUME NEW a \in Cell, NEW b \in Cell, a \in Nat, b \in Nat, Fits(a, n),
             SlotFrom(start, n, b), a < b
      PROVE  a < start /\ b >= start
  <2>1. CASE b >= start
    <3>1. ~(start <= a)
      BY <1>1, <1>3, <1>4, <2>1 DEF SlotFrom
    <3> QED
      BY <1>1, <1>4, <2>1, <3>1
  <2>2. CASE b < start
    BY <1>1, <1>4, <2>2 DEF SlotFrom
  <2> QED
    BY <1>1, <1>4, <2>1, <2>2
<1>5. ASSUME NEW a \in Cell, NEW b \in Cell, a \in Nat, b \in Nat, Fits(b, n),
             SlotFrom(start, n, a), a < start, b >= start
      PROVE  FALSE
  BY <1>1, <1>5 DEF SlotFrom
<1>6. ~(g < h)
  BY <1>1, <1>2, <1>4, <1>5
<1>7. ~(h < g)
  BY <1>1, <1>2, <1>4, <1>5
<1> QED
  BY <1>1, <1>6, <1>7

\* FindSlot, which says in one step what slot is taken, takes the one the loop of
\* find_slot ends at, and NoSlot is for when the loop finds none.
THEOREM SlotIsScannedAlways == Spec => []SlotIsScanned
<1>1. TypeOK /\ ScanFindsSlot => SlotIsScanned
  <2> SUFFICES ASSUME TypeOK, ScanFindsSlot, phase = "slot", UBatchLen <= Size
               PROVE  SlotIsScanned
    BY DEF SlotIsScanned
  <2> DEFINE n == UBatchLen
             start == SearchStart
             r == Scan(n)[At(start, 0)]
  <2>1. n \in 1..Size
    <3>1. Len(batch) \in Nat /\ batch # <<>>
      BY DEF TypeOK
    <3>2. Len(batch) > 0
      BY <3>1 DEF TypeOK
    <3> QED
      BY <3>1, <3>2, CacheAssumption DEF UBatchLen
  <2>2. start \in 0..Size
    BY CacheAssumption DEF TypeOK, SearchStart
  <2>3. IF \E h \in Cell : Fits(h, n)
        THEN r.found /\ r.at \in Cell /\ SlotFrom(start, n, r.at)
        ELSE ~r.found
    BY <2>1, <2>2 DEF ScanFindsSlot
  <2>4. ASSUME NEW h \in Cell
        PROVE  SlotFrom(start, n, h) <=> r.found /\ r.at = h
    <3>1. SlotFrom(start, n, h) => Fits(h, n)
      BY DEF SlotFrom
    <3> HIDE DEF n, start, r
    <3> QED
      BY <2>1, <2>2, <2>3, <3>1, OneSlot
  <2> QED
    BY <2>3, <2>4 DEF SlotIsScanned
<1> QED
  BY <1>1, TypeOKAlways, ScanFindsSlotAlways, PTL

-----------------------------------------------------------------------------
\* The calls end.

\* The steps a call of llama_decode or llama_kv_self_update may take at most: for
\* each token left an update, a hole per cell, a slot and a graph.
StepsLeft ==
  IF phase \in {"idle", "dead"} THEN 0
  ELSE Len(batch) * (Size + 4) + (CASE phase = "update" -> Size + 4
                                    [] phase = "defrag" -> Size - hole + 3
                                    [] phase = "slot" -> 2
                                    [] phase = "compute" -> 1)

CallEnds == [][phase \notin {"idle", "dead"} => StepsLeft' < StepsLeft]_vars

\* What is left of a batch after a graph with some of its tokens.
LEMMA FewerTokens ==
  ASSUME NEW w \in Nat, NEW k \in Nat, NEW m \in Nat, m < k
  PROVE  m * w + w <= k * w /\ m * w \in Nat /\ k * w \in Nat
OBVIOUS

\* A hole that is filled is behind: the search for the next goes on past it.
LEMMA HoleAdvances ==
  ASSUME CellsInv, TypeOK, FillHole
  PROVE  hole < hole' /\ hole' <= Size
<1>1. hole' = MaxOf(FirstHole) + 1 /\ Holes # {}
  BY DEF FillHole
<1>2. FirstHole \subseteq Holes /\ FirstHole # {} /\ Holes \subseteq Cell
  BY <1>1, HoleFacts
<1>3. MaxOf(FirstHole) \in FirstHole
  <2>1. FirstHole \in SUBSET (0..Size)
    BY <1>2, CacheAssumption DEF Cell
  <2> QED
    BY <1>2, <2>1, CacheAssumption, MaxExists
<1>4. MaxOf(FirstHole) \in Cell /\ MaxOf(FirstHole) \in hole..(used - 1)
  BY <1>2, <1>3 DEF Holes
<1> DEFINE last == MaxOf(FirstHole)
<1>5. last \in Nat /\ last < Size /\ hole <= last /\ hole \in Nat /\ Size \in Nat
  BY <1>4, CacheAssumption DEF Cell, TypeOK
<1>6. hole' = last + 1
  BY <1>1
<1> HIDE DEF last
<1> QED
  BY <1>5, <1>6

\* Once a call of llama_decode or llama_kv_self_update has begun, each of its steps
\* leaves fewer: the ubatches, the holes and the graphs come to an end, whatever
\* fails, if the process is not aborted first.
THEOREM CallEndsAlways == Spec => CallEnds
<1>1. ASSUME CellsInv, TypeOK, TypeOK', [Next]_vars
      PROVE  [phase \notin {"idle", "dead"} => StepsLeft' < StepsLeft]_vars
  <2> SUFFICES ASSUME Next, phase \notin {"idle", "dead"} PROVE StepsLeft' < StepsLeft
    BY <1>1
  <2> DEFINE w == Size + 4
             k == Len(batch)
  <2>1. /\ Size \in Nat /\ w \in Nat /\ k \in Nat /\ hole \in 0..Size
        /\ phase \in {"idle", "update", "defrag", "slot", "compute", "dead"}
        /\ k * w \in Nat
    <3>1. Size \in Nat /\ k \in Nat
      BY <1>1, CacheAssumption DEF TypeOK
    <3>2. k * w \in Nat
      BY <3>1
    <3> QED
      BY <1>1, <3>1, <3>2 DEF TypeOK
  <2>2. /\ phase = "update" => StepsLeft = k * w + w
        /\ phase = "defrag" => StepsLeft = k * w + (Size - hole + 3)
        /\ phase = "slot" => StepsLeft = k * w + 2
        /\ phase = "compute" => StepsLeft = k * w + 1
    BY DEF StepsLeft
  <2>3. /\ phase' \in {"idle", "dead"} => StepsLeft' = 0
        /\ phase' = "defrag" => StepsLeft' = Len(batch') * w + (Size - hole' + 3)
        /\ phase' = "slot" => StepsLeft' = Len(batch') * w + 2
        /\ phase' = "compute" => StepsLeft' = Len(batch') * w + 1
        /\ phase' = "update" => StepsLeft' = Len(batch') * w + w
    BY DEF StepsLeft
  <2>4. phase' \in {"idle", "dead"} => StepsLeft' < StepsLeft
    <3> HIDE DEF w, k
    <3>1. w >= 4
      BY <2>1 DEF w
    <3>2. StepsLeft > 0
      BY <2>1, <2>2, <3>1
    <3> QED
      BY <2>3, <3>2
  <2>5. ASSUME Resume, batch' = batch, phase \in {"update", "defrag"}
        PROVE  StepsLeft' < StepsLeft
    <3>1. phase' \in {"idle", "slot"}
      BY <2>5 DEF Resume
    <3>2. Len(batch') = k
      BY <2>5
    <3> HIDE DEF w, k
    <3>3. w >= 4 /\ Size - hole + 3 >= 3
      BY <2>1 DEF w
    <3> QED
      BY <2>1, <2>2, <2>3, <2>4, <2>5, <3>1, <3>2, <3>3
  <2>6. ASSUME ShiftOver, phase = "update", UNCHANGED batch
        PROVE  StepsLeft' < StepsLeft
    <3>1. CASE doDefrag
      <4>1. phase' = "defrag" /\ hole' = 0 /\ Len(batch') = k
        BY <2>6, <3>1 DEF ShiftOver
      <4> HIDE DEF k
      <4> QED
        BY <2>1, <2>2, <2>3, <2>6, <4>1
    <3>2. CASE ~doDefrag
      BY <2>5, <2>6, <3>2 DEF ShiftOver
    <3> QED
      BY <3>1, <3>2
  <2>7. CASE ApplyShift \/ ShiftFails
    BY <2>6, <2>7 DEF ApplyShift, ShiftFails, ShiftOver, call
  <2>8. CASE FillHole
    <3>1. phase = "defrag" /\ phase' = "defrag" /\ Len(batch') = k
      BY <2>8 DEF FillHole, call
    <3>2. hole < hole' /\ hole' <= Size /\ hole' \in 0..Size
      BY <1>1, <2>8, HoleAdvances DEF TypeOK
    <3> DEFINE m == k * w
    <3>3. m \in Nat /\ StepsLeft = m + (Size - hole + 3) /\ StepsLeft' = m + (Size - hole' + 3)
      BY <2>1, <2>2, <2>3, <3>1
    <3> HIDE DEF m
    <3>4. Size \in Int /\ hole \in Int /\ hole' \in Int
      BY <2>1, <3>2
    <3>5. \A b, h, g \in Int : h < g => m + (b - g + 3) < m + (b - h + 3)
      BY <3>3
    <3>6. m + (Size - hole' + 3) < m + (Size - hole + 3)
      BY <3>2, <3>4, <3>5
    <3> QED
      BY <3>3, <3>6
  <2>9. CASE DefragDone
    BY <2>5, <2>9 DEF DefragDone, call
  <2>10. CASE \E h \in Cell : FindSlot(h)
    <3>1. phase = "slot" /\ phase' = "compute" /\ Len(batch') = k
      BY <2>10 DEF FindSlot
    <3> HIDE DEF w, k
    <3> QED
      BY <2>1, <2>2, <2>3, <3>1
  <2>11. CASE Compute
    <3>1. phase = "compute" /\ phase' \in {"idle", "update"}
          /\ batch' = SubSeq(batch, UBatchLen + 1, Len(batch))
      BY <2>11 DEF Compute
    <3>2. Len(batch') \in Nat /\ Len(batch') < k
      <4>1. batch # <<>> /\ batch \in Seq([tok : 1..MaxTokens, pos : 0..MaxPos, seqs : (SUBSET Seqs) \ {{}}])
        BY <1>1, <3>1 DEF TypeOK
      <4>2. UBatchLen \in Nat /\ UBatchLen > 0 /\ UBatchLen <= k
        BY <4>1, CacheAssumption DEF UBatchLen
      <4> QED
        BY <3>1, <4>1, <4>2
    <3>3. Len(batch') * w + w <= k * w
      BY <2>1, <3>2, FewerTokens
    <3>4. Len(batch') * w \in Nat
      BY <2>1, <3>2, FewerTokens
    <3>5. CASE phase' = "update"
      <4> DEFINE m == k * w
                 l == Len(batch') * w
      <4>1. m \in Nat /\ l \in Nat /\ l + w <= m /\ StepsLeft = m + 1 /\ StepsLeft' = l + w
        BY <2>1, <2>2, <2>3, <3>1, <3>3, <3>4, <3>5
      <4> HIDE DEF m, l, w
      <4> QED
        BY <2>1, <4>1
    <3> QED
      BY <2>4, <3>1, <3>5
  <2>12. CASE NoSlot \/ ComputeFails
    BY <2>4, <2>12 DEF NoSlot, ComputeFails, Restore
  <2>13. CASE \/ SeqOps \/ Clear \/ Defrag \/ KvSelfUpdate \/ Rest
              \/ \E S \in (SUBSET Seqs) \ {{}}, n \in 1..MaxBatch : BeginDecode(S, n)
    <3>1. phase \in {"idle", "dead"}
      BY <2>13, SeqOpsLeave DEF Clear, Defrag, KvSelfUpdate, Rest, BeginDecode, Called
    <3> QED
      BY <3>1
  <2>14. CASE CannotShift
    BY <2>4, <2>14 DEF CannotShift
  <2> QED
    BY <2>7, <2>8, <2>9, <2>10, <2>11, <2>12, <2>13, <2>14 DEF Next
<1> QED
  BY <1>1, CellsAlways, TypeOKAlways, PTL DEF Spec, CallEnds

=============================================================================
