--------------------------- MODULE KvCache_proofs ---------------------------
(***************************************************************************)
(* Proofs about the KV cache, for every number of cells, every set of      *)
(* sequences, every batch size and every choice of the operations the user *)
(* calls: what is owed to the data, and how many cells are in use.         *)
(***************************************************************************)
EXTENDS KvCache, FiniteSetTheorems, WellFoundedInduction, SequenceTheorems, TLAPS

Phases == {"idle", "update", "defrag", "slot", "compute", "dead"}

CellType == [pos : -1..MaxPos, delta : Int, seqs : SUBSET Seqs]

TokenType == [tok : Nat, pos : 0..MaxPos, seqs : (SUBSET Seqs) \ {{}}]

\* Types, as far as the proofs need them.
Shape ==
  /\ cells \in [Cell -> CellType]
  /\ \A i \in Cell : cells[i].pos = -1 <=> cells[i].seqs = {}
  /\ data \in [Cell -> [tok : Nat, rot : Int]]
  /\ hasShift \in BOOLEAN
  /\ phase \in Phases
  /\ batch \in Seq(TokenType)
  /\ decoded \in Nat
  /\ pending \subseteq Cell

\* Deltas come with the flag, which is down once the slots are looked for.
Flagged ==
  /\ ~hasShift => \A i \in Cell : cells[i].delta = 0
  /\ phase \in {"defrag", "slot", "compute"} => ~hasShift

\* The cells of the ubatch hold its positions already, and are part of what is
\* given up on failure.
SlotTaken ==
  phase = "compute" =>
    /\ head \in Cell
    /\ Writing \subseteq Cell
    /\ Writing \subseteq pending
    /\ \A i \in Writing : cells[i].pos = batch[i - head + 1].pos

\* RotationOwed for the slots of the batch that are written already, as well.
OwedExactly ==
  \A i \in InUse(cells) \ Writing : data[i].rot + cells[i].delta = cells[i].pos

\* The inductive invariant of the cells; OwedExactly joins it where no graph
\* fails.
CellsInv == Shape /\ Flagged /\ SlotTaken

-----------------------------------------------------------------------------

\* A set of numbers that is not empty has a least element.
LEMMA LeastNatural ==
  ASSUME NEW S \in SUBSET Nat, S # {}
  PROVE  \E n \in S : \A m \in S : n <= m
<1> DEFINE R == OpToRel(<, Nat)
<1>1. IsWellFoundedOn(R, Nat)
  BY NatLessThanWellFounded
<1>2. \A m, n \in Nat : m < n => <<m, n>> \in R
  BY Zenon DEF OpToRel
<1> HIDE DEF R
<1>3. PICK n \in S : \A m \in S : <<m, n>> \notin R
  BY <1>1, WFMin
<1>4. \A m \in S : ~(m < n)
  BY <1>2, <1>3, Zenon
<1>5. \A m \in S : n <= m
  BY <1>4
<1> QED
  BY <1>5

\* MinOf finds the least number of a set.
LEMMA MinExists ==
  ASSUME NEW S \in SUBSET Nat, S # {}
  PROVE  MinOf(S) \in S /\ \A y \in S : MinOf(S) <= y
BY LeastNatural DEF MinOf

\* MaxOf finds the greatest of a set of integers that has a bound.
LEMMA MaxBelow ==
  ASSUME NEW n \in Int, NEW S \in SUBSET Int, S # {}, \A x \in S : x <= n
  PROVE  MaxOf(S) \in S /\ \A y \in S : y <= MaxOf(S)
<1> DEFINE T == {n - x : x \in S}
<1>1. T \in SUBSET Nat
  OBVIOUS
<1>2. T # {}
  OBVIOUS
<1>3. PICK t \in T : \A u \in T : t <= u
  BY <1>1, <1>2, LeastNatural
<1>4. PICK x \in S : t = n - x
  BY <1>3
<1>5. ASSUME NEW y \in S PROVE y <= x
  <2>1. t <= n - y
    BY <1>3
  <2>2. x \in Int /\ y \in Int
    OBVIOUS
  <2> QED
    BY <1>4, <2>1, <2>2
<1>6. \A y \in S : x >= y
  <2> TAKE y \in S
  <2>1. y <= x /\ x \in Int /\ y \in Int
    BY <1>5
  <2> QED
    BY <2>1
<1>7. \E z \in S : \A y \in S : z >= y
  BY <1>6
<1>8. MaxOf(S) \in S /\ \A y \in S : MaxOf(S) >= y
  BY <1>7, Zenon DEF MaxOf
<1> DEFINE max == MaxOf(S)
<1>9. max \in S /\ max \in Int /\ \A y \in S : y \in Int /\ max >= y
  BY <1>8
<1> HIDE DEF max
<1>10. \A y \in S : y <= max
  BY <1>9
<1> QED
  BY <1>8, <1>10 DEF max

\* The greatest of a finite set of numbers.
LEMMA MaxExists ==
  ASSUME NEW n \in Nat, NEW S \in SUBSET (0..n), S # {}
  PROVE  MaxOf(S) \in S /\ \A y \in S : y <= MaxOf(S)
<1>1. S \in SUBSET Int /\ n \in Int /\ \A x \in S : x <= n
  OBVIOUS
<1>2. S \in SUBSET Int
  BY <1>1
<1> QED
  BY <1>1, <1>2, MaxBelow, Zenon

\* New tokens get positions that are no longer than none.
LEMMA NextPosType ==
  ASSUME Shape
  PROVE  /\ NextPos \in Nat
         /\ \A i \in Cell : cells[i].pos < NextPos
         /\ NextPos = 0 \/ \E i \in Cell : cells[i].pos + 1 = NextPos
<1> DEFINE known == {cells[i].pos : i \in Cell}
<1>1. \A x \in known : x \in -1..MaxPos
  BY DEF Shape, CellType
<1>2. known # {}
  BY CacheAssumption DEF Cell
<1>3. \A i \in Cell : cells[i].pos \in known
  OBVIOUS
<1>4. \A x \in known : \E i \in Cell : cells[i].pos = x
  OBVIOUS
<1>5. NextPos = MaxOf(known) + 1
  BY DEF NextPos
<1> HIDE DEF known
<1>6. MaxPos \in Int /\ \A x \in known : x \in Int /\ x <= MaxPos /\ x >= -1
  BY <1>1, CacheAssumption
<1>7. MaxOf(known) \in known /\ \A y \in known : y <= MaxOf(known)
  BY <1>2, <1>6, MaxBelow
<1> QED
  BY <1>3, <1>4, <1>5, <1>6, <1>7

\* A graph takes at least one token of a batch, and no more than it has.
LEMMA UBatchLenType ==
  ASSUME batch \in Seq(TokenType)
  PROVE  UBatchLen \in Nat /\ UBatchLen <= Len(batch) /\ (batch # <<>> => UBatchLen > 0)
BY CacheAssumption DEF UBatchLen

LEMMA CellsInit == Init => CellsInv /\ OwedExactly
<1> SUFFICES ASSUME Init PROVE CellsInv /\ OwedExactly
  OBVIOUS
<1>1. Shape
  <2>1. Fresh \in CellType /\ NoRow \in [tok : Nat, rot : Int]
    BY CacheAssumption DEF Fresh, NoRow, CellType
  <2>2. <<>> \in Seq(TokenType)
    OBVIOUS
  <2>3. Fresh.pos = -1 /\ Fresh.seqs = {}
    BY DEF Fresh
  <2> QED
    BY <2>1, <2>2, <2>3 DEF Init, Shape, Phases
<1>2. Flagged
  BY DEF Init, Flagged, Fresh
<1>3. SlotTaken
  BY DEF Init, SlotTaken
<1>4. OwedExactly
  BY DEF Init, OwedExactly, InUse, Fresh
<1> QED
  BY <1>1, <1>2, <1>3, <1>4 DEF CellsInv

\* Between two calls nothing is being written.
LEMMA IdleWriting ==
  phase # "compute" => Writing = {}
BY DEF Writing

\* An operation that changes cells only, with the phase idle, need only be
\* looked at cell by cell.
LEMMA CellByCell ==
  ASSUME CellsInv, phase = "idle", UNCHANGED <<data, call, phase, decoded>>,
         NEW new \in [Cell -> CellType], cells' = new, hasShift' \in BOOLEAN,
         \A i \in Cell : new[i].pos = -1 <=> new[i].seqs = {},
         \A i \in Cell : new[i].delta = cells[i].delta \/ hasShift',
         hasShift => hasShift',
         OwedExactly =>
           \A i \in Cell : new[i].seqs # {} => data[i].rot + new[i].delta = new[i].pos
  PROVE  CellsInv' /\ (OwedExactly => OwedExactly')
<1>1. Shape'
  BY DEF CellsInv, Shape, call
<1>2. Flagged'
  BY DEF CellsInv, Shape, Flagged
<1>3. SlotTaken'
  BY DEF SlotTaken
<1>4. ASSUME OwedExactly PROVE OwedExactly'
  BY <1>4 DEF OwedExactly, InUse
<1> QED
  BY <1>1, <1>2, <1>3, <1>4 DEF CellsInv

\* What the owed shift of a cell is when nothing is being written.
LEMMA OwedIdle ==
  ASSUME CellsInv, phase # "compute", OwedExactly, NEW i \in Cell, cells[i].seqs # {}
  PROVE  data[i].rot + cells[i].delta = cells[i].pos
BY IdleWriting DEF OwedExactly, InUse, CellsInv, Shape

\* What the fields of a cell may hold.
LEMMA CellFields ==
  ASSUME CellsInv, NEW i \in Cell
  PROVE  /\ cells[i] \in CellType
         /\ cells[i].pos \in -1..MaxPos
         /\ cells[i].pos \in Int
         /\ cells[i].delta \in Int
         /\ cells[i].seqs \in SUBSET Seqs
         /\ cells[i].pos = -1 <=> cells[i].seqs = {}
         /\ cells[i].seqs # {} => cells[i].pos >= 0
         /\ data[i].rot \in Int
<1>1. /\ cells[i] \in CellType
      /\ cells[i].pos = -1 <=> cells[i].seqs = {}
      /\ data[i].rot \in Int
  BY DEF CellsInv, Shape
<1>2. cells[i].pos \in -1..MaxPos /\ cells[i].delta \in Int /\ cells[i].seqs \in SUBSET Seqs
  BY <1>1 DEF CellType
<1>3. \A p \in -1..MaxPos : p \in Int /\ (p # -1 => p >= 0)
  BY CacheAssumption
<1> QED
  BY <1>1, <1>2, <1>3

\* A cell stays one when sequences leave it.
LEMMA CellWithoutType ==
  ASSUME NEW c \in CellType, c.pos = -1 <=> c.seqs = {}, NEW seq
  PROVE  LET d == CellWithout(c, seq)
         IN /\ d \in CellType
            /\ d.delta = c.delta
            /\ d.pos = -1 <=> d.seqs = {}
            /\ d.seqs # {} => d.pos = c.pos /\ c.seqs # {}
<1> DEFINE d == CellWithout(c, seq)
<1>1. -1 \in -1..MaxPos
  BY CacheAssumption
<1>2. CASE seq = -1 \/ c.seqs \subseteq {seq}
  BY <1>1, <1>2 DEF CellWithout, Emptied, CellType
<1>3. CASE ~(seq = -1 \/ c.seqs \subseteq {seq})
  <2>1. d = [c EXCEPT !.seqs = @ \ {seq}]
    BY <1>3 DEF CellWithout
  <2>2. c.seqs \ {seq} \in SUBSET Seqs /\ c.seqs \ {seq} # {} /\ c.seqs # {}
    BY <1>3 DEF CellType
  <2> QED
    BY <2>1, <2>2 DEF CellType
<1> QED
  BY <1>2, <1>3

LEMMA CellsSeqRm ==
  ASSUME CellsInv, NEW seq, NEW p0, NEW p1, SeqRm(seq, p0, p1)
  PROVE  CellsInv' /\ (OwedExactly => OwedExactly')
<1> DEFINE hit == Matching(seq, p0, p1)
           new == [i \in Cell |-> IF i \in hit THEN CellWithout(cells[i], seq) ELSE cells[i]]
<1>1. phase = "idle" /\ cells' = new /\ UNCHANGED <<data, hasShift, call, phase, decoded>>
  BY DEF SeqRm, Called
<1>2. \A i \in Cell : /\ new[i] \in CellType
                      /\ new[i].delta = cells[i].delta
                      /\ new[i].pos = -1 <=> new[i].seqs = {}
                      /\ new[i].seqs # {} => new[i].pos = cells[i].pos /\ cells[i].seqs # {}
  <2> TAKE i \in Cell
  <2>1. cells[i] \in CellType /\ (cells[i].pos = -1 <=> cells[i].seqs = {})
    BY DEF CellsInv, Shape
  <2>2. CASE i \in hit
    BY <2>1, <2>2, CellWithoutType
  <2>3. CASE i \notin hit
    BY <2>1, <2>3
  <2> QED
    BY <2>2, <2>3
<1>3. new \in [Cell -> CellType]
  BY <1>2
<1>4. hasShift \in BOOLEAN
  BY DEF CellsInv, Shape
<1> HIDE DEF new
<1>5. OwedExactly => \A i \in Cell : new[i].seqs # {} => data[i].rot + new[i].delta = new[i].pos
  BY <1>1, <1>2, OwedIdle
<1> QED
  BY <1>1, <1>2, <1>3, <1>4, <1>5, CellByCell

LEMMA CellsSeqCp ==
  ASSUME CellsInv, NEW src \in Seqs, NEW dst \in Seqs, NEW p0, NEW p1,
         SeqCp(src, dst, p0, p1)
  PROVE  CellsInv' /\ (OwedExactly => OwedExactly')
<1> DEFINE hit == Matching(src, p0, p1)
           new == [i \in Cell |-> IF i \in hit
                                  THEN [cells[i] EXCEPT !.seqs = @ \union {dst}] ELSE cells[i]]
<1>1. phase = "idle" /\ cells' = new /\ UNCHANGED <<data, hasShift, call, phase, decoded>>
  BY DEF SeqCp, Called
<1>2. \A i \in hit : cells[i].seqs # {}
  BY CacheAssumption DEF Matching
<1>3. \A i \in Cell : /\ new[i] \in CellType
                      /\ new[i].delta = cells[i].delta
                      /\ new[i].pos = -1 <=> new[i].seqs = {}
                      /\ new[i].seqs # {} => new[i].pos = cells[i].pos /\ cells[i].seqs # {}
  <2> TAKE i \in Cell
  <2> QED
    BY <1>2, CellFields DEF CellType
<1>4. new \in [Cell -> CellType]
  BY <1>3
<1>5. hasShift \in BOOLEAN
  BY DEF CellsInv, Shape
<1> HIDE DEF new
<1>6. OwedExactly => \A i \in Cell : new[i].seqs # {} => data[i].rot + new[i].delta = new[i].pos
  BY <1>1, <1>3, OwedIdle
<1> QED
  BY <1>1, <1>3, <1>4, <1>5, <1>6, CellByCell

LEMMA CellsSeqKeep ==
  ASSUME CellsInv, NEW seq \in Seqs, SeqKeep(seq)
  PROVE  CellsInv' /\ (OwedExactly => OwedExactly')
<1> DEFINE dropped == {i \in Cell : seq \notin cells[i].seqs}
           new == [i \in Cell |-> IF i \in dropped
                                  THEN Emptied(cells[i])
                                  ELSE [cells[i] EXCEPT !.seqs = {seq}]]
<1>1. phase = "idle" /\ cells' = new /\ UNCHANGED <<data, hasShift, call, phase, decoded>>
  BY DEF SeqKeep, Called
<1>2. \A i \in Cell : /\ new[i] \in CellType
                      /\ new[i].delta = cells[i].delta
                      /\ new[i].pos = -1 <=> new[i].seqs = {}
                      /\ new[i].seqs # {} => new[i].pos = cells[i].pos /\ cells[i].seqs # {}
  <2> TAKE i \in Cell
  <2>1. -1 \in -1..MaxPos
    BY CacheAssumption
  <2>2. CASE i \in dropped
    BY <2>1, <2>2, CellFields DEF CellType, Emptied
  <2>3. CASE i \notin dropped
    BY <2>3, CellFields DEF CellType
  <2> QED
    BY <2>2, <2>3
<1>3. new \in [Cell -> CellType]
  BY <1>2
<1>4. hasShift \in BOOLEAN
  BY DEF CellsInv, Shape
<1> HIDE DEF new
<1>5. OwedExactly => \A i \in Cell : new[i].seqs # {} => data[i].rot + new[i].delta = new[i].pos
  BY <1>1, <1>2, OwedIdle
<1> QED
  BY <1>1, <1>2, <1>3, <1>4, <1>5, CellByCell

\* A cell that is emptied is one.
LEMMA EmptiedType ==
  ASSUME NEW c \in CellType
  PROVE  /\ Emptied(c) \in CellType
         /\ Emptied(c).pos = -1
         /\ Emptied(c).delta = c.delta
         /\ Emptied(c).seqs = {}
<1>1. -1 \in -1..MaxPos
  BY CacheAssumption
<1> QED
  BY <1>1 DEF Emptied, CellType

LEMMA CellsClear ==
  ASSUME CellsInv, Clear
  PROVE  CellsInv' /\ (OwedExactly => OwedExactly')
<1>1. /\ cells' = [i \in Cell |-> Emptied(cells[i])]
      /\ data' = [i \in Cell |-> NoRow]
      /\ phase = "idle"
      /\ UNCHANGED <<hasShift, call, phase, decoded>>
  BY DEF Clear, Called
<1>2. \A i \in Cell : cells[i] \in CellType
  BY DEF CellsInv, Shape
<1>3. NoRow \in [tok : Nat, rot : Int]
  BY DEF NoRow
<1>4. Shape'
  BY <1>1, <1>2, <1>3, EmptiedType DEF CellsInv, Shape, call
<1>5. Flagged'
  BY <1>1, <1>2, EmptiedType DEF CellsInv, Flagged
<1>6. SlotTaken'
  BY <1>1 DEF SlotTaken
<1>7. InUse(cells') = {}
  BY <1>1, <1>2, EmptiedType DEF InUse
<1> QED
  BY <1>4, <1>5, <1>6, <1>7 DEF CellsInv, OwedExactly

\* A cell stays one when its position is moved.
LEMMA ShiftedType ==
  ASSUME NEW c \in CellType, c.pos = -1 <=> c.seqs = {}, c.pos >= 0,
         NEW delta \in Int, c.pos + delta <= MaxPos
  PROVE  LET d == Shifted(c, delta)
         IN /\ d \in CellType
            /\ d.pos = -1 <=> d.seqs = {}
            /\ d.seqs # {} => c.seqs # {} /\ d.pos - d.delta = c.pos - c.delta
<1>1. -1 \in -1..MaxPos
  BY CacheAssumption
<1>2. CASE c.pos + delta < 0
  BY <1>1, <1>2 DEF Shifted, CellType
<1>3. CASE ~(c.pos + delta < 0)
  BY <1>3 DEF Shifted, CellType
<1> QED
  BY <1>2, <1>3

LEMMA CellsSeqAdd ==
  ASSUME CellsInv, NEW seq \in Seqs, NEW p0, NEW p1, NEW delta \in Int,
         SeqAdd(seq, p0, p1, delta)
  PROVE  CellsInv' /\ (OwedExactly => OwedExactly')
<1> DEFINE hit == Matching(seq, p0, p1)
           new == [i \in Cell |-> IF i \in hit THEN Shifted(cells[i], delta) ELSE cells[i]]
<1>1. /\ phase = "idle" /\ cells' = new /\ UNCHANGED <<data, call, phase, decoded>>
      /\ hasShift' = (hasShift \/ hit # {})
      /\ \A i \in hit : cells[i].pos + delta <= MaxPos
  BY DEF SeqAdd, Called
<1>2. \A i \in hit : i \in Cell /\ cells[i].seqs # {}
  BY CacheAssumption DEF Matching
<1>3. \A i \in hit : cells[i].pos >= 0
  BY <1>2, CellFields
<1>4. \A i \in Cell : /\ new[i] \in CellType
                      /\ new[i].pos = -1 <=> new[i].seqs = {}
                      /\ new[i].seqs # {} => /\ cells[i].seqs # {}
                                             /\ new[i].pos - new[i].delta
                                                  = cells[i].pos - cells[i].delta
                      /\ new[i].delta = cells[i].delta \/ hit # {}
  <2> TAKE i \in Cell
  <2>1. cells[i] \in CellType /\ (cells[i].pos = -1 <=> cells[i].seqs = {})
    BY DEF CellsInv, Shape
  <2>2. CASE i \in hit
    BY <1>1, <1>3, <2>1, <2>2, ShiftedType
  <2>3. CASE i \notin hit
    BY <2>1, <2>3
  <2> QED
    BY <2>2, <2>3
<1>5. new \in [Cell -> CellType]
  BY <1>4
<1>6. hasShift \in BOOLEAN
  BY DEF CellsInv, Shape
<1> HIDE DEF new, hit
<1>7. ASSUME OwedExactly, NEW i \in Cell, new[i].seqs # {}
      PROVE  data[i].rot + new[i].delta = new[i].pos
  <2>1. data[i].rot + cells[i].delta = cells[i].pos
    BY <1>1, <1>4, <1>7, OwedIdle
  <2>2. new[i].pos \in Int /\ new[i].delta \in Int
    BY <1>5 DEF CellType
  <2> QED
    BY <1>4, <1>7, <2>1, <2>2, CellFields
<1> QED
  BY <1>1, <1>4, <1>5, <1>6, <1>7, CellByCell

\* A cell stays one when its position is divided.
LEMMA DividedType ==
  ASSUME NEW c \in CellType, c.pos = -1 <=> c.seqs = {}, c.pos >= 0
  PROVE  LET d == Divided(c, 2)
         IN /\ d \in CellType
            /\ d.pos = -1 <=> d.seqs = {}
            /\ d.seqs # {} => c.seqs # {} /\ d.pos - d.delta = c.pos - c.delta
<1>1. c.pos \in Nat /\ c.pos <= MaxPos
  BY DEF CellType
<1>2. c.pos \div 2 \in 0..c.pos
  BY <1>1
<1> DEFINE q == c.pos \div 2
<1>3. Divided(c, 2) = [pos |-> q, delta |-> c.delta + q - c.pos, seqs |-> c.seqs]
  BY DEF Divided
<1>4. q \in -1..MaxPos /\ q # -1
  BY <1>1, <1>2, CacheAssumption
<1> HIDE DEF q
<1> QED
  BY <1>3, <1>4 DEF CellType

LEMMA CellsSeqDiv ==
  ASSUME CellsInv, NEW seq \in Seqs, NEW p0, NEW p1, SeqDiv(seq, p0, p1, 2)
  PROVE  CellsInv' /\ (OwedExactly => OwedExactly')
<1> DEFINE hit == Matching(seq, p0, p1)
           new == [i \in Cell |-> IF i \in hit THEN Divided(cells[i], 2) ELSE cells[i]]
<1>1. /\ phase = "idle" /\ cells' = new /\ UNCHANGED <<data, call, phase, decoded>>
      /\ hasShift' = (hasShift \/ hit # {})
  BY DEF SeqDiv, Called
<1>2. \A i \in hit : i \in Cell /\ cells[i].seqs # {}
  BY CacheAssumption DEF Matching
<1>3. \A i \in hit : cells[i].pos >= 0
  BY <1>2, CellFields
<1>4. \A i \in Cell : /\ new[i] \in CellType
                      /\ new[i].pos = -1 <=> new[i].seqs = {}
                      /\ new[i].seqs # {} => /\ cells[i].seqs # {}
                                             /\ new[i].pos - new[i].delta
                                                  = cells[i].pos - cells[i].delta
                      /\ new[i].delta = cells[i].delta \/ hit # {}
  <2> TAKE i \in Cell
  <2>1. cells[i] \in CellType /\ (cells[i].pos = -1 <=> cells[i].seqs = {})
    BY DEF CellsInv, Shape
  <2>2. CASE i \in hit
    BY <1>3, <2>1, <2>2, DividedType
  <2>3. CASE i \notin hit
    BY <2>1, <2>3
  <2> QED
    BY <2>2, <2>3
<1>5. new \in [Cell -> CellType]
  BY <1>4
<1>6. hasShift \in BOOLEAN
  BY DEF CellsInv, Shape
<1> HIDE DEF new, hit
<1>7. ASSUME OwedExactly, NEW i \in Cell, new[i].seqs # {}
      PROVE  data[i].rot + new[i].delta = new[i].pos
  <2>1. data[i].rot + cells[i].delta = cells[i].pos
    BY <1>1, <1>4, <1>7, OwedIdle
  <2>2. new[i].pos \in Int /\ new[i].delta \in Int
    BY <1>5 DEF CellType
  <2> QED
    BY <1>4, <1>7, <2>1, <2>2, CellFields
<1> QED
  BY <1>1, <1>4, <1>5, <1>6, <1>7, CellByCell

\* The calls that start an update or a batch leave the cells alone.
LEMMA CellsBegin ==
  ASSUME CellsInv,
         \/ Defrag
         \/ KvSelfUpdate
         \/ \E S \in (SUBSET Seqs) \ {{}}, n \in 1..MaxBatch : BeginDecode(S, n)
  PROVE  CellsInv' /\ (OwedExactly => OwedExactly')
<1>1. /\ phase = "idle"
      /\ UNCHANGED <<cells, data, hasShift>>
      /\ phase' \in {"idle", "update"}
  BY DEF Defrag, KvSelfUpdate, BeginDecode, Called, ring
<1>2. batch' \in Seq(TokenType) /\ pending' \subseteq Cell /\ decoded' \in Nat
  <2>1. CASE Defrag \/ KvSelfUpdate
    BY <2>1 DEF CellsInv, Shape, Defrag, KvSelfUpdate, call
  <2>2. ASSUME NEW S \in (SUBSET Seqs) \ {{}}, NEW n \in 1..MaxBatch, BeginDecode(S, n)
        PROVE  batch' \in Seq(TokenType) /\ pending' \subseteq Cell /\ decoded' \in Nat
    <3>1. NextPos \in Nat
      BY NextPosType DEF CellsInv
    <3>2. decoded \in Nat /\ n \in Nat
      BY DEF CellsInv, Shape
    <3>3. \A k \in 1..n : [tok |-> decoded + k, pos |-> NextPos + k - 1, seqs |-> S] \in TokenType
      BY <2>2, <3>1, <3>2, CacheAssumption DEF BeginDecode, TokenType
    <3> QED
      BY <2>2, <3>2, <3>3 DEF BeginDecode
  <2> QED
    BY <2>1, <2>2
<1>3. Shape'
  BY <1>1, <1>2 DEF CellsInv, Shape, Phases
<1>4. Flagged' /\ SlotTaken'
  BY <1>1 DEF CellsInv, Flagged, SlotTaken
<1>5. OwedExactly => OwedExactly'
  BY <1>1 DEF OwedExactly, Writing
<1> QED
  BY <1>3, <1>4, <1>5 DEF CellsInv

\* The end of an update: nothing is owed any more.
LEMMA CellsShiftOver ==
  ASSUME CellsInv, phase = "update", ShiftOver,
         cells' = IF hasShift THEN NoDeltas ELSE cells,
         data' \in [Cell -> [tok : Nat, rot : Int]]
  PROVE  CellsInv'
<1>1. /\ hasShift' = FALSE
      /\ phase' \in {"defrag", "idle", "slot"}
      /\ UNCHANGED <<call, decoded>>
  BY DEF ShiftOver, Resume
<1>2. \A i \in Cell : /\ cells'[i] \in CellType
                      /\ cells'[i].pos = cells[i].pos
                      /\ cells'[i].seqs = cells[i].seqs
                      /\ cells'[i].delta = 0
  <2> TAKE i \in Cell
  <2>1. cells[i] \in CellType
    BY DEF CellsInv, Shape
  <2>2. CASE hasShift
    <3>1. cells'[i] = [cells[i] EXCEPT !.delta = 0]
      BY <2>2 DEF NoDeltas
    <3> QED
      BY <2>1, <3>1 DEF CellType
  <2>3. CASE ~hasShift
    BY <2>1, <2>3 DEF CellsInv, Flagged
  <2> QED
    BY <2>2, <2>3
<1>3. cells' \in [Cell -> CellType]
  BY <1>2 DEF NoDeltas, CellsInv, Shape
<1>4. Shape'
  BY <1>1, <1>2, <1>3 DEF CellsInv, Shape, Phases, call
<1>5. Flagged' /\ SlotTaken'
  BY <1>1, <1>2 DEF Flagged, SlotTaken
<1> QED
  BY <1>4, <1>5 DEF CellsInv

LEMMA CellsApplyShift ==
  ASSUME CellsInv, ApplyShift
  PROVE  CellsInv' /\ (OwedExactly => OwedExactly')
<1>1. /\ phase = "update" /\ ShiftOver
      /\ cells' = IF hasShift THEN NoDeltas ELSE cells
  BY DEF ApplyShift
<1>2. \A i \in Cell : /\ data[i] \in [tok : Nat, rot : Int]
                      /\ [data[i] EXCEPT !.rot = @ + cells[i].delta] \in [tok : Nat, rot : Int]
  <2> TAKE i \in Cell
  <2>1. data[i] \in [tok : Nat, rot : Int] /\ cells[i].delta \in Int
    BY DEF CellsInv, Shape, CellType
  <2> QED
    BY <2>1
<1>3. data' \in [Cell -> [tok : Nat, rot : Int]]
  BY <1>2 DEF ApplyShift, CellsInv, Shape
<1>4. CellsInv'
  BY <1>1, <1>3, CellsShiftOver
<1>5. ASSUME OwedExactly, NEW i \in Cell, cells'[i].seqs # {}
      PROVE  data'[i].rot + cells'[i].delta = cells'[i].pos
  <2>1. cells[i] \in CellType /\ data[i] \in [tok : Nat, rot : Int]
    BY DEF CellsInv, Shape
  <2>2. CASE hasShift
    <3>1. /\ cells'[i] = [cells[i] EXCEPT !.delta = 0]
          /\ data'[i] = [data[i] EXCEPT !.rot = @ + cells[i].delta]
      BY <2>2 DEF ApplyShift, NoDeltas
    <3>2. /\ cells'[i].pos = cells[i].pos /\ cells'[i].delta = 0
          /\ cells'[i].seqs = cells[i].seqs
          /\ data'[i].rot = data[i].rot + cells[i].delta
      BY <2>1, <3>1 DEF CellType
    <3> QED
      BY <1>1, <1>5, <3>2, OwedIdle, CellFields
  <2>3. CASE ~hasShift
    BY <1>1, <1>5, <2>3, OwedIdle DEF ApplyShift
  <2> QED
    BY <2>2, <2>3
<1> QED
  BY <1>4, <1>5 DEF OwedExactly, InUse, CellsInv, Shape

LEMMA CellsShiftFails ==
  ASSUME CellsInv, ShiftFails
  PROVE  CellsInv'
BY CellsShiftOver DEF ShiftFails, CellsInv, Shape

\* A cell and its rows move together.
LEMMA CellsFillHole ==
  ASSUME CellsInv, FillHole
  PROVE  CellsInv' /\ (OwedExactly => OwedExactly')
<1> DEFINE gap == FirstHole
           fillers == FillersFor(gap)
           moved == {i \in fillers : moves + BlocksUpTo(fillers, i) <= MaxMoves}
           filled(h) == \E i \in moved : Home(gap, fillers, i) = h
           source(h) == CHOOSE i \in moved : Home(gap, fillers, i) = h
<1>1. /\ phase = "defrag"
      /\ cells' = [i \in Cell |-> IF filled(i) THEN cells[source(i)]
                                  ELSE IF i \in moved THEN Fresh ELSE cells[i]]
      /\ data' = [i \in Cell |-> IF filled(i) THEN data[source(i)] ELSE data[i]]
      /\ UNCHANGED <<hasShift, call, phase, decoded>>
  BY DEF FillHole
<1>2. \A h : filled(h) => source(h) \in moved
  OBVIOUS
<1>3. moved \subseteq Cell
  BY DEF FillersFor, InUse, CellsInv, Shape
<1> HIDE DEF source, filled, moved
<1>4. \A i \in Cell : \/ \E j \in Cell : cells'[i] = cells[j] /\ data'[i] = data[j]
                      \/ cells'[i] = Fresh /\ data'[i] = data[i]
  BY <1>1, <1>2, <1>3
<1>5. Fresh \in CellType /\ Fresh.pos = -1 /\ Fresh.seqs = {} /\ Fresh.delta = 0
  BY CacheAssumption DEF Fresh, CellType
<1>6. \A i \in Cell : cells[i] \in CellType /\ data[i] \in [tok : Nat, rot : Int]
  BY DEF CellsInv, Shape
<1>7. cells' \in [Cell -> CellType] /\ data' \in [Cell -> [tok : Nat, rot : Int]]
  BY <1>1, <1>2, <1>3, <1>5, <1>6
<1>8. \A i \in Cell : cells'[i].pos = -1 <=> cells'[i].seqs = {}
  BY <1>4, <1>5 DEF CellsInv, Shape
<1>9. Shape'
  BY <1>1, <1>7, <1>8 DEF CellsInv, Shape, call
<1>10. Flagged'
  BY <1>1, <1>4, <1>5 DEF CellsInv, Flagged
<1>11. SlotTaken'
  BY <1>1 DEF SlotTaken
<1>12. ASSUME OwedExactly PROVE OwedExactly'
  <2> SUFFICES ASSUME NEW i \in Cell, cells'[i].seqs # {}
               PROVE  data'[i].rot + cells'[i].delta = cells'[i].pos
    BY <1>7 DEF OwedExactly, InUse
  <2>1. PICK j \in Cell : cells'[i] = cells[j] /\ data'[i] = data[j]
    BY <1>4, <1>5
  <2> QED
    BY <1>1, <1>12, <2>1, OwedIdle
<1> QED
  BY <1>9, <1>10, <1>11, <1>12 DEF CellsInv

LEMMA CellsDefragDone ==
  ASSUME CellsInv, DefragDone
  PROVE  CellsInv' /\ (OwedExactly => OwedExactly')
<1>1. /\ phase = "defrag"
      /\ phase' \in {"idle", "slot"}
      /\ UNCHANGED <<cells, data, hasShift, call, decoded>>
  BY DEF DefragDone, Resume
<1>2. Shape'
  BY <1>1 DEF CellsInv, Shape, Phases, call
<1>3. Flagged' /\ SlotTaken'
  BY <1>1 DEF CellsInv, Flagged, SlotTaken
<1>4. OwedExactly => OwedExactly'
  BY <1>1 DEF OwedExactly, Writing
<1> QED
  BY <1>2, <1>3, <1>4 DEF CellsInv

LEMMA CellsFindSlot ==
  ASSUME CellsInv, NEW h \in Cell, FindSlot(h)
  PROVE  CellsInv' /\ (OwedExactly => OwedExactly')
<1> DEFINE n == UBatchLen
           slot == h..(h + n - 1)
           token(i) == batch[i - h + 1]
           taken(i) == Taken(cells[i], token(i))
<1>1. /\ phase = "slot" /\ phase' = "compute"
      /\ Fits(h, n)
      /\ cells' = [i \in Cell |-> IF i \in slot THEN taken(i) ELSE cells[i]]
      /\ head' = h
      /\ pending' = pending \union slot
      /\ UNCHANGED <<data, hasShift, batch, decoded>>
  BY DEF FindSlot, SlotFrom
<1>2. n \in Nat /\ n <= Len(batch) /\ batch \in Seq(TokenType)
  BY UBatchLenType DEF CellsInv, Shape
<1>3. UBatchLen' = n
  BY <1>1 DEF UBatchLen
<1>4. h \in Nat /\ slot \subseteq Cell
  <2>1. Size \in Nat /\ h \in Nat /\ h + n <= Size
    BY <1>1, CacheAssumption DEF Cell, Fits
  <2> QED
    BY <1>2, <2>1 DEF Cell
<1>5. Writing' = slot
  BY <1>1, <1>3 DEF Writing
<1>6. \A i \in slot : token(i) \in TokenType
  BY <1>2, <1>4
<1> HIDE DEF slot, token, n
<1>7. \A i \in Cell : /\ cells'[i] \in CellType
                      /\ cells'[i].pos = -1 <=> cells'[i].seqs = {}
                      /\ cells'[i].delta = cells[i].delta
                      /\ i \in slot => cells'[i].pos = token(i).pos
                      /\ i \notin slot => cells'[i] = cells[i]
  <2> TAKE i \in Cell
  <2>1. cells[i] \in CellType /\ (cells[i].pos = -1 <=> cells[i].seqs = {})
    BY DEF CellsInv, Shape
  <2>2. CASE i \in slot
    <3>1. token(i) \in TokenType /\ cells'[i] = taken(i)
      BY <1>1, <1>6, <2>2
    <3>2. token(i).pos \in -1..MaxPos /\ token(i).pos # -1
      BY <3>1, CacheAssumption DEF TokenType
    <3>3. cells[i].seqs \union token(i).seqs \in (SUBSET Seqs) \ {{}}
      BY <2>1, <3>1 DEF TokenType, CellType
    <3> QED
      BY <2>1, <2>2, <3>1, <3>2, <3>3 DEF CellType, Taken
  <2>3. CASE i \notin slot
    BY <1>1, <2>1, <2>3
  <2> QED
    BY <2>2, <2>3
<1>8. cells' \in [Cell -> CellType]
  BY <1>1, <1>7
<1>9. Shape'
  BY <1>1, <1>4, <1>7, <1>8 DEF CellsInv, Shape, Phases
<1>10. Flagged'
  BY <1>1, <1>7 DEF CellsInv, Flagged
<1>11. SlotTaken'
  BY <1>1, <1>4, <1>5, <1>7 DEF SlotTaken, token
<1>12. ASSUME OwedExactly PROVE OwedExactly'
  <2> SUFFICES ASSUME NEW i \in Cell, cells'[i].seqs # {}, i \notin slot
               PROVE  data'[i].rot + cells'[i].delta = cells'[i].pos
    BY <1>5, <1>8 DEF OwedExactly, InUse
  <2> QED
    BY <1>1, <1>7, <1>12, OwedIdle
<1> QED
  BY <1>9, <1>10, <1>11, <1>12 DEF CellsInv

LEMMA CellsCompute ==
  ASSUME CellsInv, Compute
  PROVE  CellsInv' /\ (OwedExactly => OwedExactly')
<1> DEFINE n == UBatchLen
           slot == head..(head + n - 1)
           token(i) == batch[i - head + 1]
<1>1. /\ phase = "compute" /\ phase' \in {"idle", "update"}
      /\ data' = [i \in Cell |-> IF i \in slot THEN [tok |-> token(i).tok, rot |-> token(i).pos]
                                 ELSE data[i]]
      /\ batch' = SubSeq(batch, n + 1, Len(batch))
      /\ pending' \in {{}, pending}
      /\ UNCHANGED <<cells, hasShift, decoded>>
  BY DEF Compute
<1>2. n \in Nat /\ n <= Len(batch) /\ batch \in Seq(TokenType)
  BY UBatchLenType DEF CellsInv, Shape
<1>3. /\ Writing = slot
      /\ slot \subseteq Cell
      /\ head \in Nat
      /\ \A i \in slot : cells[i].pos = token(i).pos
  BY <1>1, CacheAssumption DEF CellsInv, SlotTaken, Writing, Cell
<1>4. \A i \in slot : token(i) \in TokenType
  BY <1>2, <1>3
<1>5. batch' \in Seq(TokenType)
  BY <1>1, <1>2
<1> HIDE DEF slot, token, n
<1>6. \A i \in Cell : data'[i] \in [tok : Nat, rot : Int]
  BY <1>1, <1>4 DEF TokenType, CellsInv, Shape
<1>7. Shape'
  BY <1>1, <1>5, <1>6 DEF CellsInv, Shape, Phases
<1>8. Flagged' /\ SlotTaken'
  BY <1>1 DEF CellsInv, Flagged, SlotTaken
<1>9. ASSUME OwedExactly PROVE OwedExactly'
  <2> SUFFICES ASSUME NEW i \in Cell, cells[i].seqs # {}
               PROVE  data'[i].rot + cells[i].delta = cells[i].pos
    BY <1>1 DEF OwedExactly, InUse, CellsInv, Shape
  <2>1. CASE i \in slot
    <3>1. cells[i].delta = 0
      BY <1>1 DEF CellsInv, Flagged
    <3>2. data'[i].rot = cells[i].pos
      BY <1>1, <1>3, <2>1
    <3> QED
      BY <3>1, <3>2, CellFields
  <2>2. CASE i \notin slot
    BY <1>1, <1>3, <1>9, <2>2 DEF OwedExactly, InUse, CellsInv, Shape
  <2> QED
    BY <2>1, <2>2
<1> QED
  BY <1>7, <1>8, <1>9 DEF CellsInv

\* What a failed batch gives up is emptied; the rest stays as it is.
LEMMA CellsRestore ==
  ASSUME CellsInv, NEW h, Restore(h), ~hasShift
  PROVE  /\ CellsInv'
         /\ phase = "slot" => (OwedExactly => OwedExactly')
<1>1. /\ cells' = [i \in Cell |-> IF i \in GivenUp THEN Emptied(cells[i]) ELSE cells[i]]
      /\ batch' = <<>> /\ pending' = {} /\ phase' = "idle"
      /\ UNCHANGED <<data, hasShift, decoded>>
  BY DEF Restore
<1>2. \A i \in Cell : /\ cells[i] \in CellType
                      /\ cells[i].pos = -1 <=> cells[i].seqs = {}
                      /\ cells[i].delta = 0
  BY DEF CellsInv, Shape, Flagged
<1>3. \A i \in Cell : /\ cells'[i] \in CellType
                      /\ cells'[i].pos = -1 <=> cells'[i].seqs = {}
                      /\ cells'[i].delta = 0
                      /\ cells'[i].seqs # {} => cells'[i] = cells[i]
  BY <1>1, <1>2, EmptiedType
<1>4. cells' \in [Cell -> CellType]
  BY <1>1, <1>3
<1>5. Shape'
  BY <1>1, <1>3, <1>4 DEF CellsInv, Shape, Phases
<1>6. Flagged' /\ SlotTaken'
  BY <1>1, <1>3 DEF Flagged, SlotTaken
<1>7. ASSUME phase = "slot", OwedExactly PROVE OwedExactly'
  <2> SUFFICES ASSUME NEW i \in Cell, cells'[i].seqs # {}
               PROVE  data'[i].rot + cells'[i].delta = cells'[i].pos
    BY <1>4 DEF OwedExactly, InUse
  <2> QED
    BY <1>1, <1>3, <1>7, OwedIdle
<1> QED
  BY <1>5, <1>6, <1>7 DEF CellsInv

LEMMA CellsFailure ==
  ASSUME CellsInv, NoSlot \/ ComputeFails
  PROVE  /\ CellsInv'
         /\ "decode" \notin Faults => (OwedExactly => OwedExactly')
<1>1. CASE NoSlot
  <2>1. PICK h \in 0..Size : Restore(h)
    BY <1>1 DEF NoSlot
  <2> QED
    BY <1>1, <2>1, CellsRestore DEF NoSlot, CellsInv, Flagged
<1>2. CASE ComputeFails
  BY <1>2, CellsRestore DEF ComputeFails, CellsInv, Flagged
<1> QED
  BY <1>1, <1>2

-----------------------------------------------------------------------------

\* A process that is aborted keeps the cells as they are.
LEMMA CellsCannotShift ==
  ASSUME CellsInv, CannotShift
  PROVE  CellsInv' /\ (OwedExactly => OwedExactly')
<1>1. /\ phase = "update" /\ phase' = "dead"
      /\ UNCHANGED <<cells, data, hasShift, head, batch, pending, decoded>>
  BY DEF CannotShift, ring, call
<1> QED
  BY <1>1 DEF CellsInv, Shape, Phases, Flagged, SlotTaken, OwedExactly, InUse, Writing

\* Every step keeps the invariant of the cells.
LEMMA CellsStep ==
  ASSUME CellsInv, Next
  PROVE  CellsInv' /\ (Faults = {} => (OwedExactly => OwedExactly'))
<1>1. ASSUME NEW seq \in Seqs, SeqKeep(seq)
      PROVE  CellsInv' /\ (OwedExactly => OwedExactly')
  BY <1>1, CellsSeqKeep
<1>2. ASSUME NEW seq \in Seqs \union {-1}, NEW p0, NEW p1, SeqRm(seq, p0, p1)
      PROVE  CellsInv' /\ (OwedExactly => OwedExactly')
  BY <1>2, CellsSeqRm
<1>3. ASSUME NEW seq \in Seqs, NEW p0 \in Firsts, NEW p1 \in Lasts,
             \/ \E dst \in Seqs : SeqCp(seq, dst, p0, p1)
             \/ \E delta \in {-1, 1} : SeqAdd(seq, p0, p1, delta)
             \/ SeqDiv(seq, p0, p1, 2)
      PROVE  CellsInv' /\ (OwedExactly => OwedExactly')
  <2>1. \A delta \in {-1, 1} : delta \in Int
    OBVIOUS
  <2> QED
    BY <1>3, <2>1, CellsSeqCp, CellsSeqAdd, CellsSeqDiv
<1>4. CASE SeqOps
  BY <1>1, <1>2, <1>3, <1>4 DEF SeqOps
<1>5. CASE Clear
  BY <1>5, CellsClear
<1>6. CASE Defrag \/ KvSelfUpdate
           \/ \E S \in (SUBSET Seqs) \ {{}}, n \in 1..MaxBatch : BeginDecode(S, n)
  BY <1>6, CellsBegin
<1>7. CASE ApplyShift
  BY <1>7, CellsApplyShift
<1>8. CASE ShiftFails
  BY <1>8, CellsShiftFails DEF ShiftFails
<1>9. CASE FillHole
  BY <1>9, CellsFillHole
<1>10. CASE DefragDone
  BY <1>10, CellsDefragDone
<1>11. CASE \E h \in Cell : FindSlot(h)
  BY <1>11, CellsFindSlot
<1>12. CASE Compute
  BY <1>12, CellsCompute
<1>13. CASE NoSlot \/ ComputeFails
  BY <1>13, CellsFailure
<1>14. CASE Rest
  BY <1>14 DEF Rest, vars, ring, call, CellsInv, Shape, Flagged, SlotTaken, OwedExactly,
     InUse, Writing, UBatchLen
<1>15. CASE CannotShift
  BY <1>15, CellsCannotShift
<1> QED
  BY <1>4, <1>5, <1>6, <1>7, <1>8, <1>9, <1>10, <1>11, <1>12, <1>13, <1>14, <1>15 DEF Next

\* So does a step that leaves the cache alone.
LEMMA CellsStutter ==
  ASSUME UNCHANGED vars
  PROVE  (CellsInv => CellsInv') /\ (OwedExactly => OwedExactly')
BY DEF vars, ring, call, CellsInv, Shape, Flagged, SlotTaken, OwedExactly,
   InUse, Writing, UBatchLen

LEMMA CellsAlways == Spec => []CellsInv
<1>1. Init => CellsInv
  BY CellsInit
<1>2. CellsInv /\ [Next]_vars => CellsInv'
  BY CellsStep, CellsStutter
<1> QED
  BY <1>1, <1>2, PTL DEF Spec

\* While slots are looked for and filled, no shift is owed to any cell, whatever
\* the user asked for between two calls and whatever failed: a token decoded now
\* is never rotated by a shift that was meant for an earlier one
\* (kv_self_update in llama_context::decode).
THEOREM NothingOwedAlways == Spec => []NothingOwed
<1>1. CellsInv => NothingOwed
  BY DEF CellsInv, Flagged, NothingOwed
<1> QED
  BY <1>1, CellsAlways, PTL

\* Where no graph fails, the rotation of the K row of every token in use, with
\* the shift owed to it, is its position: through removals, copies, shifts,
\* divisions, defragmentation and batches that found no slot (llama-kv-cache.cpp).
THEOREM RotationOwedAlways ==
  ASSUME Faults = {}
  PROVE  Spec => []RotationOwed
<1>1. Init => CellsInv /\ OwedExactly
  BY CellsInit
<1>2. CellsInv /\ OwedExactly /\ [Next]_vars => (CellsInv /\ OwedExactly)'
  BY CellsStep, CellsStutter
<1>3. CellsInv /\ OwedExactly => RotationOwed
  BY DEF CellsInv, SlotTaken, OwedExactly, RotationOwed, Writing
<1> QED
  BY <1>1, <1>2, <1>3, PTL DEF Spec


-----------------------------------------------------------------------------
\* The count of the cells in use.

CountInv == CellsInv /\ UsedExact

\* The cells in use can be counted.
LEMMA InUseFinite ==
  ASSUME CellsInv
  PROVE  /\ InUse(cells) = {i \in Cell : cells[i].seqs # {}}
         /\ IsFiniteSet(InUse(cells))
         /\ Cardinality(InUse(cells)) \in Nat
<1>1. InUse(cells) = {i \in Cell : cells[i].seqs # {}}
  BY DEF InUse, CellsInv, Shape
<1>2. IsFiniteSet(Cell)
  BY FS_Interval, CacheAssumption DEF Cell
<1> QED
  BY <1>1, <1>2, FS_Subset, FS_CardinalityType

\* Taking the cells in S off the count when they are freed.
LEMMA CountFreed ==
  ASSUME CountInv, NEW S \in SUBSET InUse(cells),
         InUse(cells') = InUse(cells) \ S, used' = used - Cardinality(S)
  PROVE  UsedExact'
<1>1. IsFiniteSet(InUse(cells)) /\ used = Cardinality(InUse(cells))
  BY InUseFinite DEF CountInv, UsedExact
<1>2. InUse(cells) \intersect S = S
  OBVIOUS
<1>3. Cardinality(InUse(cells) \ S) = Cardinality(InUse(cells)) - Cardinality(S)
  BY <1>1, <1>2, FS_Difference
<1> QED
  BY <1>1, <1>3 DEF UsedExact

\* Nothing changes when every cell keeps whether it is in use.
LEMMA CountKept ==
  ASSUME CountInv, cells' \in [Cell -> CellType], used' = used,
         \A i \in Cell : cells'[i].seqs = {} <=> cells[i].seqs = {}
  PROVE  UsedExact'
<1>1. InUse(cells') = InUse(cells)
  BY DEF InUse, CountInv, CellsInv, Shape
<1> QED
  BY <1>1 DEF CountInv, UsedExact

LEMMA CountSeqRm ==
  ASSUME CountInv, CellsInv', NEW seq, NEW p0 \in Nat, NEW p1, SeqRm(seq, p0, p1)
  PROVE  UsedExact'
<1> DEFINE hit == Matching(seq, p0, p1)
           gone == Freed(hit, seq)
<1>1. /\ cells' = [i \in Cell |-> IF i \in hit THEN CellWithout(cells[i], seq) ELSE cells[i]]
      /\ used' = used - Cardinality(gone)
  BY DEF SeqRm
<1>2. CellsInv
  BY DEF CountInv
<1>3. hit \subseteq InUse(cells)
  <2> SUFFICES ASSUME NEW i \in hit PROVE i \in Cell /\ cells[i].seqs # {}
    BY <1>2, InUseFinite
  <2>1. i \in Cell /\ p0 <= cells[i].pos
    BY DEF Matching
  <2>2. cells[i].pos # -1
    BY <1>2, <2>1, CellFields
  <2> QED
    BY <1>2, <2>1, <2>2, CellFields
<1>4. gone \in SUBSET InUse(cells)
  BY <1>3 DEF Freed
<1>5. InUse(cells') = InUse(cells) \ gone
  <2>1. InUse(cells') = {i \in Cell : cells'[i].seqs # {}}
    BY <1>1 DEF InUse
  <2>2. \A i \in Cell : cells'[i].seqs # {} <=> cells[i].seqs # {} /\ i \notin gone
    <3> TAKE i \in Cell
    <3>1. CASE i \in hit
      BY <1>1, <1>2, <1>3, <3>1, InUseFinite DEF Freed
    <3>2. CASE i \notin hit
      BY <1>1, <3>2 DEF Freed
    <3> QED
      BY <3>1, <3>2
  <2> QED
    BY <1>2, <2>1, <2>2, InUseFinite
<1> QED
  BY <1>1, <1>4, <1>5, CountFreed

LEMMA CountSeqCp ==
  ASSUME CountInv, CellsInv', NEW src \in Seqs, NEW dst, NEW p0, NEW p1,
         SeqCp(src, dst, p0, p1)
  PROVE  UsedExact'
<1> DEFINE hit == Matching(src, p0, p1)
<1>1. /\ cells' = [i \in Cell |-> IF i \in hit THEN [cells[i] EXCEPT !.seqs = @ \union {dst}]
                                  ELSE cells[i]]
      /\ used' = used
  BY DEF SeqCp
<1>2. \A i \in hit : cells[i].seqs # {}
  BY CacheAssumption DEF Matching
<1>3. \A i \in Cell : cells[i] \in CellType
  BY DEF CountInv, CellsInv, Shape
<1>4. \A i \in Cell : cells'[i].seqs = {} <=> cells[i].seqs = {}
  BY <1>1, <1>2, <1>3 DEF CellType
<1> QED
  BY <1>1, <1>4, CountKept DEF CellsInv, Shape

LEMMA CountSeqKeep ==
  ASSUME CountInv, CellsInv', NEW seq \in Seqs, SeqKeep(seq)
  PROVE  UsedExact'
<1> DEFINE dropped == {i \in Cell : seq \notin cells[i].seqs}
           gone == {i \in dropped : cells[i].pos >= 0}
<1>1. /\ cells' = [i \in Cell |-> IF i \in dropped THEN Emptied(cells[i])
                                  ELSE [cells[i] EXCEPT !.seqs = {seq}]]
      /\ used' = used - Cardinality(gone)
  BY DEF SeqKeep
<1>2. CellsInv
  BY DEF CountInv
<1>3. \A i \in Cell : cells[i].pos >= 0 <=> cells[i].seqs # {}
  BY <1>2, CellFields
<1>4. \A i \in Cell : cells'[i].seqs # {} <=> i \notin dropped
  <2> TAKE i \in Cell
  <2>1. cells[i] \in CellType
    BY <1>2 DEF CellsInv, Shape
  <2> QED
    BY <1>1, <2>1, EmptiedType DEF CellType
<1>5. InUse(cells') = {i \in Cell : cells'[i].seqs # {}}
  BY <1>1 DEF InUse
<1>6. gone \in SUBSET InUse(cells) /\ InUse(cells') = InUse(cells) \ gone
  BY <1>2, <1>3, <1>4, <1>5, InUseFinite
<1> QED
  BY <1>1, <1>6, CountFreed

LEMMA CountSeqAdd ==
  ASSUME CountInv, CellsInv', NEW seq \in Seqs, NEW p0, NEW p1, NEW delta \in Int,
         SeqAdd(seq, p0, p1, delta)
  PROVE  UsedExact'
<1> DEFINE hit == Matching(seq, p0, p1)
           gone == Dropped(hit, delta)
<1>1. /\ cells' = [i \in Cell |-> IF i \in hit THEN Shifted(cells[i], delta) ELSE cells[i]]
      /\ used' = used - Cardinality(gone)
  BY DEF SeqAdd
<1>2. CellsInv
  BY DEF CountInv
<1>3. \A i \in hit : i \in Cell /\ cells[i].seqs # {}
  BY CacheAssumption DEF Matching
<1>4. \A i \in Cell : cells'[i].seqs # {} <=> cells[i].seqs # {} /\ i \notin gone
  BY <1>1, <1>3 DEF Shifted, Dropped
<1>5. InUse(cells') = {i \in Cell : cells'[i].seqs # {}}
  BY <1>1 DEF InUse
<1>6. gone \in SUBSET InUse(cells) /\ InUse(cells') = InUse(cells) \ gone
  BY <1>2, <1>3, <1>4, <1>5, InUseFinite DEF Dropped
<1> QED
  BY <1>1, <1>6, CountFreed

LEMMA CountSeqDiv ==
  ASSUME CountInv, CellsInv', NEW seq, NEW p0, NEW p1, NEW d, SeqDiv(seq, p0, p1, d)
  PROVE  UsedExact'
<1>1. \A i \in Cell : cells'[i].seqs = cells[i].seqs
  BY DEF SeqDiv, Divided
<1> QED
  BY <1>1, CountKept DEF SeqDiv, CellsInv, Shape

LEMMA CountClear ==
  ASSUME Clear
  PROVE  UsedExact'
<1>1. InUse(cells') = {} /\ used' = 0
  BY DEF Clear, InUse, Emptied
<1> QED
  BY <1>1, FS_EmptySet DEF UsedExact

LEMMA CountRestore ==
  ASSUME CountInv, CellsInv', NEW h, Restore(h)
  PROVE  UsedExact'
<1>1. /\ cells' = [i \in Cell |-> IF i \in GivenUp THEN Emptied(cells[i]) ELSE cells[i]]
      /\ used' = used - Cardinality(GivenUp)
  BY DEF Restore
<1>2. CellsInv /\ pending \subseteq Nat
  <2>1. Cell \subseteq Nat
    BY CacheAssumption DEF Cell
  <2> QED
    BY <2>1 DEF CountInv, CellsInv, Shape
<1>3. \A i \in GivenUp : i \in Cell /\ cells[i].pos # -1
  BY <1>2 DEF GivenUp
<1>4. GivenUp \in SUBSET InUse(cells)
  BY <1>2, <1>3, CellFields, InUseFinite
<1>5. \A i \in Cell : cells'[i].seqs # {} <=> cells[i].seqs # {} /\ i \notin GivenUp
  BY <1>1, <1>2, <1>3, CellFields, EmptiedType
<1>6. InUse(cells') = {i \in Cell : cells'[i].seqs # {}}
  BY <1>1 DEF InUse
<1>7. InUse(cells') = InUse(cells) \ GivenUp
  BY <1>2, <1>5, <1>6, InUseFinite
<1> QED
  BY <1>1, <1>4, <1>7, CountFreed

\* The cells of a slot, counted.
LEMMA IntervalCount ==
  ASSUME NEW a \in Nat, NEW n \in Nat
  PROVE  IsFiniteSet(a..(a + n - 1)) /\ Cardinality(a..(a + n - 1)) = n
<1> DEFINE b == a + n - 1
<1>1. a \in Int /\ b \in Int
  OBVIOUS
<1>2. b = a + n - 1
  OBVIOUS
<1> HIDE DEF b
<1>3. IsFiniteSet(a..b) /\ Cardinality(a..b) = IF a > b THEN 0 ELSE b - a + 1
  BY <1>1, FS_Interval
<1> QED
  BY <1>2, <1>3

LEMMA CountFindSlot ==
  ASSUME CountInv, CellsInv', NEW h \in Cell, FindSlot(h)
  PROVE  UsedExact'
<1> DEFINE n == UBatchLen
           slot == h..(h + n - 1)
<1>1. /\ Fits(h, n)
      /\ cells' = [i \in Cell |-> IF i \in slot THEN Taken(cells[i], batch[i - h + 1])
                                  ELSE cells[i]]
      /\ used' = used + n
  BY DEF FindSlot, SlotFrom
<1>2. CellsInv
  BY DEF CountInv
<1>3. n \in Nat /\ n <= Len(batch) /\ batch \in Seq(TokenType)
  BY <1>2, UBatchLenType DEF CellsInv, Shape
<1>4. h \in Nat /\ h + n <= Size /\ Size \in Nat
  BY <1>1, CacheAssumption DEF Cell, Fits
<1>5. slot \subseteq Cell /\ \A i \in slot : batch[i - h + 1] \in TokenType
  BY <1>3, <1>4 DEF Cell
<1>6. IsFiniteSet(slot) /\ Cardinality(slot) = n
  BY <1>3, <1>4, IntervalCount
<1>7. \A i \in slot : i \notin InUse(cells)
  <2> SUFFICES ASSUME NEW i \in slot PROVE cells[i].seqs = {}
    BY <1>2, InUseFinite
  <2>1. cells[i].pos < 0
    BY <1>1 DEF Fits
  <2> QED
    BY <1>2, <1>5, <2>1, CellFields
<1> HIDE DEF slot, n
<1>8. \A i \in Cell : cells'[i].seqs # {} <=> cells[i].seqs # {} \/ i \in slot
  BY <1>1, <1>5 DEF Taken, TokenType
<1>9. InUse(cells') = {i \in Cell : cells'[i].seqs # {}}
  BY <1>1 DEF InUse
<1>10. InUse(cells') = InUse(cells) \union slot /\ InUse(cells) \intersect slot = {}
  BY <1>2, <1>5, <1>7, <1>8, <1>9, InUseFinite
<1>11. Cardinality(InUse(cells')) = Cardinality(InUse(cells)) + n
  <2>1. IsFiniteSet(InUse(cells)) /\ Cardinality(InUse(cells)) \in Nat
    BY <1>2, InUseFinite
  <2>2. Cardinality(InUse(cells) \intersect slot) = 0
    BY <1>10, FS_EmptySet
  <2>3. Cardinality(InUse(cells) \union slot)
          = Cardinality(InUse(cells)) + Cardinality(slot) - Cardinality(InUse(cells) \intersect slot)
    BY <1>6, <2>1, FS_Union
  <2> QED
    BY <1>3, <1>6, <1>10, <2>1, <2>2, <2>3
<1> QED
  BY <1>1, <1>11 DEF CountInv, UsedExact

-----------------------------------------------------------------------------
\* Defragmentation: as many cells are filled as are moved.

\* The first hole is a run of empty cells that starts at the first empty cell.
LEMMA HoleFacts ==
  ASSUME CellsInv, Holes # {}
  PROVE  /\ FirstHole \subseteq Holes
         /\ Holes \subseteq Nat /\ Holes \subseteq Cell \ InUse(cells)
         /\ MinOf(Holes) \in FirstHole
         /\ MinOf(FirstHole) = MinOf(Holes)
         /\ IsFiniteSet(FirstHole) /\ Cardinality(FirstHole) \in Nat
<1>1. Holes \subseteq Nat /\ Holes \subseteq Cell \ InUse(cells)
  BY CacheAssumption DEF Holes, Cell
<1>2. MinOf(Holes) \in Holes /\ \A y \in Holes : MinOf(Holes) <= y
  BY <1>1, MinExists
<1> DEFINE first == MinOf(Holes)
<1>3. FirstHole = {i \in Holes : first..i \subseteq Holes}
  BY DEF FirstHole
<1>4. first..first \subseteq Holes
  BY <1>1, <1>2
<1>5. first \in FirstHole /\ FirstHole \subseteq Holes
  BY <1>2, <1>3, <1>4
<1>6. MinOf(FirstHole) \in FirstHole /\ \A y \in FirstHole : MinOf(FirstHole) <= y
  BY <1>1, <1>5, MinExists
<1>7. MinOf(FirstHole) = first
  <2>1. MinOf(FirstHole) <= first /\ first <= MinOf(FirstHole)
    BY <1>2, <1>5, <1>6
  <2>2. MinOf(FirstHole) \in Nat /\ first \in Nat
    BY <1>1, <1>5, <1>6
  <2> HIDE DEF first
  <2> QED
    BY <2>1, <2>2
<1>8. IsFiniteSet(FirstHole)
  <2>1. IsFiniteSet(Cell)
    BY FS_Interval, CacheAssumption DEF Cell
  <2> QED
    BY <1>1, <1>5, <2>1, FS_Subset
<1> QED
  BY <1>1, <1>5, <1>7, <1>8, FS_CardinalityType

\* No more cells are chosen than the hole has.
LEMMA FillersFew ==
  ASSUME CellsInv, NEW gap, Cardinality(gap) \in Nat
  PROVE  /\ FillersFor(gap) \subseteq InUse(cells)
         /\ FillersFor(gap) \subseteq Nat
         /\ IsFiniteSet(FillersFor(gap)) /\ Cardinality(FillersFor(gap)) \in Nat
         /\ Cardinality(FillersFor(gap)) <= Cardinality(gap)
<1> DEFINE F == FillersFor(gap)
           U == InUse(cells)
           after(i) == {j \in U : j > i}
<1>1. F \subseteq U /\ \A i \in F : Cardinality(after(i)) < Cardinality(gap)
  BY DEF FillersFor
<1>2. IsFiniteSet(U) /\ U \subseteq Nat
  BY InUseFinite, CacheAssumption DEF Cell
<1>3. IsFiniteSet(F) /\ Cardinality(F) \in Nat
  BY <1>1, <1>2, FS_Subset, FS_CardinalityType
<1>4. CASE F = {}
  BY <1>1, <1>2, <1>3, <1>4, FS_EmptySet
<1>5. CASE F # {}
  <2> DEFINE f == MinOf(F)
  <2>1. f \in F /\ \A y \in F : f <= y
    BY <1>1, <1>2, <1>5, MinExists
  <2>2. F \ {f} \subseteq after(f)
    BY <1>1, <1>2, <2>1
  <2>3. IsFiniteSet(after(f)) /\ Cardinality(after(f)) \in Nat
    BY <1>2, FS_Subset, FS_CardinalityType
  <2>4. Cardinality(F \ {f}) <= Cardinality(after(f))
    BY <2>2, <2>3, FS_Subset
  <2>5. Cardinality(F \ {f}) = Cardinality(F) - 1
    BY <1>3, <2>1, FS_RemoveElement
  <2> QED
    BY <1>1, <1>2, <1>3, <2>1, <2>3, <2>4, <2>5
<1> QED
  BY <1>4, <1>5

\* Every cell that is moved gets a cell of the hole to itself.
LEMMA HomeInHole ==
  ASSUME CellsInv, Holes # {},
         NEW i \in FillersFor(FirstHole)
  PROVE  Home(FirstHole, FillersFor(FirstHole), i) \in FirstHole
<1> DEFINE gap == FirstHole
           F == FillersFor(gap)
           before == {j \in F : j < i}
           g == MinOf(gap)
           k == Cardinality(before)
<1>1. /\ gap \subseteq Nat /\ g \in gap /\ g = MinOf(Holes)
      /\ IsFiniteSet(gap) /\ Cardinality(gap) \in Nat
      /\ Holes \subseteq Nat /\ gap \subseteq Holes
  BY HoleFacts
<1>2. IsFiniteSet(F) /\ Cardinality(F) \in Nat /\ Cardinality(F) <= Cardinality(gap) /\ F \subseteq Nat
  BY <1>1, FillersFew
<1>3. k \in Nat /\ k < Cardinality(gap)
  <2>1. before \subseteq F \ {i}
    BY <1>2
  <2>2. IsFiniteSet(F \ {i}) /\ Cardinality(F \ {i}) = Cardinality(F) - 1
    BY <1>2, FS_RemoveElement
  <2>3. IsFiniteSet(before) /\ k <= Cardinality(F \ {i})
    BY <2>1, <2>2, FS_Subset
  <2>4. k \in Nat
    BY <2>3, FS_CardinalityType
  <2> QED
    BY <1>1, <1>2, <2>2, <2>3, <2>4
<1>4. Home(gap, F, i) = g + k
  BY DEF Home
<1>5. \A x \in gap : g <= x /\ g..x \subseteq Holes
  BY <1>1, MinExists DEF FirstHole
<1> HIDE DEF k, g, gap
<1>6. ASSUME g + k \notin gap PROVE FALSE
  <2>1. gap \subseteq g..(g + k - 1)
    <3> SUFFICES ASSUME NEW x \in gap, x >= g + k PROVE FALSE
      BY <1>1, <1>3, <1>5
    <3>1. g + k \in g..x /\ g..(g + k) \subseteq g..x
      BY <1>1, <1>3
    <3>2. g + k \in Holes /\ g..(g + k) \subseteq Holes
      BY <1>5, <3>1
    <3>3. g + k \in gap
      BY <1>1, <3>2 DEF gap, FirstHole
    <3> QED
      BY <1>6, <3>3
  <2>2. g \in Nat
    BY <1>1
  <2>3. IsFiniteSet(g..(g + k - 1)) /\ Cardinality(g..(g + k - 1)) = k
    BY <1>3, <2>2, IntervalCount
  <2>4. Cardinality(gap) <= k
    <3>1. Cardinality(gap) <= Cardinality(g..(g + k - 1))
      BY <2>1, <2>3, FS_Subset
    <3> QED
      BY <2>3, <3>1
  <2> QED
    BY <1>1, <1>3, <2>4
<1> QED
  BY <1>4, <1>6 DEF gap

\* The fillers keep their order, so no two are moved to the same place.
LEMMA HomeInjective ==
  ASSUME NEW gap, MinOf(gap) \in Nat, NEW F \in SUBSET Nat, IsFiniteSet(F),
         NEW i \in F, NEW j \in F, i < j
  PROVE  Home(gap, F, i) < Home(gap, F, j)
<1> DEFINE before(x) == {l \in F : l < x}
<1>1. IsFiniteSet(before(i)) /\ IsFiniteSet(before(j))
  BY FS_Subset
<1>2. Cardinality(before(i)) \in Nat /\ Cardinality(before(j)) \in Nat
  BY <1>1, FS_CardinalityType
<1>3. before(i) \union {i} \subseteq before(j) /\ i \notin before(i)
  <2>1. \A l \in Nat : l < i => l < j
    OBVIOUS
  <2>2. ~(i < i)
    OBVIOUS
  <2> QED
    BY <2>1, <2>2
<1>4. Cardinality(before(i) \union {i}) = Cardinality(before(i)) + 1
  BY <1>1, <1>3, FS_AddElement
<1>5. Cardinality(before(i)) + 1 <= Cardinality(before(j))
  BY <1>1, <1>3, <1>4, FS_Subset
<1> QED
  BY <1>2, <1>5 DEF Home

LEMMA CountFillHole ==
  ASSUME CountInv, CellsInv', FillHole
  PROVE  UsedExact'
<1> DEFINE gap == FirstHole
           F == FillersFor(gap)
           moved == {i \in F : moves + BlocksUpTo(F, i) <= MaxMoves}
           home == [i \in moved |-> Home(gap, F, i)]
           homes == {home[i] : i \in moved}
           filled(h) == \E i \in moved : Home(gap, F, i) = h
           source(h) == CHOOSE i \in moved : Home(gap, F, i) = h
           U == InUse(cells)
<1>1. /\ Holes # {}
      /\ cells' = [i \in Cell |-> IF filled(i) THEN cells[source(i)]
                                  ELSE IF i \in moved THEN Fresh ELSE cells[i]]
      /\ used' = used
  BY DEF FillHole
<1>2. CellsInv
  BY DEF CountInv
<1>3. /\ IsFiniteSet(U) /\ Cardinality(U) \in Nat /\ U \subseteq Cell
      /\ \A i \in Cell : i \in U <=> cells[i].seqs # {}
  BY <1>2, InUseFinite
<1>4. /\ gap \subseteq Cell \ U /\ gap \subseteq Nat /\ MinOf(gap) \in gap
      /\ Cardinality(gap) \in Nat
  BY <1>1, <1>2, HoleFacts
<1>5. moved \subseteq F /\ F \subseteq U /\ F \subseteq Nat /\ IsFiniteSet(F)
  BY <1>2, <1>4, FillersFew
<1>6. \A i \in moved : Home(gap, F, i) \in gap
  BY <1>1, <1>2, HomeInHole
<1>7. \A h : filled(h) <=> h \in homes
  OBVIOUS
<1>8. \A h : filled(h) => source(h) \in moved
  OBVIOUS
<1>9. \A i, j \in moved : i # j => Home(gap, F, i) # Home(gap, F, j)
  <2> SUFFICES ASSUME NEW i \in moved, NEW j \in moved, i # j
               PROVE  Home(gap, F, i) # Home(gap, F, j)
    OBVIOUS
  <2>1. i \in Nat /\ j \in Nat /\ MinOf(gap) \in Nat
    BY <1>4, <1>5
  <2>2. Home(gap, F, i) \in Nat /\ Home(gap, F, j) \in Nat
    BY <1>4, <1>6
  <2>3. CASE i < j
    BY <1>5, <2>1, <2>2, <2>3, HomeInjective
  <2>4. CASE j < i
    BY <1>5, <2>1, <2>2, <2>4, HomeInjective
  <2> QED
    BY <2>1, <2>3, <2>4
<1>10. homes \subseteq gap
  BY <1>6
<1>11. IsFiniteSet(moved) /\ IsFiniteSet(homes) /\ Cardinality(homes) = Cardinality(moved)
  <2>1. IsFiniteSet(moved)
    BY <1>5, FS_Subset
  <2>2. home \in Bijection(moved, homes)
    BY <1>9 DEF Bijection, Injection, Surjection, IsInjective
  <2>3. ExistsBijection(moved, homes)
    BY <2>2 DEF ExistsBijection
  <2> QED
    BY <2>1, <2>3, FS_Bijection
<1> HIDE DEF filled, source, moved, homes, gap, F, U
<1>12. Fresh.seqs = {}
  BY DEF Fresh
<1>13. \A i \in Cell : cells'[i].seqs # {} <=> i \in (U \ moved) \union homes
  BY <1>1, <1>3, <1>4, <1>5, <1>7, <1>8, <1>10, <1>12
<1>14. InUse(cells') = (U \ moved) \union homes
  <2>1. InUse(cells') = {i \in Cell : cells'[i].seqs # {}}
    BY <1>1 DEF InUse
  <2> QED
    BY <1>3, <1>4, <1>10, <1>13, <2>1
<1>15. Cardinality((U \ moved) \union homes) = Cardinality(U)
  <2>1. IsFiniteSet(U \ moved) /\ Cardinality(U \ moved) = Cardinality(U) - Cardinality(moved)
    <3>1. U \intersect moved = moved
      BY <1>5
    <3>2. /\ IsFiniteSet(U \ moved)
          /\ Cardinality(U \ moved) = Cardinality(U) - Cardinality(U \intersect moved)
      BY <1>3, FS_Difference
    <3> QED
      BY <3>1, <3>2
  <2>2. Cardinality((U \ moved) \intersect homes) = 0
    <3>1. (U \ moved) \intersect homes = {}
      BY <1>4, <1>10
    <3> QED
      BY <3>1, FS_EmptySet
  <2>3. Cardinality((U \ moved) \union homes)
          = Cardinality(U \ moved) + Cardinality(homes) - Cardinality((U \ moved) \intersect homes)
    BY <1>11, <2>1, FS_Union
  <2>4. Cardinality(moved) \in Nat
    BY <1>11, FS_CardinalityType
  <2> QED
    BY <1>3, <1>11, <2>1, <2>2, <2>3, <2>4
<1> QED
  BY <1>1, <1>14, <1>15 DEF CountInv, UsedExact, U

LEMMA CountKeptElsewhere ==
  ASSUME CountInv, CellsInv',
         \/ Defrag \/ KvSelfUpdate \/ ApplyShift \/ ShiftFails \/ CannotShift
         \/ DefragDone \/ Compute \/ Rest
         \/ \E S \in (SUBSET Seqs) \ {{}}, n \in 1..MaxBatch : BeginDecode(S, n)
         \/ UNCHANGED vars
  PROVE  UsedExact'
<1>1. used' = used /\ (cells' = cells \/ cells' = NoDeltas)
  BY DEF Defrag, KvSelfUpdate, ApplyShift, ShiftFails, ShiftOver, CannotShift, DefragDone, Compute,
     Rest, BeginDecode, vars, ring
<1>2. \A i \in Cell : NoDeltas[i].seqs = cells[i].seqs
  <2> TAKE i \in Cell
  <2>1. cells[i] \in CellType
    BY DEF CountInv, CellsInv, Shape
  <2> QED
    BY <2>1 DEF NoDeltas, CellType
<1> QED
  BY <1>1, <1>2, CountKept DEF CellsInv, Shape

LEMMA RangeType ==
  ASSUME CellsInv
  PROVE  \A p \in Firsts : p \in Nat
<1>1. \A i \in InUse(cells) : cells[i].pos \in Nat
  BY InUseFinite, CellFields
<1> QED
  BY <1>1, CacheAssumption DEF Firsts

\* Every step keeps the count of the cells in use.
LEMMA CountStep ==
  ASSUME CountInv, CellsInv', [Next]_vars
  PROVE  UsedExact'
<1>1. ASSUME NEW seq \in Seqs, SeqKeep(seq) PROVE UsedExact'
  BY <1>1, CountSeqKeep
<1>2. ASSUME NEW seq, NEW p0 \in Firsts, NEW p1, SeqRm(seq, p0, p1) PROVE UsedExact'
  BY <1>2, CountSeqRm, RangeType DEF CountInv
<1>3. ASSUME NEW seq \in Seqs, NEW p0 \in Firsts, NEW p1 \in Lasts,
             \/ \E dst \in Seqs : SeqCp(seq, dst, p0, p1)
             \/ \E delta \in {-1, 1} : SeqAdd(seq, p0, p1, delta)
             \/ SeqDiv(seq, p0, p1, 2)
      PROVE  UsedExact'
  <2>1. \A delta \in {-1, 1} : delta \in Int
    OBVIOUS
  <2> QED
    BY <1>3, <2>1, CountSeqCp, CountSeqAdd, CountSeqDiv
<1>4. CASE SeqOps
  BY <1>1, <1>2, <1>3, <1>4 DEF SeqOps
<1>5. CASE Clear
  BY <1>5, CountClear
<1>6. CASE FillHole
  BY <1>6, CountFillHole
<1>7. CASE \E h \in Cell : FindSlot(h)
  BY <1>7, CountFindSlot
<1>8. CASE NoSlot \/ ComputeFails
  BY <1>8, CountRestore DEF NoSlot, ComputeFails
<1> QED
  BY <1>4, <1>5, <1>6, <1>7, <1>8, CountKeptElsewhere DEF Next

\* The count the context is measured by (llama_get_kv_cache_used_cells) and that
\* defrag_prepare relies on ("this can only happen if `n_used` is not accurate")
\* is the number of cells in use after every operation, every defragmentation,
\* and every batch that fails, whatever graphs fail.
THEOREM UsedExactAlways == Spec => []UsedExact
<1>1. Init => UsedExact
  <2> SUFFICES ASSUME Init PROVE UsedExact
    OBVIOUS
  <2>1. InUse(cells) = {} /\ used = 0
    BY DEF Init, InUse, Fresh
  <2> QED
    BY <2>1, FS_EmptySet DEF UsedExact
<1>2. CellsInv /\ CellsInv' /\ UsedExact /\ [Next]_vars => UsedExact'
  BY CountStep DEF CountInv
<1> QED
  BY <1>1, <1>2, CellsAlways, PTL DEF Spec


\* The cells in use past the hole are enough to fill it.
LEMMA FillersEnough ==
  ASSUME CountInv, Holes # {}
  PROVE  Cardinality(FillersFor(FirstHole)) = Cardinality(FirstHole)
<1> DEFINE gap == FirstHole
           U == InUse(cells)
           g == MinOf(gap)
           n == Cardinality(gap)
           V == {i \in U : i > g}
           F == FillersFor(gap)
           after(i) == {j \in U : j > i}
<1>1. CellsInv /\ used = Cardinality(U)
  BY DEF CountInv, UsedExact
<1>2. /\ gap \subseteq Holes /\ gap \subseteq Nat /\ gap \subseteq Cell \ U
      /\ g \in gap /\ n \in Nat /\ IsFiniteSet(gap)
      /\ \A x \in gap : g <= x
  BY <1>1, HoleFacts, MinExists
<1>3. IsFiniteSet(U) /\ used \in Nat /\ U \subseteq Cell
  BY <1>1, InUseFinite
<1>4. \A x \in gap : x < used
  <2> TAKE x \in gap
  <2>1. x \in Nat /\ x <= used - 1
    BY <1>2 DEF Holes
  <2> QED
    BY <1>3, <2>1
<1>5. U \subseteq Nat
  BY <1>3, CacheAssumption DEF Cell
<1>6. F \subseteq U /\ F = {i \in V : Cardinality(after(i)) < n}
  BY DEF FillersFor
<1>7. IsFiniteSet(F) /\ Cardinality(F) \in Nat /\ Cardinality(F) <= n
  BY <1>1, <1>2, FillersFew
<1>8. IsFiniteSet(V) /\ Cardinality(V) \in Nat
  BY <1>3, FS_Subset, FS_CardinalityType
<1> HIDE DEF gap, U, g, n, F
\* At most used - n cells in use come before the cell used.
<1>9. Cardinality(V) >= n
  <2> DEFINE low == {i \in U : i < used}
             all == 0..(0 + used - 1)
  <2>1. low \intersect gap = {} /\ low \union gap \subseteq all
    <3>1. \A x \in low \union gap : x \in Nat /\ x < used
      BY <1>2, <1>4, <1>5
    <3>2. \A x \in Nat : x < used => x \in all
      BY <1>3
    <3>3. low \intersect gap = {}
      BY <1>2 DEF U
    <3> QED
      BY <3>1, <3>2, <3>3
  <2>2. IsFiniteSet(all) /\ Cardinality(all) = used
    BY <1>3, IntervalCount
  <2>3. IsFiniteSet(low) /\ Cardinality(low) \in Nat
    BY <1>3, FS_Subset, FS_CardinalityType
  <2>4. Cardinality(low \union gap) <= used
    BY <2>1, <2>2, FS_Subset
  <2>5. Cardinality(low \intersect gap) = 0
    BY <2>1, FS_EmptySet
  <2>6. Cardinality(low \union gap) = Cardinality(low) + n - Cardinality(low \intersect gap)
    BY <1>2, <2>3, FS_Union DEF n
  <2>7. Cardinality(U \ low) = Cardinality(U) - Cardinality(U \intersect low)
    BY <1>3, FS_Difference
  <2>8. U \intersect low = low
    OBVIOUS
  <2>9. U \ low \subseteq V
    <3>1. g \in Nat /\ g < used
      BY <1>2, <1>4
    <3>2. \A x \in Nat : ~(x < used) => x > g
      BY <1>3, <3>1
    <3> QED
      BY <1>5, <3>2
  <2>10. Cardinality(U \ low) <= Cardinality(V)
    BY <1>8, <2>9, FS_Subset
  <2> QED
    BY <1>1, <1>2, <1>3, <1>8, <2>3, <2>4, <2>5, <2>6, <2>7, <2>8, <2>10
<1>10. Cardinality(F) >= n
  <2>1. CASE F = V
    BY <1>9, <2>1
  <2>2. CASE F # V
    <3> DEFINE W == V \ F
    <3>1. W # {} /\ W \in SUBSET (0..Size)
      <4>1. Cell \subseteq 0..Size
        BY CacheAssumption DEF Cell
      <4> QED
        BY <1>3, <1>6, <2>2, <4>1
    <3> DEFINE m == MaxOf(W)
    <3>2. m \in W /\ \A y \in W : y <= m
      BY <3>1, MaxExists, CacheAssumption
    <3> HIDE DEF m
    <3>3. after(m) \subseteq F
      <4> SUFFICES ASSUME NEW x \in U, x > m PROVE x \in F
        OBVIOUS
      <4>1. g \in Nat /\ m \in Nat /\ x \in Nat /\ m > g
        BY <1>2, <1>5, <3>2
      <4>2. x > g /\ ~(x <= m)
        BY <4>1
      <4> QED
        BY <3>2, <4>2
    <3>4. IsFiniteSet(after(m)) /\ Cardinality(after(m)) \in Nat
      BY <1>3, FS_Subset, FS_CardinalityType
    <3>5. Cardinality(after(m)) >= n
      BY <1>2, <1>6, <3>2, <3>4
    <3>6. Cardinality(after(m)) <= Cardinality(F)
      BY <1>7, <3>3, FS_Subset
    <3> QED
      BY <1>2, <1>7, <3>4, <3>5, <3>6
  <2> QED
    BY <2>1, <2>2
<1> QED
  BY <1>2, <1>7, <1>10 DEF F, n, gap

\* defrag_prepare never aborts on GGML_ASSERT(nf == nh): there are always as many
\* cells in use past a hole as the hole has.
THEOREM HoleCanBeFilledAlways == Spec => []HoleCanBeFilled
<1>1. CellsInv /\ UsedExact => HoleCanBeFilled
  BY FillersEnough DEF CountInv, HoleCanBeFilled
<1> QED
  BY <1>1, CellsAlways, UsedExactAlways, PTL
-----------------------------------------------------------------------------
\* Types: every number stays within its bounds.

\* An operation on sequences touches no row and no batch, and it is one the user calls.
LEMMA SeqOpsLeave ==
  ASSUME SeqOps
  PROVE  /\ phase = "idle" /\ \E op \in {"keep", "rm", "cp", "add", "div"} : op \in Ops
         /\ UNCHANGED <<data, doDefrag, update, call, phase, decoded>>
<1>1. ASSUME NEW seq, SeqKeep(seq)
      PROVE  Called("keep") /\ UNCHANGED <<data, doDefrag, update, call, phase, decoded>>
  BY <1>1 DEF SeqKeep
<1>2. ASSUME NEW seq, NEW p0, NEW p1, SeqRm(seq, p0, p1)
      PROVE  Called("rm") /\ UNCHANGED <<data, doDefrag, update, call, phase, decoded>>
  BY <1>2 DEF SeqRm
<1>3. ASSUME NEW seq, NEW dst, NEW p0, NEW p1, SeqCp(seq, dst, p0, p1)
      PROVE  Called("cp") /\ UNCHANGED <<data, doDefrag, update, call, phase, decoded>>
  BY <1>3 DEF SeqCp
<1>4. ASSUME NEW seq, NEW p0, NEW p1, NEW delta, SeqAdd(seq, p0, p1, delta)
      PROVE  Called("add") /\ UNCHANGED <<data, doDefrag, update, call, phase, decoded>>
  BY <1>4 DEF SeqAdd
<1>5. ASSUME NEW seq, NEW p0, NEW p1, SeqDiv(seq, p0, p1, 2)
      PROVE  Called("div") /\ UNCHANGED <<data, doDefrag, update, call, phase, decoded>>
  BY <1>5 DEF SeqDiv
<1>6. /\ \E op \in {"keep", "rm", "cp", "add", "div"} : Called(op)
      /\ UNCHANGED <<data, doDefrag, update, call, phase, decoded>>
  BY <1>1, <1>2, <1>3, <1>4, <1>5 DEF SeqOps
<1> QED
  BY <1>6 DEF Called

\* Within the bounds; the cells and used are in CellsInv and UsedExact.
Bounded ==
  /\ doDefrag \in BOOLEAN
  /\ head \in 0..Size
  /\ oldHead \in 0..Size
  /\ hole \in 0..Size
  /\ moves \in 0..MaxMoves
  /\ decoded \in 0..MaxTokens
  /\ \A i \in Cell : data[i].tok \in 0..MaxTokens
  /\ \A k \in DOMAIN batch : batch[k].tok \in 1..MaxTokens
  /\ phase \in {"slot", "compute"} => batch # <<>>

\* The smallest of some cells is a cell.
LEMMA MinCell ==
  ASSUME NEW S \in SUBSET Cell, S # {}
  PROVE  MinOf(S) \in S /\ MinOf(S) \in 0..Size
<1>1. \A i \in Cell : i \in Nat /\ i \in 0..Size
  BY CacheAssumption DEF Cell
<1>2. S \in SUBSET Nat
  BY <1>1
<1>3. MinOf(S) \in S
  BY <1>2, MinExists
<1> QED
  BY <1>1, <1>3

\* After an operation on sequences the search starts within the cells.
LEMMA SeqOpsHead ==
  ASSUME SeqOps, head \in 0..Size
  PROVE  head' \in 0..Size
<1>0. 0 \in 0..Size
  BY CacheAssumption
<1>1. ASSUME NEW freed \in SUBSET Cell PROVE HeadAfter(freed) \in 0..Size
  BY MinCell DEF HeadAfter
<1>2. ASSUME NEW seq, SeqKeep(seq) PROVE head' \in 0..Size
  <2>1. {i \in Cell : seq \notin cells[i].seqs} \in SUBSET Cell
    OBVIOUS
  <2> QED
    BY <1>1, <1>2, <2>1 DEF SeqKeep
<1>3. ASSUME NEW seq, NEW p0, NEW p1, SeqRm(seq, p0, p1) PROVE head' \in 0..Size
  <2>1. Freed(Matching(seq, p0, p1), seq) \in SUBSET Cell
    BY DEF Freed, Matching
  <2> QED
    BY <1>1, <1>3, <2>1 DEF SeqRm
<1>4. ASSUME NEW seq, NEW dst, NEW p0, NEW p1, SeqCp(seq, dst, p0, p1)
      PROVE  head' \in 0..Size
  BY <1>0, <1>4 DEF SeqCp
<1>5. ASSUME NEW seq, NEW p0, NEW p1, NEW delta, SeqAdd(seq, p0, p1, delta)
      PROVE  head' \in 0..Size
  <2>1. Dropped(Matching(seq, p0, p1), delta) \in SUBSET Cell
    BY DEF Dropped, Matching
  <2> QED
    BY <1>0, <1>5, <2>1, MinCell DEF SeqAdd
<1>6. ASSUME NEW seq, NEW p0, NEW p1, SeqDiv(seq, p0, p1, 2) PROVE head' \in 0..Size
  BY <1>6 DEF SeqDiv
<1> QED
  BY <1>2, <1>3, <1>4, <1>5, <1>6 DEF SeqOps

\* A function over 1..n with values in T is a sequence over T.
LEMMA RetypedSeq ==
  ASSUME NEW T, NEW n \in Nat, NEW f \in [1..n -> T]
  PROVE  f \in Seq(T)
OBVIOUS

LEMMA BoundedBegin ==
  ASSUME CellsInv, Bounded, NEW S \in (SUBSET Seqs) \ {{}}, NEW n \in 1..MaxBatch,
         BeginDecode(S, n)
  PROVE  Bounded'
<1>1. /\ decoded' = decoded + n /\ decoded + n <= MaxTokens
      /\ batch' = [k \in 1..n |-> [tok |-> decoded + k, pos |-> NextPos + k - 1, seqs |-> S]]
      /\ oldHead' = head /\ phase' = "update"
      /\ UNCHANGED <<data, head, doDefrag, hole, moves>>
  BY DEF BeginDecode, ring, update
<1>2. decoded \in Nat /\ n \in Nat /\ MaxTokens \in Nat
  BY CacheAssumption DEF CellsInv, Shape
<1>3. \A k \in DOMAIN batch' : batch'[k].tok = decoded + k /\ k \in 1..n
  BY <1>1
<1>4. \A k \in DOMAIN batch' : batch'[k].tok \in 1..MaxTokens
  BY <1>1, <1>2, <1>3
<1>5. decoded' \in 0..MaxTokens
  BY <1>1, <1>2
<1> QED
  BY <1>1, <1>4, <1>5 DEF Bounded

\* Blocks that are moved are counted as long as they are allowed.
LEMMA MovesBounded ==
  ASSUME CountInv, Bounded, FillHole
  PROVE  moves' \in 0..MaxMoves
<1> DEFINE F == FillersFor(FirstHole)
           moved == {i \in F : moves + BlocksUpTo(F, i) <= MaxMoves}
           blocks == {j \in moved : j - 1 \notin moved}
<1>1. moves' = moves + Cardinality(blocks) /\ Holes # {}
  BY DEF FillHole
<1>2. CellsInv /\ moves \in Nat /\ moves <= MaxMoves
  BY CacheAssumption DEF CountInv, Bounded
<1>3. F \subseteq Cell /\ F \subseteq Nat /\ IsFiniteSet(F)
  <2>1. FirstHole \subseteq Nat /\ MinOf(FirstHole) \in Nat
    BY <1>1, <1>2, HoleFacts
  <2>2. InUse(cells) \subseteq Cell
    BY <1>2, InUseFinite
  <2>3. \A i \in Cell : i \in Nat
    BY CacheAssumption DEF Cell
  <2>4. F \subseteq InUse(cells)
    BY DEF FillersFor
  <2> QED
    BY <1>2, <2>2, <2>3, <2>4, InUseFinite, FS_Subset
<1>4. moved \subseteq F /\ blocks \subseteq F
  OBVIOUS
<1>5. IsFiniteSet(blocks) /\ Cardinality(blocks) \in Nat
  BY <1>3, <1>4, FS_Subset, FS_CardinalityType
<1>6. CASE moved = {}
  <2>1. blocks = {}
    BY <1>6
  <2>2. Cardinality(blocks) = 0
    BY <2>1, FS_EmptySet
  <2> QED
    BY <1>1, <1>2, <2>2, CacheAssumption
<1>7. CASE moved # {}
  <2>1. moved \in SUBSET (0..Size)
    <3>1. \A i \in Cell : i \in 0..Size
      BY CacheAssumption DEF Cell
    <3> QED
      BY <1>3, <1>4, <3>1
  <2> DEFINE m == MaxOf(moved)
             starts == {j \in F : j <= m /\ j - 1 \notin F}
  <2>2. m \in moved /\ \A j \in moved : j <= m
    <3> HIDE DEF moved
    <3> QED
      BY <1>7, <2>1, MaxExists, CacheAssumption
  <2> HIDE DEF m
  <2>3. moves + Cardinality(starts) <= MaxMoves /\ m \in F
    BY <2>2 DEF BlocksUpTo
  <2>4. IsFiniteSet(starts) /\ Cardinality(starts) \in Nat
    <3>1. starts \subseteq F
      OBVIOUS
    <3> QED
      BY <1>3, <3>1, FS_Subset, FS_CardinalityType
  <2>5. ASSUME NEW j \in blocks PROVE j \in starts
    <3>1. j \in F /\ j \in moved /\ j <= m /\ j - 1 \notin moved /\ j \in Nat
      BY <1>3, <2>2
    <3>2. ASSUME j - 1 \in F PROVE FALSE
      <4> DEFINE b(i) == {l \in F : l <= i /\ l - 1 \notin F}
      <4>1. \A l \in F : l <= j - 1 => l <= j
        BY <1>3, <3>1
      <4>2. b(j - 1) \subseteq b(j)
        BY <4>1
      <4>3. IsFiniteSet(b(j)) /\ IsFiniteSet(b(j - 1))
        <5>1. b(j) \subseteq F /\ b(j - 1) \subseteq F
          OBVIOUS
        <5> HIDE DEF b
        <5> QED
          BY <1>3, <5>1, FS_Subset
      <4>4. moves + Cardinality(b(j)) <= MaxMoves
        BY <3>1 DEF BlocksUpTo
      <4>5. ~(moves + Cardinality(b(j - 1)) <= MaxMoves)
        BY <3>1, <3>2 DEF BlocksUpTo
      <4> HIDE DEF b
      <4>6. Cardinality(b(j - 1)) <= Cardinality(b(j))
        BY <4>2, <4>3, FS_Subset
      <4>7. Cardinality(b(j - 1)) \in Nat /\ Cardinality(b(j)) \in Nat
        BY <4>3, FS_CardinalityType
      <4> QED
        BY <1>2, <4>4, <4>5, <4>6, <4>7, CacheAssumption
    <3> QED
      BY <3>1, <3>2
  <2> HIDE DEF starts, blocks
  <2>6. Cardinality(blocks) <= Cardinality(starts)
    BY <2>4, <2>5, FS_Subset
  <2> QED
    BY <1>1, <1>2, <1>5, <2>3, <2>4, <2>6, CacheAssumption
<1> QED
  BY <1>6, <1>7

LEMMA BoundedFillHole ==
  ASSUME CountInv, Bounded, FillHole
  PROVE  Bounded'
<1>1. /\ phase' = phase /\ phase = "defrag"
      /\ UNCHANGED <<doDefrag, batch, oldHead, decoded>>
      /\ head' = used /\ hole' = MaxOf(FirstHole) + 1 /\ Holes # {}
  BY DEF FillHole, call
<1>2. CellsInv
  BY DEF CountInv
<1>3. head' \in 0..Size
  <2>1. IsFiniteSet(Cell) /\ Cardinality(Cell) = Size
    <3>1. Cell = 0..(0 + Size - 1)
      BY CacheAssumption DEF Cell
    <3> QED
      BY <3>1, IntervalCount, CacheAssumption
  <2>2. used = Cardinality(InUse(cells)) /\ InUse(cells) \subseteq Cell
    BY <1>2, InUseFinite DEF CountInv, UsedExact
  <2>3. used <= Size /\ used \in Nat
    BY <1>2, <2>1, <2>2, InUseFinite, FS_Subset
  <2> QED
    BY <1>1, <2>3, CacheAssumption
<1>4. hole' \in 0..Size
  <2>1. FirstHole \in SUBSET Cell /\ FirstHole # {}
    BY <1>1, <1>2, HoleFacts
  <2>2. \A i \in Cell : i \in Nat /\ i + 1 \in 0..Size /\ i \in 0..Size
    BY CacheAssumption DEF Cell
  <2>3. MaxOf(FirstHole) \in FirstHole
    BY <2>1, <2>2, MaxExists, CacheAssumption
  <2> QED
    BY <1>1, <2>1, <2>2, <2>3
<1>5. \A i \in Cell : data'[i].tok \in 0..MaxTokens
  <2> TAKE i \in Cell
  <2>1. \E j \in Cell : data'[i] = data[j]
    <3> DEFINE F == FillersFor(FirstHole)
               moved == {k \in F : moves + BlocksUpTo(F, k) <= MaxMoves}
               source == CHOOSE k \in moved : Home(FirstHole, F, k) = i
    <3>1. data'[i] = IF \E k \in moved : Home(FirstHole, F, k) = i THEN data[source] ELSE data[i]
      BY DEF FillHole
    <3>2. moved \subseteq Cell
      BY <1>2, InUseFinite DEF FillersFor
    <3>3. (\E k \in moved : Home(FirstHole, F, k) = i) => source \in moved
      OBVIOUS
    <3> HIDE DEF moved, source
    <3> QED
      BY <3>1, <3>2, <3>3
  <2> QED
    BY <2>1 DEF Bounded
<1>6. moves' \in 0..MaxMoves
  BY MovesBounded
<1> QED
  BY <1>1, <1>3, <1>4, <1>5, <1>6 DEF Bounded

LEMMA BoundedCompute ==
  ASSUME CellsInv, Bounded, Compute
  PROVE  Bounded'
<1> DEFINE n == UBatchLen
<1>0. /\ batch \in Seq(TokenType) /\ n \in Nat /\ n <= Len(batch) /\ Len(batch) \in Nat
      /\ phase = "compute"
  BY UBatchLenType DEF CellsInv, Shape, Compute
<1>1. /\ phase' \in {"idle", "update"}
      /\ head' = IF head + n >= Size THEN 0 ELSE head + n
      /\ oldHead' \in {0, oldHead}
      /\ batch' = SubSeq(batch, n + 1, Len(batch))
      /\ UNCHANGED <<doDefrag, hole, moves, decoded>>
  BY DEF Compute, update
<1>2. 0 \in 0..Size /\ head \in Nat
  BY CacheAssumption DEF Bounded
<1>3. head' \in 0..Size
  BY <1>0, <1>1, <1>2, CacheAssumption
<1>4. \A k \in DOMAIN batch' : k + n \in DOMAIN batch /\ batch'[k] = batch[k + n]
  <2>1. Len(batch') = Len(batch) - n /\ DOMAIN batch' = 1..(Len(batch) - n)
    BY <1>0, <1>1
  <2> QED
    BY <1>0, <1>1, <2>1
<1>5. \A k \in DOMAIN batch' : batch'[k].tok \in 1..MaxTokens
  BY <1>4 DEF Bounded
<1>6. \A i \in Cell : data'[i].tok \in 0..MaxTokens
  <2> TAKE i \in Cell
  <2>1. data'[i] = IF i \in head..(head + n - 1)
                   THEN [tok |-> batch[i - head + 1].tok, rot |-> batch[i - head + 1].pos]
                   ELSE data[i]
    BY DEF Compute
  <2>2. CASE i \in head..(head + n - 1)
    <3>1. i - head + 1 \in DOMAIN batch
      BY <1>0, <1>2, <2>2
    <3>2. batch[i - head + 1].tok \in 1..MaxTokens
      BY <3>1 DEF Bounded
    <3>3. \A x \in 1..MaxTokens : x \in 0..MaxTokens
      BY CacheAssumption
    <3> QED
      BY <2>1, <2>2, <3>2, <3>3
  <2>3. CASE i \notin head..(head + n - 1)
    BY <2>1, <2>3 DEF Bounded
  <2> QED
    BY <2>2, <2>3
<1> QED
  BY <1>1, <1>2, <1>3, <1>5, <1>6 DEF Bounded

LEMMA BoundedFailure ==
  ASSUME CellsInv, Bounded, NoSlot \/ ComputeFails
  PROVE  Bounded'
<1>1. PICK h \in 0..Size : Restore(h)
  BY DEF NoSlot, ComputeFails, Bounded
<1>2. /\ head' = IF pending = {} THEN h ELSE MinOf({oldHead} \union GivenUp)
      /\ batch' = <<>> /\ phase' = "idle" /\ oldHead' = 0
      /\ UNCHANGED <<data, doDefrag, hole, moves, decoded>>
  BY <1>1 DEF Restore, update
<1>3. MinOf({oldHead} \union GivenUp) \in 0..Size
  <2>1. \A i \in Cell : i \in 0..Size
    BY CacheAssumption DEF Cell
  <2>2. {oldHead} \union GivenUp \subseteq 0..Size
    BY <2>1 DEF Bounded, GivenUp
  <2>3. {oldHead} \union GivenUp \in SUBSET Nat
    BY <2>2, CacheAssumption
  <2>4. MinOf({oldHead} \union GivenUp) \in {oldHead} \union GivenUp
    BY <2>3, MinExists
  <2> QED
    BY <2>2, <2>4
<1>4. DOMAIN batch' = {}
  BY <1>2
<1>5. 0 \in 0..Size
  BY CacheAssumption
<1> QED
  BY <1>1, <1>2, <1>3, <1>4, <1>5 DEF Bounded

\* Each step keeps the bounds.
LEMMA BoundedStep ==
  ASSUME CountInv, CellsInv', Bounded, [Next]_vars
  PROVE  Bounded'
<1>0. CellsInv /\ 0 \in 0..Size /\ 0 \in 0..MaxMoves /\ 0 \in 0..MaxTokens
  BY CacheAssumption DEF CountInv
<1>1. CASE UNCHANGED vars \/ Rest
  BY <1>1 DEF Rest, vars, ring, update, call, Bounded
<1>2. CASE SeqOps
  <2>1. head' \in 0..Size
    BY <1>2, SeqOpsHead DEF Bounded
  <2> QED
    BY <1>2, <2>1, SeqOpsLeave DEF Bounded, call, update
<1>3. CASE Clear
  <2>1. /\ phase' = "idle" /\ head' = 0
        /\ UNCHANGED <<doDefrag, hole, moves, batch, oldHead, decoded>>
    BY <1>3 DEF Clear, Called, update, call
  <2>2. \A i \in Cell : data'[i].tok = 0
    BY <1>3 DEF Clear, NoRow
  <2> QED
    BY <1>0, <2>1, <2>2 DEF Bounded
<1>4. CASE Defrag \/ KvSelfUpdate
  <2>1. /\ phase' \in {"idle", "update"} /\ doDefrag' \in {doDefrag, TRUE}
        /\ UNCHANGED <<data, head, hole, moves, batch, oldHead, decoded>>
    BY <1>4 DEF Defrag, KvSelfUpdate, Called, update, call, ring
  <2> QED
    BY <2>1 DEF Bounded
<1>5. ASSUME NEW S \in (SUBSET Seqs) \ {{}}, NEW n \in 1..MaxBatch, BeginDecode(S, n)
      PROVE  Bounded'
  BY <1>0, <1>5, BoundedBegin
<1>6. CASE ApplyShift \/ ShiftFails
  <2>1. /\ phase' = "defrag" \/ phase' = IF batch = <<>> THEN "idle" ELSE "slot"
        /\ hole' \in {0, hole} /\ moves' \in {0, moves}
        /\ UNCHANGED <<doDefrag, head, batch, oldHead, decoded>>
    BY <1>6 DEF ApplyShift, ShiftFails, ShiftOver, Resume, update, call
  <2>2. \A i \in Cell : data'[i].tok = data[i].tok
    <3>1. \A i \in Cell : data[i] \in [tok : Nat, rot : Int]
      BY <1>0 DEF CellsInv, Shape
    <3> QED
      BY <1>6, <3>1 DEF ApplyShift, ShiftFails
  <2> QED
    BY <1>0, <2>1, <2>2 DEF Bounded
<1>7. CASE FillHole
  BY <1>7, BoundedFillHole
<1>8. CASE DefragDone
  <2>1. /\ phase' = IF batch = <<>> THEN "idle" ELSE "slot"
        /\ doDefrag' = FALSE /\ hole' = 0 /\ moves' = 0
        /\ UNCHANGED <<data, head, batch, oldHead, decoded>>
    BY <1>8 DEF DefragDone, Resume, call
  <2> QED
    BY <1>0, <2>1 DEF Bounded
<1>9. ASSUME NEW h \in Cell, FindSlot(h) PROVE Bounded'
  <2>1. /\ phase = "slot" /\ phase' = "compute" /\ head' = h
        /\ UNCHANGED <<data, doDefrag, hole, moves, batch, oldHead, decoded>>
    BY <1>9 DEF FindSlot, update
  <2>2. h \in 0..Size
    BY CacheAssumption DEF Cell
  <2> QED
    BY <2>1, <2>2 DEF Bounded
<1>10. CASE Compute
  BY <1>0, <1>10, BoundedCompute
<1>11. CASE NoSlot \/ ComputeFails
  BY <1>0, <1>11, BoundedFailure
<1>12. CASE CannotShift
  <2>1. phase' = "dead" /\ UNCHANGED <<data, doDefrag, head, batch, oldHead, hole, moves, decoded>>
    BY <1>12 DEF CannotShift, ring, update, call
  <2> QED
    BY <2>1 DEF Bounded
<1> QED
  BY <1>1, <1>2, <1>3, <1>4, <1>5, <1>6, <1>7, <1>8, <1>9, <1>10, <1>11, <1>12 DEF Next

\* The state has its types, whatever graphs fail: cells, counters and heads stay
\* within the cache, moves within max_moves, and the loop of llama_decode never
\* looks for a slot for no token (llama_kv_cache_unified).
THEOREM TypeOKAlways == Spec => []TypeOK
<1>1. Init => Bounded
  <2> SUFFICES ASSUME Init PROVE Bounded
    OBVIOUS
  <2>1. /\ ~doDefrag /\ head = 0 /\ oldHead = 0 /\ hole = 0 /\ moves = 0 /\ decoded = 0
        /\ phase = "idle" /\ doDefrag \in BOOLEAN
    BY DEF Init
  <2>2. DOMAIN batch = {}
    BY DEF Init
  <2>3. \A i \in Cell : data[i].tok = 0
    BY DEF Init, NoRow
  <2> QED
    BY <2>1, <2>2, <2>3, CacheAssumption DEF Bounded
<1>2. CellsInv /\ UsedExact /\ CellsInv' /\ Bounded /\ [Next]_vars => Bounded'
  BY BoundedStep DEF CountInv
<1>3. CellsInv /\ UsedExact /\ Bounded => TypeOK
  <2> SUFFICES ASSUME CellsInv, UsedExact, Bounded PROVE TypeOK
    OBVIOUS
  <2>1. /\ cells \in [Cell -> [pos : -1..MaxPos, delta : Int, seqs : SUBSET Seqs]]
        /\ \A i \in Cell : cells[i].pos = -1 <=> cells[i].seqs = {}
        /\ hasShift \in BOOLEAN
        /\ phase \in {"idle", "update", "defrag", "slot", "compute", "dead"}
        /\ pending \subseteq Cell
    BY DEF CellsInv, Shape, CellType, Phases
  <2>2. data \in [Cell -> Row]
    <3>1. data \in [Cell -> [tok : Nat, rot : Int]]
      BY DEF CellsInv, Shape
    <3>2. \A i \in Cell : data[i] \in Row
      BY <3>1 DEF Bounded, Row
    <3> QED
      BY <3>1, <3>2
  <2>3. used \in 0..Size
    <3>1. IsFiniteSet(Cell) /\ Cardinality(Cell) = Size
      <4>1. Cell = 0..(0 + Size - 1)
        BY CacheAssumption DEF Cell
      <4> QED
        BY <4>1, IntervalCount, CacheAssumption
    <3>2. used = Cardinality(InUse(cells)) /\ InUse(cells) \subseteq Cell
      BY InUseFinite DEF UsedExact
    <3>3. used <= Size /\ used \in Nat
      BY <3>1, <3>2, InUseFinite, FS_Subset
    <3> QED
      BY <3>3, CacheAssumption
  <2>4. batch \in Seq([tok : 1..MaxTokens, pos : 0..MaxPos, seqs : (SUBSET Seqs) \ {{}}])
    <3> DEFINE T == [tok : 1..MaxTokens, pos : 0..MaxPos, seqs : (SUBSET Seqs) \ {{}}]
    <3>1. batch \in Seq(TokenType) /\ Len(batch) \in Nat /\ DOMAIN batch = 1..Len(batch)
      BY DEF CellsInv, Shape
    <3>2. \A k \in 1..Len(batch) : batch[k] \in TokenType
      BY <3>1
    <3>3. \A k \in 1..Len(batch) : batch[k] \in T
      BY <3>1, <3>2 DEF Bounded, TokenType
    <3>4. batch \in [1..Len(batch) -> TokenType]
      BY <3>1
    <3> HIDE DEF T
    <3>5. batch \in [1..Len(batch) -> T]
      BY <3>3, <3>4
    <3>6. Len(batch) \in Nat
      BY <3>1
    <3>7. batch \in Seq(T)
      BY <3>5, <3>6, RetypedSeq
    <3> QED
      BY <3>7 DEF T
  <2>5. batch = <<>> => phase \notin {"slot", "compute"}
    BY <2>1 DEF Bounded
  <2> QED
    BY <2>1, <2>2, <2>3, <2>4, <2>5 DEF Bounded, TypeOK
<1> QED
  BY <1>1, <1>2, <1>3, CellsAlways, UsedExactAlways, PTL DEF Spec

=============================================================================
