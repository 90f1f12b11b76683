------------------------------- MODULE KvCache -------------------------------
(***************************************************************************)
(* The KV cache of llama.cpp for transformer models                        *)
(* (cpp/llama.cpp/src/llama-kv-cache.cpp) and the loop of llama_decode     *)
(* that fills it (llama-context.cpp): a ring of cells, the search for a    *)
(* slot, the operations on sequences, lazy K-shifts, defragmentation, and  *)
(* the rollback of a batch that fails half-way.                            *)
(*                                                                         *)
(* Abstractions.  A token is a number, in the order of decoding.  The K    *)
(* and V rows of a cell are one record: the token they were computed from  *)
(* and the position its K row is rotated for.  Negative p0 and p1 of the   *)
(* interface stand for the ends of the range.  The number of cells the     *)
(* attention looks at (n), worst-case graphs and the output buffers change *)
(* no decision.  The cache of recurrent models is another class.           *)
(***************************************************************************)
EXTENDS Integers, Sequences, FiniteSets

CONSTANTS Size,       \* kv_size: the number of cells
          Seqs,       \* the sequence ids in use
          UBatch,     \* n_ubatch: tokens per graph
          MaxBatch,   \* bound: tokens per llama_decode
          MaxTokens,  \* bound: tokens ever decoded
          MaxPos,     \* bound: positions
          MaxMoves,   \* max_moves of defrag_prepare
          Ops,        \* the operations the user calls besides llama_decode
          Faults      \* the graphs that may fail: "decode", "shift"; "noshift" if
                      \* the cache may be one that cannot shift

AllOps == {"rm", "cp", "keep", "add", "div", "clear", "defrag", "update"}

ASSUME CacheAssumption ==
  /\ Size \in Nat \ {0}
  /\ Seqs \subseteq Nat /\ Seqs # {}
  /\ UBatch \in Nat \ {0}
  /\ MaxBatch \in Nat
  /\ MaxTokens \in Nat
  /\ MaxPos \in Nat
  /\ MaxMoves \in Nat \ {0}
  /\ Ops \subseteq AllOps
  /\ Faults \subseteq {"decode", "shift", "noshift"}

VARIABLES
  cells,     \* cells[i]: its pos (-1 if empty), delta and seq_id
  data,      \* data[i]: the token of the K and V rows, K's rotation
  head,      \* where the search for a slot starts
  used,      \* the number of cells in use
  hasShift,  \* has_shift
  doDefrag,  \* do_defrag
  phase,     \* where llama_decode or llama_kv_self_update is
  batch,     \* the tokens of the batch that are not yet evaluated
  pending,   \* slot_boundaries: the cells the batch has taken so far
  oldHead,   \* old_state.head, 0 between two calls
  hole,      \* defragmentation: i0, where the next hole is looked for
  moves,     \* defragmentation: n_moves
  decoded    \* history: the number of tokens ever decoded

ring == <<cells, data, head, used, hasShift, doDefrag>>
update == <<hole, moves>>
call == <<batch, pending, oldHead>>
vars == <<ring, update, call, phase, decoded>>

Cell == 0..(Size - 1)

Fresh == [pos |-> -1, delta |-> 0, seqs |-> {}]

NoRow == [tok |-> 0, rot |-> 0]

MinOf(S) == CHOOSE x \in S : \A y \in S : x <= y

MaxOf(S) == CHOOSE x \in S : \A y \in S : x >= y

InUse(cs) == {i \in DOMAIN cs : cs[i].seqs # {}}

\* cell_max
CellMax == IF InUse(cells) = {} THEN 0 ELSE MaxOf(InUse(cells)) + 1

\* The position after the last one there is, whatever its sequences: pos_max() + 1,
\* -1 being the position of an empty cell.
NextPos == MaxOf({cells[i].pos : i \in Cell}) + 1

Init ==
  /\ cells = [i \in Cell |-> Fresh]
  /\ data = [i \in Cell |-> NoRow]
  /\ head = 0
  /\ used = 0
  /\ hasShift = FALSE
  /\ doDefrag = FALSE
  /\ phase = "idle"
  /\ batch = <<>>
  /\ pending = {}
  /\ oldHead = 0
  /\ hole = 0
  /\ moves = 0
  /\ decoded = 0

-----------------------------------------------------------------------------
\* Operations on sequences, between two calls of llama_decode.

\* The user calls the operation op.
Called(op) == phase = "idle" /\ op \in Ops

\* cells i of the sequence seq (any, if seq is -1) with positions in [p0, p1)
Matching(seq, p0, p1) ==
  {i \in Cell : /\ p0 <= cells[i].pos /\ cells[i].pos < p1
                /\ seq = -1 \/ seq \in cells[i].seqs}

\* seq_rm and seq_keep: a search starts at the first freed cell, if that is
\* before head.
HeadAfter(freed) == IF freed # {} /\ MinOf(freed) < head THEN MinOf(freed) ELSE head

\* A cell that is freed; delta stays.
Emptied(c) == [pos |-> -1, delta |-> c.delta, seqs |-> {}]

\* Mutant: the position stays.
PositionKept(c, seq) == [c EXCEPT !.seqs = IF seq = -1 THEN {} ELSE @ \ {seq}]

\* Cell c without the sequence seq.
CellWithout(c, seq) ==
  IF seq = -1 \/ c.seqs \subseteq {seq} THEN Emptied(c) ELSE [c EXCEPT !.seqs = @ \ {seq}]

\* Mutant: a cell other sequences still hold counts as freed.
FreedIfShared(hit, seq) == hit

\* Mutant: the position is reset before it is looked at.
FreedUncounted(hit, seq) == {}

Freed(hit, seq) == {i \in hit : CellWithout(cells[i], seq).seqs = {}}

SeqRm(seq, p0, p1) ==
  LET hit == Matching(seq, p0, p1)
  IN /\ Called("rm")
     /\ cells' = [i \in Cell |-> IF i \in hit THEN CellWithout(cells[i], seq) ELSE cells[i]]
     /\ used' = used - Cardinality(Freed(hit, seq))
     /\ head' = HeadAfter(Freed(hit, seq))
     /\ UNCHANGED <<data, hasShift, doDefrag, update, call, phase, decoded>>

SeqCp(src, dst, p0, p1) ==
  LET hit == Matching(src, p0, p1)
  IN /\ Called("cp")
     /\ src # dst
     /\ cells' = [i \in Cell |-> IF i \in hit
                                 THEN [cells[i] EXCEPT !.seqs = @ \union {dst}] ELSE cells[i]]
     /\ head' = 0
     /\ UNCHANGED <<data, used, hasShift, doDefrag, update, call, phase, decoded>>

SeqKeep(seq) ==
  LET dropped == {i \in Cell : seq \notin cells[i].seqs}
  IN /\ Called("keep")
     /\ cells' = [i \in Cell |-> IF i \in dropped
                                 THEN Emptied(cells[i])
                                 ELSE [cells[i] EXCEPT !.seqs = {seq}]]
     /\ used' = used - Cardinality({i \in dropped : cells[i].pos >= 0})
     /\ head' = HeadAfter(dropped)
     /\ UNCHANGED <<data, hasShift, doDefrag, update, call, phase, decoded>>

\* The cells seq_add moves below 0.
Dropped(hit, delta) == {i \in hit : cells[i].pos + delta < 0}

\* seq_div: the position and the shift that is owed.
Divided(c, d) ==
  [pos |-> c.pos \div d, delta |-> c.delta + (c.pos \div d) - c.pos, seqs |-> c.seqs]

\* Mutant: a shift overwrites one that was not applied yet.
ShiftedOver(c, delta) ==
  IF c.pos + delta < 0
  THEN [pos |-> -1, delta |-> delta, seqs |-> {}]
  ELSE [c EXCEPT !.pos = @ + delta, !.delta = delta]

\* Cell c moved by delta.  A position below 0 frees the cell.
Shifted(c, delta) ==
  IF c.pos + delta < 0
  THEN [pos |-> -1, delta |-> c.delta + delta, seqs |-> {}]
  ELSE [pos |-> c.pos + delta, delta |-> c.delta + delta, seqs |-> c.seqs]

SeqAdd(seq, p0, p1, delta) ==
  LET hit == Matching(seq, p0, p1)
      gone == Dropped(hit, delta)
  IN /\ Called("add")
     /\ \A i \in hit : cells[i].pos + delta <= MaxPos
     /\ cells' = [i \in Cell |-> IF i \in hit THEN Shifted(cells[i], delta) ELSE cells[i]]
     /\ hasShift' = (hasShift \/ hit # {})
     /\ used' = used - Cardinality(gone)
     /\ head' = IF gone # {} THEN MinOf(gone) ELSE 0
     /\ UNCHANGED <<data, doDefrag, update, call, phase, decoded>>

SeqDiv(seq, p0, p1, d) ==
  LET hit == Matching(seq, p0, p1)
  IN /\ Called("div")
     /\ cells' = [i \in Cell |-> IF i \in hit THEN Divided(cells[i], d) ELSE cells[i]]
     /\ hasShift' = (hasShift \/ hit # {})
     /\ UNCHANGED <<data, head, used, doDefrag, update, call, phase, decoded>>

\* Deltas and the flags of pending updates stay.
Clear ==
  /\ Called("clear")
  /\ cells' = [i \in Cell |-> Emptied(cells[i])]
  /\ data' = [i \in Cell |-> NoRow]
  /\ head' = 0
  /\ used' = 0
  /\ UNCHANGED <<hasShift, doDefrag, update, call, phase, decoded>>

\* llama_kv_self_defrag, or the threshold at the end of llama_decode
Defrag ==
  /\ Called("defrag")
  /\ doDefrag' = TRUE
  /\ UNCHANGED <<cells, data, head, used, hasShift, update, call, phase, decoded>>

-----------------------------------------------------------------------------
\* llama_decode.

\* n tokens for the sequences S arrive at the next positions.
BeginDecode(S, n) ==
  /\ phase = "idle"
  /\ decoded + n <= MaxTokens
  /\ NextPos + n - 1 <= MaxPos
  /\ batch' = [k \in 1..n |-> [tok |-> decoded + k, pos |-> NextPos + k - 1, seqs |-> S]]
  /\ decoded' = decoded + n
  /\ pending' = {}
  /\ oldHead' = head
  /\ phase' = "update"
  /\ UNCHANGED <<ring, update>>

\* llama_kv_self_update on its own, if there is something to do
KvSelfUpdate ==
  /\ Called("update")
  /\ hasShift \/ doDefrag
  /\ phase' = "update"
  /\ UNCHANGED <<ring, update, call, decoded>>

\* kv_self_update is over: back to the user, or on with the batch.
Resume == phase' = IF batch = <<>> THEN "idle" ELSE "slot"

\* The end of the shift, computed or not; a requested defragmentation is next.
ShiftOver ==
  /\ hasShift' = FALSE
  /\ IF doDefrag
     THEN phase' = "defrag" /\ hole' = 0 /\ moves' = 0
     ELSE Resume /\ UNCHANGED update
  /\ UNCHANGED <<head, used, doDefrag, call, decoded>>

\* Mutant: the deltas stay after they were applied.
DeltasKept == cells

\* Deltas are reset whatever became of the graph.
NoDeltas == [i \in Cell |-> [cells[i] EXCEPT !.delta = 0]]

\* kv_self_update: the graph rotates the K rows by the deltas.
ApplyShift ==
  /\ phase = "update"
  /\ IF hasShift
     THEN /\ data' = [i \in Cell |-> [data[i] EXCEPT !.rot = @ + cells[i].delta]]
          /\ cells' = NoDeltas
     ELSE UNCHANGED <<cells, data>>
  /\ ShiftOver

\* The graph of the K-shift is not computed; its status is not looked at.
ShiftFails ==
  /\ phase = "update"
  /\ hasShift
  /\ "shift" \in Faults
  /\ cells' = NoDeltas
  /\ UNCHANGED data
  /\ ShiftOver

\* kv_self_update aborts the process: this cache (of a DeepSeek 2 model) cannot
\* shift.
CannotShift ==
  /\ phase = "update"
  /\ hasShift
  /\ "noshift" \in Faults
  /\ phase' = "dead"
  /\ UNCHANGED <<ring, update, call, decoded>>

\* Mutant: the search for a hole begins one cell too late.
HolesAfter == {i \in (hole + 1)..(used - 1) : i \in Cell \ InUse(cells)}

\* The holes defrag_prepare has still to fill: empty cells from i0 up to used.
Holes == {i \in hole..(used - 1) : i \in Cell \ InUse(cells)}

\* The first hole, as a range of cells.
FirstHole ==
  LET first == MinOf(Holes)
  IN {i \in Holes : first..i \subseteq Holes}

\* The last cells in use, as many as the hole has.
FillersFor(gap) ==
  {i \in InUse(cells) : /\ i > MinOf(gap)
                        /\ Cardinality({j \in InUse(cells) : j > i}) < Cardinality(gap)}

\* One move copies a block of neighbours; the number of blocks in S up to i.
BlocksUpTo(S, i) == Cardinality({j \in S : j <= i /\ j - 1 \notin S})

\* Mutant: the block is copied one cell too low.
HomeTooLow(gap, fillers, i) == MinOf(gap) + Cardinality({j \in fillers : j < i}) - 1

\* Where filler i goes.
Home(gap, fillers, i) == MinOf(gap) + Cardinality({j \in fillers : j < i})

\* defrag_prepare fills one hole, with fewer cells if max_moves is reached, and
\* the graph built from its ids moves their rows along.
FillHole ==
  LET gap == FirstHole
      fillers == FillersFor(gap)
      moved == {i \in fillers : moves + BlocksUpTo(fillers, i) <= MaxMoves}
      filled(h) == \E i \in moved : Home(gap, fillers, i) = h
      source(h) == CHOOSE i \in moved : Home(gap, fillers, i) = h
  IN /\ phase = "defrag"
     /\ Holes # {}
     /\ moves < MaxMoves
     /\ cells' = [i \in Cell |-> IF filled(i) THEN cells[source(i)]
                                 ELSE IF i \in moved THEN Fresh ELSE cells[i]]
     /\ data' = [i \in Cell |-> IF filled(i) THEN data[source(i)] ELSE data[i]]
     /\ head' = used
     /\ moves' = moves + Cardinality({j \in moved : j - 1 \notin moved})
     /\ hole' = MaxOf(gap) + 1
     /\ UNCHANGED <<used, hasShift, doDefrag, call, phase, decoded>>

DefragDone ==
  /\ phase = "defrag"
  /\ Holes = {} \/ moves = MaxMoves
  /\ doDefrag' = FALSE
  /\ Resume
  /\ hole' = 0
  /\ moves' = 0
  /\ UNCHANGED <<cells, data, head, used, hasShift, call, decoded>>

\* n empty cells from h on
Fits(h, n) == h + n <= Size /\ \A i \in h..(h + n - 1) : cells[i].pos < 0

\* The search for a slot: the cell it has come to, and n_tested.
Search == [head : 0..Size, tested : Nat]

At(h, tested) == [head |-> h, tested |-> tested]

\* Mutant: the search gives up one cell early.
ScanShort(n) ==
  LET scan[s \in Search] ==
        LET taken == {i \in 0..(n - 1) : cells[s.head + i].pos >= 0}
            next == MinOf(taken) + 1
        IN IF s.head + n > Size THEN scan[At(0, s.tested + Size - s.head)]
           ELSE IF taken = {} THEN [found |-> TRUE, at |-> s.head]
           ELSE IF s.tested + next >= Size - 1 THEN [found |-> FALSE, at |-> s.head + next]
           ELSE scan[At(s.head + next, s.tested + next)]
  IN scan

\* The loop of find_slot, from s on.
Scan(n) ==
  LET scan[s \in Search] ==
        LET taken == {i \in 0..(n - 1) : cells[s.head + i].pos >= 0}
            next == MinOf(taken) + 1
        IN IF s.head + n > Size THEN scan[At(0, s.tested + Size - s.head)]
           ELSE IF taken = {} THEN [found |-> TRUE, at |-> s.head]
           ELSE IF s.tested + next >= Size THEN [found |-> FALSE, at |-> s.head + next]
           ELSE scan[At(s.head + next, s.tested + next)]
  IN scan

\* find_slot takes the first slot from start on, or else from cell 0 on.
SlotFrom(start, n, h) ==
  /\ Fits(h, n)
  /\ \/ h >= start /\ \A g \in start..(h - 1) : ~Fits(g, n)
     \/ h < start /\ \A g \in Cell : g < h \/ g >= start => ~Fits(g, n)

\* split_simple: the next tokens of the batch, as many as a graph takes.
UBatchLen == IF Len(batch) < UBatch THEN Len(batch) ELSE UBatch

\* The search starts over if there is room enough before head.
SearchStart == IF head > used + 2 * UBatchLen THEN 0 ELSE head

\* An empty cell c that takes the token t.
Taken(c, t) == [pos |-> t.pos, delta |-> c.delta, seqs |-> c.seqs \union t.seqs]

\* A slot is found; its cells are taken before the graph is computed.
FindSlot(h) ==
  LET n == UBatchLen
      slot == h..(h + n - 1)
  IN /\ phase = "slot"
     /\ SlotFrom(SearchStart, n, h)
     /\ cells' = [i \in Cell |-> IF i \in slot
                                 THEN Taken(cells[i], batch[i - h + 1]) ELSE cells[i]]
     /\ used' = used + n
     /\ head' = h
     /\ pending' = pending \union slot
     /\ phase' = "compute"
     /\ UNCHANGED <<data, hasShift, doDefrag, update, batch, oldHead, decoded>>

\* The graph writes the rows of the slot, and head moves past it.
Compute ==
  LET n == UBatchLen
      slot == head..(head + n - 1)
  IN /\ phase = "compute"
     /\ data' = [i \in Cell |-> IF i \in slot
                                THEN [tok |-> batch[i - head + 1].tok,
                                      rot |-> batch[i - head + 1].pos]
                                ELSE data[i]]
     /\ head' = IF head + n >= Size THEN 0 ELSE head + n
     /\ batch' = SubSeq(batch, n + 1, Len(batch))
     /\ IF batch' = <<>>
        THEN /\ phase' = "idle"
             /\ pending' = {}
             /\ oldHead' = 0
        ELSE /\ phase' = "update"
             /\ UNCHANGED <<pending, oldHead>>
     /\ UNCHANGED <<cells, used, hasShift, doDefrag, update, decoded>>

\* Mutant: only the last slot is given up.
GivenUpLast == {i \in Cell : cells[i].pos \in pending /\ i >= head}

\* What seq_rm(-1, begin, end) frees for each slot: begin and end are cells,
\* which it takes for positions.
GivenUp == {i \in Cell : cells[i].pos \in pending}

\* llama_kv_slot_restorer, when llama_decode returns early.  head is where the
\* failed search left it if no slot was found at all.
Restore(h) ==
  /\ cells' = [i \in Cell |-> IF i \in GivenUp
                              THEN Emptied(cells[i]) ELSE cells[i]]
  /\ used' = used - Cardinality(GivenUp)
  /\ head' = IF pending = {} THEN h ELSE MinOf({oldHead} \union GivenUp)
  /\ batch' = <<>>
  /\ pending' = {}
  /\ phase' = "idle"
  /\ oldHead' = 0
  /\ UNCHANGED <<data, hasShift, doDefrag, update, decoded>>

\* The search ends without a slot: where it began when the ubatch is longer
\* than the cache, else past some cell that is taken.
NoSlot ==
  /\ phase = "slot"
  /\ ~\E h \in Cell : Fits(h, UBatchLen)
  /\ \E h \in 0..Size : /\ IF UBatchLen > Size THEN h = SearchStart
                           ELSE h > 0 /\ cells[h - 1].pos >= 0
                        /\ Restore(h)

ComputeFails ==
  /\ phase = "compute"
  /\ "decode" \in Faults
  /\ Restore(head)

Rest == (phase = "dead" \/ (phase = "idle" /\ decoded = MaxTokens)) /\ UNCHANGED vars

\* Positions that bound ranges: any range selects what one of these selects.
Firsts == {cells[i].pos : i \in InUse(cells)} \union {MaxPos + 1}
Lasts == {p + 1 : p \in Firsts}

SeqOps ==
  \/ \E seq \in Seqs : SeqKeep(seq)
  \/ \E seq \in Seqs \union {-1}, p0 \in Firsts, p1 \in Lasts : p0 < p1 /\ SeqRm(seq, p0, p1)
  \/ \E seq \in Seqs, p0 \in Firsts, p1 \in Lasts :
       /\ p0 < p1
       /\ \/ \E dst \in Seqs : SeqCp(seq, dst, p0, p1)
          \/ \E delta \in {-1, 1} : SeqAdd(seq, p0, p1, delta)
          \/ SeqDiv(seq, p0, p1, 2)

Next ==
  \/ SeqOps
  \/ Clear
  \/ Defrag
  \/ KvSelfUpdate
  \/ \E S \in (SUBSET Seqs) \ {{}}, n \in 1..MaxBatch : BeginDecode(S, n)
  \/ ApplyShift
  \/ ShiftFails
  \/ CannotShift
  \/ FillHole
  \/ DefragDone
  \/ \E h \in Cell : FindSlot(h)
  \/ NoSlot
  \/ Compute
  \/ ComputeFails
  \/ Rest

Spec == Init /\ [][Next]_vars

-----------------------------------------------------------------------------
(***************************************************************************)
(* Correctness.                                                            *)
(***************************************************************************)

Row == [tok : 0..MaxTokens, rot : Int]

\* Types; a cell without sequences has no position, and the other way round.
TypeOK ==
  /\ cells \in [Cell -> [pos : -1..MaxPos, delta : Int, seqs : SUBSET Seqs]]
  /\ \A i \in Cell : cells[i].pos = -1 <=> cells[i].seqs = {}
  /\ data \in [Cell -> Row]
  /\ head \in 0..Size
  /\ used \in 0..Size
  /\ hasShift \in BOOLEAN
  /\ doDefrag \in BOOLEAN
  /\ phase \in {"idle", "update", "defrag", "slot", "compute", "dead"}
  /\ batch \in Seq([tok : 1..MaxTokens, pos : 0..MaxPos, seqs : (SUBSET Seqs) \ {{}}])
  /\ batch = <<>> => phase \notin {"slot", "compute"}
  /\ pending \subseteq Cell
  /\ oldHead \in 0..Size
  /\ hole \in 0..Size
  /\ moves \in 0..MaxMoves
  /\ decoded \in 0..MaxTokens

\* used counts the cells in use: LLMInference measures the context by it, and
\* defrag_prepare asserts it ("this can only happen if `n_used` is not accurate").
UsedExact == used = Cardinality(InUse(cells))

\* The assertion of defrag_prepare: every hole can be filled.
HoleCanBeFilled ==
  (phase = "defrag" /\ Holes # {}) => Cardinality(FillersFor(FirstHole)) = Cardinality(FirstHole)

\* The K row of a token is rotated for its position, but for the shift that is
\* still owed: no shift is lost, applied twice, or applied to a later token.
RotationOwed ==
  \A i \in InUse(cells) \ pending : data[i].rot + cells[i].delta = cells[i].pos

\* No shift is owed while the slots of a batch are taken.
NothingOwed == phase \in {"slot", "compute"} => \A i \in Cell : cells[i].delta = 0

\* The loop of find_slot ends, with the first slot there is, or past a cell that
\* is taken if there is none.
ScanFindsSlot ==
  \A start \in 0..Size, n \in 1..Size :
    LET result == Scan(n)[At(start, 0)]
    IN IF \E h \in Cell : Fits(h, n)
       THEN result.found /\ result.at \in Cell /\ SlotFrom(start, n, result.at)
       ELSE ~result.found /\ result.at - 1 \in Cell /\ cells[result.at - 1].pos >= 0

\* What cell i holds.
Entry(i) == [tok |-> data[i].tok, pos |-> cells[i].pos, seqs |-> cells[i].seqs]

\* What the cache holds, a batch counting only when it is complete.
Visible == {Entry(i) : i \in InUse(cells) \ pending}

\* The cells whose rows the graph is about to write.
Writing == IF phase = "compute" THEN head..(head + UBatchLen - 1) ELSE {}

\* The tokens of the batch, evaluated and still to come.
Asked == {batch[k] : k \in DOMAIN batch} \union {Entry(i) : i \in pending \ Writing}

\* Defragmentation loses, mixes up or doubles no token, and leaves no hole unless
\* it is cut short.
DefragCompacts ==
  [][phase = "defrag" =>
       /\ Visible' = Visible
       /\ phase' # "defrag" /\ moves < MaxMoves => InUse(cells') = 0..(used' - 1)]_vars

Store == INSTANCE KvStore WITH
  entries <- Visible, asked <- Asked, Deltas <- {-1, 1}, Divisors <- {2}

\* Cells, graphs, shifts and defragmentation do not show: the cache is the set of
\* tokens llama.h describes, to which a llama_decode of several graphs adds its
\* whole batch or nothing.
ImplementsStore == Store!Spec

\* llama_decode returns -3.
Fails == NoSlot \/ ComputeFails

\* llama.h on llama_decode: "< 0 - error. the KV cache state is restored to the
\* state before this call".
FailureRestores == [][Fails => Visible' = Visible]_vars

\* The same of llama_decode and the updates, from call to return, whatever graphs
\* fail: a batch that fails adds nothing and takes no other token along, as long as
\* positions are cells.  In the app, which removes and moves nothing, they are.
ImplementsStoreInPlace ==
  [][/\ phase # "idle" \/ phase' # "idle"
     /\ Fails => \A i \in InUse(cells) : cells[i].pos = i
     => [Store!Next]_(Store!vars)]_vars

=============================================================================
