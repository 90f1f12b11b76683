--------------------------- MODULE KvStore_proofs ---------------------------
(***************************************************************************)
(* Proofs that the cells of the KV cache implement the set of tokens       *)
(* llama.h describes (KvStore), for every number of cells, set of          *)
(* sequences, size of a graph and choice of operations.                    *)
(***************************************************************************)
EXTENDS KvCache_proofs

\* What the cells show.
Shows ==
  [i \in Cell |-> [tok |-> data[i].tok, pos |-> cells[i].pos, seqs |-> cells[i].seqs]]

EntryType == [tok : Nat, pos : Nat, seqs : SUBSET Seqs]

\* Nothing is pending between two batches and while holes are filled, and no
\* defragmentation is due while a batch is under way.
Paused ==
  /\ phase = "idle" => batch = <<>>
  /\ phase = "defrag" \/ batch = <<>> => pending = {}
  /\ phase \in {"slot", "compute"} \/ pending # {} => ~doDefrag

\* The tokens of the batch, in its slots and still to come, are none of those
\* the cache shows.
Younger ==
  /\ \A i \in Cell : data[i].tok <= decoded
  /\ \A k \in DOMAIN batch :
       batch[k].tok <= decoded /\ \A e \in Visible : e.tok < batch[k].tok
  /\ \A j \in pending \ Writing, e \in Visible : e.tok < data[j].tok

\* The cells a batch has taken are in use, those of the graph under way with the
\* sequences of its tokens.
Carried ==
  /\ \A i \in pending : cells[i].seqs # {}
  /\ \A i \in Writing : cells[i].seqs = batch[i - head + 1].seqs

\* The inductive invariant of the refinement.
StoreInv == CellsInv /\ Paused /\ Younger /\ Carried

-----------------------------------------------------------------------------
\* What the cache shows, cell by cell.

\* An entry the cache shows is what a cell in use that is not pending shows.
LEMMA VisibleCells ==
  ASSUME CellsInv
  PROVE  \A e : e \in Visible <=>
           \E i \in Cell : cells[i].seqs # {} /\ i \notin pending /\ e = Shows[i]
BY InUseFinite DEF Visible, Shows, Entry

\* The same after a step.
LEMMA VisibleCellsNext ==
  ASSUME CellsInv'
  PROVE  \A e : e \in Visible' <=>
           \E i \in Cell : cells'[i].seqs # {} /\ i \notin pending' /\ e = Shows'[i]
<1>1. InUse(cells') = {i \in Cell : cells'[i].seqs # {}}
  BY DEF CellsInv, Shape, InUse
<1> QED
  BY <1>1 DEF Visible, Shows, Entry

\* The entries have tokens, positions and sequences.
LEMMA VisibleType ==
  ASSUME CellsInv
  PROVE  /\ Visible \subseteq EntryType
         /\ \A e \in Visible : e.seqs # {}
<1> SUFFICES ASSUME NEW e \in Visible
             PROVE  e \in EntryType /\ e.seqs # {}
  OBVIOUS
<1>1. PICK i \in Cell : cells[i].seqs # {} /\ e = Shows[i]
  BY VisibleCells
<1>2. data[i].tok \in Nat /\ cells[i].pos \in Nat /\ cells[i].seqs \in SUBSET Seqs
  BY <1>1, CellFields DEF CellsInv, Shape
<1> QED
  BY <1>1, <1>2 DEF Shows, EntryType

\* The fields of what a cell shows, before and after a step.
LEMMA EntryFields ==
  /\ \A i \in Cell : /\ Shows[i].tok = data[i].tok
                     /\ Shows[i].pos = cells[i].pos
                     /\ Shows[i].seqs = cells[i].seqs
  /\ \A i \in Cell : /\ Shows'[i].tok = data'[i].tok
                     /\ Shows'[i].pos = cells'[i].pos
                     /\ Shows'[i].seqs = cells'[i].seqs
BY DEF Shows

\* An entry with one field replaced, field by field.
LEMMA EntryExcept ==
  ASSUME NEW e \in EntryType, NEW x
  PROVE  /\ [e EXCEPT !.seqs = x] = [tok |-> e.tok, pos |-> e.pos, seqs |-> x]
         /\ [e EXCEPT !.pos = x] = [tok |-> e.tok, pos |-> x, seqs |-> e.seqs]
BY DEF EntryType

\* If the cells show what they did, so does the cache.
LEMMA VisibleSame ==
  ASSUME CellsInv, CellsInv',
         \A i \in Cell :
           (cells'[i].seqs # {} /\ i \notin pending') <=> (cells[i].seqs # {} /\ i \notin pending),
         \A i \in Cell :
           cells[i].seqs # {} /\ i \notin pending =>
             /\ data'[i].tok = data[i].tok
             /\ cells'[i].pos = cells[i].pos
             /\ cells'[i].seqs = cells[i].seqs
  PROVE  Visible' = Visible
<1>1. \A i \in Cell : cells[i].seqs # {} /\ i \notin pending => Shows'[i] = Shows[i]
  BY DEF Shows
<1>2. \A e : e \in Visible' <=> e \in Visible
  BY <1>1, VisibleCells, VisibleCellsNext
<1> QED
  BY <1>2

-----------------------------------------------------------------------------
\* The operations on sequences.

\* The entries when each e in M has become F[e], and is gone if that is in no
\* sequence or has no position.
After(M, F) == {f \in (Visible \ M) \union {F[e] : e \in M} : f.seqs # {} /\ f.pos >= 0}

\* A step that does so to the cells in hit.
Changes(hit, F) ==
  /\ \A i \in Cell \ hit : Shows'[i] = Shows[i]
  /\ \A i \in hit : cells[i].seqs # {} =>
       /\ cells'[i].seqs # {} <=> F[Shows[i]].seqs # {} /\ F[Shows[i]].pos >= 0
       /\ cells'[i].seqs # {} => Shows'[i] = F[Shows[i]]

\* The cells in hit show the entries in M.
Holds(hit, M) ==
  /\ M \subseteq Visible
  /\ \A i \in hit : i \in Cell /\ cells[i].seqs # {}
  /\ \A i \in Cell : cells[i].seqs # {} => (i \in hit <=> Shows[i] \in M)

\* Between batches, a step that changes the entries in M cell by cell changes them in
\* the cache.
LEMMA ChangeByChange ==
  ASSUME CellsInv, CellsInv', pending = {}, pending' = {},
         NEW hit, NEW M, NEW F, Holds(hit, M), Changes(hit, F)
  PROVE  Visible' = After(M, F)
<1> USE DEF Changes, Holds
<1> DEFINE R == After(M, F)
<1>0. \A f : f \in R <=> /\ (f \in Visible /\ f \notin M) \/ \E e \in M : f = F[e]
                       /\ f.seqs # {} /\ f.pos >= 0
  BY DEF After
<1> HIDE DEF R
<1>1. \A i \in Cell \ hit : cells'[i].seqs = cells[i].seqs
  BY EntryFields
<1>2. \A e \in Visible : e.seqs # {} /\ e.pos >= 0
  BY VisibleType DEF EntryType
<1>3. \A e : e \in Visible <=> \E i \in Cell : cells[i].seqs # {} /\ e = Shows[i]
  BY VisibleCells
<1>4. \A e : e \in Visible' <=> \E i \in Cell : cells'[i].seqs # {} /\ e = Shows'[i]
  BY VisibleCellsNext
<1>5. ASSUME NEW e, e \in Visible' PROVE e \in R
  <2>1. PICK i \in Cell : cells'[i].seqs # {} /\ e = Shows'[i]
    BY <1>4, <1>5
  <2>2. CASE i \in hit
    <3>1. Shows[i] \in M /\ e = F[Shows[i]] /\ e.seqs # {} /\ e.pos >= 0
      BY <2>1, <2>2
    <3> QED
      BY <1>0, <3>1
  <2>3. CASE i \notin hit
    <3>1. cells[i].seqs # {} /\ e = Shows[i] /\ Shows[i] \notin M
      BY <1>1, <2>1, <2>3
    <3>2. e \in Visible
      BY <1>3, <3>1
    <3> QED
      BY <1>0, <1>2, <3>1, <3>2
  <2> QED
    BY <2>2, <2>3
<1>6. ASSUME NEW e \in R PROVE e \in Visible'
  <2>0. e.seqs # {} /\ e.pos >= 0
    BY <1>0
  <2>1. CASE e \in Visible /\ e \notin M
    <3>1. PICK i \in Cell : cells[i].seqs # {} /\ e = Shows[i]
      BY <1>3, <2>1
    <3>2. i \notin hit
      BY <2>1, <3>1
    <3> QED
      BY <1>1, <1>4, <3>1, <3>2
  <2>2. CASE \E f \in M : e = F[f]
    <3>1. PICK f \in M : e = F[f]
      BY <2>2
    <3>2. PICK i \in Cell : cells[i].seqs # {} /\ f = Shows[i]
      BY <1>3
    <3>3. i \in hit /\ e.seqs # {} /\ e.pos >= 0
      BY <2>0, <3>1, <3>2
    <3> QED
      BY <1>4, <3>1, <3>2, <3>3
  <2> QED
    BY <1>0, <2>1, <2>2
<1> QED
  BY <1>5, <1>6 DEF R

\* The cells in a range are the tokens in a range that ends at positions in use.
LEMMA HitRange ==
  ASSUME CellsInv, pending = {}, NEW seq, NEW p0 \in Nat, NEW p1 \in Int,
         Matching(seq, p0, p1) # {}
  PROVE  \E q0 \in Store!Firsts, q1 \in Store!Lasts :
           Holds(Matching(seq, p0, p1), Store!Matching(seq, q0, q1))
<1> DEFINE hit == Matching(seq, p0, p1)
           P == {cells[i].pos : i \in hit}
<1>1. hit \subseteq Cell /\ \A i \in hit : p0 <= cells[i].pos /\ cells[i].pos < p1
  BY DEF Matching
<1>2. \A i \in hit : cells[i].seqs # {} /\ cells[i].pos \in 0..MaxPos
  <2> TAKE i \in hit
  <2>1. cells[i].pos >= 0 /\ cells[i].pos \in -1..MaxPos
    BY <1>1, CellFields
  <2> QED
    BY <1>1, <2>1, CellFields, CacheAssumption
<1>3. P # {} /\ P \in SUBSET (0..MaxPos) /\ P \subseteq Nat
  BY <1>2, CacheAssumption
<1> DEFINE q0 == MinOf(P)
           q == MaxOf(P)
<1>4. q0 \in P /\ \A y \in P : q0 <= y
  BY <1>3, MinExists
<1>5. q \in P /\ \A y \in P : q >= y
  BY <1>3, MaxExists, CacheAssumption
<1> HIDE DEF q0, q
<1>6. \A i \in Cell : cells[i].seqs # {} => Shows[i] \in Visible
  BY VisibleCells
<1>7. \A x \in P : \E e \in Visible : x = e.pos
  BY <1>1, <1>2, <1>6, EntryFields
<1>8. q0 \in Store!Firsts /\ q + 1 \in Store!Lasts
  BY <1>4, <1>5, <1>7 DEF Store!Firsts, Store!Lasts
<1>9. ASSUME NEW i \in Cell, cells[i].seqs # {}
      PROVE  i \in hit <=> Shows[i] \in Store!Matching(seq, q0, q + 1)
  <2>1. cells[i].pos \in Int /\ q \in Int /\ q0 \in Int
    BY <1>3, <1>4, <1>5, CellFields
  <2>2. Shows[i] \in Store!Matching(seq, q0, q + 1) <=>
          (seq = -1 \/ seq \in cells[i].seqs) /\ q0 <= cells[i].pos /\ cells[i].pos < q + 1
    BY <1>6, <1>9, EntryFields DEF Store!Matching
  <2>3. i \in hit <=>
          (seq = -1 \/ seq \in cells[i].seqs) /\ p0 <= cells[i].pos /\ cells[i].pos < p1
    BY DEF Matching
  <2>4. i \in hit => q0 <= cells[i].pos /\ cells[i].pos < q + 1
    <3>1. i \in hit => q0 <= cells[i].pos /\ cells[i].pos <= q
      BY <1>4, <1>5
    <3> QED
      BY <2>1, <3>1
  <2>5. q0 <= cells[i].pos /\ cells[i].pos < q + 1 => p0 <= cells[i].pos /\ cells[i].pos < p1
    <3>1. PICK a \in hit, b \in hit : q0 = cells[a].pos /\ q = cells[b].pos
      BY <1>4, <1>5
    <3>2. p0 <= q0 /\ q < p1
      BY <1>1, <3>1
    <3> QED
      BY <2>1, <3>2
  <2> QED
    BY <2>2, <2>3, <2>4, <2>5
<1>10. Store!Matching(seq, q0, q + 1) \subseteq Visible
  BY DEF Store!Matching
<1>11. Holds(hit, Store!Matching(seq, q0, q + 1))
  BY <1>1, <1>2, <1>9, <1>10 DEF Holds
<1> QED
  BY <1>8, <1>11

\* An operation on a range of cells is one on a range of tokens, or on none.
LEMMA RangeByRange ==
  ASSUME CellsInv, CellsInv', pending = {}, pending' = {},
         NEW seq, NEW p0 \in Nat, NEW p1 \in Int, NEW F, Changes(Matching(seq, p0, p1), F)
  PROVE  \/ Visible' = Visible
         \/ \E q0 \in Store!Firsts, q1 \in Store!Lasts :
              Visible' = After(Store!Matching(seq, q0, q1), F)
<1>1. CASE Matching(seq, p0, p1) = {}
  <2>1. \A i \in Cell : Shows'[i] = Shows[i]
    BY <1>1 DEF Changes
  <2>2. \A i \in Cell : cells'[i].seqs = cells[i].seqs
    BY <2>1, EntryFields
  <2>3. \A e : e \in Visible' <=> e \in Visible
    BY <2>1, <2>2, VisibleCells, VisibleCellsNext
  <2> QED
    BY <2>3
<1>2. CASE Matching(seq, p0, p1) # {}
  <2>1. PICK q0 \in Store!Firsts, q1 \in Store!Lasts :
          Holds(Matching(seq, p0, p1), Store!Matching(seq, q0, q1))
    BY <1>2, HitRange
  <2>2. Visible' = After(Store!Matching(seq, q0, q1), F)
    BY <2>1, ChangeByChange
  <2> QED
    BY <2>2
<1> QED
  BY <1>1, <1>2

\* Between two batches no cell is pending and no token is waiting.
LEMMA IdleFacts ==
  ASSUME StoreInv, phase = "idle"
  PROVE  CellsInv /\ pending = {} /\ batch = <<>> /\ Visible \subseteq EntryType
BY VisibleType DEF StoreInv, Paused

\* llama_kv_cache_seq_rm takes the sequence from the tokens in the range.
LEMMA RmStores ==
  ASSUME StoreInv, CellsInv', NEW seq, NEW p0 \in Nat, NEW p1 \in Int, SeqRm(seq, p0, p1)
  PROVE  \/ Visible' = Visible
         \/ \E q0 \in Store!Firsts, q1 \in Store!Lasts : Store!SeqRm(seq, q0, q1)
<1> DEFINE hit == Matching(seq, p0, p1)
           Removed(e) == [e EXCEPT !.seqs = IF seq = -1 THEN {} ELSE @ \ {seq}]
           F == [e \in Visible |-> Removed(e)]
<1>1. CellsInv /\ pending = {} /\ pending' = {} /\ data' = data /\ Visible \subseteq EntryType
  BY IdleFacts DEF SeqRm, Called, call
<1>2. \A i \in Cell : cells'[i] = IF i \in hit THEN CellWithout(cells[i], seq) ELSE cells[i]
  BY DEF SeqRm
<1>3. hit \subseteq Cell
  BY DEF Matching
<1>4. ASSUME NEW e \in Visible
      PROVE  Removed(e) = [tok |-> e.tok, pos |-> e.pos,
                           seqs |-> IF seq = -1 THEN {} ELSE e.seqs \ {seq}]
  <2>1. e \in EntryType
    BY <1>1
  <2> QED
    BY <2>1 DEF EntryType
<1> HIDE DEF Removed
<1>5. \A e \in Visible : F[e] = Removed(e)
  OBVIOUS
<1> HIDE DEF F, hit
<1>6. ASSUME NEW i \in hit, cells[i].seqs # {}
      PROVE  /\ cells'[i].seqs # {} <=> F[Shows[i]].seqs # {} /\ F[Shows[i]].pos >= 0
             /\ cells'[i].seqs # {} => Shows'[i] = F[Shows[i]]
  <2> DEFINE f == F[Shows[i]]
  <2>1. f = [tok |-> data[i].tok, pos |-> cells[i].pos,
             seqs |-> IF seq = -1 THEN {} ELSE cells[i].seqs \ {seq}]
    <3>1. Shows[i] \in Visible
      BY <1>1, <1>3, <1>6, VisibleCells
    <3>2. f = [tok |-> Shows[i].tok, pos |-> Shows[i].pos,
               seqs |-> IF seq = -1 THEN {} ELSE Shows[i].seqs \ {seq}]
      BY <1>4, <1>5, <3>1
    <3> QED
      BY <1>3, <3>2, EntryFields
  <2> HIDE DEF f
  <2>2. cells[i] \in CellType /\ cells[i].pos >= 0
    BY <1>1, <1>3, <1>6, CellFields
  <2>3. cells'[i] = CellWithout(cells[i], seq)
    BY <1>2, <1>3
  <2>4. CASE seq = -1 \/ cells[i].seqs \subseteq {seq}
    <3>1. cells'[i].seqs = {} /\ f.seqs = {}
      BY <2>1, <2>3, <2>4 DEF CellWithout, Emptied
    <3> QED
      BY <3>1 DEF f
  <2>5. CASE ~(seq = -1 \/ cells[i].seqs \subseteq {seq})
    <3>1. cells'[i].seqs = cells[i].seqs \ {seq} /\ cells'[i].pos = cells[i].pos
      BY <2>2, <2>3, <2>5 DEF CellWithout, CellType
    <3>2. f.seqs = cells[i].seqs \ {seq} /\ f.pos = cells[i].pos /\ f.seqs # {}
      BY <2>1, <2>5
    <3>3. Shows'[i] = f
      BY <1>1, <1>3, <2>1, <2>5, <3>1 DEF Shows
    <3> QED
      BY <2>2, <3>1, <3>2, <3>3 DEF f
  <2> QED
    BY <2>4, <2>5
<1>7. \A i \in Cell \ hit : Shows'[i] = Shows[i]
  BY <1>1, <1>2 DEF Shows
<1>8. Changes(hit, F)
  BY <1>6, <1>7 DEF Changes
<1>9. ASSUME NEW q0 \in Store!Firsts, NEW q1 \in Store!Lasts,
             Visible' = After(Store!Matching(seq, q0, q1), F)
      PROVE  Store!SeqRm(seq, q0, q1)
  <2> DEFINE M == Store!Matching(seq, q0, q1)
  <2>1. M \subseteq Visible
    BY DEF Store!Matching
  <2> HIDE DEF M
  <2>2. {F[e] : e \in M} = {Removed(e) : e \in M}
    BY <1>5, <2>1
  <2>3. Visible' = {f \in (Visible \ M) \union {Removed(e) : e \in M} : f.seqs # {} /\ f.pos >= 0}
    BY <1>9, <2>2 DEF After, M
  <2> QED
    BY <2>3, Zenon DEF Store!SeqRm, Store!Changed, Store!InUse, M, Removed
<1> QED
  BY <1>1, <1>8, <1>9, RangeByRange DEF hit

\* A token the cache shows is in a sequence and has a position.
LEMMA VisibleInUse ==
  ASSUME CellsInv
  PROVE  \A e \in Visible : e.seqs # {} /\ e.pos >= 0
BY VisibleType DEF EntryType

\* llama_kv_cache_seq_cp adds the tokens in the range to the other sequence.
LEMMA CpStores ==
  ASSUME StoreInv, CellsInv', NEW src \in Seqs, NEW dst \in Seqs,
         NEW p0 \in Nat, NEW p1 \in Int, SeqCp(src, dst, p0, p1)
  PROVE  \/ Visible' = Visible
         \/ \E q0 \in Store!Firsts, q1 \in Store!Lasts : Store!SeqCp(src, dst, q0, q1)
<1> DEFINE hit == Matching(src, p0, p1)
           Copied(e) == [e EXCEPT !.seqs = @ \union {dst}]
           F == [e \in Visible |-> Copied(e)]
<1>1. CellsInv /\ pending = {} /\ pending' = {} /\ data' = data /\ Visible \subseteq EntryType
  BY IdleFacts DEF SeqCp, Called, call
<1>2. \A i \in Cell : cells'[i] = IF i \in hit THEN [cells[i] EXCEPT !.seqs = @ \union {dst}]
                                  ELSE cells[i]
  BY DEF SeqCp
<1>3. hit \subseteq Cell
  BY DEF Matching
<1>4. ASSUME NEW e \in Visible
      PROVE  Copied(e) = [tok |-> e.tok, pos |-> e.pos, seqs |-> e.seqs \union {dst}]
  <2>1. e \in EntryType
    BY <1>1
  <2> QED
    BY <2>1 DEF EntryType
<1> HIDE DEF Copied
<1>5. \A e \in Visible : F[e] = Copied(e)
  OBVIOUS
<1> HIDE DEF F, hit
<1>6. ASSUME NEW i \in hit, cells[i].seqs # {}
      PROVE  /\ cells'[i].seqs # {} <=> F[Shows[i]].seqs # {} /\ F[Shows[i]].pos >= 0
             /\ cells'[i].seqs # {} => Shows'[i] = F[Shows[i]]
  <2> DEFINE f == F[Shows[i]]
  <2>1. f = [tok |-> data[i].tok, pos |-> cells[i].pos, seqs |-> cells[i].seqs \union {dst}]
    <3>1. Shows[i] \in Visible
      BY <1>1, <1>3, <1>6, VisibleCells
    <3>2. f = [tok |-> Shows[i].tok, pos |-> Shows[i].pos, seqs |-> Shows[i].seqs \union {dst}]
      BY <1>4, <1>5, <3>1
    <3> QED
      BY <1>3, <3>2, EntryFields
  <2> HIDE DEF f
  <2>2. cells[i] \in CellType /\ cells[i].pos >= 0
    BY <1>1, <1>3, <1>6, CellFields
  <2>3. cells'[i].seqs = cells[i].seqs \union {dst} /\ cells'[i].pos = cells[i].pos
    BY <1>2, <1>3, <2>2 DEF CellType
  <2>4. Shows'[i] = f
    BY <1>1, <1>3, <2>1, <2>3 DEF Shows
  <2>5. f.seqs # {} /\ f.pos >= 0 /\ cells'[i].seqs # {}
    BY <2>1, <2>2, <2>3
  <2> QED
    BY <2>4, <2>5 DEF f
<1>7. \A i \in Cell \ hit : Shows'[i] = Shows[i]
  BY <1>1, <1>2 DEF Shows
<1>8. Changes(hit, F)
  BY <1>6, <1>7 DEF Changes
<1>9. ASSUME NEW q0 \in Store!Firsts, NEW q1 \in Store!Lasts,
             Visible' = After(Store!Matching(src, q0, q1), F)
      PROVE  Store!SeqCp(src, dst, q0, q1)
  <2> DEFINE M == Store!Matching(src, q0, q1)
  <2>1. M \subseteq Visible
    BY DEF Store!Matching
  <2> HIDE DEF M
  <2>2. {F[e] : e \in M} = {Copied(e) : e \in M}
    BY <1>5, <2>1
  <2>3. \A e \in M : F[e].seqs # {} /\ F[e].pos >= 0
    <3> TAKE e \in M
    <3>1. e \in EntryType /\ F[e] = [tok |-> e.tok, pos |-> e.pos, seqs |-> e.seqs \union {dst}]
      BY <1>1, <1>4, <1>5, <2>1
    <3> QED
      BY <3>1 DEF EntryType
  <2>4. Visible' = (Visible \ M) \union {Copied(e) : e \in M}
    <3>1. After(M, F) = (Visible \ M) \union {F[e] : e \in M}
      BY <1>1, <2>3, VisibleInUse DEF After
    <3> QED
      BY <1>9, <2>2, <3>1 DEF M
  <2> QED
    BY <2>4, Zenon DEF Store!SeqCp, Store!Changed, M, Copied
<1> QED
  BY <1>1, <1>8, <1>9, RangeByRange DEF hit

\* llama_kv_cache_seq_add moves the tokens in the range, and drops those moved
\* below 0.
LEMMA AddStores ==
  ASSUME StoreInv, CellsInv', NEW seq, NEW p0 \in Nat, NEW p1 \in Int, NEW delta \in Int,
         SeqAdd(seq, p0, p1, delta)
  PROVE  \/ Visible' = Visible
         \/ \E q0 \in Store!Firsts, q1 \in Store!Lasts : Store!SeqAdd(seq, q0, q1, delta)
<1> DEFINE hit == Matching(seq, p0, p1)
           Moved(e) == [e EXCEPT !.pos = @ + delta]
           F == [e \in Visible |-> Moved(e)]
<1>1. CellsInv /\ pending = {} /\ pending' = {} /\ data' = data /\ Visible \subseteq EntryType
  BY IdleFacts DEF SeqAdd, Called, call
<1>2. \A i \in Cell : cells'[i] = IF i \in hit THEN Shifted(cells[i], delta) ELSE cells[i]
  BY DEF SeqAdd
<1>3. hit \subseteq Cell
  BY DEF Matching
<1>4. ASSUME NEW e \in Visible
      PROVE  Moved(e) = [tok |-> e.tok, pos |-> e.pos + delta, seqs |-> e.seqs]
  <2>1. e \in EntryType
    BY <1>1
  <2> QED
    BY <2>1 DEF EntryType
<1> HIDE DEF Moved
<1>5. \A e \in Visible : F[e] = Moved(e)
  OBVIOUS
<1> HIDE DEF F, hit
<1>6. ASSUME NEW i \in hit, cells[i].seqs # {}
      PROVE  /\ cells'[i].seqs # {} <=> F[Shows[i]].seqs # {} /\ F[Shows[i]].pos >= 0
             /\ cells'[i].seqs # {} => Shows'[i] = F[Shows[i]]
  <2> DEFINE f == F[Shows[i]]
  <2>1. f = [tok |-> data[i].tok, pos |-> cells[i].pos + delta, seqs |-> cells[i].seqs]
    <3>1. Shows[i] \in Visible
      BY <1>1, <1>3, <1>6, VisibleCells
    <3>2. f = [tok |-> Shows[i].tok, pos |-> Shows[i].pos + delta, seqs |-> Shows[i].seqs]
      BY <1>4, <1>5, <3>1
    <3> QED
      BY <1>3, <3>2, EntryFields
  <2> HIDE DEF f
  <2>2. cells[i].pos \in Int
    BY <1>1, <1>3, <1>6, CellFields
  <2>3. cells'[i] = Shifted(cells[i], delta)
    BY <1>2, <1>3
  <2>4. CASE cells[i].pos + delta < 0
    <3>1. cells'[i].seqs = {} /\ ~(f.pos >= 0)
      BY <2>1, <2>2, <2>3, <2>4 DEF Shifted
    <3> QED
      BY <3>1 DEF f
  <2>5. CASE ~(cells[i].pos + delta < 0)
    <3>1. cells'[i].pos = cells[i].pos + delta /\ cells'[i].seqs = cells[i].seqs
      BY <2>3, <2>5 DEF Shifted
    <3>2. f.seqs # {} /\ f.pos >= 0
      BY <1>6, <2>1, <2>2, <2>5
    <3>3. Shows'[i] = f
      BY <1>1, <1>3, <2>1, <3>1 DEF Shows
    <3> QED
      BY <1>6, <3>1, <3>2, <3>3 DEF f
  <2> QED
    BY <2>4, <2>5
<1>7. \A i \in Cell \ hit : Shows'[i] = Shows[i]
  BY <1>1, <1>2 DEF Shows
<1>8. Changes(hit, F)
  BY <1>6, <1>7 DEF Changes
<1>9. ASSUME NEW q0 \in Store!Firsts, NEW q1 \in Store!Lasts,
             Visible' = After(Store!Matching(seq, q0, q1), F)
      PROVE  Store!SeqAdd(seq, q0, q1, delta)
  <2> DEFINE M == Store!Matching(seq, q0, q1)
  <2>1. M \subseteq Visible
    BY DEF Store!Matching
  <2> HIDE DEF M
  <2>2. {F[e] : e \in M} = {Moved(e) : e \in M}
    BY <1>5, <2>1
  <2>3. Visible' = {f \in (Visible \ M) \union {Moved(e) : e \in M} : f.seqs # {} /\ f.pos >= 0}
    BY <1>9, <2>2 DEF After, M
  <2> QED
    BY <2>3, Zenon DEF Store!SeqAdd, Store!Changed, Store!InUse, M, Moved
<1> QED
  BY <1>1, <1>8, <1>9, RangeByRange DEF hit

\* llama_kv_cache_seq_div halves the positions in the range.
LEMMA DivStores ==
  ASSUME StoreInv, CellsInv', NEW seq, NEW p0 \in Nat, NEW p1 \in Int, SeqDiv(seq, p0, p1, 2)
  PROVE  \/ Visible' = Visible
         \/ \E q0 \in Store!Firsts, q1 \in Store!Lasts : Store!SeqDiv(seq, q0, q1, 2)
<1> DEFINE hit == Matching(seq, p0, p1)
           Halved(e) == [e EXCEPT !.pos = @ \div 2]
           F == [e \in Visible |-> Halved(e)]
<1>1. CellsInv /\ pending = {} /\ pending' = {} /\ data' = data /\ Visible \subseteq EntryType
  BY IdleFacts DEF SeqDiv, Called, call
<1>2. \A i \in Cell : cells'[i] = IF i \in hit THEN Divided(cells[i], 2) ELSE cells[i]
  BY DEF SeqDiv
<1>3. hit \subseteq Cell
  BY DEF Matching
<1>4. ASSUME NEW e \in Visible
      PROVE  Halved(e) = [tok |-> e.tok, pos |-> e.pos \div 2, seqs |-> e.seqs]
  <2>1. e \in EntryType
    BY <1>1
  <2> QED
    BY <2>1 DEF EntryType
<1> HIDE DEF Halved
<1>5. \A e \in Visible : F[e] = Halved(e)
  OBVIOUS
<1> HIDE DEF F, hit
<1>6. ASSUME NEW i \in hit, cells[i].seqs # {}
      PROVE  /\ cells'[i].seqs # {} <=> F[Shows[i]].seqs # {} /\ F[Shows[i]].pos >= 0
             /\ cells'[i].seqs # {} => Shows'[i] = F[Shows[i]]
  <2> DEFINE f == F[Shows[i]]
  <2>1. f = [tok |-> data[i].tok, pos |-> cells[i].pos \div 2, seqs |-> cells[i].seqs]
    <3>1. Shows[i] \in Visible
      BY <1>1, <1>3, <1>6, VisibleCells
    <3>2. f = [tok |-> Shows[i].tok, pos |-> Shows[i].pos \div 2, seqs |-> Shows[i].seqs]
      BY <1>4, <1>5, <3>1
    <3> QED
      BY <1>3, <3>2, EntryFields
  <2> HIDE DEF f
  <2>2. cells[i].pos \div 2 >= 0
    <3>1. cells[i].pos \in Int /\ cells[i].pos >= 0
      BY <1>1, <1>3, <1>6, CellFields
    <3> QED
      BY <3>1
  <2>3. cells'[i].pos = cells[i].pos \div 2 /\ cells'[i].seqs = cells[i].seqs
    <3>1. cells'[i] = Divided(cells[i], 2)
      BY <1>2, <1>3
    <3> QED
      BY <3>1 DEF Divided
  <2>4. Shows'[i] = f
    BY <1>1, <1>3, <2>1, <2>3 DEF Shows
  <2>5. f.seqs # {} /\ f.pos >= 0 /\ cells'[i].seqs # {}
    BY <1>6, <2>1, <2>2, <2>3
  <2> QED
    BY <2>4, <2>5 DEF f
<1>7. \A i \in Cell \ hit : Shows'[i] = Shows[i]
  BY <1>1, <1>2 DEF Shows
<1>8. Changes(hit, F)
  BY <1>6, <1>7 DEF Changes
<1>9. ASSUME NEW q0 \in Store!Firsts, NEW q1 \in Store!Lasts,
             Visible' = After(Store!Matching(seq, q0, q1), F)
      PROVE  Store!SeqDiv(seq, q0, q1, 2)
  <2> DEFINE M == Store!Matching(seq, q0, q1)
  <2>1. M \subseteq Visible
    BY DEF Store!Matching
  <2> HIDE DEF M
  <2>2. {F[e] : e \in M} = {Halved(e) : e \in M}
    BY <1>5, <2>1
  <2>3. \A e \in M : F[e].seqs # {} /\ F[e].pos >= 0
    <3> TAKE e \in M
    <3>1. e \in EntryType /\ e.seqs # {} /\ F[e] = [tok |-> e.tok, pos |-> e.pos \div 2, seqs |-> e.seqs]
      BY <1>1, <1>4, <1>5, <2>1, VisibleType
    <3>2. e.pos \in Nat
      BY <3>1 DEF EntryType
    <3>3. e.pos \div 2 >= 0
      BY <3>2
    <3> QED
      BY <3>1, <3>3
  <2>4. Visible' = (Visible \ M) \union {Halved(e) : e \in M}
    <3>1. After(M, F) = (Visible \ M) \union {F[e] : e \in M}
      BY <1>1, <2>3, VisibleInUse DEF After
    <3> QED
      BY <1>9, <2>2, <3>1 DEF M
  <2> QED
    BY <2>4, Zenon DEF Store!SeqDiv, Store!Changed, M, Halved
<1> QED
  BY <1>1, <1>8, <1>9, RangeByRange DEF hit

\* llama_kv_cache_seq_keep leaves the tokens of the sequence, in it alone.
LEMMA KeepStores ==
  ASSUME StoreInv, CellsInv', NEW seq \in Seqs, SeqKeep(seq)
  PROVE  Store!SeqKeep(seq)
<1> DEFINE Kept(e) == [e EXCEPT !.seqs = {seq}]
           F == [e \in Visible |-> Kept(e)]
<1>1. CellsInv /\ pending = {} /\ pending' = {} /\ data' = data /\ Visible \subseteq EntryType
  BY IdleFacts DEF SeqKeep, Called, call
<1>2. \A i \in Cell : cells'[i] = IF seq \notin cells[i].seqs THEN Emptied(cells[i])
                                  ELSE [cells[i] EXCEPT !.seqs = {seq}]
  BY DEF SeqKeep
<1>3. \A e \in Visible : F[e] = Kept(e)
  BY Zenon
<1>4. ASSUME NEW e \in Visible
      PROVE  Kept(e) = [tok |-> e.tok, pos |-> e.pos, seqs |-> {seq}]
  <2>1. e \in EntryType
    BY <1>1
  <2> QED
    BY <2>1 DEF EntryType
<1> HIDE DEF Kept
<1> HIDE DEF F
<1>5. ASSUME NEW i \in Cell, seq \notin cells[i].seqs PROVE cells'[i].seqs = {}
  <2>1. cells'[i] = Emptied(cells[i])
    BY <1>2, <1>5
  <2> QED
    BY <2>1 DEF Emptied
<1>6. ASSUME NEW i \in Cell, seq \in cells[i].seqs
      PROVE  /\ cells'[i].seqs # {}
             /\ Shows[i] \in Visible
             /\ Shows'[i] = F[Shows[i]]
  <2>1. cells[i] \in CellType
    BY <1>1, CellFields
  <2>2. cells'[i].seqs = {seq} /\ cells'[i].pos = cells[i].pos
    BY <1>2, <1>6, <2>1 DEF CellType
  <2>3. Shows[i] \in Visible
    BY <1>1, <1>6, VisibleCells
  <2>4. F[Shows[i]] = [tok |-> data[i].tok, pos |-> cells[i].pos, seqs |-> {seq}]
    <3>1. Shows[i].tok = data[i].tok /\ Shows[i].pos = cells[i].pos
      BY EntryFields
    <3>2. F[Shows[i]] = [tok |-> Shows[i].tok, pos |-> Shows[i].pos, seqs |-> {seq}]
      BY <1>3, <1>4, <2>3
    <3> QED
      BY <3>1, <3>2
  <2>5. Shows'[i] = [tok |-> data[i].tok, pos |-> cells[i].pos, seqs |-> {seq}]
    BY <1>1, <2>2 DEF Shows
  <2> QED
    BY <2>2, <2>3, <2>4, <2>5
<1> DEFINE R == {Kept(e) : e \in {f \in Visible : seq \in f.seqs}}
<1>7. \A e : e \in Visible' <=> e \in R
  <2>1. \A e : e \in Visible' <=> \E i \in Cell : seq \in cells[i].seqs /\ e = F[Shows[i]]
    BY <1>1, <1>5, <1>6, VisibleCellsNext
  <2>2. \A e : e \in R <=> \E f \in Visible : seq \in f.seqs /\ e = F[f]
    BY <1>3
  <2> HIDE DEF R
  <2>3. \A f : f \in Visible /\ seq \in f.seqs <=> \E i \in Cell : seq \in cells[i].seqs /\ f = Shows[i]
    BY <1>1, <1>6, VisibleCells, EntryFields
  <2> QED
    BY <2>1, <2>2, <2>3
<1>8. Visible' = R
  BY <1>7
<1> QED
  BY <1>8, Zenon DEF Store!SeqKeep, Kept

\* llama_kv_cache_clear leaves no token.
LEMMA ClearStores ==
  ASSUME StoreInv, CellsInv', Clear
  PROVE  Store!Clear
<1>1. \A i \in Cell : cells'[i].seqs = {}
  BY DEF Clear, Emptied
<1>2. Visible' = {}
  BY <1>1, VisibleCellsNext
<1> QED
  BY <1>2 DEF Store!Clear

-----------------------------------------------------------------------------
\* The steps the user does not see.

\* Steps that touch no cell show nothing.
LEMMA UpdateStores ==
  ASSUME StoreInv, CellsInv',
         \/ Defrag \/ KvSelfUpdate \/ DefragDone \/ Rest \/ UNCHANGED vars
         \/ \E S \in (SUBSET Seqs) \ {{}}, n \in 1..MaxBatch : BeginDecode(S, n)
  PROVE  Visible' = Visible
<1>1. cells' = cells /\ data' = data
  BY DEF Defrag, KvSelfUpdate, DefragDone, Rest, vars, ring, BeginDecode
<1>2. pending' = pending
  <2>1. CASE Defrag \/ KvSelfUpdate \/ DefragDone \/ Rest \/ UNCHANGED vars
    BY <2>1 DEF Defrag, KvSelfUpdate, DefragDone, Rest, vars, call
  <2>2. ASSUME NEW S, NEW n, BeginDecode(S, n) PROVE pending' = pending
    BY <2>2, IdleFacts DEF BeginDecode
  <2> QED
    BY <2>1, <2>2
<1> QED
  BY <1>1, <1>2 DEF Visible, Entry

\* The shift that is owed shows nothing, done or failed: positions are in the cells
\* already.
LEMMA ShiftStores ==
  ASSUME StoreInv, CellsInv', ApplyShift \/ ShiftFails
  PROVE  /\ Visible' = Visible
         /\ \A i \in Cell : /\ data'[i].tok = data[i].tok
                            /\ cells'[i].pos = cells[i].pos
                            /\ cells'[i].seqs = cells[i].seqs
<1>1. CellsInv /\ pending' = pending /\ phase = "update"
  BY DEF StoreInv, ApplyShift, ShiftFails, ShiftOver, call
<1>2. cells' = cells \/ cells' = NoDeltas
  BY DEF ApplyShift, ShiftFails
<1>3. data' = data \/ data' = [i \in Cell |-> [data[i] EXCEPT !.rot = @ + cells[i].delta]]
  BY DEF ApplyShift, ShiftFails
<1>4. ASSUME NEW i \in Cell
      PROVE  cells'[i].pos = cells[i].pos /\ cells'[i].seqs = cells[i].seqs /\ data'[i].tok = data[i].tok
  <2>1. cells[i] \in CellType /\ data[i] \in [tok : Nat, rot : Int]
    BY <1>1 DEF CellsInv, Shape
  <2>2. cells'[i].pos = cells[i].pos /\ cells'[i].seqs = cells[i].seqs
    BY <1>2, <2>1 DEF NoDeltas, CellType
  <2>3. data'[i].tok = data[i].tok
    BY <1>3, <2>1
  <2> QED
    BY <2>2, <2>3
<1>5. Visible' = Visible
  BY <1>1, <1>4, VisibleSame
<1> QED
  BY <1>4, <1>5

\* Taking a slot shows nothing: its cells are pending.
LEMMA FindSlotStores ==
  ASSUME StoreInv, CellsInv', NEW h \in Cell, FindSlot(h)
  PROVE  Visible' = Visible
<1> DEFINE n == UBatchLen
           slot == h..(h + n - 1)
<1>1. /\ CellsInv /\ data' = data
      /\ Fits(h, n)
      /\ cells' = [i \in Cell |-> IF i \in slot THEN Taken(cells[i], batch[i - h + 1]) ELSE cells[i]]
      /\ pending' = pending \union slot
  BY DEF StoreInv, FindSlot, SlotFrom
<1>2. \A i \in slot : cells[i].pos < 0
  BY <1>1 DEF Fits
<1> HIDE DEF slot
<1>3. \A i \in Cell \ slot : cells'[i] = cells[i]
  BY <1>1
<1>4. \A i \in Cell : i \in slot => cells[i].seqs = {}
  <2> TAKE i \in Cell
  <2>1. cells[i].pos \in Int /\ (cells[i].seqs # {} => cells[i].pos >= 0)
    BY <1>1, CellFields
  <2> QED
    BY <1>2, <2>1
<1> QED
  BY <1>1, <1>3, <1>4, VisibleSame

\* The cells a move of defrag_prepare takes, and where each of them goes.
Fillers == FillersFor(FirstHole)

Moved == {i \in Fillers : moves + BlocksUpTo(Fillers, i) <= MaxMoves}

HomeOf(i) == Home(FirstHole, Fillers, i)

\* Each cell that is moved is found in a cell of the hole, and only there.
LEMMA MovedHomes ==
  ASSUME CellsInv, FillHole
  PROVE  /\ Moved \subseteq Fillers /\ Fillers \subseteq InUse(cells)
         /\ FirstHole \subseteq Cell \ InUse(cells)
         /\ \A i \in Moved :
              /\ HomeOf(i) \in FirstHole
              /\ cells'[HomeOf(i)] = cells[i]
              /\ data'[HomeOf(i)] = data[i]
         /\ \A h \in Cell : (\A i \in Moved : HomeOf(i) # h) =>
              /\ data'[h] = data[h]
              /\ cells'[h] = IF h \in Moved THEN Fresh ELSE cells[h]
<1> DEFINE filled(h) == \E i \in Moved : HomeOf(i) = h
           source(h) == CHOOSE i \in Moved : HomeOf(i) = h
<1>1. /\ Holes # {}
      /\ cells' = [i \in Cell |-> IF filled(i) THEN cells[source(i)]
                                  ELSE IF i \in Moved THEN Fresh ELSE cells[i]]
      /\ data' = [i \in Cell |-> IF filled(i) THEN data[source(i)] ELSE data[i]]
  BY DEF FillHole, Moved, Fillers, HomeOf
<1>2. /\ FirstHole \subseteq Cell \ InUse(cells) /\ FirstHole \subseteq Nat
      /\ MinOf(FirstHole) \in FirstHole /\ Cardinality(FirstHole) \in Nat
  BY <1>1, HoleFacts
<1>3. /\ Moved \subseteq Fillers /\ Fillers \subseteq InUse(cells)
      /\ Fillers \subseteq Nat /\ IsFiniteSet(Fillers)
  BY <1>2, FillersFew DEF Moved, Fillers
<1>4. \A i \in Moved : HomeOf(i) \in FirstHole
  BY <1>1, <1>3, HomeInHole DEF Fillers, HomeOf
<1>5. \A i, j \in Moved : HomeOf(i) = HomeOf(j) => i = j
  <2> SUFFICES ASSUME NEW i \in Moved, NEW j \in Moved, i # j
               PROVE  HomeOf(i) # HomeOf(j)
    OBVIOUS
  <2>1. i \in Nat /\ j \in Nat /\ MinOf(FirstHole) \in Nat
    BY <1>2, <1>3
  <2>2. HomeOf(i) \in Nat /\ HomeOf(j) \in Nat
    BY <1>2, <1>4
  <2>3. CASE i < j
    BY <1>3, <2>1, <2>2, <2>3, HomeInjective DEF HomeOf
  <2>4. CASE j < i
    BY <1>3, <2>1, <2>2, <2>4, HomeInjective DEF HomeOf
  <2> QED
    BY <2>1, <2>3, <2>4
<1>6. \A i \in Moved : filled(HomeOf(i)) /\ source(HomeOf(i)) = i
  BY <1>5
<1>7. \A h : (\A i \in Moved : HomeOf(i) # h) => ~filled(h)
  OBVIOUS
<1> HIDE DEF filled, source
<1>8. \A i \in Moved : cells'[HomeOf(i)] = cells[i] /\ data'[HomeOf(i)] = data[i]
  BY <1>1, <1>2, <1>4, <1>6
<1>9. \A h \in Cell : ~filled(h) =>
        data'[h] = data[h] /\ cells'[h] = IF h \in Moved THEN Fresh ELSE cells[h]
  BY <1>1
<1> QED
  BY <1>2, <1>3, <1>4, <1>7, <1>8, <1>9

\* Filling a hole shows nothing: each token moves with its cell.
LEMMA FillHoleStores ==
  ASSUME CellsInv, CellsInv', FillHole, pending = {}
  PROVE  /\ Visible' = Visible
         /\ \A h \in Cell : \E i \in Cell : data'[h] = data[i]
<1>1. pending' = {} /\ InUse(cells) \subseteq Cell
  BY InUseFinite DEF FillHole, call
<1>2. ASSUME NEW h \in Cell
      PROVE  \/ \E i \in Moved : i \in Cell /\ HomeOf(i) = h /\ cells'[h] = cells[i] /\ data'[h] = data[i]
             \/ data'[h] = data[h] /\ cells'[h].seqs = {}
             \/ data'[h] = data[h] /\ cells'[h] = cells[h]
  <2>1. CASE \E i \in Moved : HomeOf(i) = h
    BY <1>1, <2>1, MovedHomes
  <2>2. CASE \A i \in Moved : HomeOf(i) # h
    <3>1. data'[h] = data[h] /\ cells'[h] = IF h \in Moved THEN Fresh ELSE cells[h]
      BY <2>2, MovedHomes
    <3> QED
      BY <3>1 DEF Fresh
  <2> QED
    BY <2>1, <2>2
<1>3. ASSUME NEW i \in Cell, cells[i].seqs # {}
      PROVE  \E h \in Cell : cells'[h] = cells[i] /\ data'[h] = data[i]
  <2>1. CASE i \in Moved
    BY <2>1, MovedHomes
  <2>2. CASE i \notin Moved
    <3>1. i \notin FirstHole
      BY <1>3, InUseFinite, MovedHomes
    <3>2. \A j \in Moved : HomeOf(j) # i
      BY <3>1, MovedHomes
    <3> QED
      BY <2>2, <3>2, MovedHomes
  <2> QED
    BY <2>1, <2>2
<1>4. \A h, i \in Cell : cells'[h] = cells[i] /\ data'[h] = data[i] => Shows'[h] = Shows[i]
  BY DEF Shows
<1>5. \A e : e \in Visible' => e \in Visible
  BY <1>1, <1>2, <1>4, VisibleCells, VisibleCellsNext
<1>6. \A e : e \in Visible => e \in Visible'
  BY <1>1, <1>3, <1>4, VisibleCells, VisibleCellsNext
<1>7. \A h \in Cell : \E i \in Cell : data'[h] = data[i]
  BY <1>2
<1> QED
  BY <1>5, <1>6, <1>7

\* The tokens that become visible with the last graph of a batch are its own.
LEMMA ComputeStores ==
  ASSUME StoreInv, CellsInv', Compute
  PROVE  /\ batch' # <<>> => Visible' = Visible
         /\ Visible \subseteq Visible'
         /\ \A e \in Visible' \ Visible, f \in Visible : f.tok < e.tok
         /\ \A j \in pending, f \in Visible : f.tok < data'[j].tok
         /\ \A i \in Cell : data'[i].tok <= decoded
<1> DEFINE n == UBatchLen
           slot == head..(head + n - 1)
<1>1. /\ CellsInv /\ phase = "compute"
      /\ data' = [i \in Cell |-> IF i \in slot
                                 THEN [tok |-> batch[i - head + 1].tok, rot |-> batch[i - head + 1].pos]
                                 ELSE data[i]]
      /\ cells' = cells
      /\ pending' = IF batch' = <<>> THEN {} ELSE pending
  BY DEF StoreInv, Compute
<1>2. n \in Nat /\ n <= Len(batch) /\ batch \in Seq(TokenType)
  BY <1>1, UBatchLenType DEF CellsInv, Shape
<1>3. Writing = slot /\ slot \subseteq Cell /\ slot \subseteq pending /\ head \in Nat /\ pending \subseteq Cell
  <2>1. Writing = slot /\ pending \subseteq Cell
    BY <1>1 DEF Writing, CellsInv, Shape
  <2>2. Writing \subseteq Cell /\ Writing \subseteq pending /\ head \in Cell
    BY <1>1 DEF CellsInv, SlotTaken
  <2>3. head \in Nat
    BY <2>2, CacheAssumption DEF Cell
  <2> HIDE DEF slot
  <2> QED
    BY <2>1, <2>2, <2>3
<1>4. \A i \in slot : i - head + 1 \in DOMAIN batch
  BY <1>2, <1>3
<1> HIDE DEF slot, n
<1>5. \A i \in Cell \ pending : data'[i] = data[i]
  BY <1>1, <1>3
<1>6. \A i \in slot : data'[i].tok = batch[i - head + 1].tok
  BY <1>1, <1>3
<1>7. \A i \in Cell : i \notin slot => data'[i] = data[i]
  BY <1>1
<1>8. \A j \in pending, f \in Visible : f.tok < data'[j].tok
  <2> TAKE j \in pending, f \in Visible
  <2>1. CASE j \in slot
    BY <1>4, <1>6, <2>1 DEF StoreInv, Younger
  <2>2. CASE j \notin slot
    BY <1>3, <1>7, <2>2 DEF StoreInv, Younger
  <2> QED
    BY <2>1, <2>2
<1>9. \A i \in Cell : data'[i].tok <= decoded
  <2> TAKE i \in Cell
  <2>1. CASE i \in slot
    BY <1>4, <1>6, <2>1 DEF StoreInv, Younger
  <2>2. CASE i \notin slot
    BY <1>7, <2>2 DEF StoreInv, Younger
  <2> QED
    BY <2>1, <2>2
<1>10. \A i \in Cell : i \notin pending => Shows'[i] = Shows[i]
  BY <1>1, <1>5 DEF Shows
<1>11. \A e \in Visible : e \in Visible'
  BY <1>1, <1>10, VisibleCells, VisibleCellsNext
<1>12. ASSUME NEW e \in Visible', e \notin Visible
       PROVE  batch' = <<>> /\ \E j \in pending : e.tok = data'[j].tok
  <2>1. PICK i \in Cell : cells[i].seqs # {} /\ i \notin pending' /\ e = Shows'[i]
    BY <1>1, VisibleCellsNext
  <2>2. i \in pending
    BY <1>1, <1>10, <1>12, <2>1, VisibleCells
  <2>3. batch' = <<>>
    BY <1>1, <2>1, <2>2
  <2>4. e.tok = data'[i].tok
    BY <2>1, EntryFields
  <2> QED
    BY <2>2, <2>3, <2>4
<1>13. batch' # <<>> => \A e : e \in Visible' <=> e \in Visible
  BY <1>11, <1>12
<1>14. \A e \in Visible' \ Visible, f \in Visible : f.tok < e.tok
  BY <1>8, <1>12
<1> QED
  BY <1>8, <1>9, <1>11, <1>13, <1>14

\* The app's case: positions are cells, so what is given up is what the batch took.
LEMMA RestoreInPlace ==
  ASSUME CellsInv, CellsInv', NEW h, Restore(h), \A i \in InUse(cells) : cells[i].pos = i
  PROVE  Visible' = Visible
<1>1. /\ cells' = [i \in Cell |-> IF i \in GivenUp THEN Emptied(cells[i]) ELSE cells[i]]
      /\ data' = data /\ pending' = {}
  BY DEF Restore
<1>2. \A i \in Cell : i \in GivenUp <=> cells[i].pos \in pending
  BY DEF GivenUp
<1>3. \A i \in Cell : cells[i].seqs # {} => (i \in GivenUp <=> i \in pending)
  BY <1>2, InUseFinite
<1>4. \A i \in Cell : i \in GivenUp => cells'[i].seqs = {}
  BY <1>1 DEF Emptied
<1>5. \A i \in Cell : i \notin GivenUp => cells'[i] = cells[i]
  BY <1>1
<1> QED
  BY <1>1, <1>3, <1>4, <1>5, VisibleSame

-----------------------------------------------------------------------------
\* The inductive invariant.

\* StoreInv holds at the start.
LEMMA StoreInit == Init => StoreInv
<1> SUFFICES ASSUME Init PROVE StoreInv
  OBVIOUS
<1>1. CellsInv
  BY CellsInit
<1>2. Paused
  BY DEF Init, Paused
<1>3. \A i \in Cell : data[i].tok <= decoded
  BY DEF Init, NoRow
<1>4. DOMAIN batch = {} /\ pending = {}
  BY DEF Init
<1>5. Younger
  BY <1>3, <1>4 DEF Younger
<1>6. Writing = {}
  BY DEF Init, Writing
<1>7. Carried
  BY <1>4, <1>6 DEF Carried
<1> QED
  BY <1>1, <1>2, <1>5, <1>7 DEF StoreInv

\* Each step keeps Paused: a batch ends with no cell pending, and what is due is
\* done before the next one starts.
LEMMA PausedStep ==
  ASSUME StoreInv, [Next]_vars
  PROVE  Paused'
<1> USE DEF Paused
<1>1. /\ Paused /\ CellsInv /\ phase \in Phases
      /\ batch \in Seq(TokenType)
  BY DEF StoreInv, CellsInv, Shape
<1>2. CASE UNCHANGED vars
  BY <1>1, <1>2 DEF vars, ring, call
<1>3. ASSUME phase = "idle", phase' = "idle", UNCHANGED call
      PROVE  Paused'
  BY <1>1, <1>3 DEF call
<1>4. CASE SeqOps
  <2>1. phase = "idle" /\ phase' = "idle" /\ UNCHANGED call
    BY <1>4, SeqOpsLeave
  <2> QED
    BY <1>3, <2>1
<1>5. CASE Clear \/ Defrag
  BY <1>3, <1>5 DEF Clear, Defrag, Called
<1>15. CASE Rest
  BY <1>2, <1>15 DEF Rest
<1>6. CASE KvSelfUpdate
  BY <1>1, <1>6 DEF KvSelfUpdate, Called, call
<1>7. ASSUME NEW S \in (SUBSET Seqs) \ {{}}, NEW n \in 1..MaxBatch, BeginDecode(S, n)
      PROVE  Paused'
  <2>1. pending' = {} /\ phase' = "update"
    BY <1>7 DEF BeginDecode
  <2> QED
    BY <2>1
<1>8. CASE ApplyShift \/ ShiftFails
  <2>1. /\ phase = "update" /\ UNCHANGED <<batch, pending, doDefrag>>
        /\ IF doDefrag THEN phase' = "defrag" ELSE phase' = IF batch = <<>> THEN "idle" ELSE "slot"
    BY <1>8 DEF ApplyShift, ShiftFails, ShiftOver, Resume, call
  <2> QED
    BY <1>1, <2>1
<1>9. CASE FillHole
  BY <1>1, <1>9 DEF FillHole, call
<1>10. CASE DefragDone
  BY <1>1, <1>10 DEF DefragDone, Resume, call
<1>11. ASSUME NEW h \in Cell, FindSlot(h) PROVE Paused'
  <2>1. /\ phase = "slot" /\ phase' = "compute" /\ batch' = batch /\ doDefrag' = doDefrag
        /\ pending' = pending \union (h..(h + UBatchLen - 1))
    BY <1>11 DEF FindSlot
  <2>2. batch = <<>> => pending' = {}
    <3> SUFFICES ASSUME batch = <<>> PROVE pending' = {}
      OBVIOUS
    <3>1. UBatchLen = 0 /\ h \in Int
      BY CacheAssumption DEF UBatchLen, Cell
    <3>2. h..(h + UBatchLen - 1) = {}
      BY <3>1
    <3> QED
      BY <1>1, <2>1, <3>2
  <2> QED
    BY <1>1, <2>1, <2>2
<1>12. CASE Compute
  <2>1. /\ phase = "compute" /\ doDefrag' = doDefrag
        /\ IF batch' = <<>> THEN phase' = "idle" /\ pending' = {}
           ELSE phase' = "update" /\ pending' = pending
    BY <1>12 DEF Compute
  <2> QED
    BY <1>1, <2>1
<1>13. CASE NoSlot \/ ComputeFails
  <2>1. batch' = <<>> /\ pending' = {} /\ phase' = "idle"
    BY <1>13 DEF NoSlot, ComputeFails, Restore
  <2> QED
    BY <2>1
<1>14. CASE CannotShift
  <2>1. phase' = "dead" /\ UNCHANGED <<batch, pending, doDefrag>>
    BY <1>14 DEF CannotShift, ring, call
  <2> QED
    BY <1>1, <2>1
<1> QED
  BY <1>2, <1>4, <1>5, <1>6, <1>7, <1>8, <1>9, <1>10, <1>11, <1>12, <1>13, <1>14, <1>15 DEF Next

\* No batch is under way afterwards.
LEMMA YoungerIdle ==
  ASSUME StoreInv, batch' = <<>>, pending' = {}, decoded' = decoded,
         data' = data \/ Clear
  PROVE  Younger'
<1>1. \A i \in Cell : data'[i].tok <= decoded
  <2>1. CASE data' = data
    BY <2>1 DEF StoreInv, Younger
  <2>2. CASE Clear
    <3>1. \A i \in Cell : data'[i].tok = 0
      BY <2>2 DEF Clear, NoRow
    <3> QED
      BY <3>1 DEF StoreInv, CellsInv, Shape
  <2> QED
    BY <2>1, <2>2
<1>2. DOMAIN batch' = {}
  OBVIOUS
<1> QED
  BY <1>1, <1>2 DEF Younger

\* The cache shows what it did, and the batch is what it was.
LEMMA YoungerSame ==
  ASSUME StoreInv, Visible' = Visible, UNCHANGED <<batch, decoded>>,
         \A i \in Cell : \E j \in Cell : data'[i].tok = data[j].tok,
         \A j \in pending' \ Writing' : j \in pending \ Writing /\ data'[j].tok = data[j].tok
  PROVE  Younger'
<1>1. \A i \in Cell : data'[i].tok <= decoded'
  BY DEF StoreInv, Younger
<1>2. \A k \in DOMAIN batch' :
        batch'[k].tok <= decoded' /\ \A e \in Visible' : e.tok < batch'[k].tok
  BY DEF StoreInv, Younger
<1>3. \A j \in pending' \ Writing', e \in Visible' : e.tok < data'[j].tok
  BY DEF StoreInv, Younger
<1> QED
  BY <1>1, <1>2, <1>3 DEF Younger

\* Each step keeps Younger: tokens are numbered as they are decoded.
LEMMA YoungerStep ==
  ASSUME StoreInv, CellsInv', [Next]_vars
  PROVE  Younger'
<1>1. Younger /\ Paused /\ CellsInv /\ decoded \in Nat
  BY DEF StoreInv, CellsInv, Shape
<1>2. CASE UNCHANGED vars
  <2>1. UNCHANGED <<cells, data, batch, pending, decoded, phase, head>>
    BY <1>2 DEF vars, ring, call
  <2> QED
    BY <1>1, <2>1 DEF Younger, Visible, Entry, Writing, UBatchLen
<1>3. CASE SeqOps
  <2>1. phase = "idle" /\ UNCHANGED <<data, call, decoded>>
    BY <1>3, SeqOpsLeave
  <2> QED
    BY <2>1, IdleFacts, YoungerIdle DEF call
<1>4. CASE Clear
  <2>1. phase = "idle" /\ UNCHANGED <<call, decoded>>
    BY <1>4 DEF Clear, Called
  <2> QED
    BY <1>4, <2>1, IdleFacts, YoungerIdle DEF call
<1>5. CASE Defrag \/ KvSelfUpdate
  <2>1. phase = "idle" /\ UNCHANGED <<data, call, decoded>>
    BY <1>5 DEF Defrag, KvSelfUpdate, Called, ring
  <2> QED
    BY <2>1, IdleFacts, YoungerIdle DEF call
<1>6. CASE Rest
  BY <1>2, <1>6 DEF Rest
<1>7. ASSUME NEW S \in (SUBSET Seqs) \ {{}}, NEW n \in 1..MaxBatch, BeginDecode(S, n)
      PROVE  Younger'
  <2> DEFINE p == NextPos
  <2>1. /\ batch' = [k \in 1..n |-> [tok |-> decoded + k, pos |-> p + k - 1, seqs |-> S]]
        /\ decoded' = decoded + n /\ pending' = {} /\ data' = data
    BY <1>7 DEF BeginDecode, ring
  <2>2. Visible' = Visible
    BY <1>7, UpdateStores
  <2>3. n \in Nat /\ \A k \in 1..n : k \in Nat /\ k <= n /\ 0 < k
    OBVIOUS
  <2>4. \A i \in Cell : data[i].tok \in Nat /\ data[i].tok <= decoded
    BY <1>1 DEF Younger, CellsInv, Shape
  <2>5. \A i \in Cell : data'[i].tok <= decoded'
    BY <1>1, <2>1, <2>3, <2>4
  <2>6. \A e \in Visible : e.tok \in Nat /\ e.tok <= decoded
    BY <1>1, <2>4, VisibleCells, EntryFields
  <2>7. \A k \in DOMAIN batch' : k \in 1..n /\ batch'[k].tok = decoded + k
    BY <2>1
  <2>8. \A k \in DOMAIN batch' :
          batch'[k].tok <= decoded' /\ \A e \in Visible' : e.tok < batch'[k].tok
    <3> TAKE k \in DOMAIN batch'
    <3>1. k \in Nat /\ k <= n /\ 0 < k /\ batch'[k].tok = decoded + k
      BY <2>3, <2>7
    <3>2. batch'[k].tok <= decoded'
      BY <1>1, <2>1, <2>3, <3>1
    <3>3. \A e \in Visible : e.tok < decoded + k
      BY <1>1, <2>6, <3>1
    <3> QED
      BY <2>2, <3>1, <3>2, <3>3
  <2> QED
    BY <2>1, <2>5, <2>8 DEF Younger
<1>8. CASE ApplyShift \/ ShiftFails
  <2>1. phase = "update" /\ UNCHANGED <<batch, pending, decoded>> /\ phase' # "compute"
    BY <1>8 DEF ApplyShift, ShiftFails, ShiftOver, Resume, call
  <2>2. Visible' = Visible /\ \A i \in Cell : data'[i].tok = data[i].tok
    BY <1>8, ShiftStores
  <2>3. Writing = {} /\ Writing' = {} /\ pending \subseteq Cell
    BY <1>1, <2>1 DEF Writing, CellsInv, Shape
  <2> QED
    BY <2>1, <2>2, <2>3, YoungerSame
<1>9. CASE FillHole
  <2>1. pending = {} /\ UNCHANGED <<batch, pending, decoded>>
    BY <1>1, <1>9 DEF FillHole, call, Paused
  <2>2. Visible' = Visible /\ \A h \in Cell : \E i \in Cell : data'[h] = data[i]
    BY <1>1, <1>9, <2>1, FillHoleStores
  <2>3. \A h \in Cell : \E i \in Cell : data'[h].tok = data[i].tok
    BY <2>2
  <2> QED
    BY <2>1, <2>2, <2>3, YoungerSame
<1>10. CASE DefragDone
  <2>1. phase = "defrag" /\ phase' # "compute" /\ UNCHANGED <<data, batch, pending, decoded>>
    BY <1>10 DEF DefragDone, Resume, call
  <2>2. Visible' = Visible
    BY <1>10, UpdateStores
  <2>3. Writing = {} /\ Writing' = {}
    BY <2>1 DEF Writing
  <2> QED
    BY <2>1, <2>2, <2>3, YoungerSame
<1>11. ASSUME NEW h \in Cell, FindSlot(h) PROVE Younger'
  <2>1. /\ phase = "slot" /\ phase' = "compute" /\ UNCHANGED <<data, batch, decoded>> /\ head' = h
        /\ pending' = pending \union (h..(h + UBatchLen - 1))
    BY <1>11 DEF FindSlot
  <2>2. Visible' = Visible
    BY <1>11, FindSlotStores
  <2>3. Writing = {} /\ Writing' = h..(h + UBatchLen - 1)
    BY <2>1 DEF Writing, UBatchLen
  <2>4. \A j \in pending' \ Writing' : j \in pending \ Writing
    BY <2>1, <2>3
  <2> QED
    BY <2>1, <2>2, <2>4, YoungerSame
<1>12. CASE Compute
  <2> DEFINE n == UBatchLen
  <2>1. /\ batch' = SubSeq(batch, n + 1, Len(batch)) /\ decoded' = decoded
        /\ phase' # "compute"
        /\ IF batch' = <<>> THEN pending' = {} ELSE pending' = pending
    BY <1>12 DEF Compute
  <2>2. /\ batch' # <<>> => Visible' = Visible
        /\ \A j \in pending, f \in Visible : f.tok < data'[j].tok
        /\ \A i \in Cell : data'[i].tok <= decoded
    BY <1>12, ComputeStores
  <2>3. CASE batch' = <<>>
    <3>1. DOMAIN batch' = {}
      <4>1. DOMAIN <<>> = {}
        OBVIOUS
      <4> QED
        BY <2>3, <4>1, Zenon
    <3> QED
      BY <2>1, <2>2, <2>3, <3>1 DEF Younger
  <2>4. CASE batch' # <<>>
    <3>1. n \in Nat /\ n <= Len(batch) /\ batch \in Seq(TokenType)
      BY <1>1, UBatchLenType DEF CellsInv, Shape
    <3>2. \A k \in DOMAIN batch' : n + k \in DOMAIN batch /\ batch'[k] = batch[n + k]
      <4> HIDE DEF n
      <4> QED
        BY <2>1, <3>1
    <3>3. \A k \in DOMAIN batch' :
            batch'[k].tok <= decoded' /\ \A e \in Visible' : e.tok < batch'[k].tok
      BY <1>1, <2>1, <2>2, <2>4, <3>2 DEF Younger
    <3>4. \A j \in pending', e \in Visible' : e.tok < data'[j].tok
      BY <2>1, <2>2, <2>4
    <3> QED
      BY <2>1, <2>2, <3>3, <3>4 DEF Younger
  <2> QED
    BY <2>3, <2>4
<1>13. CASE NoSlot \/ ComputeFails
  <2>1. batch' = <<>> /\ pending' = {} /\ decoded' = decoded /\ data' = data
    BY <1>13 DEF NoSlot, ComputeFails, Restore
  <2> QED
    BY <2>1, YoungerIdle
<1>14. CASE CannotShift
  <2>1. phase = "update" /\ phase' = "dead" /\ UNCHANGED <<cells, data, batch, pending, decoded>>
    BY <1>14 DEF CannotShift, ring, call
  <2>2. Visible' = Visible
    BY <2>1 DEF Visible, Entry
  <2>3. Writing = {} /\ Writing' = {}
    BY <2>1 DEF Writing
  <2> QED
    BY <2>1, <2>2, <2>3, YoungerSame
<1> QED
  BY <1>2, <1>3, <1>4, <1>5, <1>6, <1>7, <1>8, <1>9, <1>10, <1>11, <1>12, <1>13, <1>14 DEF Next

\* A slot's cells are empty when they are taken, and take the sequences of the
\* tokens.
LEMMA CarriedFindSlot ==
  ASSUME StoreInv, CellsInv', NEW h \in Cell, FindSlot(h)
  PROVE  /\ Carried'
         /\ Writing = {}
         /\ \A i \in Cell : i \in pending' \ Writing' <=> i \in pending
         /\ \A i \in pending : cells'[i] = cells[i]
<1> DEFINE n == UBatchLen
           slot == h..(h + n - 1)
<1>1. /\ CellsInv /\ Fits(h, n) /\ phase = "slot" /\ phase' = "compute"
      /\ cells' = [i \in Cell |-> IF i \in slot THEN Taken(cells[i], batch[i - h + 1]) ELSE cells[i]]
      /\ pending' = pending \union slot /\ head' = h /\ batch' = batch
  BY DEF StoreInv, FindSlot, SlotFrom
<1>2. n \in Nat /\ n <= Len(batch) /\ batch \in Seq(TokenType) /\ h \in Nat
  BY <1>1, UBatchLenType, CacheAssumption DEF CellsInv, Shape, Cell
<1>3. \A i \in slot : cells[i].pos < 0
  BY <1>1 DEF Fits
<1>4. Writing = {} /\ Writing' = slot
  BY <1>1 DEF Writing, UBatchLen
<1>5. slot \subseteq Cell
  <2>1. h + n <= Size
    BY <1>1 DEF Fits
  <2> QED
    BY <1>2, <2>1, CacheAssumption DEF Cell
<1>6. \A i \in slot : i - h + 1 \in DOMAIN batch
  BY <1>2
<1> HIDE DEF slot, n
<1>7. \A i \in slot : cells[i].seqs = {}
  <2> TAKE i \in slot
  <2>1. cells[i].pos \in Int /\ (cells[i].seqs # {} => cells[i].pos >= 0)
    BY <1>1, <1>5, CellFields
  <2> QED
    BY <1>3, <2>1
<1>8. \A i \in slot : cells'[i].seqs = batch[i - h + 1].seqs /\ batch[i - h + 1].seqs # {}
  <2> TAKE i \in slot
  <2>1. batch[i - h + 1] \in TokenType
    BY <1>2, <1>6
  <2>2. cells'[i] = Taken(cells[i], batch[i - h + 1])
    BY <1>1, <1>5
  <2>3. cells'[i].seqs = cells[i].seqs \union batch[i - h + 1].seqs
    BY <2>2 DEF Taken
  <2> QED
    BY <1>7, <2>1, <2>3 DEF TokenType
<1>9. pending \subseteq Cell /\ \A i \in pending : i \notin slot /\ cells[i].seqs # {}
  BY <1>1, <1>7 DEF StoreInv, Carried, CellsInv, Shape
<1>10. \A i \in pending : cells'[i] = cells[i]
  BY <1>1, <1>9
<1>11. Carried'
  BY <1>1, <1>4, <1>8, <1>9, <1>10 DEF Carried
<1> QED
  BY <1>1, <1>4, <1>9, <1>10, <1>11

\* Each step keeps Carried: the cells of a batch change only as they are taken and
\* given up.
LEMMA CarriedStep ==
  ASSUME StoreInv, CellsInv', [Next]_vars
  PROVE  Carried'
<1>1. Carried /\ Paused /\ CellsInv
  BY DEF StoreInv
<1>2. ASSUME pending' = {}, phase' # "compute" PROVE Carried'
  BY <1>2 DEF Carried, Writing
<1>3. ASSUME pending' = pending, phase' # "compute",
             \A i \in pending : cells'[i].seqs = cells[i].seqs
      PROVE  Carried'
  <2>1. Writing' = {}
    BY <1>3 DEF Writing
  <2> QED
    BY <1>1, <1>3, <2>1 DEF Carried
<1>4. pending \subseteq Cell
  BY <1>1 DEF CellsInv, Shape
<1>5. CASE UNCHANGED vars \/ Rest
  BY <1>1, <1>5 DEF Rest, vars, ring, call, Carried, Writing, UBatchLen
<1>6. CASE SeqOps
  <2>1. phase = "idle" /\ phase' = "idle" /\ pending' = pending
    BY <1>6, SeqOpsLeave DEF call
  <2> QED
    BY <1>2, <2>1, IdleFacts
<1>7. CASE Clear \/ Defrag \/ KvSelfUpdate
  <2>1. phase = "idle" /\ phase' \in {"idle", "update"} /\ pending' = pending
    BY <1>7 DEF Clear, Defrag, KvSelfUpdate, Called, call
  <2> QED
    BY <1>2, <2>1, IdleFacts
<1>8. ASSUME NEW S \in (SUBSET Seqs) \ {{}}, NEW n \in 1..MaxBatch, BeginDecode(S, n)
      PROVE  Carried'
  BY <1>2, <1>8 DEF BeginDecode
<1>9. CASE ApplyShift \/ ShiftFails
  <2>1. phase' # "compute" /\ pending' = pending
    BY <1>9 DEF ApplyShift, ShiftFails, ShiftOver, Resume, call
  <2>2. \A i \in Cell : cells'[i].seqs = cells[i].seqs
    BY <1>9, ShiftStores
  <2> QED
    BY <1>3, <1>4, <2>1, <2>2
<1>10. CASE CannotShift
  BY <1>3, <1>10 DEF CannotShift, ring, call
<1>11. CASE FillHole
  BY <1>1, <1>2, <1>11 DEF FillHole, Paused, call
<1>12. CASE DefragDone
  BY <1>3, <1>12 DEF DefragDone, Resume, call
<1>13. ASSUME NEW h \in Cell, FindSlot(h) PROVE Carried'
  BY <1>13, CarriedFindSlot
<1>14. CASE Compute
  BY <1>2, <1>3, <1>14 DEF Compute
<1>15. CASE NoSlot \/ ComputeFails
  BY <1>2, <1>15 DEF NoSlot, ComputeFails, Restore
<1> QED
  BY <1>5, <1>6, <1>7, <1>8, <1>9, <1>10, <1>11, <1>12, <1>13, <1>14, <1>15 DEF Next

\* Each step keeps StoreInv.
LEMMA StoreInvStep ==
  ASSUME StoreInv, [Next]_vars
  PROVE  StoreInv'
<1>1. CellsInv'
  BY CellsStep, CellsStutter DEF StoreInv
<1> QED
  BY <1>1, PausedStep, YoungerStep, CarriedStep DEF StoreInv

\* StoreInv is invariant.
LEMMA StoreInvAlways == Spec => []StoreInv
BY StoreInit, StoreInvStep, PTL DEF Spec

-----------------------------------------------------------------------------
\* The refinement.

\* What a batch asks for, token by token.
LEMMA AskedCells ==
  ASSUME CellsInv
  PROVE  \A e : e \in Asked <=> \/ \E k \in DOMAIN batch : e = batch[k]
                                \/ \E i \in pending \ Writing : e = Shows[i]
<1>1. pending \subseteq Cell
  BY DEF CellsInv, Shape
<1>2. \A i \in pending \ Writing : Entry(i) = Shows[i]
  BY <1>1 DEF Entry, Shows
<1> QED
  BY <1>2 DEF Asked

\* The same after a step.
LEMMA AskedCellsNext ==
  ASSUME CellsInv'
  PROVE  \A e : e \in Asked' <=> \/ \E k \in DOMAIN batch' : e = batch'[k]
                                 \/ \E i \in pending' \ Writing' : e = Shows'[i]
<1>1. pending' \subseteq Cell
  BY DEF CellsInv, Shape
<1>2. \A i \in pending' \ Writing' : Entry(i)' = Shows'[i]
  BY <1>1 DEF Entry, Shows
<1> QED
  BY <1>2 DEF Asked

\* Between two batches nothing is asked for.
LEMMA AskedNone ==
  /\ batch = <<>> /\ pending = {} => Asked = {}
  /\ batch' = <<>> /\ pending' = {} => Asked' = {}
<1>1. DOMAIN <<>> = {}
  OBVIOUS
<1>2. batch = <<>> => DOMAIN batch = {}
  BY <1>1, Zenon
<1>3. batch' = <<>> => DOMAIN batch' = {}
  BY <1>1, Zenon
<1> QED
  BY <1>2, <1>3 DEF Asked

\* Nor does a step between them change that.
LEMMA AskedIdle ==
  ASSUME StoreInv, phase = "idle", UNCHANGED call
  PROVE  Asked = {} /\ Asked' = {}
<1>1. batch = <<>> /\ pending = {} /\ batch' = <<>> /\ pending' = {}
  BY IdleFacts DEF call
<1> QED
  BY <1>1, AskedNone

\* If the batch and the cells it has filled are what they were, so is what is asked
\* for.
LEMMA AskedSame ==
  ASSUME CellsInv, CellsInv', batch' = batch,
         \A i \in Cell : i \in pending' \ Writing' <=> i \in pending \ Writing,
         \A i \in pending : /\ data'[i].tok = data[i].tok
                            /\ cells'[i].pos = cells[i].pos
                            /\ cells'[i].seqs = cells[i].seqs
  PROVE  Asked' = Asked
<1>1. pending \subseteq Cell /\ pending' \subseteq Cell
  BY DEF CellsInv, Shape
<1>2. \A i \in pending : Shows'[i] = Shows[i]
  BY <1>1 DEF Shows
<1>3. \A e : e \in Asked' <=> e \in Asked
  BY <1>1, <1>2, AskedCells, AskedCellsNext
<1> QED
  BY <1>3

\* A llama_decode that begins asks for its tokens.
LEMMA BeginStores ==
  ASSUME StoreInv, CellsInv', NEW S \in (SUBSET Seqs) \ {{}}, NEW n \in 1..MaxBatch,
         BeginDecode(S, n)
  PROVE  Store!Submit(S, n)
<1> DEFINE p == NextPos
<1>1. /\ phase = "idle" /\ decoded + n <= MaxTokens /\ pending' = {}
      /\ batch' = [k \in 1..n |-> [tok |-> decoded + k, pos |-> p + k - 1, seqs |-> S]]
  BY DEF BeginDecode
<1>2. CellsInv /\ pending = {} /\ batch = <<>> /\ Visible \subseteq EntryType
  BY <1>1, IdleFacts
<1>3. Visible' = Visible
  BY UpdateStores
<1>4. Asked = {}
  BY <1>2, AskedNone
<1>5. decoded \in 0..MaxTokens
  BY <1>1, CacheAssumption DEF CellsInv, Shape, StoreInv
<1>6. /\ p \in Nat
      /\ \A i \in Cell : cells[i].pos < p
      /\ p = 0 \/ \E i \in Cell : cells[i].pos + 1 = p
  BY <1>2, NextPosType DEF CellsInv
<1> HIDE DEF p
<1>7. \A e : e \in Visible <=> \E i \in Cell : cells[i].seqs # {} /\ e = Shows[i]
  BY <1>2, VisibleCells
<1>8. \A e \in Visible : e.tok <= decoded /\ e.pos < p
  <2> TAKE e \in Visible
  <2>1. PICK i \in Cell : e = Shows[i]
    BY <1>7
  <2> QED
    BY <1>6, <2>1, EntryFields DEF StoreInv, Younger
<1>9. p \in Store!Lasts \union {0}
  <2> SUFFICES ASSUME p # 0 PROVE p \in Store!Lasts
    OBVIOUS
  <2>1. PICK i \in Cell : cells[i].pos + 1 = p
    BY <1>6
  <2>2. cells[i].pos \in Int /\ cells[i].pos # -1
    BY <1>2, <1>6, <2>1, CellFields
  <2>3. cells[i].seqs # {}
    BY <1>2, <2>2, CellFields
  <2>4. Shows[i] \in Visible /\ Shows[i].pos + 1 = p
    BY <1>7, <2>1, <2>3, EntryFields
  <2> QED
    BY <2>4 DEF Store!Lasts
<1> DEFINE R == {[tok |-> decoded + k, pos |-> p + k - 1, seqs |-> S] : k \in 1..n}
<1>10. \A e : e \in Asked' <=> e \in R
  <2>1. \A e : e \in Asked' <=> \E k \in DOMAIN batch' : e = batch'[k]
    BY <1>1, AskedCellsNext
  <2>2. DOMAIN batch' = 1..n
    BY <1>1
  <2>3. \A k \in 1..n : batch'[k] = [tok |-> decoded + k, pos |-> p + k - 1, seqs |-> S]
    BY <1>1
  <2> QED
    BY <2>1, <2>2, <2>3
<1>11. Asked' = R
  BY <1>10
<1> QED
  BY <1>3, <1>4, <1>5, <1>8, <1>9, <1>11, Zenon DEF Store!Submit

\* The graph writes the rows of the tokens its cells were taken for.
LEMMA ComputeAsked ==
  ASSUME StoreInv, CellsInv', Compute
  PROVE  \A e : e \in Asked <=> \/ \E k \in DOMAIN batch : k > UBatchLen /\ e = batch[k]
                                \/ \E i \in pending : e = Shows'[i]
<1> DEFINE n == UBatchLen
           slot == head..(head + n - 1)
<1>1. /\ CellsInv /\ Carried /\ phase = "compute" /\ cells' = cells
      /\ data' = [i \in Cell |-> IF i \in slot
                                 THEN [tok |-> batch[i - head + 1].tok, rot |-> batch[i - head + 1].pos]
                                 ELSE data[i]]
  BY DEF StoreInv, Compute
<1>2. n \in Nat /\ n <= Len(batch) /\ batch \in Seq(TokenType)
  BY <1>1, UBatchLenType DEF CellsInv, Shape
<1>3. /\ Writing = slot /\ slot \subseteq Cell /\ slot \subseteq pending
      /\ pending \subseteq Cell /\ head \in Nat
      /\ \A i \in slot : cells[i].pos = batch[i - head + 1].pos
  <2>1. Writing = slot /\ pending \subseteq Cell
    BY <1>1 DEF Writing, CellsInv, Shape
  <2>2. /\ Writing \subseteq Cell /\ Writing \subseteq pending /\ head \in Cell
        /\ \A i \in Writing : cells[i].pos = batch[i - head + 1].pos
    BY <1>1 DEF CellsInv, SlotTaken
  <2>3. head \in Nat
    BY <2>2, CacheAssumption DEF Cell
  <2> HIDE DEF slot
  <2> QED
    BY <2>1, <2>2, <2>3
<1>4. \A i \in slot : i - head + 1 \in DOMAIN batch /\ ~(i - head + 1 > n)
  BY <1>2, <1>3
<1>5. \A k \in DOMAIN batch : k > n \/ \E i \in slot : i - head + 1 = k
  <2> TAKE k \in DOMAIN batch
  <2>1. k \in Nat /\ k >= 1
    BY <1>2
  <2> DEFINE i == head + k - 1
  <2>2. CASE ~(k > n)
    <3>1. i \in slot /\ i - head + 1 = k
      BY <1>2, <1>3, <2>1, <2>2
    <3> QED
      BY <3>1
  <2> QED
    BY <2>2
<1> HIDE DEF slot, n
<1>6. \A i \in slot : Shows'[i] = batch[i - head + 1]
  <2> TAKE i \in slot
  <2> DEFINE b == batch[i - head + 1]
  <2>1. b \in TokenType
    BY <1>2, <1>4
  <2>2. data'[i].tok = b.tok /\ cells'[i].pos = b.pos /\ cells'[i].seqs = b.seqs
    BY <1>1, <1>3 DEF Carried
  <2>3. Shows'[i] = [tok |-> data'[i].tok, pos |-> cells'[i].pos, seqs |-> cells'[i].seqs]
    BY <1>3 DEF Shows
  <2> HIDE DEF b
  <2>4. b = [tok |-> b.tok, pos |-> b.pos, seqs |-> b.seqs]
    BY <2>1 DEF TokenType
  <2>5. Shows'[i] = b
    BY <2>2, <2>3, <2>4
  <2> QED
    BY <2>5 DEF b
<1>7. \A i \in pending : i \notin slot => Shows'[i] = Shows[i]
  BY <1>1, <1>3 DEF Shows
<1>8. \A e : e \in Asked <=> \/ \E k \in DOMAIN batch : e = batch[k]
                             \/ \E i \in pending \ slot : e = Shows[i]
  BY <1>1, <1>3, AskedCells
<1>9. \A e : (\E k \in DOMAIN batch : e = batch[k]) <=>
               \/ \E k \in DOMAIN batch : k > n /\ e = batch[k]
               \/ \E i \in slot : e = Shows'[i]
  BY <1>4, <1>5, <1>6
<1>10. \A e : (\E i \in pending : e = Shows'[i]) <=>
               \/ \E i \in slot : e = Shows'[i]
               \/ \E i \in pending \ slot : e = Shows[i]
  BY <1>3, <1>7
<1> QED
  BY <1>8, <1>9, <1>10 DEF n

\* The last graph of a batch shows all its tokens, the others none.
LEMMA GraphStores ==
  ASSUME StoreInv, CellsInv', Compute
  PROVE  Store!Decode \/ UNCHANGED Store!vars
<1> DEFINE n == UBatchLen
<1>1. /\ CellsInv /\ phase = "compute" /\ cells' = cells /\ phase' # "compute"
      /\ batch' = SubSeq(batch, n + 1, Len(batch))
      /\ pending' = IF batch' = <<>> THEN {} ELSE pending
  BY DEF StoreInv, Compute
<1>2. n \in Nat /\ n <= Len(batch) /\ batch \in Seq(TokenType)
  BY <1>1, UBatchLenType DEF CellsInv, Shape
<1>3. Writing' = {}
  BY <1>1 DEF Writing
<1>4. \A e : e \in Asked <=> \/ \E k \in DOMAIN batch : k > n /\ e = batch[k]
                             \/ \E i \in pending : e = Shows'[i]
  BY ComputeAsked
<1> HIDE DEF n
<1>5. CASE batch' # <<>>
  <2>1. Visible' = Visible
    BY <1>5, ComputeStores
  <2>2. pending' = pending
    BY <1>1, <1>5
  <2>3. \A k \in DOMAIN batch' : n + k \in DOMAIN batch /\ n + k > n /\ batch'[k] = batch[n + k]
    BY <1>1, <1>2
  <2>4. ASSUME NEW k \in DOMAIN batch, k > n PROVE \E m \in DOMAIN batch' : batch'[m] = batch[k]
    <3> DEFINE m == k - n
    <3>1. k \in Nat /\ k <= Len(batch)
      BY <1>2
    <3>2. m \in DOMAIN batch' /\ n + m = k
      BY <1>1, <1>2, <2>4, <3>1
    <3> HIDE DEF m
    <3>3. batch'[m] = batch[n + m]
      BY <2>3, <3>2
    <3> QED
      BY <3>2, <3>3
  <2>5. \A e : e \in Asked' <=> \/ \E k \in DOMAIN batch' : e = batch'[k]
                                \/ \E i \in pending : e = Shows'[i]
    BY <1>3, <2>2, AskedCellsNext
  <2>6. \A e : e \in Asked' <=> e \in Asked
    BY <1>4, <2>3, <2>4, <2>5
  <2>7. Asked' = Asked
    BY <2>6
  <2> QED
    BY <2>1, <2>7 DEF Store!vars
<1>6. CASE batch' = <<>>
  <2>1. pending' = {}
    BY <1>1, <1>6
  <2>2. Asked' = {}
    BY <1>6, <2>1, AskedNone
  <2>3. \A k \in DOMAIN batch : ~(k > n)
    <3>1. Len(batch') = 0
      BY <1>6
    <3>2. Len(SubSeq(batch, n + 1, Len(batch))) = Len(batch) - n
      BY <1>2
    <3>3. Len(batch) = n
      BY <1>1, <1>2, <3>1, <3>2
    <3>4. \A k \in DOMAIN batch : k \in 1..Len(batch)
      BY <1>2
    <3> QED
      BY <1>2, <3>3, <3>4
  <2>4. \A e : e \in Asked <=> \E i \in pending : e = Shows'[i]
    BY <1>4, <2>3
  <2>5. pending \subseteq Cell /\ \A i \in pending : cells[i].seqs # {}
    BY <1>1 DEF StoreInv, Carried, CellsInv, Shape
  <2>6. \A i \in Cell : i \notin pending => Shows'[i] = Shows[i]
    <3>1. \A i \in Cell \ pending : data'[i] = data[i]
      BY <1>1 DEF Compute, CellsInv, SlotTaken, Writing
    <3> QED
      BY <1>1, <3>1 DEF Shows
  <2>7. \A e : e \in Visible' <=> \E i \in Cell : cells[i].seqs # {} /\ e = Shows'[i]
    BY <1>1, <2>1, VisibleCellsNext
  <2>8. \A e : e \in Visible <=> \E i \in Cell : cells[i].seqs # {} /\ i \notin pending /\ e = Shows[i]
    BY <1>1, VisibleCells
  <2>9. \A e : e \in Visible' <=> e \in Visible \/ e \in Asked
    BY <2>4, <2>5, <2>6, <2>7, <2>8
  <2>10. Visible' = Visible \union Asked
    BY <2>9
  <2> QED
    BY <2>2, <2>10 DEF Store!Decode
<1> QED
  BY <1>5, <1>6

\* A step of the cells is a step of the set of tokens or shows nothing, unless it is a
\* failure that does not restore the cache.
LEMMA StoreStep ==
  ASSUME StoreInv, [Next]_vars, Fails => Visible' = Visible
  PROVE  [Store!Next]_(Store!vars)
<1>1. CellsInv /\ CellsInv'
  BY CellsStep, CellsStutter DEF StoreInv
<1>2. /\ \A p \in Firsts : p \in Nat
      /\ \A p \in Lasts : p \in Int
  <2>1. \A p \in Firsts : p \in Nat
    BY <1>1, RangeType
  <2> QED
    BY <2>1 DEF Lasts
<1>3. ASSUME Visible' = Visible, Asked' = Asked PROVE [Store!Next]_(Store!vars)
  BY <1>3 DEF Store!vars
<1>4. ASSUME Store!Operation, phase = "idle", UNCHANGED call PROVE Store!Next
  <2>1. Asked = {} /\ Asked' = {}
    BY <1>4, AskedIdle
  <2> QED
    BY <1>4, <2>1 DEF Store!Next
<1>5. CASE SeqOps
  <2>1. phase = "idle" /\ UNCHANGED call
    BY <1>5, SeqOpsLeave
  <2>2. Asked' = Asked
    BY <2>1, AskedIdle
  <2> SUFFICES ASSUME Visible' # Visible PROVE Store!Operation
    BY <1>3, <1>4, <2>1, <2>2
  <2>3. ASSUME NEW seq \in Seqs, SeqKeep(seq) PROVE Store!Operation
    <3>1. Store!SeqKeep(seq)
      BY <1>1, <2>3, KeepStores
    <3> QED
      BY <3>1 DEF Store!Operation
  <2>4. ASSUME NEW seq \in Seqs \union {-1}, NEW p0 \in Firsts, NEW p1 \in Lasts, SeqRm(seq, p0, p1)
        PROVE  Store!Operation
    <3>1. PICK q0 \in Store!Firsts, q1 \in Store!Lasts : Store!SeqRm(seq, q0, q1)
      BY <1>1, <1>2, <2>4, RmStores
    <3> QED
      BY <3>1, Zenon DEF Store!Operation
  <2>5. ASSUME NEW seq \in Seqs, NEW dst \in Seqs, NEW p0 \in Firsts, NEW p1 \in Lasts,
               SeqCp(seq, dst, p0, p1)
        PROVE  Store!Operation
    <3>1. PICK q0 \in Store!Firsts, q1 \in Store!Lasts : Store!SeqCp(seq, dst, q0, q1)
      BY <1>1, <1>2, <2>5, CpStores
    <3> QED
      BY <3>1, Zenon DEF Store!Operation
  <2>6. ASSUME NEW seq \in Seqs, NEW delta \in {-1, 1}, NEW p0 \in Firsts, NEW p1 \in Lasts,
               SeqAdd(seq, p0, p1, delta)
        PROVE  Store!Operation
    <3>1. delta \in Int
      OBVIOUS
    <3>2. PICK q0 \in Store!Firsts, q1 \in Store!Lasts : Store!SeqAdd(seq, q0, q1, delta)
      BY <1>1, <1>2, <2>6, <3>1, AddStores
    <3> QED
      BY <3>2, Zenon DEF Store!Operation
  <2>7. ASSUME NEW seq \in Seqs, NEW p0 \in Firsts, NEW p1 \in Lasts, SeqDiv(seq, p0, p1, 2)
        PROVE  Store!Operation
    <3>1. PICK q0 \in Store!Firsts, q1 \in Store!Lasts : Store!SeqDiv(seq, q0, q1, 2)
      BY <1>1, <1>2, <2>7, DivStores
    <3>2. 2 \in {2}
      OBVIOUS
    <3> QED
      BY <3>1, <3>2, Zenon DEF Store!Operation
  <2> QED
    BY <1>5, <2>3, <2>4, <2>5, <2>6, <2>7 DEF SeqOps
<1>6. CASE Clear
  <2>1. Store!Clear
    BY <1>1, <1>6, ClearStores
  <2>2. phase = "idle" /\ UNCHANGED call
    BY <1>6 DEF Clear, Called
  <2> QED
    BY <1>4, <2>1, <2>2 DEF Store!Operation
<1>7. CASE Defrag \/ KvSelfUpdate
  <2>1. phase = "idle" /\ UNCHANGED call
    BY <1>7 DEF Defrag, KvSelfUpdate, Called
  <2>2. Asked' = Asked
    BY <2>1, AskedIdle
  <2> QED
    BY <1>1, <1>3, <1>7, <2>2, UpdateStores
<1>8. CASE UNCHANGED vars \/ Rest
  <2>1. UNCHANGED <<cells, data, batch, pending, phase, head>>
    BY <1>8 DEF Rest, vars, ring, call
  <2>2. Visible' = Visible /\ Asked' = Asked
    BY <2>1 DEF Visible, Entry, Asked, Writing, UBatchLen
  <2> QED
    BY <1>3, <2>2
<1>9. ASSUME NEW S \in (SUBSET Seqs) \ {{}}, NEW n \in 1..MaxBatch, BeginDecode(S, n)
      PROVE  Store!Next
  <2>1. Store!Submit(S, n)
    BY <1>1, <1>9, BeginStores
  <2> QED
    BY <2>1, Zenon DEF Store!Next
<1>10. CASE ApplyShift \/ ShiftFails
  <2>1. /\ Visible' = Visible
        /\ \A i \in Cell : /\ data'[i].tok = data[i].tok
                           /\ cells'[i].pos = cells[i].pos
                           /\ cells'[i].seqs = cells[i].seqs
    BY <1>1, <1>10, ShiftStores
  <2>2. phase = "update" /\ phase' # "compute" /\ batch' = batch /\ pending' = pending
    BY <1>10 DEF ApplyShift, ShiftFails, ShiftOver, Resume, call
  <2>3. Writing = {} /\ Writing' = {} /\ pending \subseteq Cell
    BY <1>1, <2>2 DEF Writing, CellsInv, Shape
  <2>4. Asked' = Asked
    BY <1>1, <2>1, <2>2, <2>3, AskedSame
  <2> QED
    BY <1>3, <2>1, <2>4
<1>11. CASE CannotShift \/ DefragDone
  <2>1. /\ phase \in {"update", "defrag"} /\ phase' # "compute"
        /\ UNCHANGED <<cells, data, batch, pending>>
    BY <1>11 DEF CannotShift, DefragDone, Resume, ring, call
  <2>2. Visible' = Visible
    BY <2>1 DEF Visible, Entry
  <2>3. Writing = {} /\ Writing' = {}
    BY <2>1 DEF Writing
  <2>4. Asked' = Asked
    BY <1>1, <2>1, <2>3, AskedSame
  <2> QED
    BY <1>3, <2>2, <2>4
<1>12. CASE FillHole
  <2>1. phase = "defrag" /\ phase' = "defrag" /\ batch' = batch /\ pending' = pending
    BY <1>12 DEF FillHole, call
  <2>2. pending = {} /\ Writing = {} /\ Writing' = {}
    BY <2>1 DEF StoreInv, Paused, Writing
  <2>3. Visible' = Visible
    BY <1>1, <1>12, <2>2, FillHoleStores
  <2>4. Asked' = Asked
    BY <1>1, <2>1, <2>2, AskedSame
  <2> QED
    BY <1>3, <2>3, <2>4
<1>13. ASSUME NEW h \in Cell, FindSlot(h) PROVE [Store!Next]_(Store!vars)
  <2>1. /\ Writing = {}
        /\ \A i \in Cell : i \in pending' \ Writing' <=> i \in pending
        /\ \A i \in pending : cells'[i] = cells[i]
    BY <1>1, <1>13, CarriedFindSlot
  <2>2. batch' = batch /\ data' = data
    BY <1>13 DEF FindSlot
  <2>3. Asked' = Asked
    BY <1>1, <2>1, <2>2, AskedSame
  <2>4. Visible' = Visible
    BY <1>1, <1>13, FindSlotStores
  <2> QED
    BY <1>3, <2>3, <2>4
<1>14. CASE Compute
  <2>1. Store!Decode \/ UNCHANGED Store!vars
    BY <1>1, <1>14, GraphStores
  <2> QED
    BY <2>1 DEF Store!Next
<1>15. CASE NoSlot \/ ComputeFails
  <2>1. Visible' = Visible
    BY <1>15 DEF Fails
  <2>2. batch' = <<>> /\ pending' = {}
    BY <1>15 DEF NoSlot, ComputeFails, Restore
  <2>3. Asked' = {}
    BY <2>2, AskedNone
  <2>4. Store!Fail
    BY <2>1, <2>3 DEF Store!Fail
  <2> QED
    BY <2>4 DEF Store!Next
<1> QED
  BY <1>5, <1>6, <1>7, <1>8, <1>9, <1>10, <1>11, <1>12, <1>13, <1>14, <1>15 DEF Next

\* The cells show no token at the start.
LEMMA StoreStart == Init => Store!Init
<1> SUFFICES ASSUME Init PROVE Store!Init
  OBVIOUS
<1>1. CellsInv
  BY CellsInit
<1>2. \A i \in Cell : cells[i].seqs = {}
  BY DEF Init, Fresh
<1>3. Visible = {}
  BY <1>1, <1>2, VisibleCells
<1>4. batch = <<>> /\ pending = {}
  BY DEF Init
<1>5. Asked = {}
  BY <1>4, AskedNone
<1> QED
  BY <1>3, <1>5 DEF Store!Init

\* If a llama_decode that fails restores the cache, as llama.h says of it, the
\* cache is the set of tokens llama.h describes: the graphs of a batch, the ring,
\* lazy shifts and defragmentation do not show, a batch is added as a whole, and
\* the operations on sequences do to the set what they say (llama-kv-cache.cpp).
THEOREM ImplementsStoreIfRestored == Spec /\ FailureRestores => ImplementsStore
<1>1. ASSUME StoreInv, [Next]_vars, [Fails => Visible' = Visible]_vars
      PROVE  [Store!Next]_(Store!vars)
  <2>1. CASE Fails => Visible' = Visible
    BY <1>1, <2>1, StoreStep
  <2>2. CASE UNCHANGED vars
    <3>1. UNCHANGED <<cells, data, batch, pending, phase, head>>
      BY <2>2 DEF vars, ring, call
    <3>2. Visible' = Visible /\ Asked' = Asked
      BY <3>1 DEF Visible, Entry, Asked, Writing, UBatchLen
    <3> QED
      BY <3>2 DEF Store!vars
  <2> QED
    BY <1>1, <2>1, <2>2
<1> QED
  BY <1>1, StoreStart, StoreInvAlways, PTL DEF Spec, FailureRestores, ImplementsStore, Store!Spec

\* As long as every token is kept in the cell of its position, a batch that fails, at
\* once or half-way, gives up its own cells and no others.
LEMMA FailureInPlace ==
  ASSUME CellsInv, Next, Fails, \A i \in InUse(cells) : cells[i].pos = i
  PROVE  Visible' = Visible
<1>1. CellsInv'
  BY CellsStep
<1>2. PICK h : Restore(h)
  BY DEF Fails, NoSlot, ComputeFails
<1> QED
  BY <1>1, <1>2, RestoreInPlace

\* Whatever graphs fail, each step of llama_decode and of the updates is one of the
\* set of tokens: a batch is added whole or not at all, and takes no other token
\* along, as long as every token is kept in the cell of its position
\* (llama_kv_slot_restorer, which takes cells for positions).
THEOREM ImplementsStoreInPlaceAlways == Spec => ImplementsStoreInPlace
<1>1. ASSUME StoreInv, Next, Fails => \A i \in InUse(cells) : cells[i].pos = i
      PROVE  [Store!Next]_(Store!vars)
  <2>1. Fails => Visible' = Visible
    BY <1>1, FailureInPlace DEF StoreInv
  <2> QED
    BY <1>1, <2>1, StoreStep
<1>2. StoreInv /\ [Next]_vars =>
        [/\ phase # "idle" \/ phase' # "idle"
         /\ Fails => \A i \in InUse(cells) : cells[i].pos = i
         => [Store!Next]_(Store!vars)]_vars
  BY <1>1
<1> QED
  BY <1>2, StoreInvAlways, PTL DEF Spec, ImplementsStoreInPlace

-----------------------------------------------------------------------------
\* A user like this application: one sequence, of which no token is removed or
\* moved on its own.

OneSequence == Seqs = {0} /\ Ops \subseteq {"clear", "defrag", "update"}

\* The tokens lie in the first cells, in order, the batch past them.
Straight ==
  /\ used \in 0..Size
  /\ \A i \in Cell : IF i < used THEN cells[i].pos = i ELSE cells[i].pos = -1
  /\ \E b \in 0..used : pending = b..(used - 1)
  /\ head \in 0..used
  /\ oldHead \in Nat
  /\ ~hasShift
  /\ phase \in {"slot", "compute"} => batch # <<>>
  /\ phase # "compute" => \A k \in DOMAIN batch : batch[k].pos = used + k - 1
  /\ phase = "compute" =>
       /\ \A k \in DOMAIN batch : batch[k].pos = head + k - 1
       /\ head + UBatchLen = used
       /\ head \in pending

\* Under Straight the cells below used, and no others, are in use, each with its index
\* for position.
LEMMA StraightCells ==
  ASSUME CellsInv, Straight
  PROVE  /\ used \in Nat
         /\ \A i \in Cell : i \in Nat /\ i < Size
         /\ \A i \in Cell : cells[i].seqs # {} <=> i < used
         /\ \A i \in Cell : i < used => cells[i].pos = i
         /\ \A i \in Cell : ~(i < used) => cells[i].pos = -1
         /\ \A i \in InUse(cells) : cells[i].pos = i
<1>1. used \in Nat /\ \A i \in Cell : i \in Nat /\ i < Size
  BY CacheAssumption DEF Straight, Cell
<1>2. \A i \in Cell : (i < used => cells[i].pos = i) /\ (~(i < used) => cells[i].pos = -1)
  BY DEF Straight
<1>3. \A i \in Cell : cells[i].pos = -1 <=> cells[i].seqs = {}
  BY CellFields
<1>4. \A i \in Cell : cells[i].seqs # {} <=> i < used
  BY <1>1, <1>2, <1>3
<1> QED
  BY <1>1, <1>2, <1>4, InUseFinite

\* The position a batch starts at is then the number of cells used.
LEMMA StraightNextPos ==
  ASSUME CellsInv, Straight
  PROVE  NextPos = used
<1>1. /\ NextPos \in Nat
      /\ \A i \in Cell : cells[i].pos < NextPos
      /\ NextPos = 0 \/ \E i \in Cell : cells[i].pos + 1 = NextPos
  BY NextPosType DEF CellsInv
<1>2. used \in Nat /\ used <= Size
  BY CacheAssumption DEF Straight
<1>3. NextPos <= used
  <2>1. CASE NextPos = 0
    BY <1>2, <2>1
  <2>2. ASSUME NEW i \in Cell, cells[i].pos + 1 = NextPos PROVE NextPos <= used
    <3>1. CASE i < used
      BY <1>2, <2>2, <3>1, StraightCells
    <3>2. CASE ~(i < used)
      BY <1>2, <2>2, <3>2, StraightCells
    <3> QED
      BY <3>1, <3>2
  <2> QED
    BY <1>1, <2>1, <2>2
<1>4. used <= NextPos
  <2>1. CASE used = 0
    BY <1>1, <2>1
  <2>2. CASE used # 0
    <3>1. used - 1 \in Cell /\ used - 1 < used
      BY <1>2, <2>2, CacheAssumption DEF Cell
    <3>2. cells[used - 1].pos = used - 1
      BY <3>1, StraightCells
    <3> QED
      BY <1>1, <1>2, <3>1, <3>2
  <2> QED
    BY <2>1, <2>2
<1> QED
  BY <1>1, <1>2, <1>3, <1>4

\* Straight holds at the start.
LEMMA StraightInit == Init => Straight
<1> SUFFICES ASSUME Init PROVE Straight
  OBVIOUS
<1>1. used = 0 /\ head = 0 /\ oldHead = 0 /\ pending = {} /\ ~hasShift /\ phase = "idle"
  BY DEF Init
<1>2. DOMAIN batch = {}
  BY DEF Init
<1>3. \A i \in Cell : i >= 0 /\ cells[i].pos = -1
  BY CacheAssumption DEF Init, Fresh, Cell
<1>4. pending = 0..(used - 1)
  BY <1>1
<1>5. \A i \in Cell : IF i < used THEN cells[i].pos = i ELSE cells[i].pos = -1
  BY <1>1, <1>3, CacheAssumption DEF Cell
<1> QED
  BY <1>1, <1>2, <1>4, <1>5, CacheAssumption DEF Straight

\* The search finds the cell past the last token.
LEMMA StraightSlot ==
  ASSUME CellsInv, Straight, phase = "slot", NEW h \in Cell,
         SlotFrom(SearchStart, UBatchLen, h)
  PROVE  h = used /\ used + UBatchLen <= Size /\ UBatchLen > 0
<1> DEFINE n == UBatchLen
           start == SearchStart
<1>1. n \in Nat /\ n > 0
  <2>1. batch # <<>> /\ batch \in Seq(TokenType)
    BY DEF Straight, CellsInv, Shape
  <2>2. Len(batch) \in Nat /\ Len(batch) > 0
    BY <2>1
  <2> QED
    BY <2>2, CacheAssumption DEF UBatchLen
<1>2. used \in Nat /\ used <= Size /\ head \in Nat /\ head <= used /\ h \in Nat /\ Size \in Nat
  BY CacheAssumption DEF Straight, Cell
<1>3. start \in Nat /\ start <= used
  BY <1>2 DEF SearchStart
<1> HIDE DEF n, start
<1>4. h + n <= Size /\ \A i \in h..(h + n - 1) : cells[i].pos < 0
  BY DEF SlotFrom, Fits, n
<1>5. h >= used
  <2> SUFFICES ASSUME h < used PROVE FALSE
    BY <1>2
  <2>1. h \in h..(h + n - 1)
    BY <1>1, <1>2
  <2>2. cells[h].pos = h
    BY StraightCells
  <2> QED
    BY <1>2, <1>4, <2>1, <2>2
<1>6. Fits(used, n)
  <2>1. \A i \in used..(used + n - 1) : i \in Cell /\ ~(i < used)
    BY <1>1, <1>2, <1>4, <1>5 DEF Cell
  <2>2. \A i \in used..(used + n - 1) : cells[i].pos < 0
    BY <2>1, StraightCells
  <2>3. used + n <= Size
    BY <1>1, <1>2, <1>4, <1>5
  <2> QED
    BY <2>2, <2>3 DEF Fits
<1>7. h = used
  <2> SUFFICES ASSUME h > used PROVE FALSE
    BY <1>2, <1>5
  <2>1. used \in start..(h - 1)
    BY <1>2, <1>3
  <2>2. h >= start
    BY <1>2, <1>3
  <2>3. ~(h < start)
    BY <1>2, <1>3, <2>2
  <2> QED
    BY <1>6, <2>1, <2>3 DEF SlotFrom, n, start
<1> QED
  BY <1>1, <1>4, <1>7 DEF n

\* The slot found is the cells that follow.
LEMMA StraightFindSlot ==
  ASSUME CellsInv, Straight, NEW h \in Cell, FindSlot(h)
  PROVE  Straight'
<1> DEFINE n == UBatchLen
           slot == h..(h + n - 1)
<1>1. /\ phase = "slot" /\ SlotFrom(SearchStart, n, h)
      /\ cells' = [i \in Cell |-> IF i \in slot THEN Taken(cells[i], batch[i - h + 1]) ELSE cells[i]]
      /\ used' = used + n /\ head' = h /\ phase' = "compute"
      /\ pending' = pending \union slot
      /\ hasShift' = hasShift /\ batch' = batch /\ oldHead' = oldHead
  BY DEF FindSlot
<1>2. h = used /\ used + n <= Size /\ n > 0
  BY <1>1, StraightSlot
<1>3. n \in Nat /\ n <= Len(batch) /\ batch \in Seq(TokenType) /\ used \in Nat /\ Size \in Nat
  BY UBatchLenType, CacheAssumption DEF CellsInv, Shape, Straight
<1>4. UBatchLen' = n
  BY <1>1 DEF UBatchLen
<1> HIDE DEF n
<1>5. \A i \in slot : i - h + 1 \in DOMAIN batch
  BY <1>2, <1>3
<1>6. \A k \in DOMAIN batch : batch[k].pos = used + k - 1
  BY <1>1 DEF Straight
<1>7. ASSUME NEW i \in Cell
      PROVE  IF i < used' THEN cells'[i].pos = i ELSE cells'[i].pos = -1
  <2>1. i \in Nat
    BY StraightCells
  <2>2. CASE i \in slot
    <3>1. i < used' /\ batch[i - h + 1].pos = used + (i - h + 1) - 1
      BY <1>1, <1>2, <1>3, <1>5, <1>6, <2>2
    <3>2. batch[i - h + 1].pos = i
      BY <1>2, <1>3, <2>1, <3>1
    <3>3. cells'[i] = Taken(cells[i], batch[i - h + 1])
      BY <1>1, <2>2
    <3>4. cells'[i].pos = i
      BY <3>2, <3>3 DEF Taken
    <3> QED
      BY <3>1, <3>4
  <2>3. CASE i \notin slot
    <3>1. cells'[i] = cells[i]
      BY <1>1, <2>3
    <3>2. i < used' <=> i < used
      BY <1>1, <1>2, <1>3, <2>1, <2>3
    <3> QED
      BY <3>1, <3>2 DEF Straight
  <2> QED
    BY <2>2, <2>3
<1>8. \E b \in 0..used' : pending' = b..(used' - 1)
  <2>1. PICK b \in 0..used : pending = b..(used - 1)
    BY DEF Straight
  <2>2. b \in 0..used' /\ pending' = b..(used' - 1)
    BY <1>1, <1>2, <1>3, <2>1
  <2> QED
    BY <2>2
<1>9. used' \in 0..Size /\ head' \in 0..used' /\ head' + n = used' /\ head' \in pending'
  BY <1>1, <1>2, <1>3
<1>10. batch' # <<>> /\ ~hasShift' /\ oldHead' \in Nat
  BY <1>1 DEF Straight
<1>11. \A k \in DOMAIN batch' : batch'[k].pos = head' + k - 1
  BY <1>1, <1>2, <1>6
<1> QED
  BY <1>1, <1>4, <1>7, <1>8, <1>9, <1>10, <1>11 DEF Straight

\* A computed ubatch leaves the head behind it.
LEMMA StraightCompute ==
  ASSUME CellsInv, Straight, Compute
  PROVE  Straight'
<1> DEFINE n == UBatchLen
<1>1. /\ phase = "compute" /\ phase' \in {"idle", "update"}
      /\ head' = IF head + n >= Size THEN 0 ELSE head + n
      /\ batch' = SubSeq(batch, n + 1, Len(batch))
      /\ pending' = {} \/ pending' = pending
      /\ oldHead' = 0 \/ oldHead' = oldHead
      /\ UNCHANGED <<cells, used, hasShift>>
  BY DEF Compute
<1>2. n \in Nat /\ n <= Len(batch) /\ batch \in Seq(TokenType)
  BY UBatchLenType DEF CellsInv, Shape
<1>3. /\ \A k \in DOMAIN batch : batch[k].pos = head + k - 1
      /\ head + n = used
      /\ used \in Nat /\ head \in Nat
  BY <1>1, StraightCells DEF Straight
<1> HIDE DEF n
<1>4. \A k \in DOMAIN batch' : k \in Nat /\ n + k \in DOMAIN batch /\ batch'[k] = batch[n + k]
  BY <1>1, <1>2
<1>5. \A k \in DOMAIN batch' : batch'[k].pos = used + k - 1
  <2> TAKE k \in DOMAIN batch'
  <2> DEFINE m == n + k
  <2>1. m \in DOMAIN batch /\ batch'[k] = batch[m]
    BY <1>4
  <2>2. m = n + k
    OBVIOUS
  <2> HIDE DEF m
  <2>3. batch'[k].pos = head + m - 1
    BY <1>3, <2>1
  <2>4. k \in Nat
    BY <1>4
  <2>5. head + m - 1 = used + k - 1
    <3>1. n \in Nat /\ head \in Nat /\ used \in Nat /\ head + n = used
      BY <1>2, <1>3
    <3> QED
      BY <2>2, <2>4, <3>1
  <2> QED
    BY <2>3, <2>5
<1>6. head' \in 0..used
  BY <1>1, <1>2, <1>3
<1>7. \E b \in 0..used : pending' = b..(used - 1)
  <2>1. used \in 0..used /\ {} = used..(used - 1)
    BY <1>3
  <2> QED
    BY <1>1, <2>1 DEF Straight
<1>8. oldHead' \in Nat /\ ~hasShift' /\ used' \in 0..Size
  BY <1>1 DEF Straight
<1>9. \A i \in Cell : IF i < used' THEN cells'[i].pos = i ELSE cells'[i].pos = -1
  BY <1>1 DEF Straight
<1> QED
  BY <1>1, <1>5, <1>6, <1>7, <1>8, <1>9 DEF Straight

\* A batch that fails gives up the last cells, which are its own.
LEMMA StraightRestore ==
  ASSUME CellsInv, Straight, NEW h, Restore(h), pending = {} => h \in 0..used
  PROVE  Straight'
<1>1. /\ cells' = [i \in Cell |-> IF i \in GivenUp THEN Emptied(cells[i]) ELSE cells[i]]
      /\ used' = used - Cardinality(GivenUp)
      /\ head' = IF pending = {} THEN h ELSE MinOf({oldHead} \union GivenUp)
      /\ batch' = <<>> /\ pending' = {} /\ phase' = "idle" /\ hasShift' = hasShift
  BY DEF Restore
<1>2. PICK b \in 0..used : pending = b..(used - 1)
  BY DEF Straight
<1>3. used \in Nat /\ used <= Size /\ b \in Nat /\ b <= used /\ oldHead \in Nat /\ pending \subseteq Cell
  BY CacheAssumption DEF Straight, CellsInv, Shape
<1>4. \A i \in Cell : i \in Nat /\ (i \in pending <=> b <= i /\ i < used)
  BY <1>2, <1>3, StraightCells
<1>5. ASSUME NEW i \in Cell PROVE cells[i].pos \in pending <=> i \in pending
  <2>1. CASE i < used
    BY <2>1, StraightCells
  <2>2. CASE ~(i < used)
    <3>1. -1 \notin pending /\ i \notin pending
      BY <1>2, <1>3, <1>4, <2>2
    <3> QED
      BY <2>2, <3>1, StraightCells
  <2> QED
    BY <2>1, <2>2
<1>6. GivenUp = pending
  BY <1>3, <1>5 DEF GivenUp
<1>7. used' = b
  <2>1. used - b \in Nat /\ pending = b..(b + (used - b) - 1)
    BY <1>2, <1>3
  <2>2. Cardinality(pending) = used - b
    BY <1>3, <2>1, IntervalCount
  <2> QED
    BY <1>1, <1>3, <1>6, <2>2
<1>8. head' \in 0..b
  <2>1. CASE pending = {}
    <3>1. b = used
      BY <1>2, <1>3, <2>1
    <3> QED
      BY <1>1, <2>1, <3>1
  <2>2. CASE pending # {}
    <3>1. b \in pending
      BY <1>2, <1>3, <2>2
    <3> DEFINE T == {oldHead} \union pending
    <3>2. T \subseteq Nat /\ T # {} /\ b \in T
      BY <1>2, <1>3, <3>1
    <3>3. head' = MinOf(T)
      BY <1>1, <1>6, <2>2
    <3> HIDE DEF T
    <3>4. MinOf(T) \in T /\ \A y \in T : MinOf(T) <= y
      BY <3>2, MinExists
    <3>5. MinOf(T) \in Nat /\ MinOf(T) <= b
      BY <3>2, <3>4
    <3> QED
      BY <1>3, <3>3, <3>5
  <2> QED
    BY <2>1, <2>2
<1>9. ASSUME NEW i \in Cell
      PROVE  IF i < b THEN cells'[i].pos = i ELSE cells'[i].pos = -1
  <2>1. CASE i \in pending
    <3>1. cells'[i].pos = -1 /\ ~(i < b)
      BY <1>1, <1>3, <1>4, <1>6, <2>1 DEF Emptied
    <3> QED
      BY <3>1
  <2>2. CASE i \notin pending
    <3>1. cells'[i] = cells[i] /\ (i < b <=> i < used)
      BY <1>1, <1>3, <1>4, <1>6, <2>2
    <3> QED
      BY <3>1 DEF Straight
  <2> QED
    BY <2>1, <2>2
<1>10. used' \in 0..Size /\ pending' = b..(used' - 1) /\ b \in 0..used'
  <2>1. b..(b - 1) = {} /\ b \in 0..b /\ b \in 0..Size
    BY <1>3, CacheAssumption
  <2> QED
    BY <1>1, <1>7, <2>1
<1>11. DOMAIN batch' = {}
  <2>1. DOMAIN <<>> = {}
    OBVIOUS
  <2> QED
    BY <1>1, <2>1, Zenon
<1>12. oldHead' \in Nat /\ ~hasShift'
  BY <1>1 DEF Restore, Straight
<1> QED
  BY <1>1, <1>7, <1>8, <1>9, <1>10, <1>11, <1>12 DEF Straight

\* A batch that fails gives up the cells from its start on.
LEMMA StraightFailure ==
  ASSUME CellsInv, Straight, NoSlot \/ ComputeFails
  PROVE  Straight'
<1>1. CASE NoSlot
  <2>1. PICK h \in 0..Size : /\ IF UBatchLen > Size THEN h = SearchStart
                                ELSE h > 0 /\ cells[h - 1].pos >= 0
                             /\ Restore(h)
    BY <1>1 DEF NoSlot
  <2>2. used \in Nat /\ head \in Nat /\ head <= used /\ h \in Nat /\ h <= Size
    BY StraightCells, CacheAssumption DEF Straight
  <2>3. h \in 0..used
    <3>1. CASE UBatchLen > Size
      <4>1. h = 0 \/ h = head
        BY <2>1, <3>1 DEF SearchStart
      <4> QED
        BY <2>2, <4>1
    <3>2. CASE ~(UBatchLen > Size)
      <4>1. h > 0 /\ cells[h - 1].pos >= 0
        BY <2>1, <3>2
      <4>2. h - 1 \in Cell
        BY <2>2, <4>1, CacheAssumption DEF Cell
      <4>3. h - 1 < used
        BY <4>1, <4>2, StraightCells
      <4> QED
        BY <2>2, <4>3
    <3> QED
      BY <3>1, <3>2
  <2> QED
    BY <2>1, <2>3, StraightRestore
<1>2. CASE ComputeFails
  <2>1. pending # {} /\ Restore(head)
    BY <1>2 DEF ComputeFails, Straight
  <2> QED
    BY <2>1, StraightRestore
<1> QED
  BY <1>1, <1>2

\* A batch starts at the first cell that is free.
LEMMA StraightBegin ==
  ASSUME CellsInv, Straight, Seqs = {0},
         NEW S \in (SUBSET Seqs) \ {{}}, NEW n \in 1..MaxBatch, BeginDecode(S, n)
  PROVE  Straight'
<1>1. NextPos = used
  BY StraightNextPos
<1>2. /\ batch' = [k \in 1..n |-> [tok |-> decoded + k, pos |-> used + k - 1, seqs |-> S]]
      /\ pending' = {} /\ oldHead' = head /\ phase' = "update"
      /\ UNCHANGED <<cells, used, head, hasShift>>
  BY <1>1 DEF BeginDecode, ring
<1>3. \A k \in DOMAIN batch' : batch'[k].pos = used + k - 1
  BY <1>2
<1>4. used \in 0..used /\ {} = used..(used - 1)
  BY StraightCells
<1>5. oldHead' \in Nat
  BY <1>2, StraightCells DEF Straight
<1> QED
  BY <1>2, <1>3, <1>4, <1>5 DEF Straight

\* Each step of the application keeps Straight.
LEMMA StraightStep ==
  ASSUME StoreInv, Straight, OneSequence, [Next]_vars
  PROVE  Straight'
<1>0. CellsInv /\ Paused
  BY DEF StoreInv
<1>1. CASE UNCHANGED vars
  <2>1. UNCHANGED <<cells, used, pending, head, oldHead, hasShift, batch, phase>>
    BY <1>1 DEF vars, ring, call
  <2> QED
    BY <2>1 DEF Straight, UBatchLen
<1>2. ~SeqOps
  BY SeqOpsLeave DEF OneSequence
<1>3. CASE Clear
  <2>1. /\ phase = "idle" /\ used' = 0 /\ head' = 0 /\ hasShift' = hasShift
        /\ UNCHANGED <<batch, pending, oldHead, phase>>
        /\ cells' = [i \in Cell |-> Emptied(cells[i])]
    BY <1>3 DEF Clear, Called, call
  <2>2. batch = <<>> /\ pending = {}
    BY <2>1, IdleFacts
  <2>3. \A i \in Cell : ~(i < used') /\ cells'[i].pos = -1
    <3> TAKE i \in Cell
    <3>1. i \in Nat /\ cells'[i] = Emptied(cells[i])
      BY <2>1, StraightCells, <1>0
    <3> QED
      BY <2>1, <3>1 DEF Emptied
  <2>4. DOMAIN batch' = {}
    BY <2>1, <2>2
  <2>5. 0 \in 0..used' /\ pending' = 0..(used' - 1) /\ used' \in 0..Size /\ head' \in 0..used'
    BY <2>1, <2>2, CacheAssumption
  <2> QED
    BY <2>1, <2>3, <2>4, <2>5 DEF Straight
<1>4. CASE Defrag \/ KvSelfUpdate
  <2>1. /\ UNCHANGED <<cells, used, head, hasShift, batch, pending, oldHead>>
        /\ phase \notin {"slot", "compute"} /\ phase' \notin {"slot", "compute"}
    BY <1>4 DEF Defrag, KvSelfUpdate, Called, ring, call
  <2> QED
    BY <2>1 DEF Straight
<1>5. ASSUME NEW S \in (SUBSET Seqs) \ {{}}, NEW n \in 1..MaxBatch, BeginDecode(S, n)
      PROVE  Straight'
  BY <1>0, <1>5, StraightBegin DEF OneSequence
<1>6. CASE ApplyShift \/ ShiftFails
  <2>1. ~hasShift
    BY DEF Straight
  <2>2. /\ phase = "update" /\ UNCHANGED <<cells, used, head, batch, pending, oldHead>>
        /\ ~hasShift' /\ phase' # "compute" /\ (phase' = "slot" => batch # <<>>)
    BY <1>6, <2>1 DEF ApplyShift, ShiftFails, ShiftOver, Resume, call
  <2> QED
    BY <2>2 DEF Straight
<1>7. ~FillHole
  <2> SUFFICES ASSUME NEW i \in Holes PROVE FALSE
    BY DEF FillHole
  <2>1. i \in Cell /\ i \notin InUse(cells) /\ i <= used - 1
    BY <1>0, StraightCells, CacheAssumption DEF Holes, Cell
  <2>2. i < used
    BY <1>0, <2>1, StraightCells
  <2> QED
    BY <1>0, <2>1, <2>2, StraightCells, InUseFinite
<1>8. CASE DefragDone
  <2>1. /\ phase = "defrag" /\ UNCHANGED <<cells, used, head, hasShift, batch, pending, oldHead>>
        /\ phase' # "compute" /\ (phase' = "slot" => batch # <<>>)
    BY <1>8 DEF DefragDone, Resume, call
  <2> QED
    BY <2>1 DEF Straight
<1>9. ASSUME NEW h \in Cell, FindSlot(h) PROVE Straight'
  BY <1>0, <1>9, StraightFindSlot
<1>10. CASE Compute
  BY <1>0, <1>10, StraightCompute
<1>11. CASE NoSlot \/ ComputeFails
  BY <1>0, <1>11, StraightFailure
<1>12. CASE Rest
  BY <1>1, <1>12 DEF Rest
<1>13. ~CannotShift
  BY DEF CannotShift, Straight
<1> QED
  BY <1>1, <1>2, <1>3, <1>4, <1>5, <1>6, <1>7, <1>8, <1>9, <1>10, <1>11, <1>12, <1>13 DEF Next

\* As this application uses it (LLMInference::completionLoop decodes for one
\* sequence and removes nothing), the cache is the set of tokens llama.h
\* describes whatever fails: a llama_decode that fails does restore it, with
\* batches of any number of graphs.
THEOREM OneSequenceImplementsStore ==
  ASSUME OneSequence
  PROVE  Spec => ImplementsStore /\ FailureRestores
<1>1. StoreInv /\ Straight /\ [Next]_vars => Straight'
  BY StraightStep
<1>2. StoreInv /\ Straight => \A i \in InUse(cells) : cells[i].pos = i
  BY StraightCells DEF StoreInv
<1>3. StoreInv /\ Straight /\ [Next]_vars => [Fails => Visible' = Visible]_vars
  BY <1>2, FailureInPlace DEF StoreInv
<1>4. Spec => FailureRestores
  BY <1>1, <1>3, StraightInit, StoreInvAlways, PTL DEF Spec, FailureRestores
<1> QED
  BY <1>4, ImplementsStoreIfRestored, PTL

-----------------------------------------------------------------------------
\* Defragmentation.

\* Every hole before the one that is looked for next has been filled, unless
\* the moves ran out.
FilledSoFar ==
  phase = "defrag" =>
    /\ hole \in Nat /\ moves \in Nat
    /\ moves < MaxMoves => \A i \in Cell : i < hole /\ i < used => i \in InUse(cells)

\* While moves are left every cell that was chosen is moved: the first one that
\* is not comes after as many blocks as there were moves.
LEMMA AllMoved ==
  ASSUME CellsInv, FillHole, moves \in Nat, moves' < MaxMoves
  PROVE  Moved = Fillers
<1> DEFINE left == Fillers \ Moved
           blocks == {j \in Moved : j - 1 \notin Moved}
<1>1. moves' = moves + Cardinality(blocks)
  BY DEF FillHole, Moved, Fillers
<1>2. Moved \subseteq Fillers /\ Fillers \subseteq Nat /\ IsFiniteSet(Fillers)
  <2>1. Holes # {}
    BY DEF FillHole
  <2> QED
    BY <2>1, HoleFacts, FillersFew, MovedHomes DEF Fillers
<1>3. IsFiniteSet(blocks) /\ Cardinality(blocks) \in Nat
  <2>1. blocks \subseteq Fillers
    BY <1>2
  <2> QED
    BY <1>2, <2>1, FS_Subset, FS_CardinalityType
<1>4. ASSUME left # {} PROVE FALSE
  <2>1. left \in SUBSET Nat
    BY <1>2
  <2>2. PICK i \in left : \A m \in left : i <= m
    BY <1>4, <2>1, LeastNatural
  <2> DEFINE starts == {j \in Fillers : j <= i /\ j - 1 \notin Fillers}
  <2>3. IsFiniteSet(starts) /\ Cardinality(starts) \in Nat
    <3>1. starts \subseteq Fillers
      OBVIOUS
    <3> QED
      BY <1>2, <3>1, FS_Subset, FS_CardinalityType
  <2>4. ~(moves + Cardinality(starts) <= MaxMoves)
    BY <2>2 DEF Moved, BlocksUpTo
  <2>5. starts \ {i} \subseteq blocks
    <3> SUFFICES ASSUME NEW j \in starts, j # i PROVE j \in blocks
      OBVIOUS
    <3>1. i \in Nat /\ j \in Nat /\ j <= i /\ j \in Fillers /\ j - 1 \notin Fillers
      BY <1>2, <2>1, <2>2
    <3>2. ~(i <= j)
      BY <3>1
    <3>3. j \in Moved
      BY <2>2, <3>1, <3>2
    <3> QED
      BY <1>2, <3>1, <3>3
  <2> HIDE DEF starts, blocks
  <2>6. Cardinality(starts \ {i}) >= Cardinality(starts) - 1
    <3>1. CASE i \in starts
      <4>1. Cardinality(starts \ {i}) = Cardinality(starts) - 1
        BY <2>3, <3>1, FS_RemoveElement
      <4> QED
        BY <2>3, <4>1
    <3>2. CASE i \notin starts
      <4>1. starts \ {i} = starts
        BY <3>2
      <4> QED
        BY <2>3, <4>1
    <3> QED
      BY <3>1, <3>2
  <2>7. Cardinality(starts \ {i}) <= Cardinality(blocks)
    BY <1>3, <2>5, FS_Subset
  <2>8. Cardinality(starts \ {i}) \in Nat
    BY <2>3, FS_RemoveElement, FS_Subset, FS_CardinalityType
  <2> QED
    BY <1>1, <1>3, <2>3, <2>4, <2>6, <2>7, <2>8, CacheAssumption
<1> QED
  BY <1>2, <1>4

\* A hole all of whose fillers are moved is filled.
LEMMA HoleFilled ==
  ASSUME CountInv, FillHole, Moved = Fillers, NEW x \in FirstHole
  PROVE  \E i \in Moved : HomeOf(i) = x
<1> DEFINE home == [i \in Fillers |-> HomeOf(i)]
           homes == {home[i] : i \in Fillers}
<1>1. CellsInv /\ Holes # {}
  BY DEF CountInv, FillHole
<1>2. /\ IsFiniteSet(FirstHole) /\ Cardinality(FirstHole) \in Nat /\ FirstHole \subseteq Nat
      /\ MinOf(FirstHole) \in Nat
  BY <1>1, HoleFacts
<1>3. Cardinality(Fillers) = Cardinality(FirstHole)
  BY <1>1, FillersEnough DEF Fillers
<1>4. Fillers \subseteq Nat /\ IsFiniteSet(Fillers)
  BY <1>1, <1>2, FillersFew DEF Fillers
<1>5. \A i \in Fillers : HomeOf(i) \in FirstHole
  BY <1>1, MovedHomes
<1>6. \A i, j \in Fillers : i # j => HomeOf(i) # HomeOf(j)
  <2> SUFFICES ASSUME NEW i \in Fillers, NEW j \in Fillers, i # j
               PROVE  HomeOf(i) # HomeOf(j)
    OBVIOUS
  <2>1. i \in Nat /\ j \in Nat /\ HomeOf(i) \in Nat /\ HomeOf(j) \in Nat
    BY <1>2, <1>4, <1>5
  <2>2. CASE i < j
    BY <1>2, <1>4, <2>1, <2>2, HomeInjective DEF HomeOf
  <2>3. CASE j < i
    BY <1>2, <1>4, <2>1, <2>3, HomeInjective DEF HomeOf
  <2> QED
    BY <2>1, <2>2, <2>3
<1>7. IsFiniteSet(homes) /\ Cardinality(homes) = Cardinality(Fillers)
  <2>1. home \in Bijection(Fillers, homes)
    BY <1>6 DEF Bijection, Injection, Surjection, IsInjective
  <2>2. ExistsBijection(Fillers, homes)
    BY <2>1 DEF ExistsBijection
  <2> QED
    BY <1>4, <2>2, FS_Bijection
<1>8. homes \subseteq FirstHole
  BY <1>5
<1>9. \A h \in homes : \E i \in Fillers : HomeOf(i) = h
  OBVIOUS
<1> HIDE DEF homes, home
<1>10. homes = FirstHole
  BY <1>2, <1>3, <1>7, <1>8, FS_Subset
<1> QED
  BY <1>9, <1>10

\* Filling a hole leaves no hole below the cell where the search goes on.
LEMMA FilledFillHole ==
  ASSUME CountInv, CellsInv', FilledSoFar, FillHole
  PROVE  FilledSoFar'
<1> DEFINE gap == FirstHole
           first == MinOf(Holes)
           last == MaxOf(gap)
<1>1. /\ CellsInv /\ Holes # {} /\ phase = "defrag" /\ moves < MaxMoves
      /\ hole \in Nat /\ moves \in Nat
      /\ hole' = last + 1 /\ used' = used
      /\ moves' = moves + Cardinality({j \in Moved : j - 1 \notin Moved})
  BY DEF CountInv, FillHole, FilledSoFar, Moved, Fillers
<1>2. used \in Nat
  BY <1>1, InUseFinite DEF CountInv, UsedExact
<1>3. /\ gap \subseteq Holes /\ first \in gap /\ first = MinOf(gap)
      /\ Holes \subseteq Nat /\ Holes \subseteq Cell \ InUse(cells)
      /\ \A y \in Holes : first <= y
  BY <1>1, HoleFacts, MinExists
<1>4. last \in gap
  <2>1. gap \in SUBSET (0..Size)
    <3>1. \A c \in Cell : c \in 0..Size
      BY CacheAssumption DEF Cell
    <3> QED
      BY <1>3, <3>1
  <2> QED
    BY <1>3, <2>1, MaxExists, CacheAssumption
<1>5. first..last \subseteq Holes /\ \A x \in first..last : x \in gap
  <2>1. first..last \subseteq Holes
    BY <1>4 DEF FirstHole
  <2>2. ASSUME NEW x \in first..last PROVE x \in gap
    <3>1. first \in Nat /\ last \in Nat
      BY <1>3, <1>4
    <3> HIDE DEF first, last
    <3>2. x \in Int /\ x <= last
      BY <3>1
    <3>3. first..x \subseteq first..last
      BY <3>1, <3>2
    <3> QED
      BY <2>1, <3>3 DEF FirstHole, first
  <2> QED
    BY <2>1, <2>2
<1>6. first \in Nat /\ last \in Nat
  BY <1>3, <1>4
<1>7. moves' \in Nat
  <2>1. Moved \subseteq Fillers /\ IsFiniteSet(Fillers)
    BY <1>1, HoleFacts, FillersFew, MovedHomes DEF Fillers
  <2>2. {j \in Moved : j - 1 \notin Moved} \subseteq Fillers
    BY <2>1
  <2>3. Cardinality({j \in Moved : j - 1 \notin Moved}) \in Nat
    BY <2>1, <2>2, FS_Subset, FS_CardinalityType
  <2> QED
    BY <1>1, <2>3
<1> HIDE DEF gap, first, last
<1>8. ASSUME moves' < MaxMoves, NEW x \in Cell, x < hole', x < used
      PROVE  x \in InUse(cells')
  <2>1. Moved = Fillers
    BY <1>1, <1>8, AllMoved
  <2>2. x \in Nat /\ x <= last
    BY <1>1, <1>6, <1>8, CacheAssumption DEF Cell
  <2>3. InUse(cells') = {i \in Cell : cells'[i].seqs # {}}
    BY DEF CellsInv, Shape, InUse
  <2>4. CASE x \in gap
    <3>1. PICK i \in Moved : HomeOf(i) = x
      BY <2>1, <2>4, HoleFilled DEF gap
    <3>2. cells'[x] = cells[i] /\ cells[i].seqs # {}
      BY <1>1, <3>1, MovedHomes, InUseFinite
    <3> QED
      BY <2>3, <3>2
  <2>5. CASE x \notin gap
    <3>1. x < first
      BY <1>5, <1>6, <2>2, <2>5
    <3>2. x \in InUse(cells)
      <4>1. CASE x < hole
        BY <1>1, <1>8, <4>1 DEF FilledSoFar
      <4>2. CASE ~(x < hole)
        <5>1. x \in hole..(used - 1)
          BY <1>1, <1>2, <1>8, <2>2, <4>2
        <5>2. x \notin Holes
          BY <1>3, <1>6, <2>2, <3>1
        <5> QED
          BY <5>1, <5>2 DEF Holes
      <4> QED
        BY <4>1, <4>2
    <3>3. x \notin Fillers
      <4>1. ~(x > MinOf(gap))
        BY <1>3, <1>6, <2>2, <3>1
      <4> QED
        BY <4>1 DEF Fillers, FillersFor, gap
    <3>4. cells'[x] = cells[x]
      BY <1>1, <2>1, <2>5, <3>3, MovedHomes DEF gap
    <3> QED
      BY <1>1, <2>3, <3>2, <3>4, InUseFinite
  <2> QED
    BY <2>4, <2>5
<1> QED
  BY <1>1, <1>6, <1>7, <1>8 DEF FilledSoFar

\* Each step keeps FilledSoFar.
LEMMA FilledStep ==
  ASSUME CountInv, CellsInv', FilledSoFar, [Next]_vars
  PROVE  FilledSoFar'
<1>1. CASE UNCHANGED vars \/ Rest
  BY <1>1 DEF Rest, vars, ring, update, FilledSoFar, InUse
<1>2. CASE SeqOps
  BY <1>2, SeqOpsLeave DEF FilledSoFar
<1>3. CASE Clear \/ Defrag \/ KvSelfUpdate
           \/ \E S \in (SUBSET Seqs) \ {{}}, n \in 1..MaxBatch : BeginDecode(S, n)
  BY <1>3 DEF Clear, Defrag, KvSelfUpdate, BeginDecode, Called, FilledSoFar
<1>4. CASE ApplyShift \/ ShiftFails
  <2>1. CASE phase' = "defrag"
    <3>1. hole' = 0 /\ moves' = 0
      BY <1>4, <2>1 DEF ApplyShift, ShiftFails, ShiftOver, Resume
    <3>2. \A i \in Cell : ~(i < 0)
      BY CacheAssumption DEF Cell
    <3> QED
      BY <3>1, <3>2 DEF FilledSoFar
  <2> QED
    BY <2>1 DEF FilledSoFar
<1>5. CASE FillHole
  BY <1>5, FilledFillHole
<1>6. CASE \/ CannotShift \/ DefragDone \/ Compute \/ NoSlot \/ ComputeFails
           \/ \E h \in Cell : FindSlot(h)
  BY <1>6 DEF CannotShift, DefragDone, Resume, Compute, NoSlot, ComputeFails, Restore, FindSlot, FilledSoFar
<1> QED
  BY <1>1, <1>2, <1>3, <1>4, <1>5, <1>6 DEF Next

\* Defragmentation loses, mixes up or doubles no token, and leaves no hole unless
\* it runs out of moves (defrag_prepare and the graph built from its ids).
THEOREM DefragCompactsAlways == Spec => DefragCompacts
<1>1. Init => FilledSoFar
  BY DEF Init, FilledSoFar
<1>2. CellsInv /\ UsedExact /\ CellsInv' /\ FilledSoFar /\ [Next]_vars => FilledSoFar'
  BY FilledStep DEF CountInv
<1>3. ASSUME StoreInv, UsedExact, FilledSoFar, Next, phase = "defrag"
      PROVE  /\ Visible' = Visible
             /\ phase' # "defrag" /\ moves < MaxMoves => InUse(cells') = 0..(used' - 1)
  <2>1. CellsInv /\ CellsInv' /\ pending = {}
    BY <1>3, CellsStep DEF StoreInv, Paused
  <2>2. FillHole \/ DefragDone
    <3>1. ~SeqOps
      BY <1>3, SeqOpsLeave
    <3> QED
      BY <1>3, <3>1 DEF Next, Called, Clear, Defrag, KvSelfUpdate, BeginDecode, ApplyShift,
         ShiftFails, CannotShift, FindSlot, NoSlot, Compute, ComputeFails, Rest
  <2>3. CASE FillHole
    <3>1. Visible' = Visible
      BY <2>1, <2>3, FillHoleStores
    <3>2. phase' = phase
      BY <2>3 DEF FillHole
    <3> QED
      BY <1>3, <3>1, <3>2
  <2>4. CASE DefragDone
    <3>1. Visible' = Visible
      BY <1>3, <2>1, <2>4, UpdateStores
    <3>2. cells' = cells /\ used' = used /\ (Holes = {} \/ moves = MaxMoves)
      BY <2>4 DEF DefragDone
    <3>3. ASSUME moves < MaxMoves PROVE InUse(cells) = 0..(used - 1)
      <4> DEFINE U == InUse(cells)
                 all == 0..(used - 1)
      <4>1. IsFiniteSet(U) /\ Cardinality(U) = used /\ used \in Nat /\ U \subseteq Cell
        BY <1>3, <2>1, InUseFinite DEF UsedExact
      <4>2. Holes = {} /\ hole \in Nat
        BY <1>3, <3>2, <3>3, CacheAssumption DEF FilledSoFar
      <4>3. IsFiniteSet(all) /\ Cardinality(all) = used
        <5>1. all = 0..(0 + used - 1)
          BY <4>1
        <5> QED
          BY <4>1, <5>1, IntervalCount
      <4>4. used <= Size
        <5>1. Cell = 0..(0 + Size - 1) /\ Size \in Nat
          BY CacheAssumption DEF Cell
        <5>2. IsFiniteSet(Cell) /\ Cardinality(Cell) = Size
          BY <5>1, IntervalCount
        <5>3. Cardinality(U) <= Cardinality(Cell)
          BY <4>1, <5>2, FS_Subset
        <5> QED
          BY <4>1, <5>2, <5>3
      <4>5. all \subseteq U
        <5> SUFFICES ASSUME NEW x \in all PROVE x \in U
          OBVIOUS
        <5>1. x \in Nat /\ x < used /\ x \in Cell
          BY <4>1, <4>4, CacheAssumption DEF Cell
        <5>2. CASE x < hole
          BY <1>3, <3>3, <5>1, <5>2 DEF FilledSoFar
        <5>3. CASE ~(x < hole)
          <6>1. x \in hole..(used - 1)
            BY <4>1, <4>2, <5>1, <5>3
          <6> QED
            BY <4>2, <5>1, <6>1 DEF Holes
        <5> QED
          BY <5>2, <5>3
      <4> HIDE DEF U, all
      <4> QED
        BY <4>1, <4>3, <4>5, FS_Subset DEF U, all
    <3> QED
      BY <3>1, <3>2, <3>3
  <2> QED
    BY <2>2, <2>3, <2>4
<1>4. StoreInv /\ UsedExact /\ FilledSoFar /\ [Next]_vars =>
        [phase = "defrag" =>
           /\ Visible' = Visible
           /\ phase' # "defrag" /\ moves < MaxMoves => InUse(cells') = 0..(used' - 1)]_vars
  BY <1>3
<1> QED
  BY <1>1, <1>2, <1>4, CellsAlways, UsedExactAlways, StoreInvAlways, PTL DEF Spec, DefragCompacts

=============================================================================
