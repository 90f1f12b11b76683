------------------------------- MODULE KvStore -------------------------------
(***************************************************************************)
(* What the KV cache of llama.cpp promises its users, in the words of      *)
(* include/llama.h: a set of tokens, each with a position and the          *)
(* sequences it belongs to.  Where a token is kept does not show, nor does *)
(* a part of a batch.                                                      *)
(***************************************************************************)
EXTENDS Integers

CONSTANTS Seqs,       \* the sequence ids
          Deltas,     \* the distances tokens are moved by
          Divisors,
          MaxBatch,   \* bound: tokens per llama_decode
          MaxTokens   \* bound: tokens ever decoded

VARIABLES entries,  \* a set of [tok, pos, seqs]
          asked     \* the entries of the batch a llama_decode is to add

vars == <<entries, asked>>

\* The tokens that belong to seq (to any, if seq is -1) and have positions in
\* [p0, p1).
Matching(seq, p0, p1) ==
  {e \in entries : (seq = -1 \/ seq \in e.seqs) /\ p0 <= e.pos /\ e.pos < p1}

\* The entries after every one in S has been changed by Op.
Changed(S, Op(_)) == (entries \ S) \union {Op(e) : e \in S}

InUse(es) == {e \in es : e.seqs # {} /\ e.pos >= 0}

\* A range [p0, p1) selects what some range between positions in use selects.
Firsts == {e.pos : e \in entries}
Lasts == {e.pos + 1 : e \in entries}

Init == entries = {} /\ asked = {}

\* llama_decode is called with n new tokens for the sequences S.  Their positions
\* follow the last one there is.
Submit(S, n) ==
  /\ entries' = entries
  /\ asked = {}
  /\ \E t \in 0..MaxTokens, p \in Lasts \union {0} :
       /\ \A e \in entries : e.tok <= t /\ e.pos < p
       /\ asked' = {[tok |-> t + k, pos |-> p + k - 1, seqs |-> S] : k \in 1..n}

\* It adds all the tokens of the batch, ...
Decode ==
  /\ entries' = entries \union asked
  /\ asked' = {}

\* ... or none of them.
Fail ==
  /\ entries' = entries
  /\ asked' = {}

SeqRm(seq, p0, p1) ==
  LET Removed(e) == [e EXCEPT !.seqs = IF seq = -1 THEN {} ELSE @ \ {seq}]
  IN entries' = InUse(Changed(Matching(seq, p0, p1), Removed))

SeqCp(src, dst, p0, p1) ==
  LET Copied(e) == [e EXCEPT !.seqs = @ \union {dst}]
  IN entries' = Changed(Matching(src, p0, p1), Copied)

SeqKeep(seq) ==
  entries' = {[e EXCEPT !.seqs = {seq}] : e \in {f \in entries : seq \in f.seqs}}

\* A token that is moved below 0 is gone.
SeqAdd(seq, p0, p1, delta) ==
  LET Moved(e) == [e EXCEPT !.pos = @ + delta]
  IN entries' = InUse(Changed(Matching(seq, p0, p1), Moved))

SeqDiv(seq, p0, p1, d) ==
  LET Divided(e) == [e EXCEPT !.pos = @ \div d]
  IN entries' = Changed(Matching(seq, p0, p1), Divided)

Clear == entries' = {}

\* The operations on sequences.
Operation ==
  \/ Clear
  \/ \E seq \in Seqs : SeqKeep(seq)
  \/ \E seq \in Seqs \union {-1}, p0 \in Firsts, p1 \in Lasts : SeqRm(seq, p0, p1)
  \/ \E seq \in Seqs, p0 \in Firsts, p1 \in Lasts :
       \/ \E dst \in Seqs : SeqCp(seq, dst, p0, p1)
       \/ \E delta \in Deltas : SeqAdd(seq, p0, p1, delta)
       \/ \E d \in Divisors : SeqDiv(seq, p0, p1, d)

Next ==
  \/ Decode
  \/ Fail
  \/ \E S \in (SUBSET Seqs) \ {{}}, n \in 1..MaxBatch : Submit(S, n)
  \/ asked = {} /\ asked' = {} /\ Operation

Spec == Init /\ [][Next]_vars
=============================================================================
