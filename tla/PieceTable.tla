----------------------------- MODULE PieceTable -----------------------------
(* The piece table that holds the bytes of a hex document                  *)
(* (intellicrack-hexcore/src/piece_table.rs), as operators on a record:    *)
(*   pieces    the runs the document is the concatenation of;              *)
(*   original  the bytes the table was built from, never written;          *)
(*   added     the buffer of inserted and overwritten bytes;               *)
(*   length    total_length, kept beside the pieces;                       *)
(*   limit     compact_pieces, the piece count that forces a compaction.   *)
(* Offsets count from 0 as in the code. What a buffer holds is a sequence  *)
(* of bytes whatever it is backed by, a mapping or a vector.               *)
EXTENDS Integers, Sequences, FiniteSets

CONSTANTS CompactSlack,      \* dead bytes the add buffer may always carry
          CompactMinPieces   \* pieces a table may always have

ASSUME CompactionBounds == /\ CompactSlack \in Nat
                           /\ CompactMinPieces \in Nat \ {0}

Largest(a, b) == IF a >= b THEN a ELSE b
Smallest(a, b) == IF a <= b THEN a ELSE b

\* `length` bytes of a buffer, from `start`.
Piece(source, start, length) == [source |-> source, start |-> start, length |-> length]

\* The table over `data`, its whole content original.
Fresh(data) ==
  [pieces   |-> IF data = <<>> THEN <<>> ELSE <<Piece("original", 0, Len(data))>>,
   original |-> data, added |-> <<>>, length |-> Len(data), limit |-> CompactMinPieces]

Buffer(t, source) == IF source = "original" THEN t.original ELSE t.added

BytesOf(t, p) == SubSeq(Buffer(t, p.source), p.start + 1, p.start + p.length)

\* The places in the buffers that a piece stands for, and a list of pieces.
Run(p) == [k \in 1..p.length |-> [source |-> p.source, at |-> p.start + k]]

Places(ps) ==
  LET upto[i \in 0..Len(ps)] == IF i = 0 THEN <<>> ELSE upto[i - 1] \o Run(ps[i])
  IN upto[Len(ps)]

\* Bytes the pieces hold together.
Total(ps) == Len(Places(ps))

ByteAt(t, place) == Buffer(t, place.source)[place.at]

\* The document: the byte at every place, in order.
Content(t) ==
  LET places == Places(t.pieces)
  IN [k \in DOMAIN places |-> ByteAt(t, places[k])]

Read(t, offset, n) == SubSeq(Content(t), offset + 1, Smallest(offset + n, t.length))

\* Where document byte `offset` lies: a piece and the offset within it
\* (find_piece).
Located(ps, offset) ==
  LET end[i \in 0..Len(ps)] == IF i = 0 THEN 0 ELSE end[i - 1] + ps[i].length
      piece == CHOOSE i \in DOMAIN ps : end[i - 1] <= offset /\ offset < end[i]
  IN [piece |-> piece, inner |-> offset - end[piece - 1]]

----------------------------------------------------------------------------
(* Merging pieces that read contiguous bytes of one buffer.                *)

Adjoin(p, q) == p.source = q.source /\ p.start + p.length = q.start

\* Mutant of MergedAt: the piece merged is not taken out of the list.
MergedTwice(ps, i) ==
  IF i \in 1..(Len(ps) - 1) /\ Adjoin(ps[i], ps[i + 1])
  THEN [ps EXCEPT ![i].length = @ + ps[i + 1].length]
  ELSE ps

\* The piece that two adjoining ones make.
Both(p, q) == Piece(p.source, p.start, p.length + q.length)

MergedAt(ps, i) ==
  IF i \in 1..(Len(ps) - 1) /\ Adjoin(ps[i], ps[i + 1])
  THEN SubSeq(ps, 1, i - 1) \o <<Both(ps[i], ps[i + 1])>> \o SubSeq(ps, i + 2, Len(ps))
  ELSE ps

\* The piece at i with the one after it, then the one before it with both.
Coalesced(ps, i) == MergedAt(MergedAt(ps, i), i - 1)

----------------------------------------------------------------------------
(* Compaction.                                                             *)

\* Bytes of the add buffer that the document still reads.
Live(ps) ==
  LET places == Places(ps)
  IN Cardinality({k \in DOMAIN places : places[k].source = "added"})

\* `built` with piece p of t: bytes of the add buffer are appended anew.
Repacked(t, built, p) ==
  LET mine == p.source = "added"
      q == IF mine THEN Piece("added", Len(built.added), p.length) ELSE p
  IN [added  |-> IF mine THEN built.added \o BytesOf(t, p) ELSE built.added,
      pieces |-> MergedAt(Append(built.pieces, q), Len(built.pieces))]

Compacted(t) ==
  LET built[i \in 0..Len(t.pieces)] ==
        IF i = 0 THEN [added |-> <<>>, pieces |-> <<>>]
        ELSE Repacked(t, built[i - 1], t.pieces[i])
      all == built[Len(t.pieces)]
  IN [t EXCEPT !.pieces = all.pieces, !.added = all.added,
               !.limit = Largest(2 * Len(all.pieces), CompactMinPieces)]

Bloated(t) == Len(t.added) > 2 * Live(t.pieces) + CompactSlack

\* Mutant of MaybeCompacted: only the piece count starts a compaction.
MaybeCompactedByCount(t) == IF Len(t.pieces) > t.limit THEN Compacted(t) ELSE t

MaybeCompacted(t) ==
  IF Bloated(t) \/ Len(t.pieces) > t.limit THEN Compacted(t) ELSE t

----------------------------------------------------------------------------
(* The three edits. Insert and delete cut the piece that straddles an end  *)
(* of the range, coalesce around the cut and then maybe compact.           *)

\* The first n bytes of a piece, and the rest of it.
Before(p, n) == Piece(p.source, p.start, n)
After(p, n) == Piece(p.source, p.start + n, p.length - n)

\* The pieces of the document's first `offset` bytes.
Upto(t, offset) ==
  IF offset >= t.length THEN t.pieces
  ELSE LET at == Located(t.pieces, offset)
       IN SubSeq(t.pieces, 1, at.piece - 1)
          \o (IF at.inner = 0 THEN <<>> ELSE <<Before(t.pieces[at.piece], at.inner)>>)

\* The pieces of the bytes from `offset` on.
Onward(t, offset) ==
  IF offset >= t.length THEN <<>>
  ELSE LET at == Located(t.pieces, offset)
       IN <<After(t.pieces[at.piece], at.inner)>>
          \o SubSeq(t.pieces, at.piece + 1, Len(t.pieces))

Inserted(t, offset, data) ==
  IF data = <<>> THEN t
  ELSE LET left == Upto(t, offset)
           new  == Piece("added", Len(t.added), Len(data))
       IN MaybeCompacted(
            [t EXCEPT !.pieces = Coalesced(left \o <<new>> \o Onward(t, offset), Len(left) + 1),
                      !.added  = @ \o data,
                      !.length = @ + Len(data)])

Deleted(t, offset, n) ==
  IF n = 0 \/ offset >= t.length THEN t
  ELSE LET end  == Smallest(offset + n, t.length)
           left == Upto(t, offset)
       IN MaybeCompacted(
            [t EXCEPT !.pieces = Coalesced(left \o Onward(t, end), Len(left)),
                      !.length = @ - (end - offset)])

\* `buffer` with `data` written over the bytes from `start`.
Patched(buffer, start, data) ==
  [k \in DOMAIN buffer |->
     IF k \in (start + 1)..(start + Len(data)) THEN data[k - start] ELSE buffer[k]]

\* The n bytes from `at` lie inside one piece of the add buffer.
InPlace(ps, at, n) ==
  ps[at.piece].source = "added" /\ at.inner + n <= ps[at.piece].length

Overwritten(t, offset, data) ==
  IF data = <<>> \/ offset >= t.length THEN t
  ELSE LET bytes == SubSeq(data, 1, Smallest(Len(data), t.length - offset))
           at    == Located(t.pieces, offset)
       IN IF InPlace(t.pieces, at, Len(bytes))
          THEN [t EXCEPT !.added = Patched(@, t.pieces[at.piece].start + at.inner, bytes)]
          ELSE Inserted(Deleted(t, offset, Len(bytes)), offset, bytes)

----------------------------------------------------------------------------
(* What must hold of every table.                                          *)

\* Every piece is non-empty and inside its buffer, and the lengths add up.
PiecesFit(t) ==
  /\ \A i \in DOMAIN t.pieces :
       /\ t.pieces[i].length > 0
       /\ t.pieces[i].start + t.pieces[i].length <= Len(Buffer(t, t.pieces[i].source))
  /\ Total(t.pieces) = t.length

\* No byte of the add buffer is read at two places of the document.
Apart(t) ==
  LET places == Places(t.pieces)
  IN \A j, k \in DOMAIN places :
       j # k /\ places[j] = places[k] => places[j].source = "original"
=============================================================================
