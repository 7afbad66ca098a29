---------------------------- MODULE EditHistory ----------------------------
(* The edits of a hex document and their undo history                      *)
(* (intellicrack-hexcore/src/lib.rs, undo.rs) over its piece table. Every  *)
(* edit runs under the document's write lock, so each is one step. An edit *)
(* is applied to the table and recorded as an operation that holds what    *)
(* undo needs; the history is shown to implement Timeline, so undo and     *)
(* redo restore exactly the bytes the document had, through any layout the *)
(* table has gone through since.                                           *)
EXTENDS PieceTable, SequencesExt

CONSTANTS Byte,
          Zero,              \* what a moved block leaves behind
          SpanRewriteLimit,  \* spans rewritten one by one
          OffsetSize,        \* bytes an offset takes in an undo entry
          MaxLength,         \* bound: bytes of a document
          Strings,           \* bound: the byte strings given to the edits
          MaxDepth,          \* bound: undo entries
          MaxEdits           \* bound: entries ever recorded

ASSUME BytesHaveZero == Zero \in Byte
ASSUME StringsAreBytes == Strings \subseteq Seq(Byte)

VARIABLES table,      \* the bytes (MmapDocument.piece_table)
          undoStack,  \* recorded operations with their ids, the newest last
          redoStack,  \* undone operations with their ids, the next one last
          nextId,     \* the id of the next recorded operation
          marker,     \* the id on top of the undo stack at the save, or Empty
          line        \* history variable: the contents the entries lie between

vars == <<table, undoStack, redoStack, nextId, marker, line>>

\* SaveMarker::Empty: saved while the undo stack was empty.
Empty == -1

Size == table.length
Offsets == 0..Size

TopId(stack) == IF stack = <<>> THEN Empty ELSE stack[Len(stack)].id

IsModified == TopId(undoStack) # marker

----------------------------------------------------------------------------
(* Operations: what redo writes and what undo writes back.                 *)

Span(offset, data) == [offset |-> offset, data |-> data]

\* The spans written in order, each as one overwrite.
Written(t, spans) ==
  LET upto[i \in 0..Len(spans)] ==
        IF i = 0 THEN t ELSE Overwritten(upto[i - 1], spans[i].offset, spans[i].data)
  IN upto[Len(spans)]

\* The same in a buffer that holds the document.
Overlaid(data, spans) ==
  LET upto[i \in 0..Len(spans)] ==
        IF i = 0 THEN data ELSE Patched(upto[i - 1], spans[i].offset, spans[i].data)
  IN upto[Len(spans)]

\* The whole document replaced by `data`.
Refilled(t, data) == Inserted(Deleted(t, 0, t.length), 0, data)

\* `bytes` at every offset: one by one, or in one pass when they are many.
Respanned(t, offsets, bytes) ==
  LET spans == [k \in DOMAIN offsets |-> Span(offsets[k], bytes)]
  IN IF Len(offsets) <= SpanRewriteLimit THEN Written(t, spans)
     ELSE Refilled(t, Overlaid(Content(t), spans))

Zeros(n) == [k \in 1..n |-> Zero]

Applied(op, t) ==
  CASE op.kind = "insert"    -> Inserted(t, op.offset, op.new)
    [] op.kind = "delete"    -> Deleted(t, op.offset, Len(op.old))
    [] op.kind = "overwrite" -> Overwritten(t, op.offset, op.new)
    [] op.kind = "move"      -> Written(t, <<Span(op.from, Zeros(Len(op.moved))),
                                             Span(op.to, op.moved)>>)
    [] op.kind = "swap"      -> Written(t, <<Span(op.a, op.dataB), Span(op.b, op.dataA)>>)
    [] op.kind = "matches"   -> Respanned(t, op.offsets, op.new)
    [] op.kind = "replace"   -> Refilled(t, op.new)
    [] op.kind = "import"    ->
         LET run == Written(t, [k \in DOMAIN op.writes |->
                                  Span(op.writes[k].offset, op.writes[k].new)])
         IN IF op.cut = Empty THEN run ELSE Deleted(run, op.cut, Len(op.tail))

\* Mutant of Reverted: undo of a move forgets the destination and imports.
RevertedMoveForgotten(op, t) ==
  CASE op.kind = "insert"    -> Deleted(t, op.offset, Len(op.new))
    [] op.kind = "delete"    -> Inserted(t, op.offset, op.old)
    [] op.kind = "overwrite" -> Overwritten(t, op.offset, op.old)
    [] op.kind = "move"      -> Written(t, <<Span(op.from, op.moved)>>)
    [] op.kind = "swap"      -> Written(t, <<Span(op.a, op.dataA), Span(op.b, op.dataB)>>)
    [] op.kind = "matches"   -> Respanned(t, op.offsets, op.old)
    [] op.kind = "replace"   -> Refilled(t, op.old)
    [] op.kind = "import"    -> t

Reverted(op, t) ==
  CASE op.kind = "insert"    -> Deleted(t, op.offset, Len(op.new))
    [] op.kind = "delete"    -> Inserted(t, op.offset, op.old)
    [] op.kind = "overwrite" -> Overwritten(t, op.offset, op.old)
    [] op.kind = "move"      -> Written(t, <<Span(op.to, op.old), Span(op.from, op.moved)>>)
    [] op.kind = "swap"      -> Written(t, <<Span(op.a, op.dataA), Span(op.b, op.dataB)>>)
    [] op.kind = "matches"   -> Respanned(t, op.offsets, op.old)
    [] op.kind = "replace"   -> Refilled(t, op.old)
    [] op.kind = "import"    ->
         Written(IF op.cut = Empty THEN t ELSE Inserted(t, op.cut, op.tail),
                 Reverse([k \in DOMAIN op.writes |->
                            Span(op.writes[k].offset, op.writes[k].old)]))

\* Mutant of ChangesBytes: every edit is recorded.
ChangesAlways(op) == TRUE

\* The operation changes a byte; one that does not is not recorded.
ChangesBytes(op) ==
  CASE op.kind = "insert"  -> op.new # <<>>
    [] op.kind = "delete"  -> op.old # <<>>
    [] op.kind \in {"overwrite", "replace"} -> op.old # op.new
    [] op.kind = "move"    -> op.moved # Zeros(Len(op.moved)) \/ op.old # op.moved
    [] op.kind = "swap"    -> op.dataA # op.dataB
    [] op.kind = "matches" -> op.offsets # <<>> /\ op.old # op.new
    [] op.kind = "import"  -> \/ \E k \in DOMAIN op.writes : op.writes[k].old # op.writes[k].new
                              \/ op.tail # <<>>

----------------------------------------------------------------------------
(* Edits. Each applies its operation to the table and commits it: an       *)
(* operation that changed no byte leaves no entry.                         *)

\* Mutant of EntryId: an entry is numbered by its depth in the stack.
EntryDepth == Len(undoStack)

\* The id of the next entry (UndoManager.next_op_id).
EntryId == nextId

Commit(op) ==
  IF ChangesBytes(op)
  THEN /\ undoStack' = Append(undoStack, [id |-> EntryId, op |-> op])
       /\ redoStack' = <<>>
       /\ nextId' = nextId + 1
       /\ line' = Append(SubSeq(line, 1, Len(undoStack) + 1), Content(table'))
       /\ UNCHANGED marker
  ELSE UNCHANGED <<undoStack, redoStack, nextId, marker, line>>

Edit(op) == table' = Applied(op, table) /\ Commit(op)

Overwrite(offset, data) ==
  Edit([kind |-> "overwrite", offset |-> offset,
        old |-> Read(table, offset, Len(data)), new |-> data])

\* The block lies inside the document (check_block).
InDocument(offset, n) == offset + n <= Size

\* Two blocks that share a byte, or one empty block inside the other.
Overlap(a, b, n) == a < b + n /\ b < a + n

WriteBytes(offset, data) ==
  /\ offset < Size /\ InDocument(offset, Len(data))
  /\ Overwrite(offset, data)

FillBlock(offset, n, pattern) ==
  /\ pattern # <<>> /\ InDocument(offset, n)
  /\ Overwrite(offset, [k \in 1..n |-> pattern[((k - 1) % Len(pattern)) + 1]])

CopyBlock(from, n, to) ==
  /\ InDocument(from, n) /\ InDocument(to, n)
  /\ Overwrite(to, Read(table, from, n))

InsertBytes(offset, data) ==
  /\ Size + Len(data) <= MaxLength
  /\ Edit([kind |-> "insert", offset |-> offset, new |-> data])

DeleteBytes(offset, n) ==
  /\ offset < Size
  /\ Edit([kind |-> "delete", offset |-> offset, old |-> Read(table, offset, n)])

MoveBlock(from, n, to) ==
  /\ InDocument(from, n) /\ InDocument(to, n) /\ ~Overlap(from, to, n)
  /\ Edit([kind |-> "move", from |-> from, to |-> to,
           moved |-> Read(table, from, n), old |-> Read(table, to, n)])

SwapBlocks(a, n, b) ==
  /\ InDocument(a, n) /\ InDocument(b, n) /\ ~Overlap(a, b, n)
  /\ Edit([kind |-> "swap", a |-> a, b |-> b,
           dataA |-> Read(table, a, n), dataB |-> Read(table, b, n)])

\* Where `pattern` occurs in `data`, left to right and without overlaps.
Matches(data, pattern) ==
  LET n == Len(pattern)
      At(o) == o + n <= Len(data) /\ SubSeq(data, o + 1, o + n) = pattern
      scan[o \in 0..Len(data)] ==
        IF o = 0 THEN [found |-> <<>>, free |-> 0]
        ELSE LET s == scan[o - 1]
             IN IF s.free < o /\ At(o - 1)
                THEN [found |-> Append(s.found, o - 1), free |-> o - 1 + n] ELSE s
  IN scan[Len(data)].found

\* `data` with every match replaced by `replacement`.
ReplacedAll(data, pattern, replacement) ==
  LET matches == Matches(data, pattern)
      end(k) == IF k = 0 THEN 0 ELSE matches[k] + Len(pattern)
      upto[k \in 0..Len(matches)] ==
        IF k = 0 THEN <<>>
        ELSE upto[k - 1] \o SubSeq(data, end(k - 1) + 1, matches[k]) \o replacement
  IN upto[Len(matches)] \o SubSeq(data, end(Len(matches)) + 1, Len(data))

\* So many matches that their offsets take more room than two documents.
Dense(offsets) == Len(offsets) > (Size * 2) \div OffsetSize

\* A same-length replacement rewrites the matches where they lie, unless
\* they are dense; any other replaces the whole document.
ReplaceBytes(pattern, replacement) ==
  /\ pattern # <<>>
  /\ LET data    == Content(table)
         offsets == Matches(data, pattern)
         new     == ReplacedAll(data, pattern, replacement)
     IN /\ Len(new) <= MaxLength
        /\ IF Len(pattern) = Len(replacement) /\ ~Dense(offsets)
           THEN LET op == [kind |-> "matches", offsets |-> offsets,
                           old |-> pattern, new |-> replacement]
                IN /\ table' = IF pattern = replacement THEN table ELSE Applied(op, table)
                   /\ Commit(op)
           ELSE IF offsets = <<>> THEN UNCHANGED vars
           ELSE Edit([kind |-> "replace", old |-> data, new |-> new])

\* What a parsed patch may ask of a document of this size: disjoint runs
\* inside it, in offset order and not touching, and a shorter length.
Patches ==
  LET runs == {r \in {Span(o, s) : o \in 0..(Size - 1), s \in Strings \ {<<>>}} :
                 InDocument(r.offset, Len(r.data))}
  IN {<<>>} \cup {<<r>> : r \in runs}
     \cup {two \in runs \X runs : two[1].offset + Len(two[1].data) < two[2].offset}

\* The runs are written first, and the tail removed is read after them.
ImportPatch(runs, cut) ==
  LET written == Written(table, runs)
      tail == IF cut = Empty THEN <<>> ELSE Read(written, cut, Size - cut)
  IN Edit([kind |-> "import", cut |-> cut, tail |-> tail,
           writes |-> [k \in DOMAIN runs |->
                         [offset |-> runs[k].offset, new |-> runs[k].data,
                          old |-> Read(table, runs[k].offset, Len(runs[k].data))]]])

----------------------------------------------------------------------------
(* Undo, redo and the save point.                                          *)

Undo ==
  /\ undoStack # <<>>
  /\ LET entry == Last(undoStack)
     IN /\ table' = Reverted(entry.op, table)
        /\ undoStack' = Front(undoStack)
        /\ redoStack' = Append(redoStack, entry)
  /\ UNCHANGED <<nextId, marker, line>>

Redo ==
  /\ redoStack # <<>>
  /\ LET entry == Last(redoStack)
     IN /\ table' = Applied(entry.op, table)
        /\ redoStack' = Front(redoStack)
        /\ undoStack' = Append(undoStack, entry)
  /\ UNCHANGED <<nextId, marker, line>>

\* A save builds the table anew over the bytes it wrote and marks the place;
\* a close does the first alone, which HexDocument has.
Save ==
  /\ table' = Fresh(Content(table))
  /\ marker' = TopId(undoStack)
  /\ UNCHANGED <<undoStack, redoStack, nextId, line>>

Init ==
  /\ \E data \in Strings : table = Fresh(data) /\ line = <<data>>
  /\ undoStack = <<>>
  /\ redoStack = <<>>
  /\ nextId = 0
  /\ marker = Empty

\* The lengths asked for; a block of no bytes is an edit that does nothing,
\* which the empty string among the arguments stands for.
Lengths == 1..Size

\* The bounds on what is recorded.
Room == Len(undoStack) < MaxDepth /\ nextId < MaxEdits

AnyEdit ==
  \/ \E offset \in Offsets, data \in Strings : WriteBytes(offset, data) \/ InsertBytes(offset, data)
  \/ \E offset \in Offsets, n \in Lengths : DeleteBytes(offset, n)
  \/ \E offset \in Offsets, n \in Lengths, pattern \in Strings : FillBlock(offset, n, pattern)
  \/ \E a, b \in Offsets, n \in Lengths : CopyBlock(a, n, b) \/ MoveBlock(a, n, b) \/ SwapBlocks(a, n, b)
  \/ \E pattern, replacement \in Strings : ReplaceBytes(pattern, replacement)
  \/ \E runs \in Patches, cut \in {Empty} \cup 0..(Size - 1) : ImportPatch(runs, cut)

Next ==
  \/ Room /\ AnyEdit
  \/ Undo \/ Redo \/ Save

Spec == Init /\ [][Next]_vars

----------------------------------------------------------------------------
(* The history as a line of contents.                                      *)

Here == line[Len(undoStack) + 1]
Past == SubSeq(line, 1, Len(undoStack))
Future == Reverse(SubSeq(line, Len(undoStack) + 2, Len(line)))

\* Where on that line the save lies.
SavedAt ==
  LET entries == undoStack \o Reverse(redoStack)
      at == {k \in DOMAIN entries : entries[k].id = marker}
  IN IF marker = Empty THEN 0 ELSE IF at = {} THEN -1 ELSE CHOOSE k \in at : TRUE

Line == INSTANCE Timeline WITH content <- Here, past <- Past,
                               future <- Future, saved <- SavedAt

(* The table holds exactly the bytes the history has at this place: undo   *)
(* and redo restore what the document held there, through every layout the *)
(* table has had since, and no save or dropped no-op changes a byte        *)
(* (UndoManager::undo, redo, rewrite_spans, PieceTable).                   *)
UndoRestores == Content(table) = Here

(* With UndoRestores, the document implements the line of contents: an     *)
(* edit adds one entry exactly when it changes a byte, a new edit drops    *)
(* what was undone, and a save that such an edit dropped is never taken    *)
(* for the present again (UndoManager, DocumentState::commit).             *)
ImplementsLine == Line!Spec

(* Every piece of the table is non-empty and lies inside its buffer, the   *)
(* pieces add up to the document (assert_invariants of the tests), and no  *)
(* add-buffer byte is read by two of them, the reason an overwrite may     *)
(* rewrite such bytes in place; the ids on the stacks are distinct and     *)
(* already given out.                                                      *)
TypeOK ==
  /\ PiecesFit(table)
  /\ Apart(table)
  /\ LET entries == undoStack \o Reverse(redoStack)
     IN \A j, k \in DOMAIN entries :
          entries[j].id < nextId /\ (j < k => entries[j].id < entries[k].id)
  /\ marker \in Empty..(nextId - 1)

(* However long edits, undos and redos go on, the add buffer stays within  *)
(* twice the bytes in use plus the slack, and the pieces within the limit  *)
(* the last compaction left (maybe_compact).                               *)
StaysCompact == ~Bloated(table) /\ Len(table.pieces) <= table.limit

(* A document that is not modified holds the bytes it was opened with or   *)
(* last saved: the flag follows the save point through undo, redo and      *)
(* branches that reach the same depth with other edits                     *)
(* (UndoManager::is_modified, the SaveMarker comment).                     *)
CleanMeansSaved == ~IsModified => Content(table) = table.original
=============================================================================
