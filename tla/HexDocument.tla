---------------------------- MODULE HexDocument ----------------------------
(* A hex document shared by several threads (intellicrack-hexcore/src/     *)
(* lib.rs HexDocument, mmap_io.rs MmapDocument). Edits take the document's *)
(* write lock for their whole length, as EditHistory shows them, and are   *)
(* seen here through the line of contents that module implements. Saving,  *)
(* copying and closing hold the lock only where they touch the document:   *)
(* they read it under one guard, work with none, and come back under       *)
(* another, with the generation counter to tell whether it changed.        *)
EXTENDS Integers, Sequences

CONSTANTS Byte,          \* a chunk of bytes a copy reads at once
          Contents,      \* bound: what documents hold
          Clients,       \* threads that save, copy and close
          Paths, NoPath, \* files; a document made of bytes has none
          Unmapped,      \* the map is refused or not tried
          MaxGeneration  \* bound: changes of the bytes

ASSUME ContentsAreBytes == Contents \subseteq Seq(Byte)
ASSUME GenerationsBounded == MaxGeneration \in Nat
ASSUME NoPathIsNone == NoPath \notin Paths
ASSUME UnmappedIsNone == Unmapped \notin Seq(Byte)

VARIABLES windows,     \* files can be mapped and locked (MAPPING_IS_LOCKED)
          content,     \* the document's bytes
          past, future, saved,  \* its edit history, as in Timeline
          generation,  \* how often the bytes changed (DocumentState.generation)
          doc,         \* file, mapping, baseline and detached_changes
          jobs,        \* what each client is in the middle of
          savedBytes,  \* ghost: the bytes opened or last saved with success
          wrote        \* ghost: the last file written, and what the document
                       \* has held since that save or copy began

history == <<past, future, saved>>
vars == <<windows, content, past, future, saved, generation, doc, jobs, savedBytes, wrote>>

Line == INSTANCE Timeline

Idle == [op |-> "idle", path |-> NoPath, gen |-> 0, data |-> <<>>, seen |-> {}]

----------------------------------------------------------------------------
(* The document.                                                           *)

\* MmapDocument::is_modified: the bytes against the baseline.
Differs == doc.detached \/ content # doc.baseline

\* Mutant of DetachedAs: a document that leaves its mapping counts as clean.
DetachedClean(data) == [doc EXCEPT !.detached = FALSE, !.mapped = FALSE, !.baseline = data]

\* `data` becomes the baseline, and what differed from the file still does.
DetachedAs(data) == [doc EXCEPT !.detached = Differs, !.mapped = FALSE, !.baseline = data]

\* What mapping a file of the bytes `data` after the rename can give: other
\* bytes when another program replaced the file in between.
Mappings(data) == {Unmapped} \cup (IF windows THEN Contents \ {<<>>} ELSE {})

Bounded == generation < MaxGeneration

\* The bytes changed: the generation advances, and the jobs under way have
\* seen one content more.
Touch ==
  /\ Bounded
  /\ generation' = generation + 1
  /\ jobs' = [c \in Clients |->
                IF jobs[c] = Idle THEN Idle
                ELSE [jobs[c] EXCEPT !.seen = @ \cup {content'}]]
  /\ UNCHANGED <<windows, doc, savedBytes, wrote>>

Edit(data) == content' = data /\ Line!Edit /\ Touch
Undo == Line!Undo /\ Touch
Redo == Line!Redo /\ Touch

----------------------------------------------------------------------------
(* Jobs.                                                                   *)

Begin(c, op, path, data) ==
  /\ jobs[c] = Idle
  /\ jobs' = [jobs EXCEPT ![c] = [op |-> op, path |-> path, gen |-> generation,
                                  data |-> data, seen |-> {content}]]
  /\ UNCHANGED <<windows, content, history, generation, doc, savedBytes, wrote>>

End(c) == jobs' = [jobs EXCEPT ![c] = Idle]

\* Mutant of Current: a snapshot is taken for the document's bytes.
CurrentAlways(job) == TRUE

\* No edit landed since the job read the document.
Current(job) == job.gen = generation

\* The bytes a job brings back to the document: its own copy, or a new one
\* made under the write guard when an edit made that one stale.
Brought(job) == IF Current(job) THEN job.data ELSE content

Wrote(job, bytes) == wrote' = [bytes |-> bytes, seen |-> job.seen]

\* prepare_save: the bytes and their generation under a read guard.
SaveBegin(c, path) == Begin(c, "save", path, content)

\* The temp file cannot be written, before the write guard or, for a copy
\* found stale, under it; the document has not been touched.
SaveAborted(c) ==
  /\ jobs[c].op = "save"
  /\ End(c)
  /\ UNCHANGED <<windows, content, history, generation, doc, savedBytes, wrote>>

\* Mutant of SaveMark: a save that failed is recorded too.
SaveMarkAnyway(done) == Len(past)

\* UndoManager::mark_saved, which only a save that succeeded reaches.
SaveMark(done) == IF done THEN Len(past) ELSE saved

\* The saved bytes become the baseline, mapped only if the mapping has them.
AdoptedAs(path, data, mapping) ==
  [path |-> path, mapped |-> mapping = data, baseline |-> data, detached |-> FALSE]

\* commit_save, under the write guard. A document saving over the file it
\* maps lets the mapping go before the rename. The rename fails (the target
\* as it was, or its name vacated and the bytes in the temp file), or its
\* directory cannot be flushed (never on Windows), or the file is adopted.
SaveCommit(c) ==
  LET job    == jobs[c]
      data   == Brought(job)
      own    == doc.mapped /\ doc.path = job.path
  IN /\ job.op = "save"
     /\ End(c)
     /\ \/ /\ doc' = IF own THEN DetachedAs(data) ELSE doc
           /\ content' = IF own THEN data ELSE content
           /\ saved' = SaveMark(FALSE)
           /\ UNCHANGED savedBytes
           /\ UNCHANGED wrote \/ (~windows /\ Wrote(job, data))
        \/ \E mapping \in Mappings(data) :
             /\ doc' = AdoptedAs(job.path, data, mapping)
             /\ content' = data
             /\ saved' = SaveMark(TRUE)
             /\ savedBytes' = data
             /\ Wrote(job, data)
     /\ UNCHANGED <<windows, past, future, generation>>

\* save_copy: the generation is read first, the bytes a chunk at a time.
CopyBegin(c, path) == Begin(c, "copy", path, <<>>)

\* The next chunk under a read guard of its own; at the end the copy may be
\* put in place, which needs no guard.
CopyChunk(c) ==
  LET job == jobs[c]
      at  == Len(job.data) + 1
  IN /\ job.op = "copy" /\ Current(job)
     /\ jobs' = [jobs EXCEPT ![c] =
                   IF at > Len(content) THEN [job EXCEPT !.op = "place"]
                   ELSE [job EXCEPT !.data = Append(@, content[at])]]
     /\ UNCHANGED <<windows, content, history, generation, doc, savedBytes, wrote>>

\* An edit tore the copy: it is dropped and made again under one read guard.
CopyWhole(c) ==
  LET job == jobs[c]
  IN /\ job.op = "copy" /\ ~Current(job)
     /\ End(c)
     /\ Wrote(job, content) \/ UNCHANGED wrote
     /\ UNCHANGED <<windows, content, history, generation, doc, savedBytes>>

\* The rename of the complete copy, which may fail; the document keeps its
\* own file, mapping and marks.
CopyPlace(c) ==
  LET job == jobs[c]
  IN /\ job.op = "place"
     /\ End(c)
     /\ Wrote(job, job.data) \/ UNCHANGED wrote
     /\ UNCHANGED <<windows, content, history, generation, doc, savedBytes>>

\* A chunk cannot be written to the temp file.
CopyAborted(c) ==
  /\ jobs[c].op = "copy"
  /\ End(c)
  /\ UNCHANGED <<windows, content, history, generation, doc, savedBytes, wrote>>

\* snapshot_for_close: only a mapped document has anything to release.
CloseBegin(c) == doc.mapped /\ Begin(c, "close", NoPath, content)

\* commit_close, under the write guard; another job may have released it.
CloseCommit(c) ==
  LET job == jobs[c]
  IN /\ job.op = "close"
     /\ End(c)
     /\ IF doc.mapped
        THEN doc' = DetachedAs(Brought(job)) /\ content' = Brought(job)
        ELSE UNCHANGED <<doc, content>>
     /\ UNCHANGED <<windows, history, generation, savedBytes, wrote>>

----------------------------------------------------------------------------

\* Opened from a file, mapped where that can be locked, or made of bytes.
Init ==
  /\ windows \in BOOLEAN
  /\ content \in Contents
  /\ past = <<>> /\ future = <<>> /\ saved = 0
  /\ generation = 0
  /\ \E path \in Paths \cup {NoPath}, mapped \in BOOLEAN :
       /\ mapped => windows /\ path # NoPath /\ content # <<>>
       /\ doc = [path |-> path, mapped |-> mapped, baseline |-> content, detached |-> FALSE]
  /\ jobs = [c \in Clients |-> Idle]
  /\ savedBytes = content
  /\ wrote = [bytes |-> content, seen |-> {content}]

Step(c) ==
  \/ \E path \in Paths : SaveBegin(c, path) \/ CopyBegin(c, path)
  \/ SaveAborted(c) \/ SaveCommit(c)
  \/ CopyChunk(c) \/ CopyWhole(c) \/ CopyPlace(c) \/ CopyAborted(c)
  \/ CloseBegin(c) \/ CloseCommit(c)

Next ==
  \/ \E data \in Contents : Edit(data)
  \/ Undo \/ Redo
  \/ \E c \in Clients : Step(c)

Spec == Init /\ [][Next]_vars

----------------------------------------------------------------------------

JobType ==
  [op : {"idle", "save", "copy", "place", "close"}, path : Paths \cup {NoPath},
   gen : Nat, data : Seq(Byte), seen : SUBSET Seq(Byte)]

(* The types, and only a Windows document with a file is mapped            *)
(* (load_stable, map_locked).                                              *)
TypeOK ==
  /\ windows \in BOOLEAN
  /\ Line!TypeOK
  /\ generation \in 0..MaxGeneration
  /\ doc \in [path : Paths \cup {NoPath}, mapped : BOOLEAN,
              baseline : Seq(Byte), detached : BOOLEAN]
  /\ doc.mapped => windows /\ doc.path # NoPath
  /\ jobs \in [Clients -> JobType]
  /\ savedBytes \in Seq(Byte)
  /\ wrote \in [bytes : Seq(Byte), seen : SUBSET Seq(Byte)]

(* Whatever the saves, copies and closes of the other threads, the document*)
(* moves along its line of contents: no edit made while one of them works  *)
(* without the lock is lost when it comes back with its copy, and a save   *)
(* marks the place the document is at, never the one it was copied at      *)
(* (save_locked, close_locked, "which cannot be raced").                   *)
ImplementsLine == Line!Spec

(* The editor's flag: when the history says the document is not modified,  *)
(* it holds the bytes it was opened with or the last successful save wrote,*)
(* also after saves that failed under another thread's edits               *)
(* (UndoManager::is_modified, commit_save).                                *)
CleanMeansWritten == ~Line!Modified => content = savedBytes

(* The file's flag: a document whose bytes do not differ from its baseline,*)
(* with nothing detached, holds the bytes last opened or saved, though a   *)
(* close or a failed save over its own file replaced that baseline         *)
(* (MmapDocument::is_modified, detach).                                    *)
BaselineTells == ~Differs => content = savedBytes

(* A file written by a save or a copy holds bytes the document held at one *)
(* moment since the call began, never a mix of two: edits land between the *)
(* chunks of a copy and while a save writes its temp file                  *)
(* (save_copy_locked, commit_save).                                        *)
WrittenAtOneMoment == wrote.bytes \in wrote.seen
=============================================================================
