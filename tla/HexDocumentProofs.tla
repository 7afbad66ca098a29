------------------------- MODULE HexDocumentProofs -------------------------
(* Proofs about HexDocument, for any clients, files and contents.          *)
EXTENDS HexDocument, SequenceTheorems, TLAPS

----------------------------------------------------------------------------
(* The inductive invariant.                                                *)

\* What a client in the middle of `job` may rely on: while no edit landed,
\* its copy is the document's bytes, or the part of them read so far; a copy
\* read to its end was the document at one moment since it began.
JobHolds(job) ==
  /\ job.op # "idle" => job.gen <= generation /\ content \in job.seen
  /\ job.op = "save" => job.path \in Paths
  /\ job.op \in {"save", "close"} /\ Current(job) => job.data = content
  /\ job.op = "copy" /\ Current(job) =>
       Len(job.data) <= Len(content) /\ \A k \in 1..Len(job.data) : job.data[k] = content[k]
  /\ job.op = "place" => job.data \in job.seen

JobsHold == \A c \in Clients : JobHolds(jobs[c])

\* Only a detach makes bytes the baseline that the file may not hold.
BaselineHeld == ~doc.detached => doc.baseline = savedBytes

\* The place on the line where the save lies has the bytes it wrote.
SavedHeld ==
  saved # -1 =>
    /\ saved <= Len(past) + Len(future)
    /\ saved < Len(past) => past[saved + 1] = savedBytes
    /\ saved = Len(past) => content = savedBytes
    /\ saved > Len(past) => future[Len(future) + Len(past) - saved + 1] = savedBytes

IInv == TypeOK /\ JobsHold /\ BaselineHeld /\ SavedHeld /\ WrittenAtOneMoment

----------------------------------------------------------------------------
(* Lemmas.                                                                 *)

\* A client coming back to the document brings the bytes it has.
LEMMA BringsContent ==
  ASSUME IInv, NEW c \in Clients, jobs[c].op \in {"save", "close"}
  PROVE  Brought(jobs[c]) = content
BY DEF IInv, JobsHold, JobHolds, Brought

\* A copy read to its end under the generation it began at is the document.
LEMMA CopyIsWhole ==
  ASSUME NEW s \in Seq(Byte), NEW t \in Seq(Byte), Len(s) <= Len(t),
         \A k \in 1..Len(s) : s[k] = t[k], Len(s) + 1 > Len(t)
  PROVE  s = t
OBVIOUS

\* The history is typed after an edit, undo or redo.
LEMMA MoveTyped ==
  ASSUME Line!TypeOK, Line!Edit \/ Line!Undo \/ Line!Redo
  PROVE  Line!TypeOK'
<1>1. CASE Line!Edit
  BY <1>1 DEF Line!TypeOK, Line!Edit, Line!Lost
<1>2. CASE Line!Undo
  BY <1>2 DEF Line!TypeOK, Line!Undo, Line!Lost
<1>3. CASE Line!Redo
  BY <1>3 DEF Line!TypeOK, Line!Redo, Line!Lost
<1>4. QED BY <1>1, <1>2, <1>3

\* The elements of a sequence one longer, and of one without its last.
LEMMA Longer ==
  ASSUME NEW S, NEW s \in Seq(S), NEW x \in S
  PROVE  /\ Append(s, x) \in Seq(S) /\ Len(Append(s, x)) = Len(s) + 1
         /\ \A k \in 1..Len(s) : Append(s, x)[k] = s[k]
         /\ Append(s, x)[Len(s) + 1] = x
OBVIOUS

LEMMA Shorter ==
  ASSUME NEW S, NEW s \in Seq(S), s # <<>>
  PROVE  /\ Len(s) \in Nat \ {0} /\ s[Len(s)] \in S
         /\ SubSeq(s, 1, Len(s) - 1) \in Seq(S)
         /\ Len(SubSeq(s, 1, Len(s) - 1)) = Len(s) - 1
         /\ \A k \in 1..(Len(s) - 1) : SubSeq(s, 1, Len(s) - 1)[k] = s[k]
<1>1. Len(s) \in Nat \ {0} /\ s[Len(s)] \in S
  OBVIOUS
<1>2. 1 \in Int /\ Len(s) - 1 \in Int /\ \A k \in 1..(Len(s) - 1) : s[k] \in S
  BY <1>1
<1> DEFINE q == SubSeq(s, 1, Len(s) - 1)
           n == Len(s)
<1>3. /\ q \in Seq(S)
      /\ Len(q) = IF 1 <= n - 1 THEN (n - 1) - 1 + 1 ELSE 0
      /\ \A k \in 1..((n - 1) - 1 + 1) : q[k] = s[1 + k - 1]
  BY <1>2, SubSeqProperties
<1>4. n \in Nat \ {0}
  BY <1>1
<1> HIDE DEF q, n
<1>5. Len(q) = n - 1
  BY <1>3, <1>4
<1>6. ASSUME NEW k \in 1..(n - 1) PROVE q[k] = s[k]
  <2>1. k \in 1..((n - 1) - 1 + 1) /\ 1 + k - 1 = k
    BY <1>4
  <2>2. QED BY <1>3, <2>1
<1>7. QED BY <1>1, <1>3, <1>5, <1>6 DEF q, n

\* The save keeps its bytes while the document moves along its line.
LEMMA MoveKeepsSaved ==
  ASSUME Line!TypeOK, SavedHeld, Line!Edit \/ Line!Undo \/ Line!Redo,
         UNCHANGED savedBytes
  PROVE  SavedHeld'
<1>t. /\ content \in Seq(Byte) /\ past \in Seq(Seq(Byte)) /\ future \in Seq(Seq(Byte))
      /\ saved \in Nat \cup {-1} /\ Len(past) \in Nat /\ Len(future) \in Nat
  BY DEF Line!TypeOK, Line!Lost
<1>1. CASE Line!Edit
  <2>1. /\ past' = Append(past, content) /\ future' = <<>>
        /\ saved' = IF saved > Len(past) THEN -1 ELSE saved
    BY <1>1 DEF Line!Edit, Line!Lost
  <2>2. /\ Len(past') = Len(past) + 1 /\ past'[Len(past) + 1] = content
        /\ \A k \in 1..Len(past) : past'[k] = past[k]
    BY <1>t, <2>1, Longer
  <2>3. ASSUME saved' # -1 PROVE saved \in Nat /\ saved <= Len(past) /\ saved' = saved
    BY <1>t, <2>1, <2>3
  <2>4. Len(future') = 0
    BY <2>1
  <2>5. ASSUME saved' # -1 PROVE past'[saved + 1] = savedBytes
    <3>1. CASE saved = Len(past)
      BY <1>t, <2>2, <2>3, <2>5, <3>1 DEF SavedHeld
    <3>2. CASE saved < Len(past)
      <4>1. saved + 1 \in 1..Len(past) /\ past[saved + 1] = savedBytes
        BY <1>t, <2>3, <2>5, <3>2 DEF SavedHeld
      <4>2. QED BY <2>2, <4>1
    <3>3. QED BY <1>t, <2>3, <2>5, <3>1, <3>2
  <2>6. QED BY <1>t, <2>2, <2>3, <2>4, <2>5 DEF SavedHeld
<1>2. CASE Line!Undo
  <2>1. /\ past # <<>> /\ content' = past[Len(past)] /\ saved' = saved
        /\ past' = SubSeq(past, 1, Len(past) - 1) /\ future' = Append(future, content)
    BY <1>2 DEF Line!Undo
  <2>2. /\ Len(past) \in Nat \ {0} /\ Len(past') = Len(past) - 1
        /\ \A k \in 1..(Len(past) - 1) : past'[k] = past[k]
    BY <1>t, <2>1, Shorter
  <2>3. /\ Len(future') = Len(future) + 1 /\ future'[Len(future) + 1] = content
        /\ \A k \in 1..Len(future) : future'[k] = future[k]
    BY <1>t, <2>1, Longer
  <2>4. ASSUME saved # -1 PROVE saved <= Len(past') + Len(future')
    BY <1>t, <2>2, <2>3, <2>4 DEF SavedHeld
  <2>5. ASSUME saved # -1, saved < Len(past') PROVE past'[saved + 1] = savedBytes
    <3>1. saved + 1 \in 1..(Len(past) - 1) /\ past[saved + 1] = savedBytes
      BY <1>t, <2>2, <2>5 DEF SavedHeld
    <3>2. QED BY <2>2, <3>1
  <2>6. ASSUME saved # -1, saved = Len(past') PROVE content' = savedBytes
    <3>1. saved < Len(past) /\ saved + 1 = Len(past)
      BY <1>t, <2>2, <2>6
    <3>2. past[saved + 1] = savedBytes
      BY <2>6, <3>1 DEF SavedHeld
    <3>3. QED BY <2>1, <3>1, <3>2
  <2>7. ASSUME saved # -1, saved > Len(past')
        PROVE future'[Len(future') + Len(past') - saved + 1] = savedBytes
    <3>1. CASE saved = Len(past)
      <4>1. Len(future') + Len(past') - saved + 1 = Len(future) + 1 /\ content = savedBytes
        BY <1>t, <2>2, <2>3, <2>7, <3>1 DEF SavedHeld
      <4>2. QED BY <2>3, <4>1
    <3>2. CASE saved > Len(past)
      <4> DEFINE k == Len(future) + Len(past) - saved + 1
      <4>1. k \in 1..Len(future) /\ future[k] = savedBytes
        BY <1>t, <2>7, <3>2 DEF SavedHeld
      <4>2. Len(future') + Len(past') - saved + 1 = k
        BY <1>t, <2>2, <2>3, <2>7, <3>2
      <4>3. QED BY <2>3, <4>1, <4>2
    <3>3. QED BY <1>t, <2>2, <2>7, <3>1, <3>2
  <2>8. QED BY <2>1, <2>4, <2>5, <2>6, <2>7 DEF SavedHeld
<1>3. CASE Line!Redo
  <2>1. /\ future # <<>> /\ content' = future[Len(future)] /\ saved' = saved
        /\ past' = Append(past, content) /\ future' = SubSeq(future, 1, Len(future) - 1)
    BY <1>3 DEF Line!Redo
  <2>2. /\ Len(future) \in Nat \ {0} /\ Len(future') = Len(future) - 1
        /\ \A k \in 1..(Len(future) - 1) : future'[k] = future[k]
    BY <1>t, <2>1, Shorter
  <2>3. /\ Len(past') = Len(past) + 1 /\ past'[Len(past) + 1] = content
        /\ \A k \in 1..Len(past) : past'[k] = past[k]
    BY <1>t, <2>1, Longer
  <2>4. ASSUME saved # -1 PROVE saved <= Len(past') + Len(future')
    BY <1>t, <2>2, <2>3, <2>4 DEF SavedHeld
  <2>5. ASSUME saved # -1, saved < Len(past') PROVE past'[saved + 1] = savedBytes
    <3>1. CASE saved = Len(past)
      BY <1>t, <2>3, <2>5, <3>1 DEF SavedHeld
    <3>2. CASE saved < Len(past)
      <4>1. saved + 1 \in 1..Len(past) /\ past[saved + 1] = savedBytes
        BY <1>t, <2>5, <3>2 DEF SavedHeld
      <4>2. QED BY <2>3, <4>1
    <3>3. QED BY <1>t, <2>3, <2>5, <3>1, <3>2
  <2>6. ASSUME saved # -1, saved = Len(past') PROVE content' = savedBytes
    <3>1. saved > Len(past) /\ Len(future) + Len(past) - saved + 1 = Len(future)
      BY <1>t, <2>2, <2>3, <2>6
    <3>2. future[Len(future) + Len(past) - saved + 1] = savedBytes
      BY <2>6, <3>1 DEF SavedHeld
    <3>3. QED BY <2>1, <3>1, <3>2
  <2>7. ASSUME saved # -1, saved > Len(past')
        PROVE future'[Len(future') + Len(past') - saved + 1] = savedBytes
    <3> DEFINE k == Len(future) + Len(past) - saved + 1
    <3>1. saved > Len(past) /\ saved <= Len(past) + Len(future)
      BY <1>t, <2>3, <2>7 DEF SavedHeld
    <3>2. k \in 1..(Len(future) - 1)
      BY <1>t, <2>2, <2>3, <2>7, <3>1
    <3>3. future[k] = savedBytes
      BY <2>7, <3>1 DEF SavedHeld
    <3>4. Len(future') + Len(past') - saved + 1 = k
      BY <1>t, <2>2, <2>3, <2>7
    <3>5. QED BY <2>2, <3>2, <3>3, <3>4
  <2>8. QED BY <2>1, <2>4, <2>5, <2>6, <2>7 DEF SavedHeld
<1>4. QED BY <1>1, <1>2, <1>3

\* A step that ends one job and leaves the bytes alone keeps the others'.
LEMMA EndKeepsJobs ==
  ASSUME IInv, NEW c \in Clients, End(c), UNCHANGED <<content, generation>>
  PROVE  JobsHold' /\ jobs' \in [Clients -> JobType]
<1>1. jobs \in [Clients -> JobType] /\ Idle \in JobType
  BY DEF IInv, TypeOK, Idle, JobType
<1>2. jobs' \in [Clients -> JobType]
  BY <1>1 DEF End
<1>3. ASSUME NEW d \in Clients PROVE JobHolds(jobs[d])'
  <2>1. CASE d = c
    BY <1>1, <2>1 DEF End, JobHolds, Idle
  <2>2. CASE d # c
    BY <1>1, <2>2 DEF IInv, JobsHold, End, JobHolds, Current
  <2>3. QED BY <2>1, <2>2
<1>4. QED BY <1>2, <1>3 DEF JobsHold

\* A job that begins holds what it read.
LEMMA BeginKeeps ==
  ASSUME IInv, NEW c \in Clients, NEW op \in {"save", "copy", "close"},
         NEW path \in Paths \cup {NoPath}, op = "save" => path \in Paths,
         NEW data \in Seq(Byte), data = IF op = "copy" THEN <<>> ELSE content,
         Begin(c, op, path, data)
  PROVE  IInv'
<1> DEFINE job == [op |-> op, path |-> path, gen |-> generation, data |-> data, seen |-> {content}]
<1>1. UNCHANGED <<windows, content, past, future, saved, generation, doc, savedBytes, wrote>>
      /\ jobs' = [jobs EXCEPT ![c] = job]
  BY DEF Begin, history
<1>2. /\ Line!TypeOK /\ jobs \in [Clients -> JobType] /\ generation \in Nat
      /\ content \in Seq(Byte)
  BY GenerationsBounded DEF IInv, TypeOK, Line!TypeOK
<1>3. job \in JobType
  BY <1>2 DEF JobType
<1>4. jobs' \in [Clients -> JobType]
  BY <1>1, <1>2, <1>3
<1>5. TypeOK'
  BY <1>1, <1>4 DEF IInv, TypeOK, Line!TypeOK
<1>6. JobHolds(job)'
  BY <1>1, <1>2 DEF JobHolds, Current
<1>7. ASSUME NEW d \in Clients PROVE JobHolds(jobs[d])'
  <2>1. CASE d = c
    BY <1>1, <1>2, <1>6, <2>1
  <2>2. CASE d # c
    BY <1>1, <1>2, <2>2 DEF IInv, JobsHold, JobHolds, Current
  <2>3. QED BY <2>1, <2>2
<1>8. BaselineHeld' /\ SavedHeld' /\ WrittenAtOneMoment'
  BY <1>1 DEF IInv, BaselineHeld, SavedHeld, WrittenAtOneMoment
<1>9. QED BY <1>5, <1>7, <1>8 DEF IInv, JobsHold

LEMMA SeenGrows ==
  ASSUME NEW r \in JobType, NEW bytes \in Seq(Byte)
  PROVE  [r EXCEPT !.seen = @ \cup {bytes}] \in JobType
BY DEF JobType

\* Moving along the line shows every job under way one content more and
\* makes its copy stale.
LEMMA MoveKeeps ==
  ASSUME IInv, Line!Edit \/ Line!Undo \/ Line!Redo, Touch
  PROVE  IInv'
<1>1. /\ UNCHANGED <<windows, doc, savedBytes, wrote>>
      /\ generation < MaxGeneration /\ generation' = generation + 1
      /\ jobs' = [c \in Clients |->
                    IF jobs[c] = Idle THEN Idle
                    ELSE [jobs[c] EXCEPT !.seen = @ \cup {content'}]]
  BY DEF Touch, Bounded
<1>2. Line!TypeOK /\ Line!TypeOK'
  BY MoveTyped DEF IInv, TypeOK
<1>3. content' \in Seq(Byte) /\ generation \in Nat /\ jobs \in [Clients -> JobType]
      /\ Idle \in JobType
  BY <1>2 DEF IInv, TypeOK, Line!TypeOK, Idle, JobType
<1>4. ASSUME NEW c \in Clients PROVE jobs'[c] \in JobType /\ JobHolds(jobs[c])'
  <2>1. CASE jobs[c] = Idle
    <3>1. jobs'[c] = Idle
      BY <1>1, <2>1
    <3>2. Idle.op = "idle"
      BY DEF Idle
    <3>3. QED BY <1>3, <3>1, <3>2 DEF JobHolds
  <2>2. CASE jobs[c] # Idle
    <3>1. jobs'[c] = [jobs[c] EXCEPT !.seen = @ \cup {content'}] /\ jobs[c] \in JobType
      BY <1>1, <1>3, <2>2
    <3>2. jobs'[c] \in JobType
      BY <1>3, <3>1, SeenGrows
    <3>3. /\ jobs'[c].op = jobs[c].op /\ jobs'[c].gen = jobs[c].gen
          /\ jobs'[c].path = jobs[c].path /\ jobs'[c].data = jobs[c].data
          /\ jobs'[c].seen = jobs[c].seen \cup {content'} /\ jobs[c].gen \in Nat
      BY <3>1 DEF JobType
    <3>4. JobHolds(jobs[c])
      BY DEF IInv, JobsHold
    <3>5. CASE jobs[c].op = "idle"
      BY <3>2, <3>3, <3>5 DEF JobHolds
    <3>6. CASE jobs[c].op # "idle"
      <4>1. jobs[c].gen <= generation
        BY <3>4, <3>6 DEF JobHolds
      <4>2. jobs'[c].gen # generation' /\ jobs'[c].gen <= generation'
        BY <1>1, <1>3, <3>3, <4>1
      <4>3. ~Current(jobs[c])'
        BY <4>2 DEF Current
      <4>4. QED BY <3>2, <3>3, <3>4, <4>2, <4>3 DEF JobHolds
    <3>7. QED BY <3>2, <3>5, <3>6
  <2>3. QED BY <2>1, <2>2
<1>5. jobs' \in [Clients -> JobType]
  BY <1>1, <1>4
<1>6. generation' \in 0..MaxGeneration
  BY <1>1, <1>3, GenerationsBounded
<1>7. TypeOK'
  BY <1>1, <1>2, <1>5, <1>6 DEF IInv, TypeOK
<1>8. BaselineHeld' /\ WrittenAtOneMoment'
  BY <1>1 DEF IInv, BaselineHeld, WrittenAtOneMoment
<1>9. SavedHeld'
  BY <1>1, <1>2, MoveKeepsSaved DEF IInv
<1>10. QED BY <1>4, <1>7, <1>8, <1>9 DEF IInv, JobsHold

\* A document that detaches keeps its bytes, and stays modified if it was.
LEMMA DetachKeeps ==
  ASSUME IInv, doc' = DetachedAs(content), UNCHANGED <<windows, content, savedBytes>>
  PROVE  /\ BaselineHeld'
         /\ doc' \in [path : Paths \cup {NoPath}, mapped : BOOLEAN,
                      baseline : Seq(Byte), detached : BOOLEAN]
         /\ ~doc'.mapped
<1>1. /\ doc \in [path : Paths \cup {NoPath}, mapped : BOOLEAN,
                  baseline : Seq(Byte), detached : BOOLEAN]
      /\ content \in Seq(Byte)
  BY DEF IInv, TypeOK, Line!TypeOK
<1>2. PICK e \in BOOLEAN : e = doc.detached
  BY <1>1
<1>3. doc' = [doc EXCEPT !.detached = Differs, !.mapped = FALSE, !.baseline = content]
  BY DEF DetachedAs
<1>4. /\ doc'.detached = Differs /\ doc'.mapped = FALSE /\ doc'.baseline = content
      /\ doc'.path = doc.path
      /\ doc' \in [path : Paths \cup {NoPath}, mapped : BOOLEAN,
                   baseline : Seq(Byte), detached : BOOLEAN]
  BY <1>1, <1>2, <1>3 DEF Differs
<1>5. ASSUME ~doc'.detached PROVE doc'.baseline = savedBytes'
  BY <1>4, <1>5 DEF Differs, IInv, BaselineHeld
<1>6. QED BY <1>4, <1>5 DEF BaselineHeld

\* A save that comes back to the document.
LEMMA SaveKeeps ==
  ASSUME IInv, NEW c \in Clients, SaveCommit(c)
  PROVE  IInv' /\ (Line!Save \/ UNCHANGED <<content, past, future, saved>>)
<1> DEFINE job == jobs[c]
<1>1. /\ job.op = "save" /\ End(c) /\ UNCHANGED <<windows, past, future, generation>>
      /\ job \in JobType /\ content \in Seq(Byte) /\ content \in job.seen
      /\ job.path \in Paths
  BY DEF SaveCommit, IInv, TypeOK, Line!TypeOK, JobsHold, JobHolds
<1>2. Brought(job) = content
  BY <1>1, BringsContent
<1>3. /\ Line!TypeOK /\ windows \in BOOLEAN /\ generation \in 0..MaxGeneration
      /\ savedBytes \in Seq(Byte) /\ job.seen \in SUBSET Seq(Byte)
      /\ wrote \in [bytes : Seq(Byte), seen : SUBSET Seq(Byte)]
      /\ past \in Seq(Seq(Byte)) /\ future \in Seq(Seq(Byte)) /\ saved \in Nat \cup {-1}
      /\ Len(past) \in Nat /\ Len(future) \in Nat
  BY <1>1 DEF IInv, TypeOK, Line!TypeOK, Line!Lost, JobType
<1>4. ASSUME UNCHANGED wrote \/ Wrote(job, content)
      PROVE  /\ wrote' \in [bytes : Seq(Byte), seen : SUBSET Seq(Byte)]
             /\ WrittenAtOneMoment'
  BY <1>1, <1>3, <1>4 DEF Wrote, WrittenAtOneMoment, IInv
<1>5. CASE /\ doc' = IF doc.mapped /\ doc.path = job.path THEN DetachedAs(content) ELSE doc
           /\ content' = content /\ saved' = saved
           /\ UNCHANGED savedBytes
           /\ UNCHANGED wrote \/ Wrote(job, content)
  <2>1. JobsHold' /\ jobs' \in [Clients -> JobType]
    BY <1>1, <1>5, EndKeepsJobs
  <2>2. /\ doc' \in [path : Paths \cup {NoPath}, mapped : BOOLEAN,
                     baseline : Seq(Byte), detached : BOOLEAN]
        /\ doc'.mapped => windows' /\ doc'.path # NoPath
        /\ BaselineHeld'
    <3>1. CASE doc' = DetachedAs(content)
      BY <1>1, <1>5, <3>1, DetachKeeps
    <3>2. CASE doc' = doc
      BY <1>1, <1>5, <3>2 DEF IInv, TypeOK, BaselineHeld
    <3>3. QED BY <1>5, <3>1, <3>2
  <2>3. TypeOK'
    BY <1>1, <1>3, <1>4, <1>5, <2>1, <2>2 DEF TypeOK, Line!TypeOK
  <2>4. SavedHeld'
    BY <1>1, <1>5 DEF IInv, SavedHeld
  <2>5. QED BY <1>1, <1>4, <1>5, <2>1, <2>2, <2>3, <2>4 DEF IInv
<1>6. CASE \E mapping \in Mappings(content) :
             /\ doc' = AdoptedAs(job.path, content, mapping)
             /\ content' = content /\ saved' = Len(past) /\ savedBytes' = content
             /\ Wrote(job, content)
  <2>1. JobsHold' /\ jobs' \in [Clients -> JobType]
    BY <1>1, <1>6, EndKeepsJobs
  <2>2. PICK mapping \in Mappings(content) : doc' = AdoptedAs(job.path, content, mapping)
    BY <1>6
  <2>3. mapping = content => windows
    BY <1>1, UnmappedIsNone DEF Mappings
  <2>4. /\ doc' \in [path : Paths \cup {NoPath}, mapped : BOOLEAN,
                     baseline : Seq(Byte), detached : BOOLEAN]
        /\ doc'.mapped => windows' /\ doc'.path # NoPath
        /\ doc'.baseline = content
    BY <1>1, <2>2, <2>3, NoPathIsNone DEF AdoptedAs
  <2>5. TypeOK'
    BY <1>1, <1>3, <1>4, <1>6, <2>1, <2>4 DEF TypeOK, Line!TypeOK
  <2>6. SavedHeld'
    BY <1>1, <1>3, <1>6 DEF SavedHeld
  <2>7. BaselineHeld'
    BY <1>6, <2>4 DEF BaselineHeld
  <2>8. Line!Save
    BY <1>1, <1>6 DEF Line!Save
  <2>9. QED BY <1>4, <1>6, <2>1, <2>5, <2>6, <2>7, <2>8 DEF IInv
<1>7. QED BY <1>2, <1>5, <1>6 DEF SaveCommit, SaveMark

\* A copy reads its next chunk, or finds that it has them all.
LEMMA ChunkKeeps ==
  ASSUME IInv, NEW c \in Clients, CopyChunk(c)
  PROVE  IInv'
<1> DEFINE job == jobs[c]
           at == Len(job.data) + 1
           next == IF at > Len(content) THEN [job EXCEPT !.op = "place"]
                   ELSE [job EXCEPT !.data = Append(job.data, content[at])]
<1>1. /\ job.op = "copy" /\ Current(job)
      /\ UNCHANGED <<windows, content, past, future, saved, generation, doc, savedBytes, wrote>>
      /\ jobs' = [jobs EXCEPT ![c] = next]
  BY DEF CopyChunk, history
<1>2. /\ jobs \in [Clients -> JobType] /\ job \in JobType /\ content \in Seq(Byte)
      /\ job.data \in Seq(Byte) /\ Len(job.data) \in Nat /\ Len(content) \in Nat
  BY DEF IInv, TypeOK, Line!TypeOK, JobType
<1>3. JobHolds(job)
  BY DEF IInv, JobsHold
<1>4. /\ job.gen <= generation /\ content \in job.seen /\ Len(job.data) <= Len(content)
      /\ \A k \in 1..Len(job.data) : job.data[k] = content[k]
  BY <1>1, <1>3 DEF JobHolds
<1>n. jobs'[c] = next
  BY <1>1, <1>2
<1>5. jobs'[c] \in JobType /\ JobHolds(jobs[c])'
  <2>1. CASE at > Len(content)
    <3>1. jobs'[c] = [job EXCEPT !.op = "place"]
      BY <1>n, <2>1
    <3>2. job.data = content
      BY <1>2, <1>4, <2>1, CopyIsWhole
    <3>3. /\ jobs'[c] \in JobType /\ jobs'[c].op = "place" /\ jobs'[c].data = job.data
          /\ jobs'[c].gen = job.gen /\ jobs'[c].seen = job.seen
      BY <1>2, <3>1 DEF JobType
    <3>4. QED BY <1>1, <1>4, <3>2, <3>3 DEF JobHolds
  <2>2. CASE ~(at > Len(content))
    <3>1. jobs'[c] = [job EXCEPT !.data = Append(job.data, content[at])]
      BY <1>n, <2>2
    <3>2. at \in 1..Len(content) /\ content[at] \in Byte
      BY <1>2, <2>2
    <3>3. /\ Append(job.data, content[at]) \in Seq(Byte)
          /\ Len(Append(job.data, content[at])) = at
          /\ \A k \in 1..Len(job.data) : Append(job.data, content[at])[k] = job.data[k]
          /\ Append(job.data, content[at])[at] = content[at]
      BY <1>2, <3>2, Longer
    <3>4. /\ jobs'[c] \in JobType /\ jobs'[c].op = "copy" /\ jobs'[c].gen = job.gen
          /\ jobs'[c].seen = job.seen /\ jobs'[c].data = Append(job.data, content[at])
      BY <1>1, <1>2, <3>1, <3>3 DEF JobType
    <3>5. ASSUME NEW k \in 1..at PROVE Append(job.data, content[at])[k] = content[k]
      <4>1. CASE k = at
        <5>1. Append(job.data, content[at])[at] = content[at]
          BY <3>3
        <5>2. QED BY <4>1, <5>1
      <4>2. CASE k # at
        <5>1. k \in 1..Len(job.data)
          BY <1>2, <4>2
        <5>2. QED BY <1>4, <3>3, <5>1
      <4>3. QED BY <4>1, <4>2
    <3>6. QED BY <1>1, <1>4, <3>2, <3>3, <3>4, <3>5 DEF JobHolds
  <2>3. QED BY <2>1, <2>2
<1>6. jobs' \in [Clients -> JobType]
  BY <1>1, <1>2, <1>5
<1>7. ASSUME NEW d \in Clients PROVE JobHolds(jobs[d])'
  <2>1. CASE d = c
    BY <1>5, <2>1
  <2>2. CASE d # c
    BY <1>1, <1>2, <2>2 DEF IInv, JobsHold, JobHolds, Current
  <2>3. QED BY <2>1, <2>2
<1>8. TypeOK'
  BY <1>1, <1>6 DEF IInv, TypeOK, Line!TypeOK
<1>9. BaselineHeld' /\ SavedHeld' /\ WrittenAtOneMoment'
  BY <1>1 DEF IInv, BaselineHeld, SavedHeld, WrittenAtOneMoment
<1>10. QED BY <1>7, <1>8, <1>9 DEF IInv, JobsHold

\* The inductive invariant holds in every state.
LEMMA Inductive == Spec => []IInv
<1>1. Init => IInv
  <2> SUFFICES ASSUME Init PROVE IInv
    OBVIOUS
  <2>1. PICK path \in Paths \cup {NoPath}, mapped \in BOOLEAN :
          /\ mapped => windows /\ path # NoPath /\ content # <<>>
          /\ doc = [path |-> path, mapped |-> mapped, baseline |-> content, detached |-> FALSE]
    BY DEF Init
  <2>2. content \in Seq(Byte) /\ past = <<>> /\ future = <<>> /\ saved = 0 /\ generation = 0
    BY ContentsAreBytes DEF Init
  <2>3. Line!TypeOK
    BY <2>2 DEF Line!TypeOK, Line!Lost
  <2>4. Idle \in JobType /\ Idle.op = "idle"
    BY DEF Idle, JobType
  <2>5. TypeOK
    BY <2>1, <2>2, <2>3, <2>4, GenerationsBounded DEF Init, TypeOK
  <2>6. JobsHold
    BY <2>4 DEF Init, JobsHold, JobHolds
  <2>7. BaselineHeld /\ WrittenAtOneMoment
    BY <2>1 DEF Init, BaselineHeld, WrittenAtOneMoment
  <2>8. SavedHeld
    BY <2>2 DEF Init, SavedHeld
  <2>9. QED BY <2>5, <2>6, <2>7, <2>8 DEF IInv
<1>2. IInv /\ [Next]_vars => IInv'
  <2> SUFFICES ASSUME IInv, [Next]_vars PROVE IInv'
    OBVIOUS
  <2>1. ASSUME NEW data \in Contents, Edit(data) PROVE IInv'
    BY <2>1, MoveKeeps DEF Edit
  <2>2. CASE Undo
    BY <2>2, MoveKeeps DEF Undo
  <2>3. CASE Redo
    BY <2>3, MoveKeeps DEF Redo
  <2>4. ASSUME NEW c \in Clients, Step(c) PROVE IInv'
    <3>0. content \in Seq(Byte) /\ <<>> \in Seq(Byte)
      BY DEF IInv, TypeOK, Line!TypeOK
    <3>1. ASSUME NEW path \in Paths, SaveBegin(c, path) PROVE IInv'
      BY <3>0, <3>1, BeginKeeps DEF SaveBegin
    <3>2. ASSUME NEW path \in Paths, CopyBegin(c, path) PROVE IInv'
      BY <3>0, <3>2, BeginKeeps DEF CopyBegin
    <3>3. CASE CloseBegin(c)
      BY <3>0, <3>3, BeginKeeps DEF CloseBegin
    <3>4. CASE SaveAborted(c) \/ CopyAborted(c)
      <4>1. End(c) /\ UNCHANGED <<windows, content, past, future, saved, generation, doc,
                                  savedBytes, wrote>>
        BY <3>4 DEF SaveAborted, CopyAborted, history
      <4>2. JobsHold' /\ jobs' \in [Clients -> JobType]
        BY <4>1, EndKeepsJobs
      <4>3. QED BY <4>1, <4>2 DEF IInv, TypeOK, Line!TypeOK, BaselineHeld, SavedHeld,
                                  WrittenAtOneMoment
    <3>5. CASE SaveCommit(c)
      BY <3>5, SaveKeeps
    <3>6. CASE CopyChunk(c)
      BY <3>6, ChunkKeeps
    <3>7. CASE CopyWhole(c) \/ CopyPlace(c)
      <4> DEFINE job == jobs[c]
      <4>1. /\ End(c)
            /\ UNCHANGED <<windows, content, past, future, saved, generation, doc, savedBytes>>
        BY <3>7 DEF CopyWhole, CopyPlace, history
      <4>2. \/ UNCHANGED wrote
            \/ \E bytes \in job.seen : Wrote(job, bytes)
        BY <3>7 DEF CopyWhole, CopyPlace, IInv, JobsHold, JobHolds
      <4>3. job.seen \in SUBSET Seq(Byte)
        BY DEF IInv, TypeOK, JobType
      <4>4. /\ wrote' \in [bytes : Seq(Byte), seen : SUBSET Seq(Byte)]
            /\ WrittenAtOneMoment'
        <5>1. CASE UNCHANGED wrote
          BY <5>1 DEF IInv, TypeOK, WrittenAtOneMoment
        <5>2. CASE \E bytes \in job.seen : Wrote(job, bytes)
          BY <4>3, <5>2 DEF Wrote, WrittenAtOneMoment
        <5>3. QED BY <4>2, <5>1, <5>2
      <4>5. JobsHold' /\ jobs' \in [Clients -> JobType]
        BY <4>1, EndKeepsJobs
      <4>6. QED BY <4>1, <4>4, <4>5 DEF IInv, TypeOK, Line!TypeOK, BaselineHeld, SavedHeld
    <3>8. CASE CloseCommit(c)
      <4>1. /\ jobs[c].op = "close" /\ End(c)
            /\ UNCHANGED <<windows, past, future, saved, generation, savedBytes, wrote>>
        BY <3>8 DEF CloseCommit, history
      <4>2. Brought(jobs[c]) = content
        BY <4>1, BringsContent
      <4>3. /\ content' = content
            /\ doc' = DetachedAs(content) \/ doc' = doc
        BY <3>8, <4>2 DEF CloseCommit
      <4>4. JobsHold' /\ jobs' \in [Clients -> JobType]
        BY <4>1, <4>3, EndKeepsJobs
      <4>5. /\ doc' \in [path : Paths \cup {NoPath}, mapped : BOOLEAN,
                         baseline : Seq(Byte), detached : BOOLEAN]
            /\ doc'.mapped => windows' /\ doc'.path # NoPath
            /\ BaselineHeld'
        <5>1. CASE doc' = DetachedAs(content)
          BY <4>1, <4>3, <5>1, DetachKeeps
        <5>2. CASE doc' = doc
          BY <4>1, <5>2 DEF IInv, TypeOK, BaselineHeld
        <5>3. QED BY <4>3, <5>1, <5>2
      <4>6. QED BY <4>1, <4>3, <4>4, <4>5 DEF IInv, TypeOK, Line!TypeOK, SavedHeld,
                                              WrittenAtOneMoment
    <3>9. QED BY <2>4, <3>1, <3>2, <3>3, <3>4, <3>5, <3>6, <3>7, <3>8 DEF Step
  <2>5. CASE UNCHANGED vars
    BY <2>5 DEF vars, history, IInv, TypeOK, Line!TypeOK, JobsHold, JobHolds, Current,
                BaselineHeld, SavedHeld, WrittenAtOneMoment
  <2>6. QED BY <2>1, <2>2, <2>3, <2>4, <2>5 DEF Next
<1>3. QED BY <1>1, <1>2, PTL DEF Spec

----------------------------------------------------------------------------
(* The results.                                                            *)

(* The types hold, and only a document with a file on a host that locks    *)
(* mapped files is mapped (map_locked).                                    *)
THEOREM TypeCorrect == Spec => []TypeOK
BY Inductive, PTL DEF IInv

(* No save, copy or close of a thread, however it interleaves with the     *)
(* edits, saves and closes of the others and however it fails, loses an    *)
(* edit or marks a place the document is not at (save_locked,              *)
(* close_locked).                                                          *)
THEOREM LineTheorem == Spec => ImplementsLine
<1>1. Init => Line!Init
  BY ContentsAreBytes DEF Init, Line!Init
<1>2. IInv /\ [Next]_vars => [Line!Next]_(Line!tvars)
  <2> SUFFICES ASSUME IInv, [Next]_vars
               PROVE  Line!Next \/ UNCHANGED <<content, past, future, saved>>
    BY DEF Line!tvars
  <2>1. ASSUME NEW data \in Contents, Edit(data) PROVE Line!Next
    BY <2>1 DEF Edit, Line!Next
  <2>2. CASE Undo \/ Redo
    BY <2>2 DEF Undo, Redo, Line!Next
  <2>3. ASSUME NEW c \in Clients, Step(c)
        PROVE  Line!Next \/ UNCHANGED <<content, past, future, saved>>
    <3>1. CASE SaveCommit(c)
      BY <3>1, SaveKeeps DEF Line!Next
    <3>2. CASE CloseCommit(c)
      <4>1. Brought(jobs[c]) = content
        BY <3>2, BringsContent DEF CloseCommit
      <4>2. QED BY <3>2, <4>1 DEF CloseCommit, history
    <3>3. CASE \/ \E path \in Paths : SaveBegin(c, path) \/ CopyBegin(c, path)
               \/ SaveAborted(c) \/ CopyChunk(c) \/ CopyWhole(c) \/ CopyPlace(c)
               \/ CopyAborted(c) \/ CloseBegin(c)
      BY <3>3 DEF SaveBegin, CopyBegin, SaveAborted, CopyChunk, CopyWhole, CopyPlace,
                  CopyAborted, CloseBegin, Begin, history
    <3>4. QED BY <2>3, <3>1, <3>2, <3>3 DEF Step
  <2>4. CASE UNCHANGED vars
    BY <2>4 DEF vars, history
  <2>5. QED BY <2>1, <2>2, <2>3, <2>4 DEF Next
<1>3. QED BY <1>1, <1>2, Inductive, PTL DEF Spec, ImplementsLine, Line!Spec

(* A document whose history says it is not modified holds the bytes it was *)
(* opened with or last saved (UndoManager::is_modified, commit_save).      *)
THEOREM CleanTheorem == Spec => []CleanMeansWritten
<1>1. IInv => CleanMeansWritten
  BY DEF IInv, TypeOK, Line!TypeOK, SavedHeld, CleanMeansWritten, Line!Modified
<1>2. QED BY <1>1, Inductive, PTL

(* A document that does not differ from its baseline, with nothing         *)
(* detached, holds those bytes too (MmapDocument::is_modified, detach).    *)
THEOREM BaselineTheorem == Spec => []BaselineTells
<1>1. IInv => BaselineTells
  BY DEF IInv, BaselineHeld, BaselineTells, Differs
<1>2. QED BY <1>1, Inductive, PTL

(* A file a save or a copy writes holds what the document held at one      *)
(* moment since it began (save_copy_locked, commit_save).                  *)
THEOREM MomentTheorem == Spec => []WrittenAtOneMoment
BY Inductive, PTL DEF IInv
=============================================================================
