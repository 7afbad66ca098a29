------------------------------ MODULE Timeline ------------------------------
(* What the edit history of a hex document promises, whatever represents   *)
(* the bytes and the edits: a line of contents with the document somewhere *)
(* on it. An edit continues the line from where the document is and drops  *)
(* what lay ahead; undo and redo move along it; a save remembers the place.*)
EXTENDS Integers, Sequences

CONSTANT Byte

VARIABLES content,  \* the document's bytes
          past,     \* contents undo goes back through, the oldest first
          future,   \* contents redo goes forward through, the next one last
          saved     \* how many edits lay behind the last save, or Lost

tvars == <<content, past, future, saved>>

\* The save lies on a branch that a later edit dropped.
Lost == -1

Modified == saved # Len(past)

TypeOK ==
  /\ content \in Seq(Byte)
  /\ past \in Seq(Seq(Byte))
  /\ future \in Seq(Seq(Byte))
  /\ saved \in Nat \cup {Lost}

Init ==
  /\ content \in Seq(Byte)
  /\ past = <<>>
  /\ future = <<>>
  /\ saved = 0

\* Only a change of the bytes is an edit.
Edit ==
  /\ content' \in Seq(Byte) \ {content}
  /\ past' = Append(past, content)
  /\ future' = <<>>
  /\ saved' = IF saved > Len(past) THEN Lost ELSE saved

Undo ==
  /\ past # <<>>
  /\ content' = past[Len(past)]
  /\ past' = SubSeq(past, 1, Len(past) - 1)
  /\ future' = Append(future, content)
  /\ UNCHANGED saved

Redo ==
  /\ future # <<>>
  /\ content' = future[Len(future)]
  /\ past' = Append(past, content)
  /\ future' = SubSeq(future, 1, Len(future) - 1)
  /\ UNCHANGED saved

Save ==
  /\ saved' = Len(past)
  /\ UNCHANGED <<content, past, future>>

Next == Edit \/ Undo \/ Redo \/ Save

Spec == Init /\ [][Next]_tvars
=============================================================================
