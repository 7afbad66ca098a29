---------------------------- MODULE WriteGrants ----------------------------
(* The directories a sandboxed MCP server may write to                     *)
(* (mcp/sandbox_launch.py). While a server runs, each of them carries the  *)
(* Low label; a ledger on disk records every grant before it takes effect, *)
(* so that the next start of the program can undo what a crash left.       *)
(* Several programs may run at once and share the ledger; each counts the  *)
(* grants it holds under a lock of its own, while its sweep of left-over   *)
(* grants takes that lock only to look at the count.                       *)
EXTENDS Integers, Sequences

CONSTANTS Programs,  \* instances of Intellicrack that may run at once
          Dirs,      \* directories named in allowWrite, and sandbox homes
          Launches,  \* server launches of all programs
          Program,   \* the program of each launch
          Needs,     \* the directories of each launch, in order
          None,      \* nothing recorded, or nobody
          Gone       \* the owner of a record whose program has ended

ASSUME LaunchAssumption == Program \in [Launches -> Programs]
ASSUME NeedsAssumption == Needs \in [Launches -> Seq(Dirs)]
ASSUME NobodyAssumption == None \notin Launches \cup Dirs \cup Programs /\ Gone \notin Programs \cup {None}

Labels == {"own", "low"}
Record == [original : Labels, owner : Programs \cup {Gone}]
NoRecord == [original |-> "own", owner |-> None]

\* Where a launch is: about to acquire its next directory, in the middle of
\* that, running, or about to release its last one, in the middle of that.
Places == {"off", "acquire", "read", "recorded", "refused", "running", "release", "reverted"}

VARIABLES label,     \* the directory's own label, or Low
          ledger,    \* the recorded grants (mcp grants file), by directory
          on,        \* the programs that run
          lock,      \* the launch that has WriteGrantLedger._lock
          held,      \* _held: the acquisitions counted, as <<launch, place in its list>>
          original,  \* _held: the label to put back when the last is gone
          at, got,   \* each launch's place, and how many grants it has
          seen,      \* the label its acquisition read
          found,     \* what is left of the ledger a sweep read
          target,    \* the directory a sweep is reverting, or None
          swept,     \* it has put the label back, and forgets the record next
          crossed    \* ghost: directories where a grant met another's record

launchVars == <<lock, held, original, at, got, seen>>
sweepVars == <<found, target, swept>>
vars == <<label, ledger, on, launchVars, sweepVars, crossed>>

Nothing == [d \in Dirs |-> NoRecord]

\* The acquisitions a program counts for a directory.
Holders(p, d) == {h \in held : Program[h[1]] = p /\ Needs[h[1]][h[2]] = d}
Held(p, d) == Holders(p, d) # {}

----------------------------------------------------------------------------
(* The ledger. Each change is one read-modify-write under its own lock     *)
(* (LockedJsonFile.update), and may fail, leaving the file as it was.      *)

Recorded(d) == ledger[d] # NoRecord

Forget(d) == ledger' = [ledger EXCEPT ![d] = NoRecord] \/ UNCHANGED ledger

\* An acquisition of d meets the record of another grant, or a sweep at work.
Met(d) == Recorded(d) \/ \E p \in Programs : target[p] = d

Crosses(d, condition) == crossed' = IF condition THEN crossed \cup {d} ELSE crossed

----------------------------------------------------------------------------
(* One launch.                                                             *)

Next1(l) == Needs[l][got[l] + 1]
Last1(l) == Needs[l][got[l]]

Goes(l, place) == at' = [at EXCEPT ![l] = place]

Free(l) == lock[Program[l]] = None
Locks(l) == lock' = [lock EXCEPT ![Program[l]] = l]
Unlocks(l) == lock' = [lock EXCEPT ![Program[l]] = None]

\* apply_write_confinement begins.
Launch(l) ==
  /\ Program[l] \in on /\ at[l] = "off"
  /\ Goes(l, "acquire")
  /\ UNCHANGED <<label, ledger, on, lock, held, original, got, seen, sweepVars, crossed>>

\* acquire() of a directory this program holds: one holder more. What is
\* inside may have to be relabelled too, which may fail.
Count(l) ==
  LET p == Program[l]
      d == Next1(l)
  IN /\ at[l] = "acquire" /\ got[l] < Len(Needs[l]) /\ Free(l) /\ Held(p, d)
     /\ \/ /\ held' = held \cup {<<l, got[l] + 1>>}
           /\ got' = [got EXCEPT ![l] = @ + 1]
           /\ UNCHANGED at
        \/ Goes(l, "release") /\ UNCHANGED <<held, got>>
     /\ UNCHANGED <<label, ledger, on, lock, original, seen, sweepVars, crossed>>

\* acquire() of one it does not hold: first its label is read.
ReadLabel(l) ==
  LET d == Next1(l)
  IN /\ at[l] = "acquire" /\ got[l] < Len(Needs[l]) /\ Free(l) /\ ~Held(Program[l], d)
     /\ \/ /\ Locks(l) /\ Goes(l, "read")
           /\ seen' = [seen EXCEPT ![l] = label[d]]
           /\ Crosses(d, Met(d))
        \/ Goes(l, "release") /\ UNCHANGED <<lock, seen, crossed>>
     /\ UNCHANGED <<label, ledger, on, held, original, got, sweepVars>>

\* _remember: the grant is recorded before it takes effect.
Remember(l) ==
  LET d == Next1(l)
  IN /\ at[l] = "read"
     /\ \/ /\ ledger' = [ledger EXCEPT ![d] = [original |-> seen[l], owner |-> Program[l]]]
           /\ Goes(l, "recorded")
           /\ Crosses(d, Met(d))
           /\ UNCHANGED lock
           /\ UNCHANGED seen
        \/ /\ Goes(l, "release") /\ Unlocks(l)
           /\ seen' = [seen EXCEPT ![l] = "own"]
           /\ UNCHANGED <<ledger, crossed>>
     /\ UNCHANGED <<label, on, held, original, got, sweepVars>>

\* The Low label is put on, or refused.
Apply(l) ==
  LET p == Program[l]
      d == Next1(l)
  IN /\ at[l] = "recorded"
     /\ \/ /\ label' = [label EXCEPT ![d] = "low"]
           /\ held' = held \cup {<<l, got[l] + 1>>}
           /\ original' = [original EXCEPT ![p][d] = seen[l]]
           /\ got' = [got EXCEPT ![l] = @ + 1]
           /\ Goes(l, "acquire") /\ Unlocks(l)
        \/ Goes(l, "refused") /\ UNCHANGED <<label, held, original, got, lock>>
     /\ seen' = [seen EXCEPT ![l] = "own"]
     /\ UNCHANGED <<ledger, on, sweepVars, crossed>>

\* A grant that was refused is forgotten, and the launch given up.
GiveUp(l) ==
  /\ at[l] = "refused"
  /\ Forget(Next1(l)) /\ Goes(l, "release") /\ Unlocks(l)
  /\ UNCHANGED <<label, on, held, original, got, seen, sweepVars, crossed>>

\* The server runs once it has every grant, and is stopped before the first
\* is given back.
Run(l) ==
  /\ at[l] = "acquire" /\ got[l] = Len(Needs[l])
  /\ Goes(l, "running")
  /\ UNCHANGED <<label, ledger, on, lock, held, original, got, seen, sweepVars, crossed>>

Stop(l) ==
  /\ at[l] = "running"
  /\ Goes(l, "release")
  /\ UNCHANGED <<label, ledger, on, lock, held, original, got, seen, sweepVars, crossed>>

\* This acquisition is the only one left.
LastHolder(l) == Holders(Program[l], Last1(l)) = {<<l, got[l]>>}

\* release() of a directory others hold as well: one holder less.
Uncount(l) ==
  /\ at[l] = "release" /\ got[l] > 0 /\ Free(l) /\ ~LastHolder(l)
  /\ held' = held \ {<<l, got[l]>>}
  /\ got' = [got EXCEPT ![l] = @ - 1]
  /\ UNCHANGED <<label, ledger, on, lock, original, at, seen, sweepVars, crossed>>

\* Mutant of Revert: the record goes whether or not the label went back.
RevertForgotten(l) ==
  LET p == Program[l]
      d == Last1(l)
  IN /\ at[l] = "release" /\ got[l] > 0 /\ Free(l) /\ LastHolder(l)
     /\ held' = held \ {<<l, got[l]>>}
     /\ original' = [original EXCEPT ![p][d] = "own"]
     /\ label' \in {label, [label EXCEPT ![d] = original[p][d]]}
     /\ Goes(l, "reverted") /\ Locks(l)
     /\ UNCHANGED <<ledger, on, got, seen, sweepVars, crossed>>

\* release() by the last: the label is put back; if that fails the record is
\* kept for a later sweep.
Revert(l) ==
  LET p == Program[l]
      d == Last1(l)
  IN /\ at[l] = "release" /\ got[l] > 0 /\ Free(l) /\ LastHolder(l)
     /\ held' = held \ {<<l, got[l]>>}
     /\ original' = [original EXCEPT ![p][d] = "own"]
     /\ \/ /\ label' = [label EXCEPT ![d] = original[p][d]]
           /\ Goes(l, "reverted") /\ Locks(l)
           /\ UNCHANGED got
        \/ got' = [got EXCEPT ![l] = @ - 1] /\ UNCHANGED <<label, at, lock>>
     /\ UNCHANGED <<ledger, on, seen, sweepVars, crossed>>

\* The reverted grant is forgotten.
ForgetReverted(l) ==
  /\ at[l] = "reverted"
  /\ Forget(Last1(l)) /\ Goes(l, "release") /\ Unlocks(l)
  /\ got' = [got EXCEPT ![l] = @ - 1]
  /\ UNCHANGED <<label, on, held, original, seen, sweepVars, crossed>>

Released(l) ==
  /\ at[l] = "release" /\ got[l] = 0
  /\ Goes(l, "off")
  /\ UNCHANGED <<label, ledger, on, lock, held, original, got, seen, sweepVars, crossed>>

----------------------------------------------------------------------------
(* revert_stale, at every start of the MCP manager; servers may be started *)
(* by the operator meanwhile.                                              *)

Sweep(p) ==
  /\ p \in on /\ found[p] = Nothing
  /\ found' = [found EXCEPT ![p] = ledger]
  /\ UNCHANGED <<label, ledger, on, launchVars, target, swept, crossed>>

\* Mutant of Stale: whoever recorded the grant is taken to have ended.
StaleUnasked(p, d) == ~Held(p, d)

\* Nothing that runs holds it, as far as the sweep can tell: this program
\* does not, and the record's owner has ended or is this program.
Stale(p, d) == ~Held(p, d) /\ (found[p][d].owner \in {p, Gone} \/ found[p][d].owner \notin on)

\* The next directory found: the lock is taken to look whether it is held.
Look(p, d) ==
  /\ target[p] = None /\ found[p][d] # NoRecord /\ lock[p] = None
  /\ IF Stale(p, d)
     THEN /\ target' = [target EXCEPT ![p] = d]
          /\ Crosses(d, ledger[d] \notin {NoRecord, found[p][d]})
          /\ UNCHANGED found
     ELSE found' = [found EXCEPT ![p][d] = NoRecord] /\ UNCHANGED <<target, crossed>>
  /\ UNCHANGED <<label, ledger, on, launchVars, swept>>

\* Its label is put back, or that fails and the record stays.
SweepRevert(p) ==
  LET d == target[p]
  IN /\ d # None /\ ~swept[p]
     /\ \/ /\ label' = [label EXCEPT ![d] = found[p][d].original]
           /\ swept' = [swept EXCEPT ![p] = TRUE]
           /\ UNCHANGED <<found, target>>
        \/ /\ found' = [found EXCEPT ![p][d] = NoRecord]
           /\ target' = [target EXCEPT ![p] = None]
           /\ UNCHANGED <<label, swept>>
     /\ UNCHANGED <<ledger, on, launchVars, crossed>>

SweepForget(p) ==
  LET d == target[p]
  IN /\ d # None /\ swept[p]
     /\ Forget(d)
     /\ found' = [found EXCEPT ![p][d] = NoRecord]
     /\ target' = [target EXCEPT ![p] = None]
     /\ swept' = [swept EXCEPT ![p] = FALSE]
     /\ UNCHANGED <<label, on, launchVars, crossed>>

----------------------------------------------------------------------------
(* Programs start, and end in the middle of anything. The servers end with *)
(* them (their job is closed); labels and ledger stay.                     *)

Start(p) ==
  /\ p \notin on
  /\ on' = on \cup {p}
  /\ UNCHANGED <<label, ledger, launchVars, sweepVars, crossed>>

\* The records of a program that has ended name nobody that runs.
Orphaned(records, p) ==
  [d \in Dirs |-> IF records[d].owner = p THEN [records[d] EXCEPT !.owner = Gone] ELSE records[d]]

End(p) ==
  /\ p \in on
  /\ on' = on \ {p}
  /\ ledger' = Orphaned(ledger, p)
  /\ found' = [q \in Programs |-> IF q = p THEN Nothing ELSE Orphaned(found[q], p)]
  /\ target' = [target EXCEPT ![p] = None]
  /\ swept' = [swept EXCEPT ![p] = FALSE]
  /\ lock' = [lock EXCEPT ![p] = None]
  /\ held' = {h \in held : Program[h[1]] # p}
  /\ at' = [l \in Launches |-> IF Program[l] = p THEN "off" ELSE at[l]]
  /\ got' = [l \in Launches |-> IF Program[l] = p THEN 0 ELSE got[l]]
  /\ seen' = [l \in Launches |-> IF Program[l] = p THEN "own" ELSE seen[l]]
  /\ original' = [original EXCEPT ![p] = [d \in Dirs |-> "own"]]
  /\ UNCHANGED <<label, crossed>>

Init ==
  /\ label = [d \in Dirs |-> "own"]
  /\ ledger = Nothing
  /\ on = {}
  /\ lock = [p \in Programs |-> None]
  /\ held = {}
  /\ original = [p \in Programs |-> [d \in Dirs |-> "own"]]
  /\ at = [l \in Launches |-> "off"]
  /\ got = [l \in Launches |-> 0]
  /\ seen = [l \in Launches |-> "own"]
  /\ found = [p \in Programs |-> Nothing]
  /\ target = [p \in Programs |-> None]
  /\ swept = [p \in Programs |-> FALSE]
  /\ crossed = {}

LaunchStep(l) ==
  \/ Launch(l) \/ Count(l) \/ ReadLabel(l) \/ Remember(l) \/ Apply(l) \/ GiveUp(l)
  \/ Run(l) \/ Stop(l)
  \/ Uncount(l) \/ Revert(l) \/ ForgetReverted(l) \/ Released(l)

ProgramStep(p) ==
  \/ Start(p) \/ End(p)
  \/ Sweep(p) \/ SweepRevert(p) \/ SweepForget(p)
  \/ \E d \in Dirs : Look(p, d)

Next ==
  \/ \E l \in Launches : LaunchStep(l)
  \/ \E p \in Programs : ProgramStep(p)

Spec == Init /\ [][Next]_vars

----------------------------------------------------------------------------

TypeOK ==
  /\ label \in [Dirs -> Labels]
  /\ ledger \in [Dirs -> Record \cup {NoRecord}]
  /\ on \in SUBSET Programs
  /\ lock \in [Programs -> Launches \cup {None}]
  /\ held \in SUBSET (Launches \X (Nat \ {0}))
  /\ original \in [Programs -> [Dirs -> Labels]]
  /\ at \in [Launches -> Places]
  /\ got \in [Launches -> Nat]
  /\ \A l \in Launches : got[l] <= Len(Needs[l])
  /\ seen \in [Launches -> Labels]
  /\ found \in [Programs -> [Dirs -> Record \cup {NoRecord}]]
  /\ target \in [Programs -> Dirs \cup {None}]
  /\ swept \in [Programs -> BOOLEAN]
  /\ crossed \in SUBSET Dirs

(* While a server runs, every directory of it carries the Low label,       *)
(* whichever servers of the program share it, stop, fail to launch, and    *)
(* whatever programs crash and sweep beside it. The exceptions are         *)
(* directories where an acquisition or a sweep met a record that was not   *)
(* its own (WriteGrantLedger.acquire, release, revert_stale).              *)
GrantInForce ==
  \A l \in Launches : at[l] = "running" =>
    \A i \in 1..Len(Needs[l]) : Needs[l][i] \notin crossed => label[Needs[l][i]] = "low"

(* Whatever carries the Low label is in the ledger with its own label, so  *)
(* that no crash, at any step, leaves a directory writable that no start   *)
(* would put back; with the same exceptions (_remember, release,           *)
(* revert_stale).                                                          *)
LowIsRecorded ==
  \A d \in Dirs \ crossed : label[d] = "low" => Recorded(d) /\ ledger[d].original = "own"

(* The promise without the exceptions: once nothing is granted and nothing *)
(* recorded, every directory has its own label back ("so nothing stays     *)
(* writable to other Low integrity processes afterwards").                 *)
NothingStaysWritable ==
  (\A l \in Launches : at[l] = "off") /\ ledger = Nothing => \A d \in Dirs : label[d] = "own"
=============================================================================
