------------------------- MODULE WriteGrantsProofs -------------------------
(* What the write-grant ledger guarantees for any number of programs,      *)
(* directories and launches: where no acquisition and no sweep met another *)
(* grant's record, a running server keeps its write access and no crash    *)
(* leaves a Low directory unrecorded.                                      *)
EXTENDS WriteGrants, TLAPS

\* The places at which a launch has its program's lock.
Acquiring == {"read", "recorded", "refused"}
Critical == Acquiring \cup {"reverted"}

\* The directory a launch is busy with at a place, after n acquisitions, and
\* how many of these are counted in _held.
DirAt(place, n, l) == IF place = "reverted" THEN Needs[l][n] ELSE Needs[l][n + 1]
CountAt(place, n) == IF place = "reverted" THEN n - 1 ELSE n

\* The directory of an acquisition, and its program.
DirOf(h) == Needs[h[1]][h[2]]
By(h) == Program[h[1]]

\* A launch is where the lock and its program allow it to be.
Locking ==
  \A l \in Launches :
    /\ at[l] \in Critical <=> lock[Program[l]] = l
    /\ at[l] # "off" => Program[l] \in on

Counting ==
  \A l \in Launches :
    /\ at[l] = "off" => got[l] = 0
    /\ at[l] \in Acquiring => got[l] < Len(Needs[l])
    /\ at[l] = "running" => got[l] = Len(Needs[l])
    /\ at[l] = "reverted" => got[l] > 0

\* _held counts exactly the acquisitions that were made and not given back,
\* and none of the directory a launch has the lock for.
Holding ==
  /\ \A l \in Launches, i \in Nat \ {0} : <<l, i>> \in held <=> i <= CountAt(at[l], got[l])
  /\ \A l \in Launches : at[l] \in Critical =>
       \A h \in held : By(h) = Program[l] => DirOf(h) # DirAt(at[l], got[l], l)

\* What is granted, or about to be, or just taken back, is recorded as its
\* program's, with the directory's own label.
Mine(p) == [original |-> "own", owner |-> p]

Granting ==
  \A h \in held : DirOf(h) \notin crossed =>
    /\ label[DirOf(h)] = "low"
    /\ ledger[DirOf(h)] = Mine(By(h))
    /\ original[By(h)][DirOf(h)] = "own"

Working ==
  \A l \in Launches : DirAt(at[l], got[l], l) \notin crossed =>
    /\ at[l] \in {"read", "recorded"} => seen[l] = "own"
    /\ at[l] \in {"recorded", "refused", "reverted"} =>
         /\ ledger[DirAt(at[l], got[l], l)] = Mine(Program[l])
         /\ label[DirAt(at[l], got[l], l)] = "own"

\* Records are true.
Recording ==
  \A d \in Dirs \ crossed :
    /\ label[d] = "low" => ledger[d] # NoRecord
    /\ ledger[d].original = "own"
    /\ \A p \in Programs : found[p][d].original = "own"

\* What a sweep reverts is granted to nobody.
Sweeping ==
  \A q \in Programs :
    /\ target[q] = None => ~swept[q]
    /\ target[q] \in Dirs \ crossed =>
         /\ \A h \in held : DirOf(h) # target[q]
         /\ \A l \in Launches : at[l] \in {"recorded", "refused", "reverted"} =>
              DirAt(at[l], got[l], l) # target[q]
         /\ swept[q] => label[target[q]] = "own"

IInv ==
  /\ TypeOK
  /\ Locking /\ Counting /\ Holding
  /\ Granting /\ Working /\ Recording /\ Sweeping

----------------------------------------------------------------------------

\* The directories of a launch are directories.
LEMMA NeedsDirs ==
  ASSUME NEW l \in Launches, TypeOK
  PROVE  /\ Program[l] \in Programs
         /\ Len(Needs[l]) \in Nat
         /\ \A i \in 1..Len(Needs[l]) : Needs[l][i] \in Dirs
         /\ got[l] \in Nat /\ got[l] <= Len(Needs[l])
BY LaunchAssumption, NeedsAssumption DEF TypeOK

\* A launch that has the lock is busy with a directory.
LEMMA BusyDirs ==
  ASSUME NEW l \in Launches, TypeOK, Counting
  PROVE  at[l] \in Critical => DirAt(at[l], got[l], l) \in Dirs
BY NeedsDirs DEF Counting, Critical, Acquiring, DirAt

\* An acquisition that is counted is one of its launch, of a directory.
LEMMA HeldDirs ==
  ASSUME NEW h \in held, TypeOK, Holding
  PROVE  /\ h = <<h[1], h[2]>> /\ h[1] \in Launches /\ h[2] \in Nat \ {0}
         /\ h[2] <= CountAt(at[h[1]], got[h[1]])
         /\ By(h) \in Programs /\ DirOf(h) \in Dirs
<1>1. h = <<h[1], h[2]>> /\ h[1] \in Launches /\ h[2] \in Nat \ {0}
  BY DEF TypeOK
<1>2. h[2] <= CountAt(at[h[1]], got[h[1]])
  BY <1>1 DEF Holding
<1> QED BY <1>1, <1>2, NeedsDirs DEF CountAt, By, DirOf

\* What it is for a program to hold a directory.
LEMMA HeldBy ==
  ASSUME NEW p, NEW d
  PROVE  Held(p, d) <=> \E h \in held : By(h) = p /\ DirOf(h) = d
BY DEF Held, Holders, By, DirOf

\* What tells records apart.
LEMMA Records ==
  /\ NoRecord.original = "own" /\ NoRecord.owner = None
  /\ \A p \in Programs : /\ Mine(p) \in Record /\ Mine(p) # NoRecord
                          /\ Mine(p).original = "own" /\ Mine(p).owner = p
BY NobodyAssumption DEF NoRecord, Mine, Record, Labels

\* A launch that gives up before it recorded anything gives back what it has.
LEMMA GivesUp ==
  ASSUME NEW l \in Launches, IInv, at[l] \in {"acquire", "read"},
         at' = [at EXCEPT ![l] = "release"],
         \/ at[l] = "acquire" /\ lock' = lock /\ seen' = seen
         \/ /\ at[l] = "read" /\ lock' = [lock EXCEPT ![Program[l]] = None]
            /\ seen' = [seen EXCEPT ![l] = "own"],
         UNCHANGED <<label, ledger, on, held, original, got, found, target, swept, crossed>>
  PROVE  IInv'
<1> USE DEF IInv
<1>1. Program[l] \in Programs
  BY LaunchAssumption
<1>2. /\ at' \in [Launches -> Places] /\ at'[l] = "release"
      /\ \A k \in Launches \ {l} : at'[k] = at[k] /\ seen'[k] = seen[k]
  BY DEF TypeOK, Places
<1>3. TypeOK'
  BY <1>2 DEF TypeOK, Labels
<1>4. Locking'
  <2>1. \A k \in Launches : Program[k] \in Programs /\ lock \in [Programs -> Launches \cup {None}] /\ None \notin Launches
    BY LaunchAssumption, NobodyAssumption DEF TypeOK
  <2>2. CASE lock' = lock /\ at[l] = "acquire"
    BY <1>1, <1>2, <2>1, <2>2 DEF Locking, Critical, Acquiring
  <2>3. CASE at[l] = "read" /\ lock' = [lock EXCEPT ![Program[l]] = None]
    <3>1. lock[Program[l]] = l
      BY <2>3 DEF Locking, Critical, Acquiring
    <3>2. \A k \in Launches : lock'[Program[k]] = IF Program[k] = Program[l] THEN None ELSE lock[Program[k]]
      BY <2>1, <2>3
    <3> QED BY <1>1, <1>2, <2>1, <3>1, <3>2 DEF Locking, Critical, Acquiring
  <2> QED BY <2>2, <2>3
<1>5. Counting' /\ Holding'
  BY <1>2 DEF Counting, Holding, CountAt, Critical, Acquiring
<1>6. Granting' /\ Recording'
  BY DEF Granting, Recording
<1>7. Working'
  BY <1>2 DEF Working
<1>8. Sweeping'
  BY <1>2 DEF Sweeping
<1> QED BY <1>3, <1>4, <1>5, <1>6, <1>7, <1>8

\* Once its label is back, the record of a grant may go or stay.
LEMMA Forgets ==
  ASSUME NEW l \in Launches, IInv, at[l] \in {"refused", "reverted"},
         \/ ledger' = [ledger EXCEPT ![DirAt(at[l], got[l], l)] = NoRecord]
         \/ ledger' = ledger,
         at' = [at EXCEPT ![l] = "release"],
         lock' = [lock EXCEPT ![Program[l]] = None],
         got' = [got EXCEPT ![l] = CountAt(at[l], got[l])],
         UNCHANGED <<label, on, held, original, seen, found, target, swept, crossed>>
  PROVE  IInv'
<1> DEFINE p == Program[l]
           d == DirAt(at[l], got[l], l)
<1> USE DEF IInv
<1>1. \A k \in Launches :
       /\ Program[k] \in Programs /\ Len(Needs[k]) \in Nat
       /\ got[k] \in Nat /\ got[k] <= Len(Needs[k])
       /\ at[k] \in Critical => DirAt(at[k], got[k], k) \in Dirs
  BY NeedsDirs, BusyDirs
<1>2. /\ p \in Programs /\ d \in Dirs /\ lock[p] = l
      /\ \A g \in held : By(g) = p => DirOf(g) # d
  BY <1>1 DEF Locking, Holding, Critical, Acquiring
<1>3. \A k \in Launches \ {l} : Program[k] = p => at[k] \notin Critical
  BY <1>2 DEF Locking
<1>4. d \notin crossed => ledger[d] = Mine(p) /\ label[d] = "own"
  BY DEF Working
<1>5. CountAt(at[l], got[l]) \in Nat /\ CountAt(at[l], got[l]) <= got[l]
  BY <1>1 DEF CountAt, Counting
<1>6. /\ at' \in [Launches -> Places] /\ at'[l] = "release"
      /\ got' \in [Launches -> Nat] /\ got'[l] = CountAt(at[l], got[l])
      /\ \A k \in Launches \ {l} : at'[k] = at[k] /\ got'[k] = got[k]
  BY <1>5 DEF TypeOK, Places
<1>7. /\ ledger' \in [Dirs -> Record \cup {NoRecord}]
      /\ ledger'[d] \in {ledger[d], NoRecord}
      /\ \A e \in Dirs \ {d} : ledger'[e] = ledger[e]
  BY <1>2 DEF TypeOK
<1>8. TypeOK'
  BY <1>1, <1>2, <1>5, <1>6, <1>7 DEF TypeOK
<1>9. Locking'
  <2>1. lock \in [Programs -> Launches \cup {None}] /\ None \notin Launches
    BY NobodyAssumption DEF TypeOK
  <2>2. \A k \in Launches : lock'[Program[k]] = IF Program[k] = p THEN None ELSE lock[Program[k]]
    BY <1>1, <2>1
  <2> QED BY <1>1, <1>2, <1>3, <1>6, <2>1, <2>2 DEF Locking, Critical, Acquiring
<1>10. Counting'
  BY <1>1, <1>6 DEF Counting, Acquiring
<1>11. Holding'
  <2>1. CountAt("release", got'[l]) = CountAt(at[l], got[l])
    BY <1>6 DEF CountAt
  <2> HIDE DEF d
  <2> QED BY <1>6, <2>1 DEF Holding, Critical, Acquiring
<1>12. Granting'
  <2>1. \A g \in held : DirOf(g) = d => d \in crossed
    BY <1>2, <1>4, HeldDirs, Records DEF Granting
  <2> HIDE DEF d
  <2> QED BY <1>7, <2>1, HeldDirs DEF Granting
<1>13. Working'
  <2>1. ASSUME NEW k \in Launches \ {l}, at[k] \in {"recorded", "refused", "reverted"},
               DirAt(at[k], got[k], k) = d
        PROVE  d \in crossed
    BY <1>1, <1>3, <1>4, <2>1, Records DEF Working, Critical, Acquiring
  <2>2. \A k \in Launches : at[k] \in {"recorded", "refused", "reverted"} => DirAt(at[k], got[k], k) \in Dirs
    BY <1>1 DEF Critical, Acquiring
  <2> HIDE DEF d
  <2> QED BY <1>6, <1>7, <2>1, <2>2 DEF Working
<1>14. Recording'
  <2> HIDE DEF d
  <2> QED BY <1>2, <1>4, <1>7, Records DEF Recording
<1>15. Sweeping'
  BY <1>6 DEF Sweeping
<1> QED BY <1>8, <1>9, <1>10, <1>11, <1>12, <1>13, <1>14, <1>15

LEMMA LaunchKeeps ==
  ASSUME NEW l \in Launches, IInv, Launch(l)
  PROVE  IInv'
<1> USE DEF IInv, Launch, Goes, Free, Locks, Unlocks, Critical, Acquiring, sweepVars
<1> USE LaunchAssumption, NobodyAssumption
<1>1. \A k \in Launches :
       /\ Program[k] \in Programs /\ Len(Needs[k]) \in Nat
       /\ \A i \in 1..Len(Needs[k]) : Needs[k][i] \in Dirs
       /\ got[k] \in Nat /\ got[k] <= Len(Needs[k])
       /\ at[k] \in Critical => DirAt(at[k], got[k], k) \in Dirs
  BY NeedsDirs, BusyDirs
<1>2. TypeOK'
  BY <1>1 DEF TypeOK, Labels, Places, Record, NoRecord, Next1, Last1, Forget, Crosses
<1>3. Locking'
  BY <1>1 DEF TypeOK, Locking
<1>4. Counting'
  BY <1>1 DEF TypeOK, Counting, Places
<1>5. Holding'
  BY <1>1 DEF TypeOK, Locking, Counting, Holding, CountAt, By, DirOf, DirAt, Next1, Last1, Places, LastHolder, Holders
<1>6. Granting'
  BY <1>1 DEF TypeOK, Locking, Counting, Holding, Granting, Working, By, DirOf, DirAt, Next1, Last1, Crosses, Forget, Mine
<1>7. Working'
  BY <1>1 DEF TypeOK, Locking, Counting, Granting, Working, Recording, Labels, DirAt, Next1, Last1, Crosses, Met, Recorded, Forget, Mine
<1>8. Recording'
  BY <1>1 DEF TypeOK, Recording, Working, Crosses, Forget, NoRecord, DirAt, Next1, Last1, Mine, Granting
<1>9. Sweeping'
  BY <1>1 DEF TypeOK, Locking, Holding, Sweeping, Crosses, Met, DirAt, DirOf, Next1, Last1, Working
<1> QED BY <1>2, <1>3, <1>4, <1>5, <1>6, <1>7, <1>8, <1>9

LEMMA CountKeeps ==
  ASSUME NEW l \in Launches, IInv, Count(l)
  PROVE  IInv'
<1> DEFINE p == Program[l]
           d == Next1(l)
           h == <<l, got[l] + 1>>
<1> USE DEF IInv
<1>1. \A k \in Launches :
       /\ Program[k] \in Programs /\ Len(Needs[k]) \in Nat
       /\ \A i \in 1..Len(Needs[k]) : Needs[k][i] \in Dirs
       /\ got[k] \in Nat /\ got[k] <= Len(Needs[k])
       /\ at[k] \in Critical => DirAt(at[k], got[k], k) \in Dirs
  BY NeedsDirs, BusyDirs
<1>2. /\ at[l] = "acquire" /\ got[l] < Len(Needs[l])
      /\ UNCHANGED <<label, ledger, on, lock, original, seen, found, target, swept, crossed>>
  BY DEF Count, sweepVars
<1>3. PICK g \in held : By(g) = p /\ DirOf(g) = d
  BY HeldBy DEF Count
<1>4. p \in Programs /\ d \in Dirs /\ h \in Launches \X (Nat \ {0}) /\ By(h) = p /\ DirOf(h) = d
  BY <1>1, <1>2 DEF Next1, By, DirOf
<1>5. CASE held' = held \cup {h} /\ got' = [got EXCEPT ![l] = @ + 1] /\ at' = at
  <2>1. /\ got' \in [Launches -> Nat] /\ got'[l] = got[l] + 1
        /\ \A k \in Launches \ {l} : got'[k] = got[k]
    BY <1>5 DEF TypeOK
  <2>2. TypeOK'
    BY <1>1, <1>2, <1>4, <1>5, <2>1 DEF TypeOK
  <2>3. Locking' /\ Counting'
    BY <1>1, <1>2, <1>5, <2>1 DEF Locking, Counting, Acquiring
  <2>4. Holding'
    <3>1. \A k \in Launches, i \in Nat \ {0} : <<k, i>> \in held' <=> i <= CountAt(at'[k], got'[k])
      <4> TAKE k \in Launches, i \in Nat \ {0}
      <4>1. <<k, i>> \in held <=> i <= CountAt(at[k], got[k])
        BY DEF Holding
      <4>2. <<k, i>> = h <=> k = l /\ i = got[l] + 1
        OBVIOUS
      <4> HIDE DEF h
      <4> QED BY <1>1, <1>2, <1>5, <2>1, <4>1, <4>2 DEF CountAt
    <3>2. \A k \in Launches : at'[k] \in Critical => k # l
      BY <1>2, <1>5 DEF Critical, Acquiring
    <3>3. \A k \in Launches : at'[k] \in Critical =>
            \A e \in held' : By(e) = Program[k] => DirOf(e) # DirAt(at'[k], got'[k], k)
      BY <1>3, <1>4, <1>5, <2>1, <3>2 DEF Holding
    <3> QED BY <3>1, <3>3 DEF Holding
  <2>5. Granting'
    BY <1>2, <1>3, <1>4, <1>5 DEF Granting
  <2>6. Working'
    BY <1>2, <1>5, <2>1 DEF Working
  <2>7. Recording' /\ Sweeping'
    <3>1. \A k \in Launches : at'[k] \in {"recorded", "refused", "reverted"} => at'[k] = at[k] /\ got'[k] = got[k]
      BY <1>2, <1>5, <2>1
    <3> QED BY <1>2, <1>3, <1>4, <1>5, <3>1 DEF Recording, Sweeping
  <2> QED BY <2>2, <2>3, <2>4, <2>5, <2>6, <2>7
<1>6. CASE at' = [at EXCEPT ![l] = "release"] /\ held' = held /\ got' = got
  BY <1>2, <1>6, GivesUp
<1> QED BY <1>2, <1>5, <1>6 DEF Count, Goes

LEMMA ReadLabelKeeps ==
  ASSUME NEW l \in Launches, IInv, ReadLabel(l)
  PROVE  IInv'
<1> DEFINE p == Program[l]
           d == Next1(l)
           h == <<l, got[l] + 1>>
<1> USE DEF IInv
<1>1. \A k \in Launches :
       /\ Program[k] \in Programs /\ Len(Needs[k]) \in Nat
       /\ \A i \in 1..Len(Needs[k]) : Needs[k][i] \in Dirs
       /\ got[k] \in Nat /\ got[k] <= Len(Needs[k])
       /\ at[k] \in Critical => DirAt(at[k], got[k], k) \in Dirs
  BY NeedsDirs, BusyDirs
<1>2. /\ at[l] = "acquire" /\ got[l] < Len(Needs[l])
      /\ UNCHANGED <<label, ledger, on, held, original, got, found, target, swept>>
  BY DEF ReadLabel, sweepVars
<1>3. lock[p] = None /\ \A g \in held : By(g) = p => DirOf(g) # d
  BY HeldBy DEF ReadLabel, Free
<1>4. p \in Programs /\ d \in Dirs /\ d = DirAt("read", got[l], l)
  BY <1>1, <1>2 DEF Next1, DirAt
<1>5. CASE /\ at' = [at EXCEPT ![l] = "read"] /\ lock' = [lock EXCEPT ![p] = l]
           /\ seen' = [seen EXCEPT ![l] = label[d]]
           /\ crossed' = IF Met(d) THEN crossed \cup {d} ELSE crossed
  <2>1. /\ at' \in [Launches -> Places] /\ at'[l] = "read" /\ seen'[l] = label[d]
        /\ \A k \in Launches \ {l} : at'[k] = at[k] /\ seen'[k] = seen[k]
    BY <1>5 DEF TypeOK, Places
  <2>2. TypeOK'
    BY <1>2, <1>4, <1>5, <2>1 DEF TypeOK
  <2>3. Locking'
    <3>1. lock \in [Programs -> Launches \cup {None}] /\ None \notin Launches
      BY NobodyAssumption DEF TypeOK
    <3>2. \A k \in Launches : lock'[Program[k]] = IF Program[k] = p THEN l ELSE lock[Program[k]]
      BY <1>1, <1>5, <3>1
    <3> QED BY <1>1, <1>2, <1>3, <2>1, <3>1, <3>2 DEF Locking, Critical, Acquiring
  <2>4. Counting'
    BY <1>2, <2>1 DEF Counting, Acquiring
  <2>5. Holding'
    BY <1>2, <1>3, <1>4, <2>1 DEF Holding, CountAt
  <2>6. Granting' /\ Recording' /\ Sweeping'
    BY <1>2, <1>5, <2>1 DEF Granting, Recording, Sweeping
  <2>7. Working'
    <3>1. d \notin crossed' => label[d] = "own"
      BY <1>4, <1>5 DEF Met, Recorded, Recording, TypeOK, Labels
    <3> QED BY <1>2, <1>4, <1>5, <2>1, <3>1 DEF Working
  <2> QED BY <2>2, <2>3, <2>4, <2>5, <2>6, <2>7
<1>6. CASE at' = [at EXCEPT ![l] = "release"] /\ UNCHANGED <<lock, seen, crossed>>
  BY <1>2, <1>6, GivesUp
<1> QED BY <1>5, <1>6 DEF ReadLabel, Goes, Locks, Crosses

LEMMA RememberKeeps ==
  ASSUME NEW l \in Launches, IInv, Remember(l)
  PROVE  IInv'
<1> DEFINE p == Program[l]
           d == Next1(l)
           h == <<l, got[l] + 1>>
<1> USE DEF IInv
<1>1. \A k \in Launches :
       /\ Program[k] \in Programs /\ Len(Needs[k]) \in Nat
       /\ \A i \in 1..Len(Needs[k]) : Needs[k][i] \in Dirs
       /\ got[k] \in Nat /\ got[k] <= Len(Needs[k])
       /\ at[k] \in Critical => DirAt(at[k], got[k], k) \in Dirs
  BY NeedsDirs, BusyDirs
<1>2. /\ at[l] = "read" /\ lock[p] = l
      /\ UNCHANGED <<label, on, held, original, got, found, target, swept>>
  BY DEF Remember, sweepVars, Locking, Critical, Acquiring
<1>3. /\ p \in Programs /\ d \in Dirs /\ d = DirAt("read", got[l], l) /\ d = DirAt("recorded", got[l], l)
      /\ \A g \in held : By(g) = p => DirOf(g) # d
  BY <1>1, <1>2 DEF Next1, DirAt, Critical, Acquiring, Holding
<1>4. CASE /\ ledger' = [ledger EXCEPT ![d] = [original |-> seen[l], owner |-> p]]
           /\ at' = [at EXCEPT ![l] = "recorded"] /\ lock' = lock /\ seen' = seen
           /\ crossed' = IF Met(d) THEN crossed \cup {d} ELSE crossed
  <2>1. /\ at' \in [Launches -> Places] /\ at'[l] = "recorded"
        /\ \A k \in Launches \ {l} : at'[k] = at[k]
    BY <1>4 DEF TypeOK, Places
  <2>2. /\ ledger' \in [Dirs -> Record \cup {NoRecord}]
        /\ ledger'[d] = [original |-> seen[l], owner |-> p]
        /\ \A e \in Dirs \ {d} : ledger'[e] = ledger[e]
    BY <1>3, <1>4 DEF TypeOK, Record
  <2>3. TypeOK'
    BY <1>2, <1>3, <1>4, <2>1, <2>2 DEF TypeOK
  <2>4. Locking' /\ Counting'
    BY <1>2, <1>4, <2>1 DEF Locking, Counting, Critical, Acquiring
  <2>5. Holding'
    BY <1>2, <1>3, <2>1 DEF Holding, CountAt, Critical, Acquiring
  <2>6. d \notin crossed' =>
          /\ d \notin crossed /\ ledger[d] = NoRecord /\ label[d] = "own" /\ seen[l] = "own"
          /\ \A q \in Programs : target[q] # d
    BY <1>2, <1>3, <1>4 DEF Met, Recorded, Recording, Working, TypeOK, Labels
  <2>7. Granting'
    <3>1. \A g \in held : DirOf(g) = d => d \in crossed'
      BY <1>3, <2>6, HeldDirs, Records DEF Granting
    <3> QED BY <1>2, <1>4, <2>2, <3>1, HeldDirs DEF Granting
  <2>8. Working'
    <3>1. \A k \in Launches \ {l} :
            at[k] \in {"recorded", "refused", "reverted"} /\ DirAt(at[k], got[k], k) = d => d \in crossed'
      BY <1>1, <2>6, Records DEF Working
    <3>2. \A k \in Launches : at[k] \in {"recorded", "refused", "reverted"} => DirAt(at[k], got[k], k) \in Dirs
      BY <1>1 DEF Critical, Acquiring
    <3>3. d \notin crossed' => ledger'[d] = Mine(p)
      BY <2>2, <2>6 DEF Mine
    <3> QED BY <1>2, <1>3, <1>4, <2>1, <2>2, <2>6, <3>1, <3>2, <3>3 DEF Working
  <2>9. Recording'
    <3>1. d \notin crossed' => ledger'[d].original = "own" /\ label[d] = "own"
      BY <2>2, <2>6
    <3> QED BY <1>2, <1>4, <2>2, <3>1 DEF Recording
  <2>10. Sweeping'
    BY <1>2, <1>3, <1>4, <2>1, <2>6 DEF Sweeping
  <2> QED BY <2>3, <2>4, <2>5, <2>7, <2>8, <2>9, <2>10
<1>5. CASE /\ at' = [at EXCEPT ![l] = "release"] /\ lock' = [lock EXCEPT ![p] = None]
           /\ seen' = [seen EXCEPT ![l] = "own"] /\ UNCHANGED <<ledger, crossed>>
  BY <1>2, <1>5, GivesUp
<1> QED BY <1>4, <1>5 DEF Remember, Goes, Unlocks, Crosses

LEMMA ApplyKeeps ==
  ASSUME NEW l \in Launches, IInv, Apply(l)
  PROVE  IInv'
<1> DEFINE p == Program[l]
           d == Next1(l)
           h == <<l, got[l] + 1>>
<1> USE DEF IInv
<1>1. \A k \in Launches :
       /\ Program[k] \in Programs /\ Len(Needs[k]) \in Nat
       /\ \A i \in 1..Len(Needs[k]) : Needs[k][i] \in Dirs
       /\ got[k] \in Nat /\ got[k] <= Len(Needs[k])
       /\ at[k] \in Critical => DirAt(at[k], got[k], k) \in Dirs
  BY NeedsDirs, BusyDirs
<1>2. /\ at[l] = "recorded" /\ lock[p] = l /\ got[l] < Len(Needs[l])
      /\ UNCHANGED <<ledger, on, found, target, swept, crossed>>
      /\ seen' = [seen EXCEPT ![l] = "own"]
  BY DEF Apply, sweepVars, Locking, Counting, Critical, Acquiring
<1>3. /\ p \in Programs /\ d \in Dirs /\ d = DirAt("recorded", got[l], l) /\ d = DirAt("refused", got[l], l)
      /\ h \in Launches \X (Nat \ {0}) /\ By(h) = p /\ DirOf(h) = d
      /\ \A g \in held : By(g) = p => DirOf(g) # d
  BY <1>1, <1>2 DEF Next1, DirAt, Critical, Acquiring, Holding, By, DirOf
<1>4. \A k \in Launches \ {l} : Program[k] = p => at[k] \notin Critical
  BY <1>2 DEF Locking
<1>5. d \notin crossed =>
        /\ ledger[d] = Mine(p) /\ label[d] = "own" /\ seen[l] = "own"
        /\ \A q \in Programs : target[q] # d
  BY <1>2, <1>3 DEF Working, Sweeping
<1>6. CASE /\ label' = [label EXCEPT ![d] = "low"] /\ held' = held \cup {h}
           /\ original' = [original EXCEPT ![p][d] = seen[l]]
           /\ got' = [got EXCEPT ![l] = @ + 1]
           /\ at' = [at EXCEPT ![l] = "acquire"] /\ lock' = [lock EXCEPT ![p] = None]
  <2>1. /\ at' \in [Launches -> Places] /\ at'[l] = "acquire"
        /\ got' \in [Launches -> Nat] /\ got'[l] = got[l] + 1
        /\ \A k \in Launches \ {l} : at'[k] = at[k] /\ got'[k] = got[k] /\ seen'[k] = seen[k]
    BY <1>2, <1>6 DEF TypeOK, Places
  <2>2. /\ original' \in [Programs -> [Dirs -> Labels]]
        /\ original'[p][d] = seen[l]
        /\ \A q \in Programs, e \in Dirs : q # p \/ e # d => original'[q][e] = original[q][e]
    BY <1>3, <1>6 DEF TypeOK
  <2>3. /\ label' \in [Dirs -> Labels] /\ label'[d] = "low"
        /\ \A e \in Dirs \ {d} : label'[e] = label[e]
    BY <1>3, <1>6 DEF TypeOK, Labels
  <2>4. TypeOK'
    BY <1>1, <1>2, <1>3, <1>6, <2>1, <2>2, <2>3 DEF TypeOK, Labels
  <2>5. Locking'
    <3>1. lock \in [Programs -> Launches \cup {None}] /\ None \notin Launches
      BY NobodyAssumption DEF TypeOK
    <3>2. \A k \in Launches : lock'[Program[k]] = IF Program[k] = p THEN None ELSE lock[Program[k]]
      BY <1>1, <1>6, <3>1
    <3> QED BY <1>1, <1>2, <1>4, <2>1, <3>1, <3>2 DEF Locking, Critical, Acquiring
  <2>6. Counting'
    BY <1>1, <1>2, <2>1 DEF Counting, Acquiring
  <2>7. Holding'
    <3>1. \A k \in Launches, i \in Nat \ {0} : <<k, i>> \in held' <=> i <= CountAt(at'[k], got'[k])
      <4> TAKE k \in Launches, i \in Nat \ {0}
      <4>1. <<k, i>> \in held <=> i <= CountAt(at[k], got[k])
        BY DEF Holding
      <4>2. <<k, i>> = h <=> k = l /\ i = got[l] + 1
        OBVIOUS
      <4> HIDE DEF h
      <4> QED BY <1>1, <1>2, <1>6, <2>1, <4>1, <4>2 DEF CountAt
    <3>2. \A k \in Launches : at'[k] \in Critical => k # l /\ Program[k] # p
      BY <1>4, <2>1 DEF Critical, Acquiring
    <3>3. \A k \in Launches : at'[k] \in Critical =>
            \A e \in held' : By(e) = Program[k] => DirOf(e) # DirAt(at'[k], got'[k], k)
      BY <1>3, <1>6, <2>1, <3>2 DEF Holding
    <3> QED BY <3>1, <3>3 DEF Holding
  <2>8. Granting'
    <3>1. ASSUME NEW g \in held, DirOf(g) \notin crossed
          PROVE  /\ label'[DirOf(g)] = "low" /\ ledger[DirOf(g)] = Mine(By(g))
                 /\ original'[By(g)][DirOf(g)] = "own"
      BY <1>3, <2>2, <2>3, <3>1, HeldDirs DEF Granting
    <3>2. d \notin crossed => label'[d] = "low" /\ ledger[d] = Mine(p) /\ original'[p][d] = "own"
      BY <1>5, <2>2, <2>3
    <3>3. ASSUME NEW g \in held'
          PROVE  g \in held \/ (By(g) = p /\ DirOf(g) = d)
      <4>1. g \in held \/ g = h
        BY <1>6
      <4>2. By(h) = p /\ DirOf(h) = d
        BY <1>3
      <4> HIDE DEF p, d, h
      <4> QED BY <4>1, <4>2
    <3> QED BY <1>2, <3>1, <3>2, <3>3 DEF Granting
  <2>9. Working'
    <3>1. ASSUME NEW k \in Launches \ {l}, at[k] \in {"recorded", "refused", "reverted"},
                 DirAt(at[k], got[k], k) = d
          PROVE  d \in crossed
      BY <1>1, <1>4, <1>5, <3>1, Records DEF Working, Critical, Acquiring
    <3>2. \A k \in Launches : at[k] \in {"recorded", "refused", "reverted"} => DirAt(at[k], got[k], k) \in Dirs
      BY <1>1 DEF Critical, Acquiring
    <3> QED BY <1>2, <2>1, <2>3, <3>1, <3>2 DEF Working
  <2>10. Recording'
    BY <1>2, <1>3, <1>5, <2>3, Records DEF Recording
  <2>11. Sweeping'
    <3>1. \A g \in held' : g \in held \/ DirOf(g) = d
      <4> SUFFICES ASSUME NEW g \in held', g \notin held
                   PROVE  DirOf(g) = d
        OBVIOUS
      <4>1. g = h
        BY <1>6
      <4> QED BY <1>3, <4>1
    <3>2. \A k \in Launches : at'[k] \in {"recorded", "refused", "reverted"} => k # l
      BY <2>1
    <3> HIDE DEF p, d, h
    <3> QED BY <1>2, <1>3, <1>5, <2>1, <2>3, <3>1, <3>2, SMTT(40) DEF Sweeping
  <2> QED BY <2>4, <2>5, <2>6, <2>7, <2>8, <2>9, <2>10, <2>11
<1>7. CASE at' = [at EXCEPT ![l] = "refused"] /\ UNCHANGED <<label, held, original, got, lock>>
  <2>1. /\ at' \in [Launches -> Places] /\ at'[l] = "refused"
        /\ \A k \in Launches \ {l} : at'[k] = at[k] /\ seen'[k] = seen[k]
    BY <1>2, <1>7 DEF TypeOK, Places
  <2>2. TypeOK'
    BY <1>2, <1>7, <2>1 DEF TypeOK, Labels
  <2>3. Locking' /\ Counting'
    BY <1>2, <1>7, <2>1 DEF Locking, Counting, Critical, Acquiring
  <2>4. Holding'
    BY <1>2, <1>3, <1>7, <2>1 DEF Holding, CountAt, Critical, Acquiring
  <2>5. Granting' /\ Recording'
    BY <1>2, <1>7 DEF Granting, Recording
  <2>6. Working'
    BY <1>2, <1>3, <1>5, <1>7, <2>1 DEF Working
  <2>7. Sweeping'
    BY <1>2, <1>3, <1>5, <1>7, <2>1 DEF Sweeping
  <2> QED BY <2>2, <2>3, <2>4, <2>5, <2>6, <2>7
<1> QED BY <1>6, <1>7 DEF Apply, Goes, Unlocks

LEMMA GiveUpKeeps ==
  ASSUME NEW l \in Launches, IInv, GiveUp(l)
  PROVE  IInv'
<1>1. /\ at[l] = "refused" /\ CountAt("refused", got[l]) = got[l]
      /\ Next1(l) = DirAt("refused", got[l], l)
  BY DEF GiveUp, CountAt, DirAt, Next1
<1>2. got' = [got EXCEPT ![l] = got[l]]
  BY DEF GiveUp, IInv, TypeOK
<1> QED BY <1>1, <1>2, Forgets DEF GiveUp, Forget, Goes, Unlocks, sweepVars

LEMMA RunKeeps ==
  ASSUME NEW l \in Launches, IInv, Run(l)
  PROVE  IInv'
<1> USE DEF IInv, Run, Goes, Free, Locks, Unlocks, Critical, Acquiring, sweepVars
<1> USE LaunchAssumption, NobodyAssumption
<1>1. \A k \in Launches :
       /\ Program[k] \in Programs /\ Len(Needs[k]) \in Nat
       /\ \A i \in 1..Len(Needs[k]) : Needs[k][i] \in Dirs
       /\ got[k] \in Nat /\ got[k] <= Len(Needs[k])
       /\ at[k] \in Critical => DirAt(at[k], got[k], k) \in Dirs
  BY NeedsDirs, BusyDirs
<1>2. TypeOK'
  BY <1>1 DEF TypeOK, Labels, Places, Record, NoRecord, Next1, Last1, Forget, Crosses
<1>3. Locking'
  BY <1>1 DEF TypeOK, Locking
<1>4. Counting'
  BY <1>1 DEF TypeOK, Counting, Places
<1>5. Holding'
  BY <1>1 DEF TypeOK, Locking, Counting, Holding, CountAt, By, DirOf, DirAt, Next1, Last1, Places, LastHolder, Holders
<1>6. Granting'
  BY <1>1 DEF TypeOK, Locking, Counting, Holding, Granting, Working, By, DirOf, DirAt, Next1, Last1, Crosses, Forget, Mine
<1>7. Working'
  BY <1>1 DEF TypeOK, Locking, Counting, Granting, Working, Recording, Labels, DirAt, Next1, Last1, Crosses, Met, Recorded, Forget, Mine
<1>8. Recording'
  BY <1>1 DEF TypeOK, Recording, Working, Crosses, Forget, NoRecord, DirAt, Next1, Last1, Mine, Granting
<1>9. Sweeping'
  BY <1>1 DEF TypeOK, Locking, Holding, Sweeping, Crosses, Met, DirAt, DirOf, Next1, Last1, Working
<1> QED BY <1>2, <1>3, <1>4, <1>5, <1>6, <1>7, <1>8, <1>9

LEMMA StopKeeps ==
  ASSUME NEW l \in Launches, IInv, Stop(l)
  PROVE  IInv'
<1> USE DEF IInv, Stop, Goes, Free, Locks, Unlocks, Critical, Acquiring, sweepVars
<1> USE LaunchAssumption, NobodyAssumption
<1>1. \A k \in Launches :
       /\ Program[k] \in Programs /\ Len(Needs[k]) \in Nat
       /\ \A i \in 1..Len(Needs[k]) : Needs[k][i] \in Dirs
       /\ got[k] \in Nat /\ got[k] <= Len(Needs[k])
       /\ at[k] \in Critical => DirAt(at[k], got[k], k) \in Dirs
  BY NeedsDirs, BusyDirs
<1>2. TypeOK'
  BY <1>1 DEF TypeOK, Labels, Places, Record, NoRecord, Next1, Last1, Forget, Crosses
<1>3. Locking'
  BY <1>1 DEF TypeOK, Locking
<1>4. Counting'
  BY <1>1 DEF TypeOK, Counting, Places
<1>5. Holding'
  BY <1>1 DEF TypeOK, Locking, Counting, Holding, CountAt, By, DirOf, DirAt, Next1, Last1, Places, LastHolder, Holders
<1>6. Granting'
  BY <1>1 DEF TypeOK, Locking, Counting, Holding, Granting, Working, By, DirOf, DirAt, Next1, Last1, Crosses, Forget, Mine
<1>7. Working'
  BY <1>1 DEF TypeOK, Locking, Counting, Granting, Working, Recording, Labels, DirAt, Next1, Last1, Crosses, Met, Recorded, Forget, Mine
<1>8. Recording'
  BY <1>1 DEF TypeOK, Recording, Working, Crosses, Forget, NoRecord, DirAt, Next1, Last1, Mine, Granting
<1>9. Sweeping'
  BY <1>1 DEF TypeOK, Locking, Holding, Sweeping, Crosses, Met, DirAt, DirOf, Next1, Last1, Working
<1> QED BY <1>2, <1>3, <1>4, <1>5, <1>6, <1>7, <1>8, <1>9

LEMMA UncountKeeps ==
  ASSUME NEW l \in Launches, IInv, Uncount(l)
  PROVE  IInv'
<1> USE DEF IInv, Uncount, Goes, Free, Locks, Unlocks, Critical, Acquiring, sweepVars
<1> USE LaunchAssumption, NobodyAssumption
<1>1. \A k \in Launches :
       /\ Program[k] \in Programs /\ Len(Needs[k]) \in Nat
       /\ \A i \in 1..Len(Needs[k]) : Needs[k][i] \in Dirs
       /\ got[k] \in Nat /\ got[k] <= Len(Needs[k])
       /\ at[k] \in Critical => DirAt(at[k], got[k], k) \in Dirs
  BY NeedsDirs, BusyDirs
<1>2. TypeOK'
  BY <1>1 DEF TypeOK, Labels, Places, Record, NoRecord, Next1, Last1, Forget, Crosses
<1>3. Locking'
  BY <1>1 DEF TypeOK, Locking
<1>4. Counting'
  BY <1>1 DEF TypeOK, Counting, Places
<1>5. Holding'
  BY <1>1, SMTT(40) DEF TypeOK, Locking, Counting, Holding, CountAt, By, DirOf, DirAt, Next1, Last1, Places, LastHolder, Holders
<1>6. Granting'
  BY <1>1 DEF TypeOK, Locking, Counting, Holding, Granting, Working, By, DirOf, DirAt, Next1, Last1, Crosses, Forget, Mine
<1>7. Working'
  BY <1>1 DEF TypeOK, Locking, Counting, Granting, Working, Recording, Labels, DirAt, Next1, Last1, Crosses, Met, Recorded, Forget, Mine
<1>8. Recording'
  BY <1>1 DEF TypeOK, Recording, Working, Crosses, Forget, NoRecord, DirAt, Next1, Last1, Mine, Granting
<1>9. Sweeping'
  BY <1>1 DEF TypeOK, Locking, Holding, Sweeping, Crosses, Met, DirAt, DirOf, Next1, Last1, Working
<1> QED BY <1>2, <1>3, <1>4, <1>5, <1>6, <1>7, <1>8, <1>9

LEMMA RevertKeeps ==
  ASSUME NEW l \in Launches, IInv, Revert(l)
  PROVE  IInv'
<1> DEFINE p == Program[l]
           d == Last1(l)
           h == <<l, got[l]>>
<1> USE DEF IInv
<1>1. \A k \in Launches :
       /\ Program[k] \in Programs /\ Len(Needs[k]) \in Nat
       /\ \A i \in 1..Len(Needs[k]) : Needs[k][i] \in Dirs
       /\ got[k] \in Nat /\ got[k] <= Len(Needs[k])
       /\ at[k] \in Critical => DirAt(at[k], got[k], k) \in Dirs
  BY NeedsDirs, BusyDirs
<1>2. /\ at[l] = "release" /\ got[l] > 0 /\ lock[p] = None
      /\ UNCHANGED <<ledger, on, seen, found, target, swept, crossed>>
      /\ held' = held \ {h}
      /\ original' = [original EXCEPT ![p][d] = "own"]
  BY DEF Revert, sweepVars, Free
<1>3. /\ p \in Programs /\ d \in Dirs /\ d = DirAt("reverted", got[l], l)
      /\ h \in held /\ By(h) = p /\ DirOf(h) = d
      /\ \A g \in held : By(g) = p /\ DirOf(g) = d => g = h
  BY <1>1, <1>2 DEF Revert, LastHolder, Holders, Last1, DirAt, By, DirOf
<1>4. d \notin crossed =>
        /\ ledger[d] = Mine(p) /\ label[d] = "low" /\ original[p][d] = "own"
        /\ \A q \in Programs : target[q] # d
  BY <1>3 DEF Granting, Sweeping
<1>5. /\ original' \in [Programs -> [Dirs -> Labels]]
      /\ \A q \in Programs, e \in Dirs : q # p \/ e # d => original'[q][e] = original[q][e]
  BY <1>2, <1>3 DEF TypeOK, Labels
<1>6. \A g \in held' : g \in held /\ (By(g) = p => DirOf(g) # d)
  BY <1>2, <1>3
<1>7. \A k \in Launches, i \in Nat \ {0} :
        <<k, i>> \in held' <=> i <= IF k = l THEN got[l] - 1 ELSE CountAt(at[k], got[k])
  <2> TAKE k \in Launches, i \in Nat \ {0}
  <2>1. <<k, i>> \in held <=> i <= CountAt(at[k], got[k])
    BY DEF Holding
  <2>2. <<k, i>> = h <=> k = l /\ i = got[l]
    OBVIOUS
  <2> HIDE DEF h
  <2> QED BY <1>1, <1>2, <2>1, <2>2 DEF CountAt
<1>8. CASE /\ label' = [label EXCEPT ![d] = original[p][d]]
           /\ at' = [at EXCEPT ![l] = "reverted"] /\ lock' = [lock EXCEPT ![p] = l]
           /\ got' = got
  <2>1. /\ at' \in [Launches -> Places] /\ at'[l] = "reverted"
        /\ \A k \in Launches \ {l} : at'[k] = at[k]
    BY <1>8 DEF TypeOK, Places
  <2>2. /\ label' \in [Dirs -> Labels] /\ label'[d] = original[p][d]
        /\ \A e \in Dirs \ {d} : label'[e] = label[e]
    BY <1>3, <1>8 DEF TypeOK
  <2>3. TypeOK'
    BY <1>2, <1>3, <1>5, <1>8, <2>1, <2>2 DEF TypeOK
  <2>4. Locking'
    <3>1. lock \in [Programs -> Launches \cup {None}] /\ None \notin Launches
      BY NobodyAssumption DEF TypeOK
    <3>2. \A k \in Launches : lock'[Program[k]] = IF Program[k] = p THEN l ELSE lock[Program[k]]
      BY <1>1, <1>8, <3>1
    <3> QED BY <1>1, <1>2, <2>1, <3>1, <3>2 DEF Locking, Critical, Acquiring
  <2>5. Counting'
    BY <1>2, <1>8, <2>1 DEF Counting, Acquiring
  <2>6. Holding'
    <3>1. \A k \in Launches, i \in Nat \ {0} : <<k, i>> \in held' <=> i <= CountAt(at'[k], got'[k])
      BY <1>7, <1>8, <2>1 DEF CountAt
    <3>2. \A k \in Launches : at'[k] \in Critical =>
            \A e \in held' : By(e) = Program[k] => DirOf(e) # DirAt(at'[k], got'[k], k)
      BY <1>3, <1>6, <1>8, <2>1 DEF Holding
    <3> QED BY <3>1, <3>2 DEF Holding
  <2>7. Granting'
    <3>1. \A g \in held' : DirOf(g) = d => d \in crossed
      BY <1>3, <1>4, <1>6, HeldDirs, Records DEF Granting
    <3> QED BY <1>2, <1>5, <1>6, <2>2, <3>1, HeldDirs DEF Granting
  <2>8. Working'
    <3>1. \A k \in Launches : at[k] \in {"recorded", "refused", "reverted"} => DirAt(at[k], got[k], k) \in Dirs
      BY <1>1 DEF Critical, Acquiring
    <3> QED BY <1>2, <1>3, <1>4, <1>8, <2>1, <2>2, <3>1 DEF Working
  <2>9. Recording'
    BY <1>2, <1>3, <1>4, <2>2 DEF Recording
  <2>10. Sweeping'
    BY <1>2, <1>3, <1>4, <1>6, <1>8, <2>1, <2>2 DEF Sweeping
  <2> QED BY <2>3, <2>4, <2>5, <2>6, <2>7, <2>8, <2>9, <2>10
<1>9. CASE got' = [got EXCEPT ![l] = @ - 1] /\ UNCHANGED <<label, at, lock>>
  <2>1. /\ got' \in [Launches -> Nat] /\ got'[l] = got[l] - 1
        /\ \A k \in Launches \ {l} : got'[k] = got[k]
    BY <1>1, <1>2, <1>9 DEF TypeOK
  <2>2. TypeOK'
    BY <1>1, <1>2, <1>5, <1>9, <2>1 DEF TypeOK
  <2>3. Locking' /\ Counting'
    BY <1>2, <1>9, <2>1 DEF Locking, Counting, Acquiring
  <2>4. Holding'
    <3>1. \A k \in Launches, i \in Nat \ {0} : <<k, i>> \in held' <=> i <= CountAt(at'[k], got'[k])
      BY <1>2, <1>7, <1>9, <2>1 DEF CountAt
    <3>2. \A k \in Launches : at[k] \in Critical => k # l
      BY <1>2 DEF Critical, Acquiring
    <3> QED BY <1>6, <1>9, <2>1, <3>1, <3>2 DEF Holding
  <2>5. Granting'
    BY <1>2, <1>5, <1>6, <1>9, HeldDirs DEF Granting
  <2>6. Working'
    BY <1>2, <1>9, <2>1 DEF Working
  <2>7. Recording' /\ Sweeping'
    <3>1. \A k \in Launches : at'[k] \in {"recorded", "refused", "reverted"} => k # l
      BY <1>2, <1>9
    <3> QED BY <1>2, <1>6, <1>9, <2>1, <3>1 DEF Recording, Sweeping
  <2> QED BY <2>2, <2>3, <2>4, <2>5, <2>6, <2>7
<1> QED BY <1>8, <1>9 DEF Revert, Goes, Locks

LEMMA ForgetRevertedKeeps ==
  ASSUME NEW l \in Launches, IInv, ForgetReverted(l)
  PROVE  IInv'
<1>1. /\ at[l] = "reverted" /\ CountAt("reverted", got[l]) = got[l] - 1
      /\ Last1(l) = DirAt("reverted", got[l], l)
  BY DEF ForgetReverted, CountAt, DirAt, Last1
<1> QED BY <1>1, Forgets DEF ForgetReverted, Forget, Goes, Unlocks, sweepVars

LEMMA ReleasedKeeps ==
  ASSUME NEW l \in Launches, IInv, Released(l)
  PROVE  IInv'
<1> USE DEF IInv, Released, Goes, Free, Locks, Unlocks, Critical, Acquiring, sweepVars
<1> USE LaunchAssumption, NobodyAssumption
<1>1. \A k \in Launches :
       /\ Program[k] \in Programs /\ Len(Needs[k]) \in Nat
       /\ \A i \in 1..Len(Needs[k]) : Needs[k][i] \in Dirs
       /\ got[k] \in Nat /\ got[k] <= Len(Needs[k])
       /\ at[k] \in Critical => DirAt(at[k], got[k], k) \in Dirs
  BY NeedsDirs, BusyDirs
<1>2. TypeOK'
  BY <1>1 DEF TypeOK, Labels, Places, Record, NoRecord, Next1, Last1, Forget, Crosses
<1>3. Locking'
  BY <1>1 DEF TypeOK, Locking
<1>4. Counting'
  BY <1>1 DEF TypeOK, Counting, Places
<1>5. Holding'
  BY <1>1 DEF TypeOK, Locking, Counting, Holding, CountAt, By, DirOf, DirAt, Next1, Last1, Places, LastHolder, Holders
<1>6. Granting'
  BY <1>1 DEF TypeOK, Locking, Counting, Holding, Granting, Working, By, DirOf, DirAt, Next1, Last1, Crosses, Forget, Mine
<1>7. Working'
  BY <1>1 DEF TypeOK, Locking, Counting, Granting, Working, Recording, Labels, DirAt, Next1, Last1, Crosses, Met, Recorded, Forget, Mine
<1>8. Recording'
  BY <1>1 DEF TypeOK, Recording, Working, Crosses, Forget, NoRecord, DirAt, Next1, Last1, Mine, Granting
<1>9. Sweeping'
  BY <1>1 DEF TypeOK, Locking, Holding, Sweeping, Crosses, Met, DirAt, DirOf, Next1, Last1, Working
<1> QED BY <1>2, <1>3, <1>4, <1>5, <1>6, <1>7, <1>8, <1>9

LEMMA StartKeeps ==
  ASSUME NEW p \in Programs, IInv, Start(p)
  PROVE  IInv'
<1> USE DEF IInv, Start, launchVars, sweepVars
<1>1. TypeOK'
  BY DEF TypeOK
<1>2. Locking'
  BY LaunchAssumption DEF Locking
<1>3. Counting' /\ Holding' /\ Granting' /\ Working' /\ Recording' /\ Sweeping'
  BY DEF Counting, Holding, Granting, Working, Recording, Sweeping
<1> QED BY <1>1, <1>2, <1>3

\* What is recorded of a program that has ended.
LEMMA OrphanedRecords ==
  ASSUME NEW p \in Programs, NEW records \in [Dirs -> Record \cup {NoRecord}]
  PROVE  /\ Orphaned(records, p) \in [Dirs -> Record \cup {NoRecord}]
         /\ \A d \in Dirs :
              /\ Orphaned(records, p)[d].original = records[d].original
              /\ records[d] # NoRecord => Orphaned(records, p)[d] # NoRecord
              /\ records[d].owner # p => Orphaned(records, p)[d] = records[d]
<1>1. ASSUME NEW d \in Dirs, records[d].owner # p
      PROVE  Orphaned(records, p)[d] = records[d]
  BY <1>1 DEF Orphaned
<1>2. ASSUME NEW d \in Dirs, records[d].owner = p
      PROVE  /\ records[d] \in Record
             /\ Orphaned(records, p)[d] = [original |-> records[d].original, owner |-> Gone]
    <2>1. records[d] \in Record
      BY <1>2, NobodyAssumption DEF NoRecord
    <2>2. [records[d] EXCEPT !.owner = Gone] = [original |-> records[d].original, owner |-> Gone]
      BY <2>1 DEF Record
    <2> QED BY <1>2, <2>1, <2>2 DEF Orphaned
<1>3. ASSUME NEW d \in Dirs, records[d].owner = p
      PROVE  /\ Orphaned(records, p)[d] \in Record /\ Orphaned(records, p)[d].original = records[d].original
             /\ records[d] # NoRecord => Orphaned(records, p)[d] # NoRecord
    <2> DEFINE r == [original |-> records[d].original, owner |-> Gone]
    <2>1. r \in Record /\ r.original = records[d].original /\ r.owner = Gone
      BY <1>2, <1>3 DEF Record
    <2>2. r # NoRecord
      BY <2>1, NobodyAssumption DEF NoRecord
    <2> QED BY <1>2, <1>3, <2>1, <2>2
<1>4. \A d \in Dirs : Orphaned(records, p)[d] \in Record \cup {NoRecord}
  BY <1>1, <1>3
<1>5. Orphaned(records, p) \in [Dirs -> Record \cup {NoRecord}]
  BY <1>4 DEF Orphaned
<1> QED BY <1>1, <1>3, <1>5

LEMMA EndKeeps ==
  ASSUME NEW p \in Programs, IInv, End(p)
  PROVE  IInv'
<1> USE DEF IInv
<1>1. /\ p \in on /\ on' = on \ {p} /\ ledger' = Orphaned(ledger, p)
      /\ UNCHANGED <<label, crossed>>
  BY DEF End
<1>2. \A l \in Launches :
        IF Program[l] = p THEN at'[l] = "off" /\ got'[l] = 0 /\ seen'[l] = "own"
        ELSE at'[l] = at[l] /\ got'[l] = got[l] /\ seen'[l] = seen[l]
  BY DEF End
<1>3. \A q \in Programs :
        /\ q = p => target'[q] = None /\ lock'[q] = None /\ ~swept'[q]
        /\ q # p => /\ target'[q] = target[q] /\ swept'[q] = swept[q] /\ lock'[q] = lock[q]
                    /\ original'[q] = original[q]
  BY DEF End, TypeOK
<1>4. /\ held' \in SUBSET held /\ \A h \in held : h \in held' <=> By(h) # p
  BY DEF End, By
<1>5. \A l \in Launches : Program[l] \in Programs /\ got[l] \in Nat /\ Len(Needs[l]) \in Nat
  BY NeedsDirs
<1>6. /\ ledger' \in [Dirs -> Record \cup {NoRecord}]
      /\ \A d \in Dirs :
           /\ ledger'[d].original = ledger[d].original
           /\ ledger[d] # NoRecord => ledger'[d] # NoRecord
           /\ \A q \in Programs \ {p} : ledger[d] = Mine(q) => ledger'[d] = Mine(q)
  <2>1. ledger \in [Dirs -> Record \cup {NoRecord}]
    BY DEF TypeOK
  <2>2. /\ ledger' \in [Dirs -> Record \cup {NoRecord}]
        /\ \A d \in Dirs :
             /\ ledger'[d].original = ledger[d].original
             /\ ledger[d] # NoRecord => ledger'[d] # NoRecord
             /\ ledger[d].owner # p => ledger'[d] = ledger[d]
    BY <1>1, <2>1, OrphanedRecords
  <2>3. \A q \in Programs \ {p} : Mine(q).owner # p
    BY Records
  <2> QED BY <2>2, <2>3
<1>7. /\ found' \in [Programs -> [Dirs -> Record \cup {NoRecord}]]
      /\ \A q \in Programs, d \in Dirs : found[q][d].original = "own" => found'[q][d].original = "own"
  <2>1. /\ found'[p] = Nothing
        /\ \A q \in Programs \ {p} : found'[q] = Orphaned(found[q], p)
    BY DEF End
  <2>2. Nothing \in [Dirs -> Record \cup {NoRecord}] /\ \A d \in Dirs : Nothing[d].original = "own"
    BY Records DEF Nothing
  <2>3. ASSUME NEW q \in Programs
        PROVE  /\ found'[q] \in [Dirs -> Record \cup {NoRecord}]
               /\ \A d \in Dirs : found[q][d].original = "own" => found'[q][d].original = "own"
    <3>1. found[q] \in [Dirs -> Record \cup {NoRecord}]
      BY DEF TypeOK
    <3>2. CASE q = p
      BY <2>1, <2>2, <3>2
    <3>3. CASE q # p
      BY <2>1, <3>1, <3>3, OrphanedRecords
    <3> QED BY <3>2, <3>3
  <2>4. found' = [q \in Programs |-> found'[q]]
    BY DEF End
  <2> QED BY <2>3, <2>4
<1>8. TypeOK'
  <2>1. /\ lock' \in [Programs -> Launches \cup {None}] /\ target' \in [Programs -> Dirs \cup {None}]
        /\ swept' \in [Programs -> BOOLEAN] /\ original' \in [Programs -> [Dirs -> Labels]]
    BY DEF End, TypeOK, Labels
  <2>2. /\ at' \in [Launches -> Places] /\ got' \in [Launches -> Nat] /\ seen' \in [Launches -> Labels]
    BY DEF End, TypeOK, Labels, Places
  <2>3. \A l \in Launches : got'[l] <= Len(Needs[l])
    <3> TAKE l \in Launches
    <3>1. got[l] <= Len(Needs[l]) /\ 0 <= Len(Needs[l])
      BY <1>5 DEF TypeOK
    <3> QED BY <1>2, <3>1
  <2> QED BY <1>1, <1>4, <1>6, <1>7, <2>1, <2>2, <2>3 DEF TypeOK
<1>9. Locking' /\ Counting'
  <2>1. \A l \in Launches : l # None
    BY NobodyAssumption
  <2> QED BY <1>1, <1>2, <1>3, <1>5, <2>1 DEF Locking, Counting, Critical, Acquiring
<1>10. Holding'
  <2>1. ASSUME NEW l \in Launches, NEW i \in Nat \ {0}
        PROVE  <<l, i>> \in held' <=> i <= CountAt(at'[l], got'[l])
    <3>1. <<l, i>> \in held <=> i <= CountAt(at[l], got[l])
      BY DEF Holding
    <3>2. By(<<l, i>>) = Program[l]
      BY DEF By
    <3> QED BY <1>2, <1>4, <3>1, <3>2 DEF CountAt
  <2>2. \A l \in Launches : at'[l] \in Critical => at'[l] = at[l] /\ got'[l] = got[l]
    BY <1>2 DEF Critical, Acquiring
  <2> QED BY <1>4, <2>1, <2>2 DEF Holding
<1>11. Granting'
  <2>1. ASSUME NEW h \in held', DirOf(h) \notin crossed
        PROVE  /\ label[DirOf(h)] = "low" /\ ledger'[DirOf(h)] = Mine(By(h))
               /\ original'[By(h)][DirOf(h)] = "own"
    BY <1>3, <1>4, <1>6, <2>1, HeldDirs DEF Granting
  <2> QED BY <1>1, <2>1 DEF Granting
<1>12. Working'
  <2>1. \A l \in Launches : at'[l] \in {"read", "recorded", "refused", "reverted"} =>
          Program[l] # p /\ at'[l] = at[l] /\ got'[l] = got[l] /\ seen'[l] = seen[l]
    BY <1>2
  <2>2. \A l \in Launches : at[l] \in {"recorded", "refused", "reverted"} => DirAt(at[l], got[l], l) \in Dirs
    BY BusyDirs DEF Critical, Acquiring
  <2> QED BY <1>1, <1>5, <1>6, <2>1, <2>2 DEF Working
<1>13. Recording'
  BY <1>1, <1>6, <1>7 DEF Recording
<1>14. Sweeping'
  <2>1. \A l \in Launches : at'[l] \in {"recorded", "refused", "reverted"} => at'[l] = at[l] /\ got'[l] = got[l]
    BY <1>2
  <2> QED BY <1>1, <1>3, <1>4, <2>1, NobodyAssumption DEF Sweeping
<1> QED BY <1>8, <1>9, <1>10, <1>11, <1>12, <1>13, <1>14

LEMMA SweepKeeps ==
  ASSUME NEW p \in Programs, IInv, Sweep(p)
  PROVE  IInv'
<1> USE DEF IInv, Sweep, launchVars
<1>1. TypeOK' /\ Recording'
  BY DEF TypeOK, Recording
<1>2. Locking' /\ Counting' /\ Holding' /\ Granting' /\ Working' /\ Sweeping'
  BY DEF Locking, Counting, Holding, Granting, Working, Sweeping
<1> QED BY <1>1, <1>2

\* What a sweep takes for left over, by a record that still stands, is granted
\* to nobody: the record of a grant in force is its own program's, which runs.
LEMMA LookKeeps ==
  ASSUME NEW p \in Programs, NEW d \in Dirs, IInv, Look(p, d)
  PROVE  IInv'
<1> USE DEF IInv
<1>1. /\ found[p][d] # NoRecord /\ lock[p] = None
      /\ UNCHANGED <<label, ledger, on, lock, held, original, at, got, seen, swept>>
  BY DEF Look, launchVars
<1>2. CASE /\ Stale(p, d) /\ target' = [target EXCEPT ![p] = d] /\ found' = found
           /\ crossed' = IF ledger[d] \notin {NoRecord, found[p][d]} THEN crossed \cup {d} ELSE crossed
  <2>1. TypeOK'
    BY <1>1, <1>2 DEF TypeOK
  <2>2. Locking' /\ Counting' /\ Holding' /\ Granting' /\ Working' /\ Recording'
    BY <1>1, <1>2 DEF Locking, Counting, Holding, Granting, Working, Recording
  <2>3. target'[p] = d /\ \A q \in Programs \ {p} : target'[q] = target[q]
    BY <1>2 DEF TypeOK
  <2>4. \A q \in Programs : d \notin crossed' /\ ledger[d] = Mine(q) /\ q \in on => q = p
    BY <1>2, Records, NobodyAssumption DEF Stale
  <2>5. \A h \in held : DirOf(h) = d => d \in crossed'
    <3> SUFFICES ASSUME NEW h \in held, DirOf(h) = d, d \notin crossed'
                 PROVE  FALSE
      OBVIOUS
    <3>1. ledger[d] = Mine(By(h)) /\ By(h) # p /\ h[1] \in Launches
      BY <1>2, HeldDirs, HeldBy DEF Granting, Stale
    <3>2. h[2] \in Nat \ {0} /\ h[2] <= CountAt(at[h[1]], got[h[1]]) /\ By(h) \in Programs
      BY HeldDirs
    <3>3. at[h[1]] # "off"
      BY <3>1, <3>2 DEF Counting, CountAt
    <3> QED BY <2>4, <3>1, <3>2, <3>3 DEF Locking, By
  <2>6. \A l \in Launches : at[l] \in {"recorded", "refused", "reverted"} /\ DirAt(at[l], got[l], l) = d => d \in crossed'
    <3> SUFFICES ASSUME NEW l \in Launches, at[l] \in {"recorded", "refused", "reverted"},
                        DirAt(at[l], got[l], l) = d, d \notin crossed'
                 PROVE  FALSE
      OBVIOUS
    <3>1. Program[l] \in Programs /\ Program[l] \in on /\ lock[Program[l]] = l
      BY LaunchAssumption DEF Locking, Critical, Acquiring
    <3>2. ledger[d] = Mine(Program[l])
      BY <1>2 DEF Working
    <3> QED BY <1>1, <2>4, <3>1, <3>2, NobodyAssumption
  <2>7. ~swept[p]
    BY DEF Look, Sweeping
  <2>8. Sweeping'
    BY <1>1, <1>2, <2>3, <2>5, <2>6, <2>7 DEF Sweeping
  <2> QED BY <2>1, <2>2, <2>8
<1>3. CASE found' = [found EXCEPT ![p][d] = NoRecord] /\ UNCHANGED <<target, crossed>>
  <2>1. TypeOK'
    BY <1>1, <1>3 DEF TypeOK
  <2>2. Recording'
    BY <1>1, <1>3, Records DEF Recording, TypeOK
  <2>3. Locking' /\ Counting' /\ Holding' /\ Granting' /\ Working' /\ Sweeping'
    BY <1>1, <1>3 DEF Locking, Counting, Holding, Granting, Working, Sweeping
  <2> QED BY <2>1, <2>2, <2>3
<1> QED BY <1>2, <1>3 DEF Look, Crosses

\* A sweep lets go of a directory whose label it could not put back.
LEMMA LetsGo ==
  ASSUME NEW p \in Programs, IInv, target[p] \in Dirs, ~swept[p],
         found' = [found EXCEPT ![p][target[p]] = NoRecord],
         target' = [target EXCEPT ![p] = None],
         UNCHANGED <<label, ledger, on, lock, held, original, at, got, seen, swept, crossed>>
  PROVE  IInv'
<1> USE DEF IInv
<1>1. /\ found' \in [Programs -> [Dirs -> Record \cup {NoRecord}]]
      /\ \A q \in Programs, e \in Dirs : found'[q][e] \in {found[q][e], NoRecord}
      /\ target' \in [Programs -> Dirs \cup {None}] /\ target'[p] = None
      /\ \A q \in Programs \ {p} : target'[q] = target[q]
  BY DEF TypeOK
<1>2. TypeOK' /\ Recording'
  BY <1>1, Records DEF TypeOK, Recording
<1>3. Locking' /\ Counting' /\ Holding' /\ Granting' /\ Working'
  BY DEF Locking, Counting, Holding, Granting, Working
<1>4. Sweeping'
  BY <1>1, NobodyAssumption DEF Sweeping
<1> QED BY <1>2, <1>3, <1>4

LEMMA SweepRevertKeeps ==
  ASSUME NEW p \in Programs, IInv, SweepRevert(p)
  PROVE  IInv'
<1> DEFINE d == target[p]
<1> USE DEF IInv
<1>1. /\ d \in Dirs /\ ~swept[p]
      /\ UNCHANGED <<ledger, on, lock, held, original, at, got, seen, crossed>>
  BY DEF SweepRevert, launchVars, TypeOK
<1>2. d \notin crossed =>
        /\ found[p][d].original = "own"
        /\ \A h \in held : DirOf(h) # d
  BY <1>1 DEF Recording, Sweeping
<1>3. CASE /\ label' = [label EXCEPT ![d] = found[p][d].original]
           /\ swept' = [swept EXCEPT ![p] = TRUE] /\ UNCHANGED <<found, target>>
  <2>1. found[p][d].original \in Labels
    BY <1>1 DEF TypeOK, Record, NoRecord, Labels
  <2>2. /\ label' \in [Dirs -> Labels] /\ label'[d] = found[p][d].original
        /\ \A e \in Dirs \ {d} : label'[e] = label[e]
        /\ \A e \in Dirs \ crossed : label'[e] = "low" => label[e] = "low"
        /\ \A e \in Dirs \ crossed : label[e] = "own" => label'[e] = "own"
    BY <1>1, <1>2, <1>3, <2>1 DEF TypeOK
  <2>3. TypeOK'
    BY <1>1, <1>3, <2>2 DEF TypeOK
  <2>4. Locking' /\ Counting' /\ Holding'
    BY <1>1 DEF Locking, Counting, Holding
  <2>5. Granting'
    BY <1>1, <1>2, <2>2, HeldDirs DEF Granting
  <2>6. Working'
    <3>1. \A l \in Launches : at[l] \in {"recorded", "refused", "reverted"} => DirAt(at[l], got[l], l) \in Dirs
      BY BusyDirs DEF Critical, Acquiring
    <3> QED BY <1>1, <2>2, <3>1 DEF Working
  <2>7. Recording'
    BY <1>1, <1>3, <2>2 DEF Recording
  <2>8. Sweeping'
    <3>1. \A q \in Programs : swept'[q] = IF q = p THEN TRUE ELSE swept[q]
      BY <1>3 DEF TypeOK
    <3>2. d \notin crossed => label'[d] = "own"
      BY <1>2, <2>2
    <3>3. d # None
      BY <1>1, NobodyAssumption
    <3> QED BY <1>1, <1>3, <2>2, <3>1, <3>2, <3>3 DEF Sweeping
  <2> QED BY <2>3, <2>4, <2>5, <2>6, <2>7, <2>8
<1>4. CASE /\ found' = [found EXCEPT ![p][d] = NoRecord]
           /\ target' = [target EXCEPT ![p] = None] /\ UNCHANGED <<label, swept>>
  BY <1>1, <1>4, LetsGo
<1> QED BY <1>3, <1>4 DEF SweepRevert

LEMMA SweepForgetKeeps ==
  ASSUME NEW p \in Programs, IInv, SweepForget(p)
  PROVE  IInv'
<1> DEFINE d == target[p]
<1> USE DEF IInv
<1>1. /\ d \in Dirs /\ swept[p]
      /\ \/ ledger' = [ledger EXCEPT ![d] = NoRecord]
         \/ ledger' = ledger
      /\ UNCHANGED <<label, on, lock, held, original, at, got, seen, crossed>>
  BY DEF SweepForget, launchVars, TypeOK, Forget
<1>2. d \notin crossed =>
        /\ label[d] = "own"
        /\ \A h \in held : DirOf(h) # d
        /\ \A l \in Launches : at[l] \in {"recorded", "refused", "reverted"} => DirAt(at[l], got[l], l) # d
  BY <1>1 DEF Sweeping
<1>3. /\ ledger' \in [Dirs -> Record \cup {NoRecord}]
      /\ ledger'[d] \in {ledger[d], NoRecord}
      /\ \A e \in Dirs \ {d} : ledger'[e] = ledger[e]
  BY <1>1 DEF TypeOK
<1>4. /\ found' \in [Programs -> [Dirs -> Record \cup {NoRecord}]]
      /\ \A q \in Programs, e \in Dirs : found'[q][e] \in {found[q][e], NoRecord}
      /\ target' \in [Programs -> Dirs \cup {None}] /\ target'[p] = None
      /\ swept' \in [Programs -> BOOLEAN] /\ ~swept'[p]
      /\ \A q \in Programs \ {p} : target'[q] = target[q] /\ swept'[q] = swept[q]
  BY DEF SweepForget, TypeOK
<1> HIDE DEF d
<1>5. TypeOK'
  BY <1>1, <1>3, <1>4 DEF TypeOK
<1>6. Locking' /\ Counting' /\ Holding'
  BY <1>1 DEF Locking, Counting, Holding
<1>7. Granting'
  BY <1>1, <1>2, <1>3, HeldDirs DEF Granting
<1>8. Working'
  <2>1. \A l \in Launches : at[l] \in {"recorded", "refused", "reverted"} => DirAt(at[l], got[l], l) \in Dirs
    BY BusyDirs DEF Critical, Acquiring
  <2> QED BY <1>1, <1>2, <1>3, <2>1 DEF Working
<1>9. Recording'
  <2>1. ASSUME NEW e \in Dirs \ crossed
        PROVE  (label[e] = "low" => ledger'[e] # NoRecord) /\ ledger'[e].original = "own"
    <3>1. CASE e = d
      BY <1>2, <1>3, <2>1, <3>1, Records DEF Recording
    <3>2. CASE e # d
      BY <1>3, <2>1, <3>2 DEF Recording
    <3> QED BY <3>1, <3>2
  <2>2. \A e \in Dirs \ crossed, q \in Programs : found'[q][e].original = "own"
    BY <1>4, Records DEF Recording
  <2> QED BY <1>1, <2>1, <2>2 DEF Recording
<1>10. Sweeping'
  BY <1>1, <1>4, NobodyAssumption DEF Sweeping
<1> QED BY <1>5, <1>6, <1>7, <1>8, <1>9, <1>10

THEOREM Inductive == Spec => []IInv
<1>1. Init => IInv
  <2> SUFFICES ASSUME Init PROVE IInv
    OBVIOUS
  <2> USE DEF Init
  <2>1. /\ \A l \in Launches : at[l] = "off" /\ got[l] = 0
        /\ \A d \in Dirs : ledger[d] = NoRecord /\ label[d] = "own"
        /\ \A q \in Programs : target[q] = None /\ ~swept[q] /\ lock[q] = None /\ found[q] = Nothing
    BY DEF Nothing
  <2>2. TypeOK
    <3>1. \A l \in Launches : Len(Needs[l]) \in Nat
      BY NeedsAssumption
    <3>2. Nothing \in [Dirs -> Record \cup {NoRecord}]
      BY DEF Nothing
    <3> QED BY <2>1, <3>1, <3>2 DEF TypeOK, Labels, Places
  <2>3. Locking /\ Counting
    BY <2>1, LaunchAssumption, NobodyAssumption DEF Locking, Counting, Critical, Acquiring
  <2>4. Holding /\ Granting /\ Working
    BY <2>1 DEF Holding, Granting, Working, CountAt, Critical, Acquiring
  <2>5. Recording /\ Sweeping
    BY <2>1, Records, NobodyAssumption DEF Recording, Sweeping, Nothing
  <2> QED BY <2>2, <2>3, <2>4, <2>5 DEF IInv
<1>2. IInv /\ [Next]_vars => IInv'
  <2> SUFFICES ASSUME IInv, [Next]_vars PROVE IInv'
    OBVIOUS
  <2>1. ASSUME NEW l \in Launches, LaunchStep(l) PROVE IInv'
    BY <2>1, LaunchKeeps, CountKeeps, ReadLabelKeeps, RememberKeeps, ApplyKeeps, GiveUpKeeps,
       RunKeeps, StopKeeps, UncountKeeps, RevertKeeps, ForgetRevertedKeeps, ReleasedKeeps
       DEF LaunchStep
  <2>2. ASSUME NEW p \in Programs, ProgramStep(p) PROVE IInv'
    BY <2>2, StartKeeps, EndKeeps, SweepKeeps, LookKeeps, SweepRevertKeeps, SweepForgetKeeps
       DEF ProgramStep
  <2>3. CASE UNCHANGED vars
    BY <2>3 DEF vars, launchVars, sweepVars, IInv, TypeOK, Locking, Counting, Holding, Granting,
       Working, Recording, Sweeping
  <2> QED BY <2>1, <2>2, <2>3 DEF Next
<1> QED BY <1>1, <1>2, PTL DEF Spec

(* Labels, records, locks and counts have the values the code gives them.  *)
THEOREM TypeCorrect == Spec => []TypeOK
BY Inductive, PTL DEF IInv

(* A running server can write to all its directories (acquire, release,    *)
(* revert_stale), for any number of programs, servers and directories.     *)
THEOREM GrantTheorem == Spec => []GrantInForce
<1>1. IInv => GrantInForce
  <2> SUFFICES ASSUME IInv, NEW l \in Launches, at[l] = "running",
                      NEW i \in 1..Len(Needs[l]), Needs[l][i] \notin crossed
               PROVE  label[Needs[l][i]] = "low"
    BY DEF GrantInForce
  <2>1. <<l, i>> \in held
    BY NeedsDirs DEF IInv, Counting, Holding, CountAt
  <2>2. DirOf(<<l, i>>) = Needs[l][i]
    BY DEF DirOf
  <2> QED BY <2>1, <2>2 DEF IInv, Granting
<1> QED BY <1>1, Inductive, PTL

(* A directory that is Low is recorded with its own label, so that a crash *)
(* at any step can be made good (_remember, release, revert_stale).        *)
THEOREM RecordTheorem == Spec => []LowIsRecorded
<1>1. IInv => LowIsRecorded
  BY DEF IInv, Recording, LowIsRecorded, Recorded
<1> QED BY <1>1, Inductive, PTL
=============================================================================
