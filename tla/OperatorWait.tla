---------------------------- MODULE OperatorWait ----------------------------
(***************************************************************************)
(* The deadlines of the requests sent to one MCP server, and the questions *)
(* by which the server makes them wait for the operator                    *)
(* (mcp/operator_wait.py, and the progress tracker of mcp/connection.py).  *)
(*                                                                         *)
(* Everything runs on one event loop: an action is what runs between two   *)
(* awaits.  Time is discrete, and the loop runs a timer that is due before *)
(* time goes on; within one instant every order of events is possible.     *)
(***************************************************************************)
EXTENDS Integers, FiniteSets

CONSTANTS
  Requests,      \* the requests that may be sent
  Questions,     \* the questions the server may ask
  Budget,        \* budget_s of each request
  Factor,        \* PROGRESS_RENEWAL_FACTOR
  MaxProgress,   \* bound: the largest progress a server reports
  MaxTime        \* bound: when the clock of the model stops

ASSUME BudgetAssumption == Budget \in [Requests -> Nat \ {0}]
ASSUME FactorAssumption == Factor \in Nat \ {0}
ASSUME BoundsAssumption == MaxProgress \in Nat /\ MaxTime \in Nat
ASSUME FiniteAssumption == IsFiniteSet(Requests) /\ IsFiniteSet(Questions)

VARIABLES
  now,            \* loop.time()
  state,          \* of each request's asyncio.Timeout
  place,          \* where its _Deadline stands in _deadlines
  when,           \* timeout.when()
  remaining,      \* remaining_s
  capAt,          \* cap_at
  last,           \* the tracker's _last
  openQuestions,  \* _open_questions
  pausedAt,       \* _paused_at
  question,       \* what became of each question
  ran, idle,      \* history: time charged to each request, in all and since it last moved
  early           \* history: how long the operator had been asked when it was sent

timers == <<when, remaining, capAt>>
history == <<ran, idle, early>>
vars == <<now, state, place, timers, last, openQuestions, pausedAt, question, history>>

\* None, for a time.
NoTime == -1

\* _deadlines: an expired one stays listed until its block has unwound.
Entered == {r \in Requests : state[r] = "entered"}
Expiring == {r \in Requests : state[r] = "expiring"}
Listed == Entered \union Expiring

waiting == openQuestions > 0

Least(a, b) == IF a <= b THEN a ELSE b
AtLeast0(n) == IF n < 0 THEN 0 ELSE n

Times == Nat \union {NoTime}

TypeOK ==
  /\ now \in Nat
  /\ state \in [Requests -> {"unsent", "entered", "expiring", "left"}]
  /\ place \in [Requests -> Nat]
  /\ when \in [Requests -> Times]
  /\ remaining \in [Requests -> Times]
  /\ capAt \in [Requests -> Nat]
  /\ last \in [Requests -> Nat]
  /\ openQuestions \in Nat
  /\ pausedAt \in Times
  /\ question \in [Questions -> {"unasked", "open", "refused", "closed"}]
  /\ ran \in [Requests -> Nat]
  /\ idle \in [Requests -> Nat]
  /\ early \in [Requests -> Nat]

Init ==
  /\ now = 0
  /\ state = [r \in Requests |-> "unsent"]
  /\ place = [r \in Requests |-> 0]
  /\ when = [r \in Requests |-> NoTime]
  /\ remaining = [r \in Requests |-> NoTime]
  /\ capAt = [r \in Requests |-> 0]
  /\ last = [r \in Requests |-> 0]
  /\ openQuestions = 0
  /\ pausedAt = NoTime
  /\ question = [q \in Questions |-> "unasked"]
  /\ ran = [r \in Requests |-> 0]
  /\ idle = [r \in Requests |-> 0]
  /\ early = [r \in Requests |-> 0]

-----------------------------------------------------------------------------
(* Requests.                                                               *)

(* Mutant of StartsSuspended: a deadline entered during a question runs.   *)
NeverSuspended == FALSE

\* A deadline entered while the operator is asked starts suspended.
StartsSuspended == waiting

\* All that progress can stretch a request to.
Longest(r) == Budget[r] * Factor

\* deadline(): asyncio.timeout is entered, the entry made and appended.
Send(r) ==
  /\ state[r] = "unsent"
  /\ state' = [state EXCEPT ![r] = "entered"]
  /\ place' = [place EXCEPT ![r] =
                 1 + Cardinality({x \in Requests : state[x] # "unsent"})]
  /\ when' = [when EXCEPT ![r] = IF StartsSuspended THEN NoTime ELSE now + Budget[r]]
  /\ remaining' = [remaining EXCEPT ![r] = IF StartsSuspended THEN Budget[r] ELSE NoTime]
  /\ capAt' = [capAt EXCEPT ![r] = now + Longest(r)]
  /\ early' = [early EXCEPT ![r] = IF waiting THEN now - pausedAt ELSE 0]
  /\ UNCHANGED <<now, last, openQuestions, pausedAt, question, ran, idle>>

\* The block ends: with an answer, a failure, a cancellation, or unwound by
\* its timeout.  What it awaits while unwinding is between Expire and Leave.
Leave(r) ==
  /\ r \in Listed
  /\ state' = [state EXCEPT ![r] = "left"]
  /\ UNCHANGED <<now, place, timers, last, openQuestions, pausedAt, question, history>>

\* A running deadline is due.
Due(r) == r \in Entered /\ when[r] # NoTime /\ when[r] <= now

\* asyncio.Timeout._on_timeout: the task is cancelled, the block unwinds.
Expire(r) ==
  /\ Due(r)
  /\ state' = [state EXCEPT ![r] = "expiring"]
  /\ UNCHANGED <<now, place, timers, last, openQuestions, pausedAt, question, history>>

-----------------------------------------------------------------------------
(* Progress.                                                               *)

(* Mutant of Target: a renewal is not capped.                              *)
TargetUncapped(r) == now + Budget[r]

\* What renew() gives a suspended deadline, and a running one.
RenewedRemaining(r) == Least(Budget[r], AtLeast0(capAt[r] - pausedAt))
Target(r) == Least(now + Budget[r], capAt[r])

Suspended(r) == remaining[r] # NoTime /\ pausedAt # NoTime

\* renew(): an expired deadline stays as it is, no other moves earlier.
Renew(r) ==
  IF r \in Expiring
    THEN UNCHANGED <<when, remaining>>
    ELSE IF Suspended(r)
           THEN /\ remaining' = [remaining EXCEPT ![r] =
                     IF RenewedRemaining(r) <= @ THEN @ ELSE RenewedRemaining(r)]
                /\ when' = when
           ELSE /\ when' = [when EXCEPT ![r] =
                     IF @ # NoTime /\ Target(r) <= @ THEN @ ELSE Target(r)]
                /\ remaining' = remaining

(* Mutant of Moved: a notice of no further progress renews too.            *)
AnyNotice(r, p) == TRUE

\* Whether a notice reports more progress than any before it.
Moved(r, p) == p > last[r]

\* _ProgressTracker.receive(); the tracker is registered for the time of the block.
Receive(r, p) ==
  /\ r \in Listed
  /\ last' = [last EXCEPT ![r] = IF Moved(r, p) THEN p ELSE @]
  /\ IF Moved(r, p) THEN Renew(r) ELSE UNCHANGED <<when, remaining>>
  /\ idle' = [idle EXCEPT ![r] = IF p > last[r] /\ r \in Entered THEN 0 ELSE @]
  /\ UNCHANGED <<now, state, place, capAt, openQuestions, pausedAt, question, ran, early>>

-----------------------------------------------------------------------------
(* Questions.                                                              *)

\* The loop over _deadlines suspends them in order; Timeout.reschedule raises
\* at the first that has expired, and those behind it are not reached.
Reached == {r \in Listed : when[r] # NoTime /\ \A x \in Expiring : place[r] < place[x]}

\* operator_turn() when no question is open: the exception of an expired
\* deadline leaves it before the try, with the counter raised.
AskFirst(q) ==
  /\ question[q] = "unasked"
  /\ openQuestions = 0
  /\ openQuestions' = 1
  /\ pausedAt' = now
  /\ remaining' = [r \in Requests |->
                     IF r \in Reached THEN AtLeast0(when[r] - now) ELSE remaining[r]]
  /\ when' = [r \in Requests |-> IF r \in Reached THEN NoTime ELSE when[r]]
  /\ question' = [question EXCEPT ![q] = IF Expiring = {} THEN "open" ELSE "refused"]
  /\ UNCHANGED <<now, state, place, capAt, last, history>>

\* operator_turn() when another question is open.
AskMore(q) ==
  /\ question[q] = "unasked"
  /\ waiting
  /\ openQuestions' = openQuestions + 1
  /\ question' = [question EXCEPT ![q] = "open"]
  /\ UNCHANGED <<now, state, place, timers, last, pausedAt, history>>

\* The question is answered, fails or is cancelled, and others are open.
CloseOne(q) ==
  /\ question[q] = "open"
  /\ openQuestions > 1
  /\ openQuestions' = openQuestions - 1
  /\ question' = [question EXCEPT ![q] = "closed"]
  /\ UNCHANGED <<now, state, place, timers, last, pausedAt, history>>

(* Mutant of Resumed: the wait is charged after all.                       *)
ResumedFromPause(r) == pausedAt + remaining[r]

\* Where a suspended deadline resumes.
Resumed(r) == now + remaining[r]

\* The last question ends: what is listed resumes with what it had left.
CloseLast(q) ==
  /\ question[q] = "open"
  /\ openQuestions = 1
  /\ openQuestions' = 0
  /\ pausedAt' = NoTime
  /\ capAt' = [r \in Requests |->
                 IF r \in Listed THEN capAt[r] + (now - pausedAt) ELSE capAt[r]]
  /\ when' = [r \in Requests |->
                IF r \in Entered /\ remaining[r] # NoTime THEN Resumed(r) ELSE when[r]]
  /\ remaining' = [r \in Requests |-> IF r \in Listed THEN NoTime ELSE remaining[r]]
  /\ question' = [question EXCEPT ![q] = "closed"]
  /\ UNCHANGED <<now, state, place, last, history>>

-----------------------------------------------------------------------------
\* Somebody is being asked.
Asked == \E q \in Questions : question[q] = "open"

\* Time goes on once no timer is due; a request is charged unless the operator is asked.
Tick ==
  /\ now < MaxTime
  /\ \A r \in Requests : ~Due(r)
  /\ now' = now + 1
  /\ ran' = [r \in Requests |-> IF r \in Entered /\ ~Asked THEN ran[r] + 1 ELSE ran[r]]
  /\ idle' = [r \in Requests |-> IF r \in Entered /\ ~Asked THEN idle[r] + 1 ELSE idle[r]]
  /\ UNCHANGED <<state, place, timers, last, openQuestions, pausedAt, question, early>>

Next ==
  \/ \E r \in Requests :
       \/ Send(r)
       \/ Leave(r)
       \/ Expire(r)
       \/ \E p \in 1..MaxProgress : Receive(r, p)
  \/ \E q \in Questions :
       \/ AskFirst(q)
       \/ AskMore(q)
       \/ CloseOne(q)
       \/ CloseLast(q)
  \/ Tick

Spec == Init /\ [][Next]_vars

-----------------------------------------------------------------------------
(* Properties.                                                             *)

\* A question met a deadline that had expired and was still unwinding.
Stuck == \E q \in Questions : question[q] = "refused"

(* operator_wait.py:118-123 says that the clock waits "while at least one  *)
(* question is unanswered".  A question that meets an expired deadline     *)
(* leaves the counter raised with nobody asked, and every later deadline   *)
(* is then suspended for good: refuted.                                    *)
WaitingMeansAsked == waiting => Asked

(* No request times out for the operator's time, or before it has been     *)
(* silent for its whole budget: what timed out was charged one budget      *)
(* since its last step, or all that progress can stretch it to.            *)
TimeoutIsEarned ==
  \A r \in Requests :
     ~Stuck /\ r \in Expiring => idle[r] >= Budget[r] \/ ran[r] >= Longest(r)

(* A request that stops moving does not outlive its budget, whatever       *)
(* questions, stale notices and renewals come between.                     *)
SilenceEnds == \A r \in Entered : ~Stuck => idle[r] <= Budget[r]

(* operator_wait.py:22-25 says that renewals never carry a request past    *)
(* Factor times its budget "from when it started", and that operator time  *)
(* counts toward neither.  When the last question ends the code moves the  *)
(* cap by the whole wait, also by what had passed of it when the request   *)
(* was sent, which the cap never covered: refuted.                         *)
CapAsPromised == \A r \in Entered : ~Stuck => ran[r] <= Longest(r)

(* A server that reports progress for ever holds a request no longer than  *)
(* that, if it was sent while nobody was asked, however many questions     *)
(* overlap it later and wherever its renewals fall.                        *)
CapHolds == \A r \in Entered : ~Stuck /\ early[r] = 0 => ran[r] <= Longest(r)

(* And no request longer than that by more than the part of the wait that  *)
(* lay before it.                                                          *)
OverrunIsCredit == \A r \in Entered : ~Stuck => ran[r] <= Longest(r) + early[r]

(* Either every running request is suspended or none is: a deadline left   *)
(* running through a question, or left suspended after the last, is one    *)
(* that some interleaving of sends and questions forgot.                   *)
SuspendedTogether ==
  ~Stuck => /\ waiting <=> Asked
            /\ \A r \in Entered : /\ when[r] = NoTime <=> Asked
                                  /\ remaining[r] # NoTime <=> Asked
=============================================================================
