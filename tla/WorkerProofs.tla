----------------------------- MODULE WorkerProofs -----------------------------
(***************************************************************************)
(* The worker as a whole: the queue keeps its invariant whatever happens   *)
(* inside a run, a run its own, and together they bound what the tools     *)
(* may do for one message.  For any number of messages, retries, crashes   *)
(* and turns.                                                              *)
(***************************************************************************)
EXTENDS Worker, TLAPS

(***************************************************************************)
(* The proofs of the parts.  Worker takes its steps from instances of      *)
(* TaskQueue and AgentRun, the proofs are about instances of modules that  *)
(* extend these; that the two say the same is shown definition by          *)
(* definition.                                                             *)
(***************************************************************************)

QP == INSTANCE TaskQueueProofs
RP == INSTANCE AgentRunProofs WITH pc <- step

\* Both instances count alike.
LEMMA SameCardinality == ASSUME NEW S PROVE Queue!Cardinality(S) = QP!Cardinality(S)
  BY DEF Queue!Cardinality, QP!Cardinality

\* What AgentRun assumes of its constants.
LEMMA RunAssumed == RP!BudgetAssumption
  BY WorkerAssumption DEF Run!BudgetAssumption, RP!BudgetAssumption

\* What TaskQueue and CircuitBreaker assume of theirs.
LEMMA QueueAssumed == QP!QueueAssumption /\ QP!BreakerAssumption
<1>1. QP!QueueAssumption
  BY WorkerAssumption DEF Queue!QueueAssumption, QP!QueueAssumption
<1>2. Queue!IsFiniteSet(Classes) <=> QP!IsFiniteSet(Classes)
  BY DEF Queue!IsFiniteSet, QP!IsFiniteSet
<1>3. QP!BreakerAssumption
  BY WorkerAssumption, <1>2 DEF Queue!BreakerAssumption, QP!BreakerAssumption
<1> QED BY <1>1, <1>3

\* A new run has the invariant of a run ...
LEMMA RunInit == Run!Init => RP!IInv
<1>1. Run!Init => RP!Init
  BY DEF Run!Init, RP!Init, Run!NoResponse, RP!NoResponse
<1> QED BY <1>1, RP!InitInv, RunAssumed

\* ... and each of its steps keeps it.
LEMMA RunInv == RP!IInv /\ [Run!Next]_run => RP!IInv'
<1>1. [Run!Next]_run => [RP!Next]_(RP!vars)
  BY DEF Run!Next, RP!Next, run, RP!vars, Run!WallTimePasses, RP!WallTimePasses, Run!RunNext,
         RP!RunNext, Run!Begin, RP!Begin, Run!ProviderFails, RP!ProviderFails,
         Run!ProviderAnswers, RP!ProviderAnswers, Run!CheckTurn, RP!CheckTurn, Run!RunTools,
         RP!RunTools, Run!AskForAnswer, RP!AskForAnswer, Run!SendReply, RP!SendReply,
         Run!StartTurn, RP!StartTurn, Run!CheckTurnLimit, RP!CheckTurnLimit,
         Run!CheckWallTime, RP!CheckWallTime, Run!CheckTokenLimit, RP!CheckTokenLimit,
         Run!Responses, RP!Responses, Run!Response, RP!Response
<1> QED BY <1>1, RP!NextInv, RunAssumed

\* The types of the queue.
LEMMA SameTypes == Queue!TypeOK <=> QP!TypeOK
  BY DEF Queue!TypeOK, QP!TypeOK, Queue!Updates, QP!Updates, Queue!InboxRow, QP!InboxRow,
         Queue!Fingerprint, QP!Fingerprint, Queue!HistoryRow, QP!HistoryRow,
         Queue!Breaker, QP!Breaker

\* Its initial states.
LEMMA SameInit == Queue!Init => QP!Init
  BY DEF Queue!Init, QP!Init, Queue!Updates, QP!Updates, Queue!NoTask, QP!NoTask,
         Queue!NewCircuitBreaker, QP!NewCircuitBreaker

\* The offsets a first start may take.
LEMMA SameOffsets == Queue!BootstrapOffsets = QP!BootstrapOffsets
<1> DEFINE Backlog == Queue!Visible(server)
           Latest(W) == {u \in W : Queue!Cardinality({v \in W : u <= v}) <= PendingMax}
           First(W)  == IF W = {} THEN Queue!Greatest(Backlog) + 1 ELSE Queue!Least(Latest(W))
           LatestP(W) == {u \in W : QP!Cardinality({v \in W : u <= v}) <= PendingMax}
           FirstP(W) == IF W = {} THEN QP!Greatest(Backlog) + 1 ELSE QP!Least(LatestP(W))
<1>1. ASSUME NEW W PROVE First(W) = FirstP(W)
  <2>1. Latest(W) = LatestP(W)
    BY SameCardinality
  <2>2. Queue!Least(Latest(W)) = QP!Least(LatestP(W))
    <3> HIDE DEF Latest, LatestP
    <3> QED BY <2>1, Zenon DEF Queue!Least, QP!Least
  <2>3. Queue!Greatest(Backlog) = QP!Greatest(Backlog)
    <3> HIDE DEF Backlog
    <3> QED BY Zenon DEF Queue!Greatest, QP!Greatest
  <2> HIDE DEF Latest, LatestP, Backlog
  <2> QED BY <2>2, <2>3
<1>2. Backlog = QP!Visible(server)
  BY DEF Queue!Visible, QP!Visible
<1>3. Queue!BootstrapOffsets =
        {0} \cup (IF Backlog = {} THEN {} ELSE {First(W) : W \in SUBSET Backlog})
  BY DEF Queue!BootstrapOffsets
<1>4. QP!BootstrapOffsets =
        {0} \cup (IF Backlog = {} THEN {} ELSE {FirstP(W) : W \in SUBSET Backlog})
  BY <1>2 DEF QP!BootstrapOffsets
<1> HIDE DEF First, FirstP, Backlog
<1>5. {First(W) : W \in SUBSET Backlog} = {FirstP(W) : W \in SUBSET Backlog}
  BY <1>1
<1> QED BY <1>3, <1>4, <1>5

\* The rows that may be claimed.
LEMMA SameClaimable == Queue!Claimable = QP!Claimable
<1>1. Queue!Scanned = QP!Scanned
  BY SameCardinality
     DEF Queue!Scanned, QP!Scanned, Queue!WithTaskStatus, QP!WithTaskStatus,
         Queue!Updates, QP!Updates
<1> QED
  BY <1>1 DEF Queue!Claimable, QP!Claimable, Queue!WithTaskStatus, QP!WithTaskStatus,
         Queue!retryReady, QP!retryReady, Queue!ShouldRetry, QP!ShouldRetry,
         Queue!Least, QP!Least, Queue!Updates, QP!Updates

\* The steps of the loop but for the start and the claims.
LEMMA SameRest ==
    ASSUME Queue!WorkerNext, ~Queue!WorkerStarts, ~Queue!NothingToClaim,
           ~\E u \in Updates : Queue!Claim(u)
    PROVE  QP!WorkerNext
  BY DEF Queue!WorkerNext, QP!WorkerNext, Queue!PollFails, QP!PollFails, Queue!PollSucceeds,
         QP!PollSucceeds, Queue!Enqueue, QP!Enqueue, Queue!EnqueueFails, QP!EnqueueFails,
         Queue!TakeUpdate, QP!TakeUpdate, Queue!ClaimFails, QP!ClaimFails, Queue!RunFails,
         QP!RunFails, Queue!ReplySent, QP!ReplySent, Queue!ReplyFails, QP!ReplyFails,
         Queue!MarkFailed, QP!MarkFailed, Queue!AppendUser, QP!AppendUser,
         Queue!AppendAssistant, QP!AppendAssistant, Queue!appendHistory, QP!appendHistory,
         Queue!FinishTask, QP!FinishTask, Queue!MarkCommandDone, QP!MarkCommandDone,
         Queue!FinishCommand, QP!FinishCommand, Queue!Judge, QP!Judge, Queue!GoesOn,
         QP!GoesOn, Queue!Dies, QP!Dies, Queue!Fault, QP!Fault, Queue!Update, QP!Update,
         Queue!LogRetry, QP!LogRetry, Queue!Updates, QP!Updates, Queue!NoTask, QP!NoTask,
         Queue!Queued, QP!Queued, Queue!Visible, QP!Visible, Queue!Least, QP!Least,
         Queue!Allowed, QP!Allowed, Queue!Allow, QP!Allow, Queue!RecordSuccess,
         QP!RecordSuccess, Queue!RecordFailure, QP!RecordFailure, Queue!Open, QP!Open,
         Queue!NewCircuitBreaker, QP!NewCircuitBreaker, Queue!ShouldRetry, QP!ShouldRetry,
         Queue!ShiftOne, QP!ShiftOne, Queue!RetryBackoffSeconds, QP!RetryBackoffSeconds,
         Queue!LastOf, QP!LastOf, Queue!recentFingerprints, QP!recentFingerprints,
         Queue!NoProgress, QP!NoProgress, Queue!progressStalled, QP!progressStalled,
         Queue!chat, QP!chat, Queue!tables, QP!tables, Queue!loop, QP!loop,
         Updates

\* All steps of the queue.
LEMMA SameNext == [Queue!Next]_queue => [QP!Next]_(QP!vars)
<1>1. Queue!WorkerStarts => QP!WorkerStarts
  BY SameOffsets
     DEF Queue!WorkerStarts, QP!WorkerStarts, Queue!DeriveOffset, QP!DeriveOffset,
         Queue!Greatest, QP!Greatest, Queue!Updates, QP!Updates, Queue!chat, QP!chat,
         Queue!tables, QP!tables
<1>2. Queue!NothingToClaim => QP!NothingToClaim
  BY SameClaimable
     DEF Queue!NothingToClaim, QP!NothingToClaim, Queue!chat, QP!chat, Queue!tables,
         QP!tables
<1>3. ASSUME NEW u \in Updates, Queue!Claim(u) PROVE QP!Claim(u)
  BY <1>3, SameClaimable
     DEF Queue!Claim, QP!Claim, Queue!chat, QP!chat
<1>4. Queue!WorkerNext => QP!WorkerNext
  BY <1>1, <1>2, <1>3, SameRest DEF QP!WorkerNext, QP!Updates, Updates
<1>5. Queue!WorkerCrashes => QP!WorkerCrashes
  BY DEF Queue!WorkerCrashes, QP!WorkerCrashes, Queue!Fault, QP!Fault, Queue!Dies, QP!Dies,
         Queue!NewCircuitBreaker, QP!NewCircuitBreaker, Queue!chat, QP!chat, Queue!tables,
         QP!tables
<1>6. Queue!UsersNext => QP!UsersNext
  BY DEF Queue!UsersNext, QP!UsersNext, Queue!UserSends, QP!UserSends, Queue!Updates,
         QP!Updates, Queue!tables, QP!tables, Queue!loop, QP!loop
<1>7. Queue!CooldownElapses => QP!CooldownElapses
  BY DEF Queue!CooldownElapses, QP!CooldownElapses, Queue!chat, QP!chat, Queue!tables,
         QP!tables, Queue!loop, QP!loop
<1>8. ASSUME NEW u \in Queue!Updates, Queue!BackoffElapses(u) PROVE QP!BackoffElapses(u)
  BY <1>8 DEF Queue!BackoffElapses, QP!BackoffElapses, Queue!ShouldRetry, QP!ShouldRetry,
         Queue!chat, QP!chat, Queue!loop, QP!loop
<1> QED
  BY <1>4, <1>5, <1>6, <1>7, <1>8
     DEF Queue!Next, QP!Next, queue, QP!vars, Queue!Updates, QP!Updates

\* The queue begins with its invariant ...
LEMMA QueueInit == Queue!Init => QP!IInv
  BY SameInit, QP!InitInv, QueueAssumed

\* ... and each of its steps keeps it.
LEMMA QueueInv == QP!IInv /\ [Queue!Next]_queue => QP!IInv'
  BY SameNext, QP!NextInv, QueueAssumed

(***************************************************************************)
(* The inductive invariant.                                                *)
(***************************************************************************)

\* Every attempt of a row pays for as many rounds of tools as a run may have turns;
\* while it runs it has used those of this run.
EffectsInv ==
    \A u \in Updates :
        IF Active /\ task = u
          THEN effects[u] + MaxTurns <= inbox[u].attempts * MaxTurns + rounds
          ELSE effects[u] <= inbox[u].attempts * MaxTurns

\* The parts keep their invariants, and a run that has ended left its task.
IInv ==
    /\ QP!IInv /\ RP!IInv
    /\ effects \in [Updates -> Nat]
    /\ Active => step \notin {"done", "failed"}
    /\ EffectsInv

(***************************************************************************)
(* What the parts know, at a step of the queue.                            *)
(***************************************************************************)

\* What the invariant of a run says of its rounds.
RoundsFit ==
    rounds \in Nat /\ rounds <= MaxTurns /\ MaxTurns \in Nat /\ (step = "start" => rounds = 0)

\* It is there before and after a step.
LEMMA Turns == (RP!IInv => RoundsFit) /\ (RP!IInv' => RoundsFit')
<1>1. RP!IInv => RoundsFit
  BY RunAssumed DEF RP!IInv, RP!TypeOK, RP!RoundsInv, RP!BudgetAssumption, RoundsFit
<1> QED BY <1>1, PTL

\* What the invariant of the queue says of the attempts.
AttemptsFit ==
    \A u \in Updates : inbox[u].attempts \in Nat /\ inbox[u].attempts <= MaxRetries + 1

\* It is there before and after a step.
LEMMA Attempts == (QP!IInv => AttemptsFit) /\ (QP!IInv' => AttemptsFit')
<1>1. MaxRetries \in Nat
  BY QueueAssumed DEF QP!QueueAssumption
<1>2. QP!IInv => \A u \in Updates : inbox[u].attempts \in 0..(MaxRetries + 1)
  BY DEF QP!IInv, QP!TypeOK, QP!InboxRow, QP!Updates, Updates
<1>3. QP!IInv => AttemptsFit
  BY <1>1, <1>2 DEF AttemptsFit
<1> QED BY <1>3, PTL

\* The task being run is a message that is not answered.
LEMMA TaskInHand ==
    QP!IInv /\ pc = "run" =>
        task \in Updates /\ task \notin answered /\ kind[task] # "unsent"
  BY DEF QP!IInv, QP!TaskInv, QP!Busy, QP!Message, QP!Updates, Updates

\* Only a claim begins a run.
LEMMA OnlyClaims ==
    ASSUME QP!Next, pc' = "run", pc # "run"
    PROVE  \E u \in Updates : QP!Claim(u)
  BY DEF QP!Next, QP!WorkerNext, QP!WorkerStarts, QP!PollFails, QP!PollSucceeds, QP!Enqueue,
         QP!EnqueueFails, QP!TakeUpdate, QP!ClaimFails, QP!NothingToClaim, QP!RunFails,
         QP!ReplySent, QP!ReplyFails, QP!MarkFailed, QP!AppendUser, QP!AppendAssistant,
         QP!FinishTask, QP!MarkCommandDone, QP!FinishCommand, QP!Judge, QP!GoesOn, QP!Dies,
         QP!WorkerCrashes, QP!UsersNext, QP!UserSends, QP!CooldownElapses,
         QP!BackoffElapses, QP!loop, QP!Updates, Updates

\* No step takes an attempt back.
LEMMA AttemptsGrow ==
    ASSUME QP!IInv, QP!IInv', [QP!Next]_(QP!vars), NEW u \in Updates
    PROVE  inbox'[u].attempts >= inbox[u].attempts
<1>1. CASE UNCHANGED QP!vars
  BY <1>1, Attempts DEF QP!vars, AttemptsFit
<1>2. CASE QP!Next
  <2>1. QP!RowMoves(u)
    BY <1>2, QP!RowStep, QueueAssumed DEF QP!Updates, Updates
  <2>2. inbox[u].status = "absent" => inbox[u].attempts = 0
    BY DEF QP!IInv, QP!RowInv, QP!Updates, Updates
  <2> QED BY <2>1, <2>2, Attempts DEF QP!RowMoves, QP!Queued, AttemptsFit
<1> QED BY <1>1, <1>2

\* A run that begins has been paid for by an attempt.
LEMMA ActiveStarts ==
    ASSUME QP!IInv, QP!IInv', [QP!Next]_(QP!vars), ~Active, Active'
    PROVE  inbox'[task'].attempts = inbox[task'].attempts + 1
<1>1. QP!Next
  BY DEF QP!vars, Active
<1>2. CASE pc = "run"
  <2>1. task \in Updates /\ kind[task] # "unsent"
    BY <1>2, TaskInHand
  <2>2. task' \in {0, task}
    BY <1>1, <1>2, QP!TaskMoves, QueueAssumed
  <2>3. task' # 0
    BY QueueAssumed DEF Active, QP!IInv, QP!TaskInv, QP!Busy, QP!Updates
  <2>4. kind'[task] = kind[task]
    BY <1>1, <2>1, QP!KindStays, QueueAssumed DEF QP!Updates, Updates
  <2> QED BY <1>2, <2>2, <2>3, <2>4 DEF Active
<1>3. CASE pc # "run"
  <2>1. PICK u \in Updates : QP!Claim(u)
    BY <1>1, <1>3, OnlyClaims DEF Active
  <2>2. pc = "claim" /\ pc' = "run" /\ task' = u /\ u \in QP!Claimable
    BY <2>1 DEF QP!Claim
  <2>3. QP!RowMoves(u)
    BY <1>1, QP!RowStep, QueueAssumed DEF QP!Updates, Updates
  <2>4. inbox'[u].status = "in_progress"
    BY <2>2 DEF QP!IInv, QP!TaskInv
  <2>5. inbox[u].status \in {"queued", "failed"}
    BY <2>2, QP!ClaimableRow, QueueAssumed DEF QP!Updates, Updates
  <2> QED BY <2>2, <2>3, <2>4, <2>5 DEF QP!RowMoves, QP!Queued
<1> QED BY <1>2, <1>3

\* Nobody takes the task from a run.
LEMMA ActiveStays ==
    ASSUME QP!IInv, QP!IInv', [QP!Next]_(QP!vars), Active, Active'
    PROVE  task' = task
<1>1. CASE QP!Next
  <2>1. task' \in {0, task}
    BY <1>1, QP!TaskMoves, QueueAssumed DEF Active
  <2>2. task' # 0
    BY DEF Active, QP!IInv, QP!TaskInv, QP!Busy, QP!Updates
  <2> QED BY <2>1, <2>2
<1>2. CASE UNCHANGED QP!vars
  BY <1>2 DEF QP!vars
<1> QED BY <1>1, <1>2

\* Facts about products the provers do not find in a larger context.
LEMMA Product ==
    ASSUME NEW a \in Nat, NEW b \in Nat, NEW n \in Nat, a <= b
    PROVE  a * n \in Nat /\ a * n <= b * n /\ (a + 1) * n = a * n + n
  OBVIOUS

\* Whatever the step, the rounds of a message stay paid for: a run may only add the
\* round it counts itself.
LEMMA EffectsStep ==
    ASSUME IInv, QP!IInv', RP!IInv', [QP!Next]_(QP!vars),
           effects' \in [Updates -> Nat],
           \A u \in Updates : effects'[u] = effects[u]
                              \/ (Active /\ task = u /\ effects'[u] = effects[u] + 1
                                  /\ rounds' = rounds + 1),
           Active /\ Active' => rounds' >= rounds
    PROVE  EffectsInv'
<1> SUFFICES ASSUME NEW u \in Updates
             PROVE  IF Active' /\ task' = u
                      THEN effects'[u] + MaxTurns <= inbox'[u].attempts * MaxTurns + rounds'
                      ELSE effects'[u] <= inbox'[u].attempts * MaxTurns
  BY DEF EffectsInv, Updates
<1> DEFINE a == inbox[u].attempts
           b == inbox'[u].attempts
<1>1. a \in Nat /\ b \in Nat /\ a <= b
  <2>1. a \in Nat /\ b \in Nat
    BY Attempts DEF IInv, AttemptsFit, Updates
  <2> QED BY <2>1, AttemptsGrow DEF IInv
<1>2. /\ rounds \in Nat /\ rounds' \in Nat /\ MaxTurns \in Nat
      /\ rounds <= MaxTurns /\ rounds' <= MaxTurns
  BY Turns DEF IInv, RoundsFit
<1>3. effects[u] \in Nat /\ effects'[u] \in Nat
  BY DEF IInv
<1>4. IF Active /\ task = u THEN effects[u] + MaxTurns <= a * MaxTurns + rounds
                            ELSE effects[u] <= a * MaxTurns
  BY DEF IInv, EffectsInv
<1>5. \/ effects'[u] = effects[u]
      \/ Active /\ task = u /\ effects'[u] = effects[u] + 1 /\ rounds' = rounds + 1
  OBVIOUS
<1>6. /\ a * MaxTurns \in Nat /\ b * MaxTurns \in Nat /\ a * MaxTurns <= b * MaxTurns
      /\ (a + 1) * MaxTurns = a * MaxTurns + MaxTurns
  BY <1>1, <1>2, Product
<1>7. CASE Active' /\ task' = u /\ Active
  <2>1. task = u /\ rounds' >= rounds
    BY <1>7, ActiveStays DEF IInv
  <2>2. effects'[u] + MaxTurns <= b * MaxTurns + rounds'
    <3> HIDE DEF a, b
    <3> QED BY <1>2, <1>3, <1>4, <1>5, <1>6, <1>7, <2>1
  <2> QED BY <1>7, <2>2
<1>8. CASE Active' /\ task' = u /\ ~Active
  <2>1. b = a + 1
    BY <1>8, ActiveStarts DEF IInv
  <2>2. effects'[u] + MaxTurns <= b * MaxTurns + rounds'
    <3> HIDE DEF a, b
    <3> QED BY <1>2, <1>3, <1>4, <1>5, <1>6, <1>8, <2>1
  <2> QED BY <1>8, <2>2
<1>9. CASE ~(Active' /\ task' = u)
  <2>1. effects'[u] <= b * MaxTurns
    <3> HIDE DEF a, b
    <3> QED BY <1>2, <1>3, <1>4, <1>5, <1>6
  <2> QED BY <1>9, <2>1
<1> QED BY <1>7, <1>8, <1>9

(***************************************************************************)
(* The steps of the worker.                                                *)
(***************************************************************************)

\* The step of the queue in a step of the worker.
LEMMA QueueMoves == [Next]_vars => [Queue!Next]_queue
<1> SUFFICES ASSUME [Next]_vars PROVE [Queue!Next]_queue
  OBVIOUS
<1>1. CASE RunStep
  BY <1>1 DEF RunStep, Queue!Next, Queue!WorkerNext
<1>2. CASE Return \/ WallTimePasses \/ UNCHANGED vars
  BY <1>2 DEF Return, WallTimePasses, vars
<1>3. CASE LoopStep \/ WorkerCrashes
  BY <1>3 DEF LoopStep, WorkerCrashes, Queue!Next
<1>4. CASE World
  BY <1>4 DEF World, Queue!Next, Queue!Updates, Updates
<1> QED BY <1>1, <1>2, <1>3, <1>4 DEF Next

\* The step of the run in it, or its end.
LEMMA RunMoves == [Next]_vars => [Run!Next]_run \/ ForgetRun
  BY DEF Next, RunStep, Return, LoopStep, WorkerCrashes, WallTimePasses, World, vars, Run!Next

\* A run whose local variables are gone is a new one.
LEMMA Forgotten == ForgetRun => RP!IInv'
<1>1. ForgetRun => Run!Init'
  BY DEF ForgetRun, Run!Init
<1>2. Run!Init' => RP!IInv'
  BY RunInit, PTL
<1> QED BY <1>1, <1>2

\* A step of a run runs no round of tools, or one.
LEMMA OneRound ==
    ASSUME Run!RunNext, RP!IInv
    PROVE  /\ rounds' = rounds \/ rounds' = rounds + 1
           /\ rounds' > rounds <=> rounds' = rounds + 1
<1>1. rounds' = rounds \/ rounds' = rounds + 1
  BY DEF Run!RunNext, Run!Begin, Run!ProviderFails, Run!ProviderAnswers, Run!CheckTurn,
         Run!RunTools, Run!AskForAnswer, Run!SendReply
<1>2. rounds \in Nat
  BY Turns DEF RoundsFit
<1> QED BY <1>1, <1>2

\* A run that ends hands its task on.
LEMMA RunEnded ==
    ASSUME RunStep, step' \in {"done", "failed"}
    PROVE  pc' # "run"
  BY DEF RunStep, Queue!RunFails, Queue!ReplyFails, Queue!ReplySent, Queue!MarkFailed

\* Nothing has run.
LEMMA InitInv == Init => IInv
<1> SUFFICES ASSUME Init PROVE IInv
  OBVIOUS
<1>1. QP!IInv /\ RP!IInv
  BY QueueInit, RunInit DEF Init
<1>2. pc = "down"
  BY DEF Init, Queue!Init
<1>3. effects \in [Updates -> Nat] /\ \A u \in Updates : effects[u] = 0
  BY DEF Init
<1>4. ASSUME NEW u \in Updates PROVE inbox[u].attempts * MaxTurns \in Nat
  BY <1>1, Attempts, Turns, Product DEF AttemptsFit, RoundsFit
<1>5. EffectsInv
  BY <1>2, <1>3, <1>4 DEF EffectsInv, Active
<1> QED BY <1>1, <1>2, <1>3, <1>5 DEF IInv, Active

\* No step of the worker breaks the invariant: those of a run count their rounds, those
\* of the loop and the world begin a run only with a claim.
LEMMA NextInv == IInv /\ [Next]_vars => IInv'
<1> SUFFICES ASSUME IInv, [Next]_vars PROVE IInv'
  OBVIOUS
<1>1. [Queue!Next]_queue /\ [QP!Next]_(QP!vars) /\ QP!IInv'
  BY QueueMoves, SameNext, QueueInv DEF IInv
<1>2. RP!IInv'
  BY RunMoves, RunInv, Forgotten DEF IInv
<1>3. CASE RunStep
  <2>1. Active /\ task \in Updates
    BY <1>3, TaskInHand DEF RunStep, Active, IInv
  <2>2. /\ rounds' = rounds \/ rounds' = rounds + 1
        /\ rounds' > rounds <=> rounds' = rounds + 1
    BY <1>3, OneRound DEF RunStep, IInv
  <2>3. rounds \in Nat
    BY Turns DEF RoundsFit, IInv
  <2>4. /\ effects' \in [Updates -> Nat]
        /\ \A u \in Updates : \/ effects'[u] = effects[u]
                              \/ /\ Active /\ task = u /\ effects'[u] = effects[u] + 1
                                 /\ rounds' = rounds + 1
    BY <1>3, <2>1, <2>2 DEF RunStep, IInv
  <2>5. rounds' >= rounds
    BY <2>2, <2>3
  <2>6. EffectsInv'
    BY <1>1, <1>2, <2>4, <2>5, EffectsStep
  <2>7. Active' => step' \notin {"done", "failed"}
    BY <1>3, RunEnded DEF Active
  <2> QED BY <1>1, <1>2, <2>4, <2>6, <2>7 DEF IInv
<1>4. CASE ~RunStep
  <2>1. UNCHANGED effects
    BY <1>4 DEF Next, Return, LoopStep, WorkerCrashes, WallTimePasses, World, vars
  <2>2. \/ UNCHANGED run
        \/ ForgetRun /\ ~Active'
        \/ WallTimePasses /\ rounds' = rounds /\ step' = step
    <3>1. CASE LoopStep \/ World \/ UNCHANGED vars
      BY <3>1 DEF LoopStep, World, vars
    <3>2. CASE WallTimePasses
      BY <3>2 DEF WallTimePasses, Run!WallTimePasses
    <3>3. CASE WorkerCrashes
      BY <3>3 DEF WorkerCrashes, Queue!WorkerCrashes, Queue!Dies, Active
    <3>4. CASE Return
      BY <3>4 DEF Return, IInv, Active, queue
    <3> QED BY <1>4, <3>1, <3>2, <3>3, <3>4 DEF Next
  <2>3. Active' => rounds' = rounds /\ step' = step
    BY <2>2 DEF run
  <2>4. Active /\ Active' => rounds' >= rounds
    BY <2>3, Turns DEF RoundsFit, IInv
  <2>5. EffectsInv'
    BY <1>1, <1>2, <2>1, <2>4, EffectsStep DEF IInv
  <2>6. Active' => step' \notin {"done", "failed"}
    <3>1. CASE LoopStep
      BY <3>1, <2>3 DEF LoopStep
    <3>2. CASE World
      <4>1. pc' = pc /\ task' = task
        BY <3>2 DEF World, Queue!UsersNext, Queue!UserSends, Queue!CooldownElapses,
                    Queue!BackoffElapses, Queue!loop
      <4>2. pc = "run" => kind'[task] = kind[task]
        BY <1>1, TaskInHand, QP!KindStays, QueueAssumed DEF IInv, QP!vars, QP!Updates, Updates
      <4> QED BY <2>3, <4>1, <4>2 DEF IInv, Active
    <3>3. CASE WallTimePasses \/ UNCHANGED vars
      BY <2>3, <3>3 DEF WallTimePasses, queue, vars, IInv, Active
    <3>4. CASE Return \/ WorkerCrashes
      BY <3>4 DEF Return, WorkerCrashes, Queue!WorkerCrashes, Queue!Dies, queue, IInv, Active
    <3> QED BY <1>4, <3>1, <3>2, <3>3, <3>4 DEF Next
  <2> QED BY <1>1, <1>2, <2>1, <2>5, <2>6 DEF IInv
<1> QED BY <1>3, <1>4

(***************************************************************************)
(* The theorems.                                                           *)
(***************************************************************************)

\* The invariant holds in every reachable state.
THEOREM Invariance == Spec => []IInv
  BY InitInv, NextInv, PTL DEF Spec

\* The variables of the queue, of the run and of the bookkeeping keep their types.
THEOREM TypeCorrect == Spec => []TypeOK
<1>1. IInv => TypeOK
  <2>1. QP!IInv => Queue!TypeOK
    BY SameTypes DEF QP!IInv
  <2>2. RP!IInv => Run!TypeOK
    BY DEF RP!IInv, RP!TypeOK, Run!TypeOK, RP!Responses, Run!Responses, RP!Response,
           Run!Response
  <2> QED BY <2>1, <2>2 DEF IInv, TypeOK
<1> QED BY <1>1, Invariance, PTL

\* The worker with its runs taken apart is the queue: whatever is proved of every
\* behaviour of TaskQueue holds of the worker.  (ImplementsQueue adds the fairness.)
THEOREM QueueRefined == Spec => Queue!Spec
<1>1. Init => Queue!Init
  BY DEF Init
<1>2. [Next]_vars => [Queue!Next]_(Queue!vars)
  BY QueueMoves DEF queue, Queue!vars
<1> QED BY <1>1, <1>2, PTL DEF Spec, Queue!Spec

\* The tools run at most (MaxRetries + 1) * MaxTurns rounds for one message over all
\* its retries, and none once it is answered.
THEOREM EffectsSafe == Spec => EffectsBounded
<1> DEFINE Bounded == \A u \in Updates :
          effects'[u] # effects[u] =>
              effects'[u] <= (MaxRetries + 1) * MaxTurns /\ u \notin answered
<1>1. IInv /\ IInv' /\ [Next]_vars => [Bounded]_vars
  <2> SUFFICES ASSUME IInv, IInv', Next, NEW u \in Updates, effects'[u] # effects[u]
               PROVE  effects'[u] <= (MaxRetries + 1) * MaxTurns /\ u \notin answered
    OBVIOUS
  <2>1. RunStep
    BY DEF Next, Return, LoopStep, WorkerCrashes, WallTimePasses, World
  <2>2. u = task /\ pc = "run"
    BY <2>1 DEF RunStep, Active, IInv
  <2>3. u \notin answered
    BY <2>2, TaskInHand DEF IInv
  <2>4. /\ inbox'[u].attempts \in Nat /\ inbox'[u].attempts <= MaxRetries + 1
        /\ rounds' \in Nat /\ rounds' <= MaxTurns /\ MaxTurns \in Nat
    BY Attempts, Turns DEF IInv, AttemptsFit, RoundsFit, Updates
  <2>5. MaxRetries + 1 \in Nat
    BY QueueAssumed DEF QP!QueueAssumption
  <2>6. effects'[u] \in Nat
    BY DEF IInv, Updates
  <2>7. \/ effects'[u] + MaxTurns <= inbox'[u].attempts * MaxTurns + rounds'
        \/ effects'[u] <= inbox'[u].attempts * MaxTurns
    BY DEF IInv, EffectsInv, Updates
  <2>8. /\ inbox'[u].attempts * MaxTurns \in Nat
        /\ inbox'[u].attempts * MaxTurns <= (MaxRetries + 1) * MaxTurns
        /\ (MaxRetries + 1) * MaxTurns \in Nat
    <3> DEFINE a == inbox'[u].attempts
               b == MaxRetries + 1
    <3>1. a \in Nat /\ b \in Nat /\ MaxTurns \in Nat /\ a <= b
      BY <2>4, <2>5
    <3> HIDE DEF a, b
    <3>2. a * MaxTurns \in Nat /\ a * MaxTurns <= b * MaxTurns /\ b * MaxTurns \in Nat
      BY <3>1, Product
    <3> QED BY <3>2 DEF a, b
  <2>9. effects'[u] <= (MaxRetries + 1) * MaxTurns
    BY <2>4, <2>6, <2>7, <2>8
  <2> QED BY <2>3, <2>9
<1> QED BY <1>1, Invariance, PTL DEF Spec, EffectsBounded

==============================================================================
