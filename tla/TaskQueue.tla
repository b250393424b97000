------------------------------ MODULE TaskQueue ------------------------------
(***************************************************************************)
(* The queue side of the worker (main loop and inbox functions of          *)
(* cmd/worker/main.go): polling the chat server, the inbox table, claims,  *)
(* retries with back-off, the progress check and the circuit breaker,      *)
(* across exits and crashes of the worker.                                 *)
(*                                                                         *)
(* Running a task (processTask, processDirectCommand) is one step with any *)
(* outcome, and need not end; Worker takes that step apart.  Any write to  *)
(* the database may fail, and no caller looks at the error but the one     *)
(* that claims.  Time is kept as two facts: a back-off and the cool-down   *)
(* have or have not passed.  The chat server is external: it keeps an      *)
(* update until a poll names a higher offset.  Whether a reply reaches the *)
(* user says nothing more than what sendMessage returns: an error may come *)
(* after the delivery, and the answer of the server is not read.           *)
(* All messages come from one chat.  InboxLifecycle is what the queue      *)
(* promises for each message.                                              *)
(***************************************************************************)
EXTENDS CircuitBreaker, ContextWindow, FiniteSets

CONSTANTS MaxUpdates,  \* bound: updates users ever send
          Kinds,       \* bound: what they may be: a text for the model, a "command",
                       \* an "other" message (no text), "unread" (no message)
          MaxRetries,  \* AUTONOUS_CONTROL_MAX_RETRIES
          NoProgressK, \* noProgressK
          ScanLimit,   \* LIMIT 200 of the retry query of claimNextTask
          EventWindow, \* LIMIT 200 of recentFingerprints
          DropPending, \* TG_DROP_PENDING
          PendingMax,  \* TG_PENDING_MAX_MESSAGES
          HistoryWindow, \* TG_HISTORY_WINDOW
          IntWidth,    \* bits of an int, 64 where the worker runs
          MaxFaults    \* bound: crashes and failed writes

ASSUME QueueAssumption ==
    /\ {MaxUpdates, MaxRetries, NoProgressK, MaxFaults} \subseteq Nat
    /\ {ScanLimit, EventWindow, PendingMax, IntWidth} \subseteq Nat \ {0}
    /\ MaxRetries + 1 < IntWidth \* the configuration does not check this one
    /\ DropPending \in BOOLEAN /\ HistoryWindow \in Int
    /\ Kinds \subseteq {"text", "command", "other", "unread"}

VARIABLES
    (* The chat server and its users *)
    kind,     \* what each update sent so far is
    server,   \* the updates the server still holds
    answered, \* the updates for which a final reply was sent without an error
    (* The database *)
    inbox,    \* one row per update
    retryLog, \* the retry.scheduled events
    history,  \* the rows of the history table
    (* The worker process *)
    pc,       \* where the main loop stands
    offset,   \* its polling offset
    batch,    \* the updates fetched and not yet stored
    task,     \* the claimed row, 0 for none
    errClass, \* the class of its failure
    circuit,  \* its breaker
    (* Bookkeeping *)
    waived,   \* history: updates passed over by a failed insert or by DropPending
    burst,    \* history: failures since the last success or cool-down
    faults

chat   == <<kind, server, answered>>
tables == <<inbox, retryLog, history>>
loop   == <<pc, offset, batch, task, errClass>>
vars   == <<kind, server, answered, inbox, retryLog, history, pc, offset, batch,
            task, errClass, circuit, waived, burst, faults>>

Updates == 1..MaxUpdates

NoTask == [status |-> "absent", attempts |-> 0, ready |-> FALSE]
Queued == [status |-> "queued", attempts |-> 0, ready |-> FALSE]

InboxRow    == [status : {"absent", "queued", "in_progress", "done", "failed"},
                attempts : 0..(MaxRetries + 1), ready : BOOLEAN]
Fingerprint == [task : Updates, class : Classes, history : Nat]
HistoryRow  == [task : Updates, role : {"user", "assistant"}]

TypeOK ==
    /\ kind \in [Updates -> Kinds \cup {"unsent"}]
    /\ server \subseteq Updates
    /\ answered \subseteq Updates
    /\ inbox \in [Updates -> InboxRow]
    /\ retryLog \in Seq(Fingerprint) /\ history \in Seq(HistoryRow)
    /\ pc \in {"down", "poll", "enqueue", "claim", "run", "answered", "done",
               "appending", "appended", "judge"}
    /\ offset \in 0..(MaxUpdates + 1)
    /\ batch \subseteq Updates
    /\ task \in 0..MaxUpdates
    /\ errClass \in Classes \cup {"none"}
    /\ circuit \in Breaker
    /\ waived \subseteq Updates
    /\ burst \in Nat
    /\ faults \in 0..MaxFaults

Init ==
    /\ kind = [u \in Updates |-> "unsent"] /\ server = {}
    /\ answered = {}
    /\ inbox = [u \in Updates |-> NoTask] /\ retryLog = <<>> /\ history = <<>>
    /\ pc = "down" /\ offset = 0 /\ batch = {} /\ task = 0 /\ errClass = "none"
    /\ circuit = NewCircuitBreaker
    /\ waived = {} /\ burst = 0 /\ faults = 0

Fault == faults < MaxFaults /\ faults' = faults + 1

\* A write that may fail, unnoticed.
Update(rows)  == (inbox' = rows /\ UNCHANGED faults) \/ (Fault /\ UNCHANGED inbox)
LogRetry(fp)  == (retryLog' = Append(retryLog, fp) /\ UNCHANGED faults)
                    \/ (Fault /\ UNCHANGED retryLog)

Least(S)    == CHOOSE u \in S : \A v \in S : u <= v
Greatest(S) == CHOOSE u \in S : \A v \in S : v <= u

(***************************************************************************)
(* The users and the clock.                                                *)
(***************************************************************************)
UserSends(u, k) ==
    /\ kind[u] = "unsent" /\ \A v \in Updates : v < u => kind[v] # "unsent"
    /\ kind' = [kind EXCEPT ![u] = k]
    /\ server' = server \cup {u}
    /\ UNCHANGED <<answered, tables, loop, circuit, waived, burst, faults>>

\* Mutant: the first run does not count.
ShouldRetryOnceMore(attempts) == attempts <= MaxRetries + 1

ShouldRetry(attempts) == attempts <= MaxRetries

\* 1 << n in the width of an int.
ShiftOne(n) ==
    LET bits == (2 ^ n) % (2 ^ IntWidth)
    IN  IF bits >= 2 ^ (IntWidth - 1) THEN bits - 2 ^ IntWidth ELSE bits

\* Mutant: the first retry counts as the second.
RetryBackoffSecondsTooFar(attempt) ==
    IF attempt <= 0 THEN 0 ELSE LET seconds == ShiftOne(attempt) IN
    IF seconds > 30 THEN 30 ELSE seconds

RetryBackoffSeconds(attempt) ==
    IF attempt <= 0 THEN 0 ELSE LET seconds == ShiftOne(attempt - 1) IN
    IF seconds > 30 THEN 30 ELSE seconds

\* The back-off of a failed row ends; only retryReady looks at it.
BackoffElapses(u) ==
    /\ inbox[u].status = "failed" /\ ~inbox[u].ready /\ ShouldRetry(inbox[u].attempts)
    /\ inbox' = [inbox EXCEPT ![u].ready = TRUE]
    /\ UNCHANGED <<chat, retryLog, history, loop, circuit, waived, burst, faults>>

CooldownElapses ==
    /\ circuit.state = "open" /\ ~circuit.cooled
    /\ circuit' = [circuit EXCEPT !.cooled = TRUE]
    /\ burst' = 0
    /\ UNCHANGED <<chat, tables, loop, waived, faults>>

(***************************************************************************)
(* Start and death of the worker.                                          *)
(***************************************************************************)

\* Mutant: the offset after a restart is one too high.
DeriveOffsetTooHigh ==
    LET stored == {u \in Updates : inbox[u].status # "absent"}
    IN  IF stored = {} THEN 0 ELSE Greatest(stored) + 2

\* COALESCE(MAX(update_id) + 1, 0)
DeriveOffset ==
    LET stored == {u \in Updates : inbox[u].status # "absent"}
    IN  IF stored = {} THEN 0 ELSE Greatest(stored) + 1

\* The client leaves out the updates without a message, an edited one say; the
\* offset never moves for them.
Visible(S) == {u \in S : kind[u] # "unread"}

\* What bootstrapOffset may answer: the first of the PendingMax latest updates
\* in the time window, the end of the backlog when none is; 0 when there is no
\* backlog or the poll fails.
BootstrapOffsets ==
    LET fetched == Visible(server)
        latest(W) == {u \in W : Cardinality({v \in W : u <= v}) <= PendingMax}
    IN  {0} \cup
        (IF fetched = {} THEN {}
         ELSE {IF W = {} THEN Greatest(fetched) + 1 ELSE Least(latest(W)) :
                  W \in SUBSET fetched})

WorkerStarts ==
    /\ pc = "down"
    /\ offset' \in IF DeriveOffset = 0 /\ DropPending THEN BootstrapOffsets
                   ELSE {DeriveOffset}
    /\ waived' = waived \cup {u \in server : u < offset'}
    /\ pc' = "poll"
    /\ UNCHANGED <<chat, tables, batch, task, errClass, circuit, burst, faults>>

\* The memory of the process is gone; the claimed row keeps its status.
Dies ==
    /\ pc' = "down" /\ offset' = 0 /\ batch' = {} /\ task' = 0 /\ errClass' = "none"
    /\ circuit' = NewCircuitBreaker
    /\ burst' = 0

WorkerCrashes ==
    /\ pc # "down"
    /\ Fault
    /\ Dies
    /\ UNCHANGED <<chat, tables, waived>>

(***************************************************************************)
(* Polling and the inbox.                                                  *)
(***************************************************************************)

\* The breaker is asked first; while it says no the loop sleeps.  A request
\* that fails is a command_source_api error, an answer that cannot be parsed
\* has another class.
PollFails(c) ==
    /\ pc = "poll" /\ Allowed(circuit)
    /\ circuit' = RecordFailure(Allow(circuit), c)
    /\ burst' = burst + 1
    /\ UNCHANGED <<chat, tables, loop, waived, faults>>

\* getUpdates confirms what lies below the offset and returns the rest, or
\* nothing when the server answers that it is not ok.
PollSucceeds ==
    /\ pc = "poll" /\ Allowed(circuit)
    /\ \/ server' = {u \in server : u >= offset} /\ batch' = Visible(server')
       \/ server' = server /\ batch' = {}
    /\ LET probe == Allow(circuit)
       IN  IF probe.state = "half_open" /\ probe.openedClass = "command_source_api"
             THEN circuit' = RecordSuccess(probe) /\ burst' = 0
             ELSE circuit' = probe /\ UNCHANGED burst
    /\ pc' = IF batch' = {} THEN "claim" ELSE "enqueue"
    /\ UNCHANGED <<kind, answered, tables, offset, task, errClass, waived, faults>>

\* The offset moves on, whatever becomes of the update.
TakeUpdate ==
    /\ pc = "enqueue"
    /\ batch' = batch \ {Least(batch)}
    /\ offset' = Least(batch) + 1
    /\ pc' = IF batch' = {} THEN "claim" ELSE "enqueue"
    /\ UNCHANGED <<chat, retryLog, history, task, errClass, circuit, burst>>

\* enqueueMessage: INSERT OR IGNORE; an update without text is passed over.
Enqueue ==
    /\ TakeUpdate
    /\ LET u == Least(batch)
       IN  inbox' = IF kind[u] # "other" /\ inbox[u].status = "absent"
                      THEN [inbox EXCEPT ![u] = Queued]
                      ELSE inbox
    /\ UNCHANGED <<waived, faults>>

\* The insert fails: the error is logged and the next update is taken.
EnqueueFails ==
    /\ TakeUpdate
    /\ kind[Least(batch)] # "other"
    /\ Fault
    /\ waived' = waived \cup {Least(batch)}
    /\ UNCHANGED inbox

(***************************************************************************)
(* claimNextTask.                                                          *)
(***************************************************************************)
WithTaskStatus(s) == {u \in Updates : inbox[u].status = s}

\* Mutant: the last retry is never ready.
retryReadyTooStrict(u) == inbox[u].attempts < MaxRetries /\ inbox[u].ready

retryReady(u) == ShouldRetry(inbox[u].attempts) /\ inbox[u].ready

\* ORDER BY id LIMIT ScanLimit: exhausted rows are scanned like the others.
Scanned ==
    {u \in WithTaskStatus("failed") :
        Cardinality({v \in WithTaskStatus("failed") : v < u}) < ScanLimit}

\* Mutant: rows left in progress are taken up again.
ClaimableInterrupted ==
    IF WithTaskStatus("queued") # {} THEN WithTaskStatus("queued")
    ELSE WithTaskStatus("in_progress")

\* Any queued row (the query has no ORDER BY); without one the first failed row
\* in the scan whose back-off has passed.
Claimable ==
    IF WithTaskStatus("queued") # {} THEN WithTaskStatus("queued")
    ELSE LET due == {u \in Scanned : retryReady(u)}
         IN  IF due = {} THEN {} ELSE {Least(due)}

Claim(u) ==
    /\ pc = "claim" /\ u \in Claimable
    /\ inbox' = [inbox EXCEPT ![u] = [status |-> "in_progress", attempts |-> @.attempts + 1,
                                      ready |-> FALSE]]
    /\ task' = u /\ pc' = "run"
    /\ UNCHANGED <<chat, retryLog, history, offset, batch, errClass, circuit, waived, burst,
                   faults>>

\* The transaction fails; the loop sleeps.
ClaimFails ==
    /\ pc = "claim"
    /\ Fault
    /\ pc' = "poll"
    /\ UNCHANGED <<chat, tables, offset, batch, task, errClass, circuit, waived, burst>>

NothingToClaim ==
    /\ pc = "claim" /\ Claimable = {}
    /\ pc' = "poll"
    /\ UNCHANGED <<chat, tables, offset, batch, task, errClass, circuit, waived, burst, faults>>

(***************************************************************************)
(* Running the claimed task.                                               *)
(***************************************************************************)

\* What the first model call of a run is shown.
Context ==
    injectToolInstruction(
        Assemble(Compress(GetHistory(history, HistoryWindow), HistoryWindow), task))

\* A command's failure is only marked; a task's is recorded in the breaker and
\* judged next.
MarkFailed(c) ==
    /\ Update([inbox EXCEPT ![task].status = "failed",
                            ![task].ready = RetryBackoffSeconds(inbox[task].attempts) <= 0])
    /\ IF kind[task] = "command"
         THEN /\ pc' = "poll" /\ task' = 0
              /\ UNCHANGED <<errClass, circuit, burst>>
         ELSE /\ pc' = "judge" /\ errClass' = c
              /\ circuit' = RecordFailure(circuit, c)
              /\ burst' = burst + 1
              /\ UNCHANGED task
    /\ UNCHANGED <<retryLog, history, offset, batch, waived>>

\* It fails before there is a reply: provider, database, limit, validation.
RunFails(c) ==
    /\ pc = "run" /\ c # "command_source_api"
    /\ MarkFailed(c)
    /\ UNCHANGED chat

\* The reply is out, or was refused without the client noticing ...
ReplySent ==
    /\ pc = "run"
    /\ answered' = answered \cup {task}
    /\ pc' = "answered"
    /\ UNCHANGED <<kind, server, tables, offset, batch, task, errClass, circuit, waived, burst,
                   faults>>

\* ... or sendMessage reports an error, also for a reply that got there.
ReplyFails ==
    /\ pc = "run"
    /\ MarkFailed("command_source_api")
    /\ UNCHANGED chat

\* The loop goes on, or the worker exits: after an approval or a rollback
\* request, or because SuicideEvery messages have been handled.
GoesOn == pc' = "poll" /\ task' = 0 /\ errClass' = "none" /\ UNCHANGED <<offset, batch>>

appendHistory(role) ==
    /\ \/ history' = Append(history, [task |-> task, role |-> role]) /\ UNCHANGED faults
       \/ Fault /\ UNCHANGED history
    /\ UNCHANGED <<chat, inbox, retryLog, offset, batch, task, errClass, circuit, waived, burst>>

\* A task is added to the history and then done, a command is done first.
AppendUser ==
    /\ (pc = "answered" /\ kind[task] = "text") \/ pc = "done"
    /\ appendHistory("user")
    /\ pc' = "appending"

AppendAssistant ==
    /\ pc = "appending"
    /\ appendHistory("assistant")
    /\ pc' = "appended"

\* RecordSuccess and markTaskDone.
FinishTask ==
    /\ pc = "appended" /\ kind[task] = "text"
    /\ Update([inbox EXCEPT ![task].status = "done"])
    /\ \/ GoesOn /\ circuit' = RecordSuccess(circuit) /\ burst' = 0
       \/ Dies
    /\ UNCHANGED <<chat, retryLog, history, waived>>

MarkCommandDone ==
    /\ pc = "answered" /\ kind[task] = "command"
    /\ Update([inbox EXCEPT ![task].status = "done"])
    /\ pc' = "done"
    /\ UNCHANGED <<chat, retryLog, history, offset, batch, task, errClass, circuit, waived, burst>>

FinishCommand ==
    /\ pc = "appended" /\ kind[task] = "command"
    /\ \/ GoesOn /\ UNCHANGED <<circuit, burst>>
       \/ Dies
    /\ UNCHANGED <<chat, tables, waived, faults>>

(***************************************************************************)
(* After a failure: retry, or give up.                                     *)
(***************************************************************************)
LastOf(s, n) == SubSeq(s, (IF Len(s) > n THEN Len(s) - n ELSE 0) + 1, Len(s))

recentFingerprints(u, limit) ==
    LastOf(SelectSeq(LastOf(retryLog, EventWindow), LAMBDA e : e.task = u), limit)

NoProgress(fps, k) ==
    k > 1 /\ Len(fps) >= k /\ \A i \in (Len(fps) - k + 1)..Len(fps) : fps[i] = fps[Len(fps)]

progressStalled(u, fp) ==
    /\ NoProgressK > 1
    /\ NoProgress(Append(recentFingerprints(u, NoProgressK - 1), fp), NoProgressK)

\* buildStateFingerprint; markTaskExhausted when the fingerprint repeats.
Judge ==
    /\ pc = "judge"
    /\ LET fp == [task |-> task, class |-> errClass, history |-> Len(history)]
       IN  IF ~ShouldRetry(inbox[task].attempts)
             THEN UNCHANGED <<inbox, retryLog, faults>>
           ELSE IF progressStalled(task, fp)
             THEN /\ Update([inbox EXCEPT ![task].status = "failed",
                                         ![task].attempts = MaxRetries + 1])
                  /\ UNCHANGED retryLog
           ELSE LogRetry(fp) /\ UNCHANGED inbox
    /\ \/ GoesOn /\ UNCHANGED <<circuit, burst>>
       \/ Dies
    /\ UNCHANGED <<chat, history, waived>>

(***************************************************************************)
(* The specification.                                                      *)
(***************************************************************************)
WorkerNext ==
    \/ WorkerStarts
    \/ \E c \in Classes : PollFails(c)
    \/ PollSucceeds \/ Enqueue \/ EnqueueFails
    \/ ClaimFails \/ NothingToClaim \/ \E u \in Updates : Claim(u)
    \/ \E c \in Classes : RunFails(c)
    \/ ReplySent \/ ReplyFails
    \/ AppendUser \/ AppendAssistant \/ FinishTask \/ MarkCommandDone \/ FinishCommand
    \/ Judge

UsersNext == \E u \in Updates, k \in Kinds : UserSends(u, k)

Next ==
    \/ WorkerNext \/ WorkerCrashes \/ UsersNext
    \/ CooldownElapses \/ \E u \in Updates : BackoffElapses(u)

Spec == Init /\ [][Next]_vars

\* The worker goes on between two runs and is restarted, time passes.
FairSpec ==
    /\ Spec
    /\ WF_vars(pc # "run" /\ WorkerNext)
    /\ WF_vars(CooldownElapses)
    /\ \A u \in Updates : WF_vars(BackoffElapses(u))

(***************************************************************************)
(* Properties.                                                             *)
(***************************************************************************)

\* No message is lost between the server and the inbox, wherever the worker
\* crashes and whatever offset it derives: the server drops an update only when
\* it is stored, unless its insert failed or it was dropped at the first start.
NothingLost ==
    \A u \in Updates : kind[u] \in {"text", "command"} =>
        u \in server \/ inbox[u].status # "absent" \/ u \in waived

\* Nobody is answered twice: once a reply is out, no crash, exit, retry or poll
\* that returns the update again makes the worker take the message up again.
\* Only a send that reported an error is repeated.
AnsweredOnce == [][\A u \in answered : task # u => task' # u]_vars

\* The breaker limits how much fails between two cool-downs: fewer failures of
\* each class than the threshold, and the one that opens it.
FailureBurst == burst <= Cardinality(Classes) * (Threshold - 1) + 1

\* The history the model will be shown is a conversation: it holds only messages
\* that were answered, each once, and an answer right behind its message.  No
\* retry or repeated command disturbs that; a crash or a failed insert can only
\* leave one of the two out.
HistoryIsConversation ==
    \A i, j \in DOMAIN history :
        /\ history[i].task \in answered
        /\ history[i] = history[j] => i = j
        /\ /\ history[i].task = history[j].task
           /\ history[i].role = "user" /\ history[j].role = "assistant"
           => j = i + 1

\* The model is shown the end of the conversation and then the message to answer,
\* and that message only once: no retry finds traces of an earlier run.
ContextIsConversation ==
    pc = "run" /\ kind[task] = "text" =>
        LET c == Context
            n == Len(c)
        IN  /\ c[1] = SystemPrompt /\ c[2] = ToolInstruction
            /\ c[n] = [task |-> task, role |-> "user"]
            /\ \A i \in 3..(n - 1) : c[i].task # task
            /\ n > 3 => c[n - 1] = history[Len(history)]

\* A task that fails is never runnable at once: every back-off of an attempt the
\* policy allows is positive in the width of an int.
RetriesWait ==
    [][\A u \in Updates :
          inbox[u].status # "failed" /\ inbox'[u].status = "failed" => ~inbox'[u].ready]_vars

\* What the queue promises for each message: see InboxLifecycle.
Life == [u \in Updates |->
    IF kind[u] = "unsent" THEN "unsent"
    ELSE IF u \in answered THEN "answered"
    ELSE CASE inbox[u].status = "absent"      -> "sent"
           [] inbox[u].status = "in_progress" -> IF task = u THEN "running" ELSE "stranded"
           [] OTHER                           -> inbox[u].status]

Left == [u \in Updates |-> MaxRetries + 1 - inbox[u].attempts]

Inbox == INSTANCE InboxLifecycle WITH Messages <- Updates, MaxRuns <- MaxRetries + 1,
                                      life <- Life, left <- Left

ImplementsInbox == Inbox!Spec

Settled(u) ==
    inbox[u].status = "done" \/ (inbox[u].status = "failed" /\ ~ShouldRetry(inbox[u].attempts))

\* As long as polls keep succeeding, every stored message is answered or runs
\* out of retries: neither new messages nor the breaker starve it.
EveryTaskSettles ==
    []<>(pc = "claim") => \A u \in Updates : inbox[u].status = "queued" ~> Settled(u)

(***************************************************************************)
(* What the documentation says and the code does not keep.                 *)
(***************************************************************************)

\* project.md: the inbox lets the system recover from crashes; milestone-1:
\* locked_at is for detecting claims that time out.  So a message that was being
\* run when the worker went down is run again, or over, some day.
InterruptedTaskResumes ==
    []<>(pc = "claim") =>
        \A u \in Updates : pc = "down" /\ inbox[u].status = "in_progress"
            ~> inbox[u].status # "in_progress"

\* milestone-3: a failed task is, by the retry policy, either retried or ended.
ScheduledRetryHappens ==
    []<>(pc = "claim") =>
        \A u \in Updates : inbox[u].status = "failed" /\ ShouldRetry(inbox[u].attempts)
            ~> inbox[u].status # "failed" \/ ~ShouldRetry(inbox[u].attempts)

==============================================================================
