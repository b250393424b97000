-------------------------------- MODULE Worker --------------------------------
(***************************************************************************)
(* The worker as a whole: the loop of TaskQueue in which the run of a text *)
(* is no single step but an AgentRun.  A run that fails is retried from    *)
(* its start, a crash in a run forgets everything but the database and     *)
(* what its tools have done.                                               *)
(***************************************************************************)
EXTENDS Naturals, Sequences

CONSTANTS MaxUpdates, Kinds, MaxRetries, NoProgressK, ScanLimit, EventWindow, DropPending,
          PendingMax, HistoryWindow, IntWidth, MaxFaults, Classes, Threshold, \* TaskQueue
          MaxTurns, MaxTokens, Usage                                          \* AgentRun

VARIABLES
    (* TaskQueue *)
    kind, server, answered, inbox, retryLog, history, pc, offset, batch, task, errClass,
    circuit, waived, burst, faults,
    (* AgentRun; step is its pc *)
    step, turns, tokens, late, response, last, rounds, overtime,
    effects \* history: rounds of tools run for each message, in all its runs

Queue == INSTANCE TaskQueue
Run   == INSTANCE AgentRun WITH pc <- step

\* What the two assume of their constants.
ASSUME WorkerAssumption ==
    Queue!QueueAssumption /\ Queue!BreakerAssumption /\ Run!BudgetAssumption

queue == <<kind, server, answered, inbox, retryLog, history, pc, offset, batch, task, errClass,
           circuit, waived, burst, faults>>
run   == <<step, turns, tokens, late, response, last, rounds, overtime>>
vars  == <<queue, run, effects>>

Updates == 1..MaxUpdates

TypeOK == Queue!TypeOK /\ Run!TypeOK /\ effects \in [Updates -> Nat]

Init == Queue!Init /\ Run!Init /\ effects = [u \in Updates |-> 0]

\* processTask is running.
Active == pc = "run" /\ kind[task] = "text"

\* Mutant: the message enters the history before its reply is sent.
RunStepAppendsEarly ==
    /\ Active /\ Run!RunNext
    /\ history' = IF step' = "send" THEN Append(history, [task |-> task, role |-> "user"])
                  ELSE history
    /\ UNCHANGED <<kind, server, answered, inbox, retryLog, pc, offset, batch, task, errClass,
                   circuit, waived, burst, faults, effects>>

\* One step of the run; its end is the queue's step.
RunStep ==
    /\ Active /\ Run!RunNext
    /\ effects' = IF rounds' > rounds THEN [effects EXCEPT ![task] = @ + 1] ELSE effects
    /\ \/ step' \notin {"done", "failed"} /\ UNCHANGED queue
       \/ step' = "failed" /\ step = "send" /\ Queue!ReplyFails
       \/ step' = "failed" /\ step # "send" /\ \E c \in Classes : Queue!RunFails(c)
       \/ step' = "done" /\ Queue!ReplySent

\* The local variables of processTask are gone.
ForgetRun ==
    /\ step' = "start" /\ turns' = 0 /\ tokens' = 0 /\ late' = FALSE
    /\ response' = Run!NoResponse /\ last' = FALSE /\ rounds' = 0 /\ overtime' = 0

\* processTask returns.
Return ==
    /\ step \in {"done", "failed"}
    /\ ForgetRun /\ UNCHANGED <<queue, effects>>

\* The loop outside of processTask; processDirectCommand stays one step.
LoopStep ==
    /\ ~Active /\ step = "start"
    /\ Queue!WorkerNext
    /\ UNCHANGED <<run, effects>>

WorkerCrashes == Queue!WorkerCrashes /\ ForgetRun /\ UNCHANGED effects

WallTimePasses == Active /\ Run!WallTimePasses /\ UNCHANGED <<queue, effects>>

World ==
    /\ Queue!UsersNext \/ Queue!CooldownElapses \/ \E u \in Updates : Queue!BackoffElapses(u)
    /\ UNCHANGED <<run, effects>>

Next == RunStep \/ Return \/ LoopStep \/ WorkerCrashes \/ WallTimePasses \/ World

Spec == Init /\ [][Next]_vars

\* The loop and the run go on, but for a round of tools, which may not end; time
\* passes.
FairSpec ==
    /\ Spec
    /\ WF_vars(LoopStep) /\ WF_vars(Return)
    /\ WF_vars(step # "tools" /\ RunStep)
    /\ WF_vars(Queue!CooldownElapses /\ UNCHANGED <<run, effects>>)
    /\ \A u \in Updates : WF_vars(Queue!BackoffElapses(u) /\ UNCHANGED <<run, effects>>)

(***************************************************************************)
(* Properties.                                                             *)
(***************************************************************************)

\* The tools that may run for one message are bounded over all its runs, and none
\* runs once the message is answered, whatever is retried and wherever the worker
\* crashes; within these bounds effects are repeated.
EffectsBounded ==
    [][\A u \in Updates :
          effects'[u] # effects[u] =>
              effects'[u] <= (MaxRetries + 1) * MaxTurns /\ u \notin answered]_vars

\* A run ends because of its limits, if its tools return.
RunsEnd == []<>(step # "tools") => (pc = "run" ~> pc # "run")

\* The worker is the queue, with the fairness assumed there: nothing in a run lets
\* it stop between two runs, and a crash within one is a crash of the queue.
ImplementsQueue == Queue!FairSpec

==============================================================================
