------------------------------- MODULE EventLog -------------------------------
(***************************************************************************)
(* The events table and who writes to it: the supervisor, its watchers and *)
(* the worker insert rows at their own pace; each row names its parent.    *)
(* LogEvent (internal/db/db.go) returns the id of the row, and 0 when the  *)
(* insert fails; every caller but the supervisor's start ignores the error *)
(* and goes on with 0 as the parent of what follows.                       *)
(*                                                                         *)
(* Only the columns id and parent_id and the level of the type are kept;   *)
(* a row has its index as id.                                              *)
(***************************************************************************)
EXTENDS Naturals, Sequences, FiniteSets

CONSTANTS NULL,      \* SQL's NULL
          MaxEvents, \* bound: rows of the table
          MaxNotes,  \* bound: rows of the types that only note something
          MaxFaults  \* bound: inserts that fail

ASSUME EventLogAssumption == {MaxEvents, MaxNotes, MaxFaults} \subseteq Nat /\ NULL \notin Nat

VARIABLES
    events,  \* the table
    spc,     \* the supervisor: "down", "loop", "spawned" (worker started), "wait"
    sup,     \* supEventID
    worker,  \* the worker: "dead", "booting", "loop", "task", "turn", "answered", "tool"
    ids,     \* its workerEventID, agentEventID, turnEventID and toolEventID
    faults,
    boot, task \* for the properties: how many workers were started, and tasks by this one

vars == <<events, spc, sup, worker, ids, faults, boot, task>>

SupervisorTypes == {"worker.spawned", "worker.exited", "supervisor.note"}
WorkerTypes == {"agent.started", "agent.ended", "worker.note"}
AgentTypes == {"turn.started", "turn.completed", "agent.note"}
Types == {"supervisor", "worker", "tool_call.started", "tool_call.ended"}
            \cup SupervisorTypes \cup WorkerTypes \cup AgentTypes

Scopes == {"worker", "agent", "turn", "tool"}
NoIds == [s \in Scopes |-> 0]

TypeOK ==
    /\ events \in Seq([parent : 0..MaxEvents \cup {NULL}, type : Types, boot : Nat, task : Nat])
    /\ Len(events) <= MaxEvents
    /\ spc \in {"down", "loop", "spawned", "wait"}
    /\ sup \in 0..Len(events) /\ (spc # "down" => sup > 0 /\ events[sup].type = "supervisor")
    /\ worker \in {"dead", "booting", "loop", "task", "turn", "answered", "tool"}
    /\ spc \in {"down", "loop"} => worker = "dead"
    /\ ids \in [Scopes -> 0..Len(events)]
    /\ faults \in 0..MaxFaults /\ boot \in Nat /\ task \in Nat

Init ==
    /\ events = <<>> /\ spc = "down" /\ sup = 0
    /\ worker = "dead" /\ ids = NoIds
    /\ faults = 0 /\ boot = 0 /\ task = 0

Notes == {"supervisor.note", "worker.note", "agent.note"}

Insert(parent, type) ==
    /\ Len(events) < MaxEvents
    /\ type \in Notes => Cardinality({i \in DOMAIN events : events[i].type \in Notes}) < MaxNotes
    /\ events' = Append(events, [parent |-> parent, type |-> type, boot |-> boot', task |-> task'])
    /\ UNCHANGED faults

\* The insert may fail: the database is locked or full.
LogEvent(parent, type) ==
    \/ Insert(parent, type)
    \/ faults < MaxFaults /\ faults' = faults + 1 /\ UNCHANGED events

\* What LogEvent returns.
LoggedId == IF events' = events THEN 0 ELSE Len(events')

(***************************************************************************)
(* The supervisor.                                                         *)
(***************************************************************************)
SupervisorStarts ==
    /\ spc = "down"
    /\ UNCHANGED <<worker, ids, boot, task>>
    /\ Insert(NULL, "supervisor")
    /\ spc' = "loop" /\ sup' = LoggedId

\* Without its row the supervisor does not start; the container tries again.
SupervisorGivesUp == spc = "down" /\ UNCHANGED vars

\* revision.promoted, crash_loop.detected, update.*; some are a watcher's.
SupervisorNotes ==
    /\ spc # "down"
    /\ UNCHANGED <<spc, sup, worker, ids, boot, task>>
    /\ LogEvent(sup, "supervisor.note")

SpawnWorker ==
    /\ spc = "loop"
    /\ spc' = "spawned" /\ worker' = "booting"
    /\ boot' = boot + 1 /\ task' = 0 /\ ids' = NoIds
    /\ UNCHANGED <<events, sup, faults>>

\* The worker may be at work already, or gone.
LogSpawned ==
    /\ spc = "spawned" /\ spc' = "wait"
    /\ UNCHANGED <<sup, worker, ids, boot, task>>
    /\ LogEvent(sup, "worker.spawned")

\* Mutant: the supervisor does not wait for the worker (cmd.Wait).
LogExitedUnwaited ==
    /\ spc = "wait" /\ spc' = "loop"
    /\ UNCHANGED <<sup, worker, ids, boot, task>>
    /\ LogEvent(sup, "worker.exited")

LogExited ==
    /\ spc = "wait" /\ worker = "dead" /\ spc' = "loop"
    /\ UNCHANGED <<sup, worker, ids, boot, task>>
    /\ LogEvent(sup, "worker.exited")

\* The container goes down with it.
SupervisorDies ==
    /\ spc # "down" /\ spc' = "down" /\ worker' = "dead"
    /\ UNCHANGED <<events, sup, ids, faults, boot, task>>

(***************************************************************************)
(* The worker.                                                             *)
(***************************************************************************)
\* The worker logs a row of `type` under `parent` and goes from pc to pc2.
WorkerLogs(pc, pc2, parent, type) ==
    /\ worker = pc /\ worker' = pc2
    /\ UNCHANGED <<spc, sup, boot>>
    /\ LogEvent(parent, type)

\* Mutant: the worker does not look at PARENT_PROCESS_ID.
WorkerBootsAsRoot ==
    /\ UNCHANGED task
    /\ WorkerLogs("booting", "loop", NULL, "worker")
    /\ ids' = [ids EXCEPT !["worker"] = LoggedId]

\* PARENT_PROCESS_ID is the supervisor's row.
WorkerBoots ==
    /\ UNCHANGED task
    /\ WorkerLogs("booting", "loop", sup, "worker")
    /\ ids' = [ids EXCEPT !["worker"] = LoggedId]

\* system_prompt.loaded, retry.scheduled, circuit.opened, ...
WorkerNotes ==
    /\ UNCHANGED <<ids, task>>
    /\ WorkerLogs("loop", "loop", ids["worker"], "worker.note")

\* Mutant: a failed insert leaves agentEventID as it was.
AgentStartsKeepsId ==
    /\ task' = task + 1
    /\ WorkerLogs("loop", "task", ids["worker"], "agent.started")
    /\ ids' = [ids EXCEPT !["agent"] = IF LoggedId = 0 THEN @ ELSE LoggedId]

AgentStarts ==
    /\ task' = task + 1
    /\ WorkerLogs("loop", "task", ids["worker"], "agent.started")
    /\ ids' = [ids EXCEPT !["agent"] = LoggedId]

\* context.assembled, control.limit_reached, reply.sent, update.*, ...
AgentNotes ==
    /\ UNCHANGED <<ids, task>>
    /\ \E pc \in {"task", "turn", "answered"} :
          WorkerLogs(pc, pc, ids["agent"], "agent.note")

FirstTurnStarts ==
    /\ UNCHANGED task
    /\ WorkerLogs("task", "turn", ids["agent"], "turn.started")
    /\ ids' = [ids EXCEPT !["turn"] = LoggedId]

\* The id of a later turn is dropped (toolTurnEventID, lastTurnEventID).
LaterTurnStarts ==
    /\ UNCHANGED <<ids, task>>
    /\ WorkerLogs("answered", "turn", ids["agent"], "turn.started")

TurnCompletes ==
    /\ UNCHANGED <<ids, task>>
    /\ WorkerLogs("turn", "answered", ids["agent"], "turn.completed")

\* Always under the first turn of the task.
ToolStarts ==
    /\ UNCHANGED task
    /\ WorkerLogs("answered", "tool", ids["turn"], "tool_call.started")
    /\ ids' = [ids EXCEPT !["tool"] = LoggedId]

ToolEnds ==
    /\ UNCHANGED <<ids, task>>
    /\ WorkerLogs("tool", "answered", ids["tool"], "tool_call.ended")

\* agent.completed and agent.failed; a command has no turn.
AgentEnds ==
    /\ UNCHANGED <<ids, task>>
    /\ \E pc \in {"task", "turn", "answered"} :
          WorkerLogs(pc, "loop", ids["worker"], "agent.ended")

WorkerDies ==
    /\ worker # "dead" /\ worker' = "dead"
    /\ UNCHANGED <<events, spc, sup, ids, faults, boot, task>>

Next ==
    \/ SupervisorStarts \/ SupervisorGivesUp \/ SupervisorNotes
    \/ SpawnWorker \/ LogSpawned \/ LogExited \/ SupervisorDies
    \/ WorkerBoots \/ WorkerNotes \/ AgentStarts \/ AgentNotes
    \/ FirstTurnStarts \/ LaterTurnStarts \/ TurnCompletes \/ ToolStarts \/ ToolEnds
    \/ AgentEnds \/ WorkerDies

Spec == Init /\ [][Next]_vars

(***************************************************************************)
(* Properties.                                                             *)
(***************************************************************************)
ScopeOf(type) ==
    CASE type \in SupervisorTypes \cup {"worker"} -> "supervisor"
      [] type \in WorkerTypes -> "worker"
      [] type \in AgentTypes -> "agent.started"
      [] type = "tool_call.started" -> "turn.started"
      [] type = "tool_call.ended" -> "tool_call.started"

\* An event is put under the supervisor, process, task, turn or call it is about
\* or under nothing: never under those of an earlier process or task, also when
\* the row that opens its own scope could not be stored.
NoStaleScope ==
    \A i \in DOMAIN events : LET e == events[i] IN e.parent \notin {0, NULL} =>
        LET p == events[e.parent] IN
        /\ e.parent < i /\ p.type = ScopeOf(e.type)
        /\ p.type = "supervisor" => \A j \in e.parent+1..i : events[j].type # "supervisor"
        /\ p.type # "supervisor" => p.boot = e.boot
        /\ p.type \notin {"supervisor", "worker"} => p.task = e.task

==============================================================================
