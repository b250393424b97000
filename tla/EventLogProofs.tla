---------------------------- MODULE EventLogProofs ----------------------------
(***************************************************************************)
(* An event is never put under the scope of another process or task, for   *)
(* any length of the log and any number of failed inserts.                 *)
(***************************************************************************)
EXTENDS EventLog, TLAPS

Row == [parent : 0..MaxEvents \cup {NULL}, type : Types, boot : Nat, task : Nat]

\* The types of the rows whose ids the worker remembers.
Opens(s) ==
    CASE s = "worker" -> "worker"
      [] s = "agent"  -> "agent.started"
      [] s = "turn"   -> "turn.started"
      [] s = "tool"   -> "tool_call.started"

Own(s) ==
    ids[s] # 0 =>
        events[ids[s]].boot = boot /\ (s # "worker" => events[ids[s]].task = task)

\* Every type is emitted in the scope of the process or part that emits it.
LEMMA Scoping ==
    /\ \A type \in SupervisorTypes \cup {"worker"} : ScopeOf(type) = "supervisor"
    /\ \A type \in WorkerTypes : ScopeOf(type) = Opens("worker")
    /\ \A type \in AgentTypes : ScopeOf(type) = Opens("agent")
    /\ ScopeOf("tool_call.started") = Opens("turn")
    /\ ScopeOf("tool_call.ended") = Opens("tool")
<1>1. \A type \in SupervisorTypes \cup {"worker"} : ScopeOf(type) = "supervisor"
  BY DEF ScopeOf, SupervisorTypes, WorkerTypes, AgentTypes
<1>2. \A type \in WorkerTypes : ScopeOf(type) = "worker"
  BY DEF ScopeOf, SupervisorTypes, WorkerTypes, AgentTypes
<1>3. \A type \in AgentTypes : ScopeOf(type) = "agent.started"
  BY DEF ScopeOf, SupervisorTypes, WorkerTypes, AgentTypes
<1>4. ScopeOf("tool_call.started") = "turn.started"
      /\ ScopeOf("tool_call.ended") = "tool_call.started"
  BY DEF ScopeOf, SupervisorTypes, WorkerTypes, AgentTypes
<1>5. /\ Opens("worker") = "worker" /\ Opens("agent") = "agent.started"
      /\ Opens("turn") = "turn.started" /\ Opens("tool") = "tool_call.started"
  BY DEF Opens
<1> QED
  BY <1>1, <1>2, <1>3, <1>4, <1>5

\* What the processes remember: the latest start of a supervisor, and ids that are of
\* this worker and this task at the points where they are used.
IdsInv ==
    /\ spc # "down" => \A j \in sup+1..Len(events) : events[j].type # "supervisor"
    /\ \A s \in Scopes : ids[s] # 0 => events[ids[s]].type = Opens(s)
    /\ worker \notin {"dead", "booting"} => Own("worker")
    /\ worker \in {"task", "turn", "answered", "tool"} => Own("agent")
    /\ worker \in {"turn", "answered", "tool"} => Own("turn")
    /\ worker = "tool" => Own("tool")

IInv == TypeOK /\ IdsInv /\ NoStaleScope

\* A row of this type may be put under this parent.
Fits(parent, type, b, t) ==
    parent \notin {0, NULL} =>
        /\ events[parent].type = ScopeOf(type)
        /\ events[parent].type = "supervisor" =>
              \A j \in parent+1..Len(events) : events[j].type # "supervisor"
        /\ events[parent].type = "supervisor" => type # "supervisor"
        /\ events[parent].type # "supervisor" => events[parent].boot = b
        /\ events[parent].type \notin {"supervisor", "worker"} => events[parent].task = t

\* What LogEvent does to the table and what it returns.
LEMMA Logged ==
    ASSUME TypeOK, boot' \in Nat, task' \in Nat,
           NEW STATE parent, parent \in 0..Len(events) \cup {NULL}, NEW type \in Types,
           LogEvent(parent, type)
    PROVE  /\ events' \in Seq(Row) /\ Len(events') <= MaxEvents /\ faults' \in 0..MaxFaults
           /\ Len(events) \in Nat /\ Len(events') \in Nat /\ Len(events) <= Len(events')
           /\ \A i \in 1..Len(events) : events'[i] = events[i]
           /\ LoggedId \in 0..Len(events')
           /\ LoggedId = 0 => events' = events
           /\ LoggedId # 0 =>
                 /\ LoggedId = Len(events) + 1 /\ Len(events') = Len(events) + 1
                 /\ events'[Len(events) + 1] =
                       [parent |-> parent, type |-> type, boot |-> boot', task |-> task']
<1>0. /\ events \in Seq(Row) /\ Len(events) <= MaxEvents /\ Len(events) \in Nat
      /\ MaxEvents \in Nat /\ MaxFaults \in Nat /\ faults \in 0..MaxFaults
  BY EventLogAssumption DEF TypeOK, Row
<1> DEFINE r == [parent |-> parent, type |-> type, boot |-> boot', task |-> task']
<1>1. r \in Row
  BY <1>0 DEF Row
<1>2. CASE Insert(parent, type)
  <2>1. events' = Append(events, r) /\ faults' = faults /\ Len(events) < MaxEvents
    BY <1>2 DEF Insert
  <2> HIDE DEF r
  <2>2. /\ events' \in Seq(Row) /\ Len(events') = Len(events) + 1
        /\ events'[Len(events) + 1] = r
        /\ \A i \in 1..Len(events) : events'[i] = events[i]
    BY <1>0, <1>1, <2>1
  <2>3. events' # events
    BY <1>0, <2>2
  <2>4. LoggedId = Len(events) + 1
    BY <2>2, <2>3 DEF LoggedId
  <2> QED
    BY <1>0, <2>1, <2>2, <2>4 DEF r
<1>3. CASE ~Insert(parent, type)
  <2>1. events' = events /\ faults' = faults + 1 /\ faults < MaxFaults
    BY <1>3 DEF LogEvent
  <2>2. LoggedId = 0
    BY <2>1 DEF LoggedId
  <2> QED
    BY <1>0, <2>1, <2>2
<1> QED
  BY <1>2, <1>3

\* A fitting row keeps the log free of stale scopes.
LEMMA FittingRow ==
    ASSUME TypeOK, NoStaleScope, boot' \in Nat, task' \in Nat,
           NEW STATE parent, parent \in 0..Len(events) \cup {NULL}, NEW type \in Types,
           LogEvent(parent, type), Fits(parent, type, boot', task')
    PROVE  NoStaleScope'
<1> DEFINE n == Len(events)
<1>0. n \in Nat /\ NULL \notin Nat /\ events \in Seq(Row)
  BY EventLogAssumption DEF TypeOK, Row
<1>1. /\ \A i \in 1..n : events'[i] = events[i]
      /\ events' = events
            \/ /\ Len(events') = n + 1
               /\ events'[n + 1] =
                    [parent |-> parent, type |-> type, boot |-> boot', task |-> task']
      /\ events' \in Seq(Row)
  BY Logged
<1>2. SUFFICES ASSUME NEW i \in DOMAIN events', events'[i].parent \notin {0, NULL}
      PROVE LET e == events'[i]
                p == events'[e.parent] IN
            /\ e.parent < i /\ p.type = ScopeOf(e.type)
            /\ p.type = "supervisor" => \A j \in e.parent+1..i : events'[j].type # "supervisor"
            /\ p.type # "supervisor" => p.boot = e.boot
            /\ p.type \notin {"supervisor", "worker"} => p.task = e.task
  BY DEF NoStaleScope, ScopeOf
<1>3. CASE i \in 1..n
  <2>1. events'[i] = events[i] /\ i \in DOMAIN events
    BY <1>0, <1>1, <1>3
  <2>2. events[i].parent \in 1..n
    <3>1. events[i] \in Row
      BY <1>0, <1>3
    <3>2. events[i].parent \in Nat /\ events[i].parent # 0
      BY <1>2, <2>1, <3>1, EventLogAssumption DEF Row
    <3>3. events[i].parent < i
      BY <1>2, <2>1 DEF NoStaleScope
    <3> QED
      BY <1>0, <1>3, <3>2, <3>3
  <2>3. events'[events[i].parent] = events[events[i].parent]
    BY <1>1, <2>2
  <2>4. \A j \in events[i].parent+1..i : events'[j] = events[j]
    BY <1>0, <1>1, <1>3, <2>2
  <2> QED
    BY <1>2, <2>1, <2>3, <2>4 DEF NoStaleScope
<1>4. CASE i \notin 1..n
  <2>1. i = n + 1
        /\ events'[i] = [parent |-> parent, type |-> type, boot |-> boot', task |-> task']
    BY <1>0, <1>1, <1>4
  <2>2. parent \in 1..n
    BY <1>0, <1>2, <2>1
  <2>3. events'[parent] = events[parent]
    BY <1>1, <2>2
  <2>4. \A j \in parent+1..n : events'[j] = events[j]
    BY <1>0, <1>1, <2>2
  <2>5. \A j \in parent+1..i : j = i \/ j \in parent+1..n
    BY <1>0, <2>1, <2>2
  <2> QED
    BY <1>0, <1>2, <2>1, <2>2, <2>3, <2>4, <2>5 DEF Fits
<1> QED
  BY <1>3, <1>4

\* The empty log, with nothing started, satisfies the invariant.
LEMMA InitInv == Init => IInv
<1> SUFFICES ASSUME Init PROVE IInv
  OBVIOUS
<1>1. TypeOK
  BY EventLogAssumption DEF Init, TypeOK, NoIds, Scopes
<1>2. IdsInv
  BY DEF Init, IdsInv, NoIds, Scopes
<1>3. NoStaleScope
  BY DEF Init, NoStaleScope
<1> QED
  BY <1>1, <1>2, <1>3 DEF IInv

\* The steps that log nothing.
LEMMA SilentStep ==
    ASSUME IInv, SupervisorGivesUp \/ SpawnWorker \/ SupervisorDies \/ WorkerDies
    PROVE  IInv'
<1>1. CASE SupervisorGivesUp
  BY <1>1 DEF SupervisorGivesUp, vars, IInv, TypeOK, IdsInv, Own, NoStaleScope, Opens
<1>2. CASE SpawnWorker
  <2>1. TypeOK'
    BY <1>2 DEF SpawnWorker, IInv, TypeOK, NoIds, Scopes
  <2>2. IdsInv'
    BY <1>2 DEF SpawnWorker, IInv, IdsInv, Own, NoIds, Scopes
  <2>3. NoStaleScope'
    BY <1>2 DEF SpawnWorker, IInv, NoStaleScope
  <2> QED
    BY <2>1, <2>2, <2>3 DEF IInv
<1>3. CASE SupervisorDies
  <2>1. TypeOK'
    BY <1>3 DEF SupervisorDies, IInv, TypeOK
  <2>2. IdsInv'
    BY <1>3 DEF SupervisorDies, IInv, IdsInv, Own
  <2>3. NoStaleScope'
    BY <1>3 DEF SupervisorDies, IInv, NoStaleScope
  <2> QED
    BY <2>1, <2>2, <2>3 DEF IInv
<1>4. CASE WorkerDies
  <2>1. TypeOK'
    BY <1>4 DEF WorkerDies, IInv, TypeOK
  <2>2. IdsInv'
    BY <1>4 DEF WorkerDies, IInv, IdsInv, Own
  <2>3. NoStaleScope'
    BY <1>4 DEF WorkerDies, IInv, NoStaleScope
  <2> QED
    BY <2>1, <2>2, <2>3 DEF IInv
<1> QED
  BY <1>1, <1>2, <1>3, <1>4

\* What a logged row leaves true, whether its id is remembered in scope s or not.
LEMMA RowLogged ==
    ASSUME IInv,
           NEW STATE parent, parent \in 0..Len(events) \cup {NULL},
           NEW type \in Types \ {"supervisor"},
           LogEvent(parent, type), Fits(parent, type, boot', task'),
           boot' = boot, task' \in Nat, sup' = sup, spc # "down",
           spc' \in {"loop", "spawned", "wait"},
           worker' \in {"dead", "booting", "loop", "task", "turn", "answered", "tool"},
           spc' = "loop" => worker' = "dead",
           NEW s \in Scopes,
           ids' = ids \/ (type = Opens(s) /\ ids' = [ids EXCEPT ![s] = LoggedId])
    PROVE  /\ TypeOK' /\ NoStaleScope'
           /\ \A j \in sup'+1..Len(events') : events'[j].type # "supervisor"
           /\ \A t \in Scopes : ids'[t] # 0 => events'[ids'[t]].type = Opens(t)
           /\ \A t \in Scopes : Own(t) /\ (t = "worker" \/ task' = task) => Own(t)'
           /\ ids'[s] = LoggedId => Own(s)'
<1>1. TypeOK /\ IdsInv /\ NoStaleScope /\ boot' \in Nat /\ type \in Types
  BY DEF IInv, TypeOK
<1>2. /\ events' \in Seq(Row) /\ Len(events') <= MaxEvents /\ faults' \in 0..MaxFaults
      /\ Len(events) \in Nat /\ Len(events') \in Nat /\ Len(events) <= Len(events')
      /\ \A i \in 1..Len(events) : events'[i] = events[i]
      /\ LoggedId \in 0..Len(events')
      /\ LoggedId = 0 => events' = events
      /\ LoggedId # 0 =>
            /\ LoggedId = Len(events) + 1 /\ Len(events') = Len(events) + 1
            /\ events'[Len(events) + 1] =
                  [parent |-> parent, type |-> type, boot |-> boot', task |-> task']
  BY <1>1, Logged
<1>3. /\ sup \in 1..Len(events) /\ events[sup].type = "supervisor"
      /\ ids \in [Scopes -> 0..Len(events)]
  BY <1>1, <1>2 DEF TypeOK
<1>4. ids' \in [Scopes -> 0..Len(events')]
  BY <1>2, <1>3
<1>5. TypeOK'
  <2>1. sup' \in 0..Len(events') /\ sup' > 0 /\ events'[sup'].type = "supervisor"
    BY <1>2, <1>3
  <2> QED
    BY <1>1, <1>2, <1>4, <2>1 DEF TypeOK, Row
<1>6. NoStaleScope'
  BY <1>1, FittingRow
<1>7. \A j \in sup'+1..Len(events') : events'[j].type # "supervisor"
  <2> TAKE j \in sup'+1..Len(events')
  <2>1. CASE j \in 1..Len(events)
    BY <1>1, <1>2, <1>3, <2>1 DEF IdsInv
  <2>2. CASE j \notin 1..Len(events)
    <3>1. j > Len(events) /\ j <= Len(events')
      BY <1>2, <1>3, <2>2
    <3>2. LoggedId # 0
      BY <1>2, <3>1
    <3> QED
      BY <1>2, <3>1, <3>2
  <2> QED
    BY <2>1, <2>2
<1>8. \A t \in Scopes : ids'[t] # 0 => events'[ids'[t]].type = Opens(t)
  <2> TAKE t \in Scopes
  <2> HAVE ids'[t] # 0
  <2>1. CASE ids'[t] = ids[t]
    BY <1>1, <1>2, <1>3, <2>1 DEF IdsInv
  <2>2. CASE ids'[t] # ids[t]
    <3>1. t = s /\ ids'[t] = LoggedId /\ type = Opens(t)
      BY <1>3, <2>2
    <3> QED
      BY <1>2, <3>1
  <2> QED
    BY <2>1, <2>2
<1>9. ids'[s] = LoggedId => Own(s)'
  <2>1. CASE LoggedId = 0
    BY <2>1 DEF Own
  <2>2. CASE LoggedId # 0
    BY <1>2, <2>2 DEF Own
  <2> QED
    BY <2>1, <2>2
<1>10. \A t \in Scopes : Own(t) /\ (t = "worker" \/ task' = task) => Own(t)'
  <2> TAKE t \in Scopes
  <2> HAVE Own(t) /\ (t = "worker" \/ task' = task)
  <2>1. CASE ids'[t] = ids[t]
    <3>1. ids[t] # 0 => events'[ids[t]] = events[ids[t]]
      BY <1>2, <1>3
    <3> QED
      BY <2>1, <3>1 DEF Own
  <2>2. CASE ids'[t] # ids[t]
    <3>1. t = s /\ ids'[s] = LoggedId
      BY <1>3, <2>2
    <3> QED
      BY <1>9, <3>1
  <2> QED
    BY <2>1, <2>2
<1> QED
  BY <1>5, <1>6, <1>7, <1>8, <1>9, <1>10

\* The rows of the supervisor and its watchers.
LEMMA SupervisorStep ==
    ASSUME IInv, SupervisorNotes \/ LogSpawned \/ LogExited
    PROVE  IInv'
<1>1. PICK type \in SupervisorTypes :
        /\ LogEvent(sup, type) /\ spc # "down"
        /\ spc' \in {"loop", "spawned", "wait"} /\ (spc' = "loop" => worker = "dead")
        /\ UNCHANGED <<sup, worker, ids, boot, task>>
  BY DEF SupervisorNotes, LogSpawned, LogExited, SupervisorTypes, IInv, TypeOK
<1>2. TypeOK /\ IdsInv
  BY DEF IInv
<1>3. type \in Types \ {"supervisor"}
  BY DEF SupervisorTypes, Types
<1>4. sup \in 0..Len(events) \cup {NULL} /\ Fits(sup, type, boot', task')
  <2>1. sup \in 0..Len(events) /\ events[sup].type = "supervisor"
    BY <1>1, <1>2 DEF TypeOK
  <2>2. ScopeOf(type) = "supervisor"
    BY <1>1, Scoping
  <2>3. \A j \in sup+1..Len(events) : events[j].type # "supervisor"
    BY <1>1, <1>2 DEF IdsInv
  <2> QED
    BY <1>3, <2>1, <2>2, <2>3 DEF Fits
<1>5. boot' = boot /\ task' \in Nat
      /\ worker' \in {"dead", "booting", "loop", "task", "turn", "answered", "tool"}
  BY <1>1, <1>2 DEF TypeOK
<1>6. /\ TypeOK' /\ NoStaleScope'
      /\ \A j \in sup'+1..Len(events') : events'[j].type # "supervisor"
      /\ \A t \in Scopes : ids'[t] # 0 => events'[ids'[t]].type = Opens(t)
      /\ \A t \in Scopes : Own(t) /\ (t = "worker" \/ task' = task) => Own(t)'
  BY <1>1, <1>3, <1>4, <1>5, RowLogged DEF Scopes
<1>7. IdsInv'
  BY <1>1, <1>2, <1>6 DEF IdsInv, Scopes
<1> QED
  BY <1>6, <1>7 DEF IInv

\* A supervisor that starts has stored its row: the root of the tree.
LEMMA SupervisorStartStep == ASSUME IInv, SupervisorStarts PROVE IInv'
<1>1. /\ Insert(NULL, "supervisor") /\ spc = "down" /\ worker = "dead" /\ spc' = "loop"
      /\ sup' = LoggedId /\ UNCHANGED <<worker, ids, boot, task>>
      /\ TypeOK /\ IdsInv /\ NoStaleScope
  BY DEF SupervisorStarts, IInv, TypeOK
<1>2. boot' \in Nat /\ task' \in Nat /\ "supervisor" \in Types /\ LogEvent(NULL, "supervisor")
  BY <1>1 DEF TypeOK, Types, LogEvent
<1>3. /\ events' \in Seq(Row) /\ Len(events') <= MaxEvents /\ faults' \in 0..MaxFaults
      /\ Len(events) \in Nat /\ Len(events') \in Nat /\ Len(events) <= Len(events')
      /\ \A i \in 1..Len(events) : events'[i] = events[i]
      /\ LoggedId = 0 => events' = events
      /\ LoggedId # 0 =>
            /\ LoggedId = Len(events) + 1 /\ Len(events') = Len(events) + 1
            /\ events'[Len(events) + 1] =
                  [parent |-> NULL, type |-> "supervisor", boot |-> boot', task |-> task']
  BY <1>1, <1>2, Logged
<1>4. LoggedId # 0
  <2>1. Len(events') = Len(events) + 1
    BY <1>1 DEF Insert, TypeOK
  <2> QED
    BY <1>3, <2>1
<1>5. TypeOK'
  BY <1>1, <1>3, <1>4 DEF TypeOK, Row
<1>6. NoStaleScope'
  <2>1. Fits(NULL, "supervisor", boot', task')
    BY DEF Fits
  <2> QED
    BY <1>1, <1>2, <2>1, FittingRow
<1>7. IdsInv'
  <2>1. \A t \in Scopes : ids[t] # 0 => events'[ids[t]] = events[ids[t]]
    BY <1>1, <1>3 DEF TypeOK
  <2>2. \A t \in Scopes : ids'[t] # 0 => events'[ids'[t]].type = Opens(t)
    BY <1>1, <2>1 DEF IdsInv
  <2>3. \A j \in sup'+1..Len(events') : events'[j].type # "supervisor"
    BY <1>1, <1>3, <1>4
  <2> QED
    BY <1>1, <2>2, <2>3 DEF IdsInv
<1> QED
  BY <1>5, <1>6, <1>7 DEF IInv

Alive == {"booting", "loop", "task", "turn", "answered", "tool"}

\* RowLogged for the rows of the worker.
LEMMA WorkerLogged ==
    ASSUME IInv, NEW from \in Alive, NEW to \in Alive \ {"booting"},
           NEW STATE parent, parent \in 0..Len(events), NEW type \in Types \ {"supervisor"},
           WorkerLogs(from, to, parent, type), Fits(parent, type, boot', task'), task' \in Nat,
           NEW s \in Scopes,
           ids' = ids \/ (type = Opens(s) /\ ids' = [ids EXCEPT ![s] = LoggedId])
    PROVE  /\ worker = from /\ worker' = to /\ TypeOK' /\ NoStaleScope'
           /\ \A j \in sup'+1..Len(events') : events'[j].type # "supervisor"
           /\ \A t \in Scopes : ids'[t] # 0 => events'[ids'[t]].type = Opens(t)
           /\ \A t \in Scopes : Own(t) /\ (t = "worker" \/ task' = task) => Own(t)'
           /\ ids'[s] = LoggedId => Own(s)'
<1>1. /\ worker = from /\ worker' = to /\ LogEvent(parent, type)
      /\ spc' = spc /\ sup' = sup /\ boot' = boot
  BY DEF WorkerLogs
<1>2. /\ spc # "down" /\ spc' \in {"loop", "spawned", "wait"}
      /\ spc' # "loop"
      /\ worker' \in {"dead", "booting", "loop", "task", "turn", "answered", "tool"}
  BY <1>1 DEF IInv, TypeOK, Alive
<1>3. parent \in 0..Len(events) \cup {NULL}
  OBVIOUS
<1> QED
  BY <1>1, <1>2, <1>3, RowLogged

\* What the worker remembers is a parent its rows may have.
LEMMA OwnFits ==
    ASSUME IInv, NEW s \in Scopes, Own(s), NEW type \in Types \ {"supervisor"},
           ScopeOf(type) = Opens(s), boot' = boot, s = "worker" \/ task' = task
    PROVE  ids[s] \in 0..Len(events) /\ Fits(ids[s], type, boot', task')
<1>1. ids[s] \in 0..Len(events) /\ (ids[s] # 0 => events[ids[s]].type = Opens(s))
  BY DEF IInv, TypeOK, IdsInv
<1>2. Opens(s) # "supervisor" /\ (Opens(s) \notin {"supervisor", "worker"} => s # "worker")
  BY DEF Opens, Scopes
<1> QED
  BY <1>1, <1>2 DEF Fits, Own

\* A worker that boots opens its scope under the supervisor that spawned it.
LEMMA WorkerBootsStep == ASSUME IInv, WorkerBoots PROVE IInv'
<1>1. /\ WorkerLogs("booting", "loop", sup, "worker") /\ task' = task
      /\ ids' = [ids EXCEPT !["worker"] = LoggedId] /\ TypeOK /\ IdsInv
  BY DEF WorkerBoots, IInv
<1>2. /\ sup \in 0..Len(events) /\ events[sup].type = "supervisor"
      /\ \A j \in sup+1..Len(events) : events[j].type # "supervisor"
      /\ task' \in Nat /\ ids'["worker"] = LoggedId
  BY <1>1 DEF WorkerLogs, TypeOK, IdsInv, Scopes
<1>3. ScopeOf("worker") = "supervisor" /\ Opens("worker") = "worker"
      /\ "worker" \in Types \ {"supervisor"} /\ "worker" \in Scopes
      /\ "booting" \in Alive /\ "loop" \in Alive \ {"booting"}
  BY Scoping DEF Opens, Types, Scopes, Alive
<1>4. Fits(sup, "worker", boot', task')
  BY <1>2, <1>3 DEF Fits
<1>5. /\ worker' = "loop" /\ TypeOK' /\ NoStaleScope' /\ Own("worker")'
      /\ \A j \in sup'+1..Len(events') : events'[j].type # "supervisor"
      /\ \A t \in Scopes : ids'[t] # 0 => events'[ids'[t]].type = Opens(t)
  BY <1>1, <1>2, <1>3, <1>4, WorkerLogged
<1> QED
  BY <1>5 DEF IInv, IdsInv

\* A row whose id the worker remembers opens a scope.
LEMMA NamedRow ==
    ASSUME IInv, NEW from \in Alive, NEW to \in Alive \ {"booting"},
           NEW p \in Scopes, Own(p), p = "worker" \/ task' = task, task' \in Nat,
           NEW type \in Types \ {"supervisor"}, ScopeOf(type) = Opens(p),
           WorkerLogs(from, to, ids[p], type),
           NEW s \in Scopes, type = Opens(s), ids' = [ids EXCEPT ![s] = LoggedId]
    PROVE  /\ worker' = to /\ TypeOK' /\ NoStaleScope' /\ Own(s)'
           /\ \A j \in sup'+1..Len(events') : events'[j].type # "supervisor"
           /\ \A t \in Scopes : ids'[t] # 0 => events'[ids'[t]].type = Opens(t)
           /\ \A t \in Scopes : Own(t) /\ (t = "worker" \/ task' = task) => Own(t)'
<1>1. boot' = boot /\ ids'[s] = LoggedId
  BY DEF WorkerLogs, IInv, TypeOK
<1>2. ids[p] \in 0..Len(events) /\ Fits(ids[p], type, boot', task')
  BY <1>1, OwnFits
<1> QED
  BY <1>1, <1>2, WorkerLogged

\* Claiming a task opens the agent scope, or leaves the agent without one.
LEMMA AgentStartsStep == ASSUME IInv, AgentStarts PROVE IInv'
<1>1. /\ WorkerLogs("loop", "task", ids["worker"], "agent.started") /\ task' = task + 1
      /\ ids' = [ids EXCEPT !["agent"] = LoggedId] /\ TypeOK /\ IdsInv
  BY DEF AgentStarts, IInv
<1>2. task' \in Nat /\ Own("worker")
  BY <1>1 DEF WorkerLogs, TypeOK, IdsInv
<1>3. ScopeOf("agent.started") = Opens("worker") /\ Opens("agent") = "agent.started"
      /\ "agent.started" \in Types \ {"supervisor"} /\ "worker" \in Scopes /\ "agent" \in Scopes
      /\ "loop" \in Alive /\ "task" \in Alive \ {"booting"}
  BY Scoping DEF WorkerTypes, Opens, Types, Scopes, Alive
<1>4. /\ worker' = "task" /\ TypeOK' /\ NoStaleScope' /\ Own("agent")'
      /\ \A j \in sup'+1..Len(events') : events'[j].type # "supervisor"
      /\ \A t \in Scopes : ids'[t] # 0 => events'[ids'[t]].type = Opens(t)
      /\ \A t \in Scopes : Own(t) /\ (t = "worker" \/ task' = task) => Own(t)'
  BY <1>1, <1>2, <1>3, NamedRow
<1>5. Own("worker")'
  BY <1>2, <1>3, <1>4
<1> QED
  BY <1>4, <1>5 DEF IInv, IdsInv

\* Rows whose id is not remembered.
LEMMA UnnamedRowStep ==
    ASSUME IInv, NEW from \in Alive \ {"booting"}, NEW to \in Alive \ {"booting"},
           NEW s \in Scopes, NEW type \in Types \ {"supervisor"}, ScopeOf(type) = Opens(s),
           Own(s), WorkerLogs(from, to, ids[s], type), UNCHANGED <<ids, task>>,
           to \in {"turn", "answered"} => from \in {"turn", "answered", "tool"},
           to = "task" => from \in {"task", "turn", "answered", "tool"}, to # "tool"
    PROVE  IInv'
<1>1. TypeOK /\ IdsInv /\ boot' = boot /\ task' = task /\ task' \in Nat /\ ids' = ids
  BY DEF IInv, TypeOK, WorkerLogs
<1>2. ids[s] \in 0..Len(events) /\ Fits(ids[s], type, boot', task')
  BY <1>1, OwnFits
<1>3. /\ worker = from /\ worker' = to /\ TypeOK' /\ NoStaleScope'
      /\ \A j \in sup'+1..Len(events') : events'[j].type # "supervisor"
      /\ \A t \in Scopes : ids'[t] # 0 => events'[ids'[t]].type = Opens(t)
      /\ \A t \in Scopes : Own(t) => Own(t)'
  BY <1>1, <1>2, WorkerLogged DEF Alive
<1>4. IdsInv'
  BY <1>1, <1>3 DEF IdsInv, Scopes, Alive
<1> QED
  BY <1>3, <1>4 DEF IInv

\* The steps that log an event whose id nobody keeps preserve the invariant.
LEMMA UnnamedSteps ==
    ASSUME IInv, WorkerNotes \/ AgentNotes \/ LaterTurnStarts \/ TurnCompletes \/ ToolEnds
                    \/ AgentEnds
    PROVE  IInv'
<1>1. IdsInv
  BY DEF IInv
<1>2. /\ {"worker.note", "agent.ended"} \subseteq WorkerTypes
      /\ {"agent.note", "turn.started", "turn.completed"} \subseteq AgentTypes
      /\ WorkerTypes \cup AgentTypes \cup {"tool_call.ended"} \subseteq Types \ {"supervisor"}
  BY DEF WorkerTypes, AgentTypes, Types
<1>3. {"loop", "task", "turn", "answered", "tool"} = Alive \ {"booting"}
      /\ Scopes = {"worker", "agent", "turn", "tool"}
  BY DEF Alive, Scopes
<1>4. CASE WorkerNotes
  <2>1. WorkerLogs("loop", "loop", ids["worker"], "worker.note") /\ UNCHANGED <<ids, task>>
    BY <1>4 DEF WorkerNotes
  <2>2. Own("worker")
    BY <1>1, <2>1 DEF WorkerLogs, IdsInv
  <2>3. ScopeOf("worker.note") = Opens("worker")
    BY <1>2, Scoping
  <2> QED
    BY <1>2, <1>3, <2>1, <2>2, <2>3, UnnamedRowStep
<1>5. CASE AgentNotes
  <2>1. PICK pc \in {"task", "turn", "answered"} :
          WorkerLogs(pc, pc, ids["agent"], "agent.note") /\ UNCHANGED <<ids, task>>
    BY <1>5 DEF AgentNotes
  <2>2. Own("agent")
    BY <1>1, <2>1 DEF WorkerLogs, IdsInv
  <2>3. ScopeOf("agent.note") = Opens("agent")
    BY <1>2, Scoping
  <2> QED
    BY <1>2, <1>3, <2>1, <2>2, <2>3, UnnamedRowStep
<1>6. CASE LaterTurnStarts
  <2>1. WorkerLogs("answered", "turn", ids["agent"], "turn.started") /\ UNCHANGED <<ids, task>>
    BY <1>6 DEF LaterTurnStarts
  <2>2. Own("agent")
    BY <1>1, <2>1 DEF WorkerLogs, IdsInv
  <2>3. ScopeOf("turn.started") = Opens("agent")
    BY <1>2, Scoping
  <2> QED
    BY <1>2, <1>3, <2>1, <2>2, <2>3, UnnamedRowStep
<1>7. CASE TurnCompletes
  <2>1. WorkerLogs("turn", "answered", ids["agent"], "turn.completed") /\ UNCHANGED <<ids, task>>
    BY <1>7 DEF TurnCompletes
  <2>2. Own("agent")
    BY <1>1, <2>1 DEF WorkerLogs, IdsInv
  <2>3. ScopeOf("turn.completed") = Opens("agent")
    BY <1>2, Scoping
  <2> QED
    BY <1>2, <1>3, <2>1, <2>2, <2>3, UnnamedRowStep
<1>8. CASE ToolEnds
  <2>1. WorkerLogs("tool", "answered", ids["tool"], "tool_call.ended") /\ UNCHANGED <<ids, task>>
    BY <1>8 DEF ToolEnds
  <2>2. Own("tool")
    BY <1>1, <2>1 DEF WorkerLogs, IdsInv
  <2> QED
    BY <1>2, <1>3, <2>1, <2>2, Scoping, UnnamedRowStep
<1>9. CASE AgentEnds
  <2>1. PICK pc \in {"task", "turn", "answered"} :
          WorkerLogs(pc, "loop", ids["worker"], "agent.ended") /\ UNCHANGED <<ids, task>>
    BY <1>9 DEF AgentEnds
  <2>2. Own("worker")
    BY <1>1, <2>1 DEF WorkerLogs, IdsInv
  <2>3. ScopeOf("agent.ended") = Opens("worker")
    BY <1>2, Scoping
  <2> QED
    BY <1>2, <1>3, <2>1, <2>2, <2>3, UnnamedRowStep
<1> QED
  BY <1>4, <1>5, <1>6, <1>7, <1>8, <1>9

\* The first turn opens the turn scope under the agent of this task.
LEMMA FirstTurnStartsStep == ASSUME IInv, FirstTurnStarts PROVE IInv'
<1>1. /\ WorkerLogs("task", "turn", ids["agent"], "turn.started") /\ task' = task
      /\ ids' = [ids EXCEPT !["turn"] = LoggedId] /\ TypeOK /\ IdsInv
  BY DEF FirstTurnStarts, IInv
<1>2. task' \in Nat /\ Own("worker") /\ Own("agent")
  BY <1>1 DEF WorkerLogs, TypeOK, IdsInv
<1>3. ScopeOf("turn.started") = Opens("agent") /\ Opens("turn") = "turn.started"
      /\ "turn.started" \in Types \ {"supervisor"}
      /\ "worker" \in Scopes /\ "agent" \in Scopes /\ "turn" \in Scopes
      /\ "task" \in Alive /\ "turn" \in Alive \ {"booting"}
  BY Scoping DEF AgentTypes, Opens, Types, Scopes, Alive
<1>4. /\ worker' = "turn" /\ TypeOK' /\ NoStaleScope' /\ Own("turn")'
      /\ \A j \in sup'+1..Len(events') : events'[j].type # "supervisor"
      /\ \A t \in Scopes : ids'[t] # 0 => events'[ids'[t]].type = Opens(t)
      /\ \A t \in Scopes : Own(t) /\ (t = "worker" \/ task' = task) => Own(t)'
  BY <1>1, <1>2, <1>3, NamedRow
<1>5. Own("worker")' /\ Own("agent")'
  BY <1>1, <1>2, <1>3, <1>4
<1> QED
  BY <1>4, <1>5 DEF IInv, IdsInv

\* A tool call opens the tool scope under the current turn.
LEMMA ToolStartsStep == ASSUME IInv, ToolStarts PROVE IInv'
<1>1. /\ WorkerLogs("answered", "tool", ids["turn"], "tool_call.started") /\ task' = task
      /\ ids' = [ids EXCEPT !["tool"] = LoggedId] /\ TypeOK /\ IdsInv
  BY DEF ToolStarts, IInv
<1>2. task' \in Nat /\ Own("worker") /\ Own("agent") /\ Own("turn")
  BY <1>1 DEF WorkerLogs, TypeOK, IdsInv
<1>3. ScopeOf("tool_call.started") = Opens("turn") /\ Opens("tool") = "tool_call.started"
      /\ "tool_call.started" \in Types \ {"supervisor"}
      /\ "worker" \in Scopes /\ "agent" \in Scopes /\ "turn" \in Scopes /\ "tool" \in Scopes
      /\ "answered" \in Alive /\ "tool" \in Alive \ {"booting"}
  BY Scoping DEF Opens, Types, Scopes, Alive
<1>4. /\ worker' = "tool" /\ TypeOK' /\ NoStaleScope' /\ Own("tool")'
      /\ \A j \in sup'+1..Len(events') : events'[j].type # "supervisor"
      /\ \A t \in Scopes : ids'[t] # 0 => events'[ids'[t]].type = Opens(t)
      /\ \A t \in Scopes : Own(t) /\ (t = "worker" \/ task' = task) => Own(t)'
  BY <1>1, <1>2, <1>3, NamedRow
<1>5. Own("worker")' /\ Own("agent")' /\ Own("turn")'
  BY <1>1, <1>2, <1>3, <1>4
<1> QED
  BY <1>4, <1>5 DEF IInv, IdsInv

\* Every step of the two processes keeps the invariant.
LEMMA NextStep == ASSUME IInv, [Next]_vars PROVE IInv'
<1>1. CASE UNCHANGED vars
  BY <1>1 DEF vars, IInv, TypeOK, IdsInv, Own, NoStaleScope
<1>2. CASE Next
  BY <1>2, SilentStep, SupervisorStep, SupervisorStartStep, WorkerBootsStep, AgentStartsStep,
     UnnamedSteps, FirstTurnStartsStep, ToolStartsStep DEF Next
<1> QED
  BY <1>1, <1>2

\* The inductive invariant of the log: the table, and what the processes remember of it.
THEOREM LogInvariance == Spec => []IInv
<1>1. Init => IInv
  BY InitInv
<1>2. IInv /\ [Next]_vars => IInv'
  BY NextStep
<1> QED
  BY <1>1, <1>2, PTL DEF Spec

\* LogEvent's callers put every event under the latest supervisor, the worker, task,
\* turn or call it belongs to, or under nothing, however many inserts fail and wherever
\* the processes die.
THEOREM ScopesSafe == Spec => []NoStaleScope
<1>1. IInv => NoStaleScope
  BY DEF IInv
<1> QED
  BY <1>1, LogInvariance, PTL

\* The table and the ids of supervisor and worker keep their types.
THEOREM LogTypeCorrect == Spec => []TypeOK
<1>1. IInv => TypeOK
  BY DEF IInv
<1> QED
  BY <1>1, LogInvariance, PTL

==============================================================================
