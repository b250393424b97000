--------------------------- MODULE EventTreeProofs ---------------------------
(***************************************************************************)
(* event-tree shows the whole tree of the latest supervisor, and prints it *)
(* as it is, as lines and as JSON, for any log and any depth limit.        *)
(***************************************************************************)
EXTENDS EventTree, EventLogProofs, FiniteSetTheorems, SequenceTheorems

(***************************************************************************)
(* Induction over the natural numbers, as a statement about a set: a       *)
(* number that is missing takes all below it with it, and k |-> k - 1 maps *)
(* the missing ones up to n into a smaller set.                            *)
(***************************************************************************)
LEMMA Induction ==
    ASSUME NEW P, 0 \in P, \A n \in Nat : n \in P => n + 1 \in P
    PROVE  \A n \in Nat : n \in P
<1> SUFFICES ASSUME NEW n \in Nat, n \notin P PROVE FALSE
  OBVIOUS
<1> DEFINE T == {k \in 0..n : k \notin P}
           down == [k \in T |-> k - 1]
<1>1. \A k \in T : k \in Nat /\ k - 1 \in T
  OBVIOUS
<1>2. n \in T /\ down \in [T -> T \ {n}]
  BY <1>1
<1>3. \A j, k \in T : j # k => down[j] # down[k]
  BY <1>1
<1>4. IsFiniteSet(T) /\ Cardinality(T) \in Nat
  <2>1. IsFiniteSet(0..n)
    BY FS_Interval
  <2> QED BY <2>1, FS_Subset, FS_CardinalityType
<1>5. IsFiniteSet(T \ {n}) /\ Cardinality(T \ {n}) < Cardinality(T)
  <2> HIDE DEF T
  <2>1. Cardinality(T \ {n}) = Cardinality(T) - 1 /\ IsFiniteSet(T \ {n})
    BY <1>2, <1>4, FS_RemoveElement
  <2> QED BY <1>4, <2>1
<1> HIDE DEF T, down
<1>6. PICK j \in T, k \in T : j # k /\ down[j] = down[k]
  BY ONLY <1>2, <1>4, <1>5, FS_PigeonHole
<1> QED BY <1>3, <1>6

\* A set of numbers with a bound has a last element.
LEMMA LastOf ==
    ASSUME NEW m \in Nat, NEW S \in SUBSET (0..m), S # {}
    PROVE  \E u \in S : \A v \in S : v <= u
<1> DEFINE P == {n \in Nat : \A T \in SUBSET (0..n) : T # {} => \E u \in T : \A v \in T : v <= u}
<1>1. 0 \in P
  <2> SUFFICES ASSUME NEW T \in SUBSET (0..0), T # {} PROVE \E u \in T : \A v \in T : v <= u
    OBVIOUS
  <2>1. PICK u \in T : TRUE
    OBVIOUS
  <2>2. \A v \in T : v <= u
    OBVIOUS
  <2> QED BY <2>2
<1>2. ASSUME NEW n \in Nat, n \in P PROVE n + 1 \in P
  <2> SUFFICES ASSUME NEW T \in SUBSET (0..(n+1)), T # {}
               PROVE  \E u \in T : \A v \in T : v <= u
    OBVIOUS
  <2>1. CASE n + 1 \in T
    BY <2>1
  <2>2. CASE n + 1 \notin T
    <3>1. T \in SUBSET (0..n)
      BY <2>2
    <3> QED BY <1>2, <3>1
  <2> QED BY <2>1, <2>2
<1> HIDE DEF P
<1>3. m \in P
  BY <1>1, <1>2, Induction
<1> QED BY <1>3 DEF P

(***************************************************************************)
(* The log: a worker is younger than the supervisor it runs under.         *)
(***************************************************************************)
OfWorker(i) == events[i].type \notin SupervisorTypes \cup {"supervisor"}

\* No worker outlives its supervisor, so that no row of a worker has the boot of a
\* row from before the start of its supervisor; such starts, and only they, have no
\* parent.
BootInv ==
    /\ \A i \in DOMAIN events :
          events[i].boot <= boot /\ (events[i].parent = NULL <=> events[i].type = "supervisor")
    /\ worker # "dead" => \A i \in 1..sup-1 : events[i].boot < boot
    /\ \A i, s, j \in DOMAIN events :
          i < s /\ s < j /\ events[s].type = "supervisor" /\ OfWorker(j)
             => events[i].boot < events[j].boot

TreeInv == IInv /\ BootInv

\* What one LogEvent preserves.
LEMMA BootLogged ==
    ASSUME TreeInv, boot' = boot, task' \in Nat,
           NEW STATE parent, parent \in 0..Len(events) \cup {NULL}, NEW type \in Types,
           LogEvent(parent, type),
           parent = NULL <=> type = "supervisor",
           type \notin SupervisorTypes \cup {"supervisor"} => worker # "dead",
           worker' # "dead" => worker # "dead" /\ sup' = sup
    PROVE  BootInv'
<1> DEFINE n == Len(events)
           r == [parent |-> parent, type |-> type, boot |-> boot', task |-> task']
<1>1. TypeOK /\ IdsInv /\ BootInv /\ n \in Nat /\ boot \in Nat /\ boot' \in Nat
      /\ events \in Seq(Row) /\ DOMAIN events = 1..n
  BY DEF TreeInv, IInv, TypeOK, Row
<1>2. /\ events' \in Seq(Row) /\ \A i \in 1..n : events'[i] = events[i]
      /\ events' = events \/ (Len(events') = n + 1 /\ events'[n + 1] = r)
  BY <1>1, Logged
<1>3. /\ \A i \in 1..n : events[i].boot \in Nat /\ events[i].boot <= boot
      /\ \A i \in 1..n : events[i].parent = NULL <=> events[i].type = "supervisor"
  <2>1. \A i \in 1..n : events[i] \in Row
    BY <1>1
  <2> QED BY <1>1, <2>1 DEF BootInv, Row
<1>4. CASE events' = events
  <2>1. \A j \in 1..n : OfWorker(j)' <=> OfWorker(j)
    BY <1>4 DEF OfWorker
  <2> QED BY <1>1, <1>4, <2>1 DEF BootInv
<1>5. CASE Len(events') = n + 1 /\ events'[n + 1] = r
  <2>1. DOMAIN events' = 1..n+1 /\ \A i \in 1..n+1 : i \in 1..n \/ i = n + 1
    BY <1>1, <1>2, <1>5
  <2>2. \A j \in 1..n : OfWorker(j)' <=> OfWorker(j)
    BY <1>2 DEF OfWorker
  <2>3. ASSUME NEW j \in {n + 1}, OfWorker(j)' PROVE worker # "dead"
    BY <1>5, <2>3 DEF OfWorker
  <2>4. ASSUME NEW i \in DOMAIN events'
        PROVE  events'[i].boot <= boot'
               /\ (events'[i].parent = NULL <=> events'[i].type = "supervisor")
    BY <1>1, <1>2, <1>3, <1>5, <2>1, <2>4
  <2>5. worker # "dead" => /\ sup \in 1..n
                           /\ \A s \in sup+1..n : events[s].type # "supervisor"
                           /\ \A i \in 1..sup-1 : events[i].boot < boot
    BY <1>1 DEF TypeOK, IdsInv, BootInv
  <2>6. worker' # "dead" => \A i \in 1..sup'-1 : events'[i].boot < boot'
    BY <1>1, <1>2, <2>5
  <2>7. ASSUME NEW i \in DOMAIN events', NEW s \in DOMAIN events', NEW j \in DOMAIN events',
               i < s, s < j, events'[s].type = "supervisor", OfWorker(j)'
        PROVE  events'[i].boot < events'[j].boot
    <3>1. i \in 1..n /\ s \in 1..n /\ events'[i] = events[i] /\ events'[s] = events[s]
      BY <1>1, <1>2, <2>1, <2>7
    <3>2. CASE j \in 1..n
      BY <1>1, <1>2, <2>2, <2>7, <3>1, <3>2 DEF BootInv
    <3>3. CASE j = n + 1
      <4>1. worker # "dead"
        BY <2>3, <2>7, <3>3
      <4>2. s <= sup
        BY <1>1, <2>5, <2>7, <3>1, <4>1
      <4>3. i \in 1..sup-1
        BY <1>1, <2>5, <2>7, <3>1, <4>1, <4>2
      <4>4. events[i].boot < boot /\ events'[j].boot = boot
        BY <1>5, <2>5, <3>3, <4>1, <4>3
      <4> QED BY <3>1, <4>4
    <3> QED BY <2>1, <3>2, <3>3
  <2> QED BY <2>4, <2>6, <2>7 DEF BootInv
<1> QED BY <1>2, <1>4, <1>5

\* The steps that log nothing; a worker that is spawned is younger than every row.
LEMMA BootSilent ==
    ASSUME TreeInv, events' = events, boot' \in Nat, boot <= boot',
           worker' # "dead" => sup' = sup /\ (boot < boot' \/ (worker # "dead" /\ boot' = boot))
    PROVE  BootInv'
<1> DEFINE n == Len(events)
<1>1. BootInv /\ n \in Nat /\ boot \in Nat /\ DOMAIN events = 1..n /\ sup \in 0..n
  BY DEF TreeInv, IInv, TypeOK
<1>2. \A i \in 1..n : events[i].boot \in Nat
  <2>1. events \in Seq(Row)
    BY DEF TreeInv, IInv, TypeOK, Row
  <2>2. \A i \in 1..n : events[i] \in Row
    BY <2>1
  <2> QED BY <2>2 DEF Row
<1>3. \A j \in 1..n : OfWorker(j)' <=> OfWorker(j)
  BY DEF OfWorker
<1>4. \A i \in 1..n : events[i].boot <= boot'
  BY <1>1, <1>2 DEF BootInv
<1>5. worker' # "dead" => \A i \in 1..sup'-1 : events'[i].boot < boot'
  BY <1>1, <1>2 DEF BootInv
<1> QED BY <1>1, <1>3, <1>4, <1>5 DEF BootInv

\* Every step of the two processes keeps it.
LEMMA BootStep == ASSUME TreeInv, [Next]_vars PROVE BootInv'
<1>1. TypeOK /\ IdsInv /\ boot \in Nat /\ task \in Nat /\ sup \in 0..Len(events)
      /\ Len(events) \in Nat /\ NULL \notin Nat /\ ids \in [Scopes -> 0..Len(events)]
  BY EventLogAssumption DEF TreeInv, IInv, TypeOK
<1>2. CASE UNCHANGED vars
  BY <1>1, <1>2, BootSilent DEF vars
<1>3. CASE SupervisorGivesUp \/ SpawnWorker \/ SupervisorDies \/ WorkerDies
  <2>1. events' = events /\ boot' \in Nat /\ boot <= boot'
    BY <1>1, <1>3 DEF SupervisorGivesUp, SpawnWorker, SupervisorDies, WorkerDies, vars
  <2>2. worker' # "dead" => sup' = sup /\ (boot < boot' \/ (worker # "dead" /\ boot' = boot))
    BY <1>1, <1>3 DEF SupervisorGivesUp, SpawnWorker, SupervisorDies, WorkerDies, vars
  <2> QED BY <2>1, <2>2, BootSilent
<1>4. CASE SupervisorStarts
  <2>1. LogEvent(NULL, "supervisor") /\ worker' = "dead" /\ boot' = boot /\ task' \in Nat
    BY <1>1, <1>4 DEF SupervisorStarts, LogEvent, TypeOK
  <2>2. "supervisor" \in Types
    BY DEF Types
  <2> QED BY <2>1, <2>2, BootLogged
<1>5. CASE SupervisorNotes \/ LogSpawned \/ LogExited
  <2>1. PICK type \in SupervisorTypes :
            LogEvent(sup, type) /\ UNCHANGED <<sup, worker, boot, task>>
    BY <1>5 DEF SupervisorNotes, LogSpawned, LogExited, SupervisorTypes
  <2>2. type \in Types /\ task' \in Nat /\ sup # NULL
    BY <1>1, <2>1 DEF Types
  <2>3. type # "supervisor"
    BY <2>1 DEF SupervisorTypes
  <2> QED BY <1>1, <2>1, <2>2, <2>3, BootLogged
<1>6. CASE \/ WorkerBoots \/ WorkerNotes \/ AgentStarts \/ AgentNotes \/ FirstTurnStarts
           \/ LaterTurnStarts \/ TurnCompletes \/ ToolStarts \/ ToolEnds \/ AgentEnds
  <2>1. PICK type \in Types \ {"supervisor"}, parent \in {sup} \cup {ids[s] : s \in Scopes},
             pc \in {"booting", "loop", "task", "turn", "answered", "tool"},
             pc2 \in {"booting", "loop", "task", "turn", "answered", "tool"} :
            WorkerLogs(pc, pc2, parent, type)
    BY <1>6 DEF WorkerBoots, WorkerNotes, AgentStarts, AgentNotes, FirstTurnStarts,
                LaterTurnStarts, TurnCompletes, ToolStarts, ToolEnds, AgentEnds,
                Types, WorkerTypes, AgentTypes, Scopes
  <2>2. parent \in 0..Len(events) /\ parent # NULL
    BY <1>1, <2>1
  <2>3. task' \in Nat
    BY <1>1, <1>6 DEF WorkerBoots, WorkerNotes, AgentStarts, AgentNotes, FirstTurnStarts,
                      LaterTurnStarts, TurnCompletes, ToolStarts, ToolEnds, AgentEnds
  <2>4. worker # "dead" /\ worker' # "dead" /\ sup' = sup /\ boot' = boot
        /\ LogEvent(parent, type)
    BY <2>1 DEF WorkerLogs
  <2> QED BY <2>1, <2>2, <2>3, <2>4, BootLogged
<1> QED BY <1>2, <1>3, <1>4, <1>5, <1>6 DEF Next

\* The invariant of the log, with the ages of its workers.
THEOREM TreeInvariance == Spec => []TreeInv
<1>1. Init => TreeInv
  BY InitInv DEF Init, TreeInv, BootInv
<1>2. TreeInv /\ [Next]_vars => TreeInv'
  BY NextStep, BootStep DEF TreeInv
<1> QED BY <1>1, <1>2, PTL DEF Spec

(***************************************************************************)
(* The tree.                                                               *)
(***************************************************************************)
\* The root is the last start of a supervisor.
LEMMA RootIs ==
    ASSUME TreeInv, Roots # {}
    PROVE  /\ Len(events) \in Nat /\ DOMAIN events = 1..Len(events)
           /\ latestSupervisorRoot \in 1..Len(events)
           /\ events[latestSupervisorRoot].type = "supervisor"
           /\ \A j \in latestSupervisorRoot+1..Len(events) : events[j].type # "supervisor"
<1>1. Len(events) \in Nat /\ DOMAIN events = 1..Len(events)
  BY DEF TreeInv, IInv, TypeOK
<1>2. Roots \in SUBSET (0..Len(events)) /\ Roots \in SUBSET (1..Len(events))
  BY <1>1 DEF Roots
<1>3. \E u \in Roots : \A v \in Roots : v <= u
  BY <1>1, <1>2, LastOf
<1>4. /\ latestSupervisorRoot \in Roots
      /\ \A j \in Roots : j <= latestSupervisorRoot
  BY <1>3 DEF latestSupervisorRoot
<1>5. ASSUME NEW j \in latestSupervisorRoot+1..Len(events) PROVE events[j].type # "supervisor"
  <2>1. j \in DOMAIN events /\ ~(j <= latestSupervisorRoot)
    BY <1>1, <1>2, <1>4
  <2> QED BY <1>4, <2>1 DEF Roots
<1> QED BY <1>1, <1>2, <1>4, <1>5 DEF Roots

\* A row after it is under an earlier row of the tree's range, or under nothing; a
\* row before it is not under one of that range.
LEMMA ParentIs ==
    ASSUME TreeInv, Roots # {}, NEW i \in 1..Len(events)
    PROVE  /\ events[i].parent \in Nat \cup {NULL}
           /\ events[i].parent \in Nat => events[i].parent < i
           /\ i = latestSupervisorRoot => events[i].parent \notin 1..Len(events)
           /\ latestSupervisorRoot < i /\ events[i].parent # 0
                => events[i].parent \in latestSupervisorRoot..i-1
<1> DEFINE root == latestSupervisorRoot
           p == events[i].parent
<1>1. /\ Len(events) \in Nat /\ DOMAIN events = 1..Len(events) /\ root \in 1..Len(events)
      /\ events[root].type = "supervisor"
      /\ \A j \in root+1..Len(events) : events[j].type # "supervisor"
      /\ NULL \notin Nat
  BY RootIs, EventLogAssumption
<1>2. p \in Nat \cup {NULL} /\ \A j \in 1..Len(events) : events[j].boot \in Nat
  <2>1. events \in Seq(Row)
    BY DEF TreeInv, IInv, TypeOK, Row
  <2>2. \A j \in 1..Len(events) : events[j] \in Row
    BY <2>1
  <2>3. \A j \in 1..Len(events) : events[j].boot \in Nat
    BY <2>2 DEF Row
  <2>4. p \in 0..MaxEvents \cup {NULL} /\ MaxEvents \in Nat
    BY <2>2, EventLogAssumption DEF Row
  <2> QED BY <2>3, <2>4
<1>3. p \notin {0, NULL} =>
          /\ p < i /\ events[p].type = ScopeOf(events[i].type)
          /\ events[p].type = "supervisor" =>
                \A j \in p+1..i : events[j].type # "supervisor"
          /\ events[p].type # "supervisor" => events[p].boot = events[i].boot
  BY <1>1 DEF TreeInv, IInv, NoStaleScope
<1>4. p = NULL <=> events[i].type = "supervisor"
  BY <1>1 DEF TreeInv, BootInv
<1>5. p \in Nat => p < i
  BY <1>1, <1>2, <1>3
<1>6. ASSUME root = i PROVE p \notin 1..Len(events)
  BY <1>1, <1>4, <1>6
<1>7. ASSUME root < i, p # 0 PROVE p \in root..i-1
  <2>1. p \in Nat /\ p \notin {0, NULL} /\ p \in 1..Len(events) /\ p < i
    BY <1>1, <1>2, <1>4, <1>5, <1>7
  <2>2. CASE events[p].type = "supervisor"
    BY <1>1, <1>3, <1>7, <2>1, <2>2
  <2>3. CASE events[p].type # "supervisor"
    <3>1. events[p].boot = events[i].boot /\ ScopeOf(events[i].type) # "supervisor"
      BY <1>3, <2>1, <2>3
    <3>2. OfWorker(i)
      <4>1. events[i].type # "supervisor"
        BY <1>1, <1>7
      <4>2. events[i].type \notin SupervisorTypes
        BY <3>1, Scoping
      <4> QED BY <4>1, <4>2 DEF OfWorker
    <3>3. ~(p < root)
      BY <1>1, <1>2, <1>7, <2>1, <3>1, <3>2 DEF TreeInv, BootInv
    <3> QED BY <1>1, <2>1, <3>3
  <2> QED BY <2>2, <2>3
<1> QED BY <1>2, <1>5, <1>6, <1>7

(***************************************************************************)
(* The recursive query.                                                    *)
(***************************************************************************)
\* The rows of one more level.
Below(above) == above \cup UNION {Children(i) : i \in above}

AreLevels(r, root) ==
    r = [n \in 0..Len(events) |-> IF n = 0 THEN {root} ELSE Below(r[n - 1])]

\* The recursion is well defined: its levels exist.
LEMMA Levels ==
    ASSUME Len(events) \in Nat, NEW STATE root
    PROVE  \E r : AreLevels(r, root)
<1> DEFINE P == {n \in Nat : \E r : r = [k \in 0..n |->
                                            IF k = 0 THEN {root} ELSE Below(r[k - 1])]}
<1>1. 0 \in P
  <2> DEFINE r == [k \in 0..0 |-> {root}]
  <2>1. r = [k \in 0..0 |-> IF k = 0 THEN {root} ELSE Below(r[k - 1])]
    OBVIOUS
  <2> QED BY <2>1
<1>2. ASSUME NEW n \in Nat, n \in P PROVE n + 1 \in P
  <2>1. PICK r : r = [k \in 0..n |-> IF k = 0 THEN {root} ELSE Below(r[k - 1])]
    BY <1>2
  <2> DEFINE s == [k \in 0..(n + 1) |-> IF k = n + 1 THEN Below(r[n]) ELSE r[k]]
  <2>2. \A k \in 0..n : k \in 0..(n + 1) /\ k # n + 1
    OBVIOUS
  <2>3. \A k \in 0..n : s[k] = r[k]
    BY <2>2
  <2>4. \A k \in 0..n : r[k] = IF k = 0 THEN {root} ELSE Below(r[k - 1])
    BY <2>1, Zenon
  <2>5. s[n + 1] = Below(r[n]) /\ s = [k \in 0..(n + 1) |-> s[k]]
    OBVIOUS
  <2> HIDE DEF s
  <2>6. \A k \in 0..(n + 1) : s[k] = IF k = 0 THEN {root} ELSE Below(s[k - 1])
    <3> TAKE k \in 0..(n + 1)
    <3>1. CASE k = n + 1
      <4>1. k - 1 = n /\ k # 0 /\ n \in 0..n
        BY <3>1
      <4> QED BY <2>3, <2>5, <3>1, <4>1
    <3>2. CASE k # n + 1
      <4>1. k \in 0..n /\ (k # 0 => k - 1 \in 0..n)
        BY <3>2
      <4> QED BY <2>3, <2>4, <4>1
    <3> QED BY <3>1, <3>2
  <2>7. s = [k \in 0..(n + 1) |-> IF k = 0 THEN {root} ELSE Below(s[k - 1])]
    BY <2>5, <2>6
  <2> QED BY <2>7
<1> HIDE DEF P
<1>3. Len(events) \in P
  BY <1>1, <1>2, Induction
<1> QED BY <1>3, Zenon DEF P, AreLevels

\* What the query returns is the last of its levels.
LEMMA Query ==
    ASSUME TreeInv, Roots # {}
    PROVE  \E r : /\ r[0] = {latestSupervisorRoot} /\ Shown = r[Len(events)]
                  /\ \A n \in 1..Len(events) : \A i :
                        i \in r[n] <=> \/ i \in r[n - 1]
                                       \/ i \in 1..Len(events) /\ events[i].parent \in r[n - 1]
<1> DEFINE N == Len(events)
<1>1. N \in Nat /\ DOMAIN events = 1..N
  BY RootIs
<1>2. \E r : AreLevels(r, latestSupervisorRoot)
  BY <1>1, Levels
<1>2a. PICK r : /\ AreLevels(r, latestSupervisorRoot)
                /\ querySubtree(latestSupervisorRoot) = r[Len(events)]
  BY <1>2, Zenon DEF querySubtree, AreLevels, Below
<1>3. \A n \in 0..N : r[n] = IF n = 0 THEN {latestSupervisorRoot} ELSE Below(r[n - 1])
  BY <1>2a, Zenon DEF AreLevels
<1>4. ASSUME NEW n \in 1..N, NEW i
      PROVE  i \in r[n] <=> i \in r[n - 1] \/ (i \in 1..N /\ events[i].parent \in r[n - 1])
  <2>1. r[n] = Below(r[n - 1])
    BY <1>1, <1>3
  <2> QED BY <1>1, <2>1 DEF Below, Children
<1>5. r[0] = {latestSupervisorRoot}
  BY <1>1, <1>3
<1> QED BY <1>2a, <1>4, <1>5 DEF Shown

\* What is shown is the root and everything under it: it comes after the root, each
\* row with its parent and with all its children.
LEMMA ShownIs ==
    ASSUME TreeInv, Roots # {}
    PROVE  /\ latestSupervisorRoot \in Shown
           /\ Shown \in SUBSET (latestSupervisorRoot..Len(events))
           /\ \A i \in Shown \ {latestSupervisorRoot} : events[i].parent \in Shown
           /\ \A i \in 1..Len(events) : events[i].parent \in Shown => i \in Shown
<1> DEFINE N == Len(events)
           root == latestSupervisorRoot
<1>1. N \in Nat /\ root \in 1..N
  BY RootIs
<1>2. PICK r : /\ r[0] = {root} /\ Shown = r[N]
               /\ \A n \in 1..N : \A i :
                     i \in r[n] <=> i \in r[n - 1] \/ (i \in 1..N /\ events[i].parent \in r[n - 1])
  BY Query
<1>3. \A n \in Nat : n < N => \A i :
          i \in r[n + 1] <=> i \in r[n] \/ (i \in 1..N /\ events[i].parent \in r[n])
  <2> SUFFICES ASSUME NEW n \in Nat, n < N
               PROVE  \A i : i \in r[n + 1] <=> i \in r[n] \/ (i \in 1..N /\ events[i].parent \in r[n])
    OBVIOUS
  <2>1. n + 1 \in 1..N /\ (n + 1) - 1 = n
    BY <1>1
  <2> QED BY <1>2, <2>1
\* The levels grow, and a row is in the level of its distance from the root.
<1>4. \A n \in Nat : n <= N => \A m \in 0..n : r[m] \subseteq r[n]
  <2> DEFINE P == {n \in Nat : n <= N => \A m \in 0..n : r[m] \subseteq r[n]}
  <2>1. 0 \in P
    OBVIOUS
  <2>2. ASSUME NEW n \in Nat, n \in P PROVE n + 1 \in P
    <3> SUFFICES ASSUME n + 1 <= N, NEW m \in 0..(n + 1) PROVE r[m] \subseteq r[n + 1]
      OBVIOUS
    <3>1. n < N /\ n <= N /\ (m = n + 1 \/ m \in 0..n)
      BY <1>1
    <3>2. r[n] \subseteq r[n + 1]
      BY <1>3, <3>1
    <3> QED BY <2>2, <3>1, <3>2
  <2> HIDE DEF P
  <2>3. \A n \in Nat : n \in P
    BY <2>1, <2>2, Induction
  <2> QED BY <2>3 DEF P
<1>5. \A n \in Nat : n <= N => \A i \in r[n] :
          /\ i \in root..N /\ i \in r[i - root]
          /\ i # root => \E k \in 0..n : events[i].parent \in r[k]
  <2> DEFINE P == {n \in Nat : n <= N => \A i \in r[n] :
                      /\ i \in root..N /\ i \in r[i - root]
                      /\ i # root => \E k \in 0..n : events[i].parent \in r[k]}
  <2>1. 0 \in P
    <3>1. root - root = 0 /\ root \in root..N
      BY <1>1
    <3> QED BY <1>2, <3>1
  <2>2. ASSUME NEW n \in Nat, n \in P PROVE n + 1 \in P
    <3> SUFFICES ASSUME n + 1 <= N, NEW i \in r[n + 1]
                 PROVE  /\ i \in root..N /\ i \in r[i - root]
                        /\ i # root => \E k \in 0..(n + 1) : events[i].parent \in r[k]
      OBVIOUS
    <3>1. n < N /\ n <= N /\ n \in 0..(n + 1)
      BY <1>1
    <3>2. CASE i \in r[n]
      <4>1. \A k \in 0..n : k \in 0..(n + 1)
        OBVIOUS
      <4> QED BY <2>2, <3>1, <3>2, <4>1
    <3>3. CASE i \notin r[n]
      <4> DEFINE p == events[i].parent
      <4>1. i \in 1..N /\ p \in r[n]
        BY <1>3, <3>1, <3>3
      <4>2. p \in root..N /\ p \in r[p - root]
        BY <2>2, <3>1, <4>1
      <4>3. p < i
        BY <1>1, <4>1, <4>2, ParentIs
      <4>4. i \in root..N /\ p - root \in Nat /\ p - root < N /\ i - root \in Nat
            /\ i - root <= N /\ p - root + 1 \in 0..(i - root)
        BY <1>1, <4>1, <4>2, <4>3
      <4>5. i \in r[p - root + 1]
        BY <1>3, <4>1, <4>2, <4>4
      <4>6. i \in r[i - root]
        BY <1>4, <4>4, <4>5
      <4> QED BY <3>1, <4>1, <4>4, <4>6
    <3> QED BY <3>2, <3>3
  <2> HIDE DEF P
  <2>3. \A n \in Nat : n \in P
    BY <2>1, <2>2, Induction
  <2> QED BY <2>3 DEF P
<1>6. \A n \in 0..N : r[n] \subseteq Shown
  BY <1>1, <1>2, <1>4
<1>7. root \in Shown
  BY <1>1, <1>2, <1>6
<1>8. Shown \in SUBSET (root..N)
  BY <1>1, <1>2, <1>5
<1>9. ASSUME NEW i \in Shown \ {root} PROVE events[i].parent \in Shown
  <2>1. N <= N /\ i \in r[N] /\ i # root
    BY <1>1, <1>2
  <2>2. \E k \in 0..N : events[i].parent \in r[k]
    BY <1>1, <1>5, <2>1
  <2> QED BY <1>6, <2>2
<1>10. ASSUME NEW i \in 1..N, events[i].parent \in Shown PROVE i \in Shown
  <2> DEFINE p == events[i].parent
  <2>1. p \in root..N /\ p \in r[p - root]
    BY <1>1, <1>2, <1>5, <1>10
  <2>2. p < i
    BY <1>1, <2>1, ParentIs
  <2>3. p - root \in Nat /\ p - root < N /\ p - root + 1 \in 0..N
    BY <1>1, <2>1, <2>2
  <2>4. i \in r[p - root + 1]
    BY <1>3, <2>1, <2>3
  <2> QED BY <1>6, <2>3, <2>4
<1> QED BY <1>7, <1>8, <1>9, <1>10

\* event-tree shows everything logged since the supervisor started, unless a row has
\* lost its parent to a failed insert.
THEOREM TreeSafe == Spec => []TreeIsWhole
<1>1. ASSUME TreeInv PROVE TreeIsWhole
  <2> DEFINE N == Len(events)
             root == latestSupervisorRoot
  <2> SUFFICES ASSUME Roots # {}, \A i \in root..N : events[i].parent # 0
               PROVE  Shown = root..N
    BY DEF TreeIsWhole
  <2>1. N \in Nat /\ root \in 1..N /\ root \in Shown /\ Shown \in SUBSET (root..N)
        /\ \A i \in 1..N : events[i].parent \in Shown => i \in Shown
    BY <1>1, RootIs, ShownIs
  <2> DEFINE P == {n \in Nat : \A i \in root..N : i <= root + n => i \in Shown}
  <2>2. 0 \in P
    BY <2>1
  <2>3. ASSUME NEW n \in Nat, n \in P PROVE n + 1 \in P
    <3> SUFFICES ASSUME NEW i \in root..N, i <= root + (n + 1) PROVE i \in Shown
      OBVIOUS
    <3>1. CASE i <= root + n
      BY <2>3, <3>1
    <3>2. CASE ~(i <= root + n)
      <4>1. i \in 1..N /\ root < i /\ i = root + n + 1 /\ events[i].parent # 0
        BY <2>1, <3>2
      <4>2. events[i].parent \in root..i-1
        BY <1>1, <4>1, ParentIs
      <4>3. events[i].parent \in root..N /\ events[i].parent <= root + n
        BY <2>1, <4>1, <4>2
      <4>4. events[i].parent \in Shown
        BY <2>3, <4>3
      <4> QED BY <2>1, <4>1, <4>4
    <3> QED BY <3>1, <3>2
  <2> HIDE DEF P
  <2>4. \A n \in Nat : n \in P
    BY <2>2, <2>3, Induction
  <2>5. ASSUME NEW i \in root..N PROVE i \in Shown
    <3>1. i - root \in Nat /\ i <= root + (i - root)
      BY <2>1
    <3>2. i - root \in P
      BY <2>4, <3>1
    <3> QED BY <3>1, <3>2 DEF P
  <2> QED BY <2>1, <2>5
<1> QED BY <1>1, TreeInvariance, PTL

(***************************************************************************)
(* The order of siblings and of lines.                                     *)
(***************************************************************************)
\* InOrder lists a finite set of numbers by size.
LEMMA Ordered ==
    ASSUME NEW N \in Nat, NEW S \in SUBSET (1..N)
    PROVE  /\ Cardinality(S) \in Nat /\ InOrder(S) \in [1..Cardinality(S) -> S]
           /\ \A j, k \in 1..Cardinality(S) : j < k => InOrder(S)[j] < InOrder(S)[k]
           /\ \A i \in S : \E k \in 1..Cardinality(S) : InOrder(S)[k] = i
<1> DEFINE c == Cardinality(S)
           rank(i) == Cardinality({j \in S : j < i})
<1>0. \A i \in S : i \in Int
  OBVIOUS
<1>1. IsFiniteSet(S) /\ c \in Nat
  <2>1. IsFiniteSet(1..N)
    BY FS_Interval
  <2> QED BY <2>1, FS_Subset, FS_CardinalityType
<1>2. \A i \in S : rank(i) \in 0..c-1
  <2> TAKE i \in S
  <2>1. {j \in S : j < i} \in SUBSET S /\ {j \in S : j < i} # S
    BY <1>0
  <2>2. /\ IsFiniteSet({j \in S : j < i}) /\ rank(i) <= c
        /\ c = rank(i) => S = {j \in S : j < i}
    BY <1>1, <2>1, FS_Subset
  <2>3. rank(i) \in Nat
    BY <2>2, FS_CardinalityType
  <2> QED BY <1>1, <2>1, <2>2, <2>3
<1>3. \A i, j \in S : i < j => rank(i) < rank(j)
  <2> TAKE i, j \in S
  <2> HAVE i < j
  <2> DEFINE A == {h \in S : h < i}
             B == {h \in S : h < j}
  <2>0. \A h \in S : h < i => h < j
    BY <1>0
  <2>1. A \subseteq B /\ i \in B /\ i \notin A /\ B \subseteq S
    <3>1. ~(i < i)
      BY <1>0
    <3> QED BY <2>0, <3>1
  <2>2. IsFiniteSet(B)
    BY <1>1, <2>1, FS_Subset
  <2>3. Cardinality(A) <= Cardinality(B) /\ (Cardinality(B) = Cardinality(A) => B = A)
    BY <2>1, <2>2, FS_Subset
  <2>4. Cardinality(A) \in Nat /\ Cardinality(B) \in Nat
    BY <1>2 
  <2> QED BY <2>1, <2>3, <2>4
<1> HIDE DEF rank
<1>4. ASSUME NEW k \in 0..c-1 PROVE \E i \in S : rank(i) = k
  <2> SUFFICES ASSUME \A i \in S : rank(i) # k PROVE FALSE
    OBVIOUS
  <2> DEFINE T == (0..c-1) \ {k}
             f == [i \in S |-> rank(i)]
  <2>1. f \in [S -> T]
    BY <1>2
  <2>2. IsFiniteSet(0..c-1) /\ Cardinality(0..c-1) = c
    BY <1>1, FS_Interval
  <2>3. IsFiniteSet(T) /\ Cardinality(T) = c - 1
    BY <2>2, FS_RemoveElement
  <2>4. \A i, j \in S : i # j => f[i] # f[j]
    <3>1. \A i, j \in S : i # j => i < j \/ j < i
      BY <1>0
    <3> QED BY <1>2, <1>3, <3>1
  <2>5. c - 1 < c
    BY <1>1
  <2> HIDE DEF T, f
  <2>6. \E i, j \in S : i # j /\ f[i] = f[j]
    BY ONLY <1>1, <2>1, <2>3, <2>5, FS_PigeonHole
  <2> QED BY <2>4, <2>6
<1> DEFINE s == InOrder(S)
           nth(k) == CHOOSE i \in S : rank(i) = k - 1
<1>5. s = [k \in 1..c |-> nth(k)]
  BY Zenon DEF InOrder, rank
<1>6. \A k \in 1..c : s[k] \in S /\ rank(s[k]) = k - 1
  <2> TAKE k \in 1..c
  <2>1. k - 1 \in 0..c-1
    BY <1>1
  <2>2. \E i \in S : rank(i) = k - 1
    BY <1>4, <2>1
  <2>3. nth(k) \in S /\ rank(nth(k)) = k - 1
    BY <2>2
  <2> HIDE DEF s, nth
  <2> QED BY <1>5, <2>3
<1> HIDE DEF s, nth
<1>7. ASSUME NEW j \in 1..c, NEW k \in 1..c, j < k PROVE s[j] < s[k]
  <2>1. s[j] \in S /\ s[k] \in S /\ rank(s[j]) = j - 1 /\ rank(s[k]) = k - 1
    BY <1>6
  <2>2. s[j] \in Int /\ s[k] \in Int
    BY <2>1, <1>0
  <2>3. ~(s[k] < s[j]) /\ s[j] # s[k]
    <3>1. s[k] < s[j] => rank(s[k]) < rank(s[j])
      BY <1>3, <2>1
    <3> QED BY <1>1, <1>7, <2>1, <3>1
  <2> QED BY <2>2, <2>3
<1>8. ASSUME NEW i \in S PROVE \E k \in 1..c : s[k] = i
  <2>1. rank(i) + 1 \in 1..c /\ rank(i) \in Int
    BY <1>1, <1>2
  <2>2. s[rank(i) + 1] \in S /\ rank(s[rank(i) + 1]) = rank(i)
    BY <1>6, <2>1
  <2>3. ~(s[rank(i) + 1] < i) /\ ~(i < s[rank(i) + 1])
    <3>1. /\ s[rank(i) + 1] < i => rank(s[rank(i) + 1]) < rank(i)
          /\ i < s[rank(i) + 1] => rank(i) < rank(s[rank(i) + 1])
      BY <1>3, <2>2
    <3> QED BY <2>1, <2>2, <3>1
  <2>4. s[rank(i) + 1] \in Int /\ i \in Int
    BY <2>2, <1>0
  <2> QED BY <2>1, <2>3, <2>4
<1>9. s \in [1..c -> S]
  BY <1>5, <1>6
<1> QED BY <1>1, <1>7, <1>8, <1>9 DEF s

\* F[k] is made of the first k sequences.
Flattens(F, n, seqs) ==
    /\ F[0] = <<>> /\ F[n] = FlattenSeq(seqs)
    /\ \A k \in 1..n : F[k] = F[k - 1] \o seqs[k]

\* Flattening appends the sequences one by one.
LEMMA FlattenIs ==
    ASSUME NEW X, NEW n \in Nat, NEW seqs \in [1..n -> Seq(X)]
    PROVE  \E F : Flattens(F, n, seqs)
<1>1. seqs \in Seq(Seq(X)) /\ Len(seqs) = n
  OBVIOUS
<1> DEFINE Step(f, i) == IF i = 1 THEN seqs[i] ELSE f[i - 1] \o seqs[i]
           P == {m \in Nat : \E f : f = [i \in 1..m |-> Step(f, i)]}
<1>2. 0 \in P
  <2> DEFINE f == [i \in 1..0 |-> {}]
  <2>1. f = [i \in 1..0 |-> Step(f, i)]
    OBVIOUS
  <2> QED BY <2>1
<1>3. ASSUME NEW m \in Nat, m \in P PROVE m + 1 \in P
  <2>1. PICK f : f = [i \in 1..m |-> Step(f, i)]
    BY <1>3
  <2> DEFINE g == [i \in 1..(m + 1) |-> IF i = m + 1 THEN Step(f, m + 1) ELSE f[i]]
  <2>2. \A i \in 1..m : i \in 1..(m + 1) /\ i # m + 1
    OBVIOUS
  <2>3. \A i \in 1..m : g[i] = f[i]
    BY <2>2
  <2>4. \A i \in 1..m : f[i] = Step(f, i)
    BY <2>1, Zenon
  <2>5. g[m + 1] = Step(f, m + 1) /\ g = [i \in 1..(m + 1) |-> g[i]]
    OBVIOUS
  <2> HIDE DEF g
  <2>6. \A i \in 1..(m + 1) : g[i] = Step(g, i)
    <3> TAKE i \in 1..(m + 1)
    <3>1. i # 1 => i - 1 \in 1..m
      OBVIOUS
    <3>2. Step(g, i) = Step(f, i)
      BY <2>3, <3>1
    <3>3. i = m + 1 \/ i \in 1..m
      OBVIOUS
    <3> QED BY <2>3, <2>4, <2>5, <3>2, <3>3
  <2>7. g = [i \in 1..(m + 1) |-> Step(g, i)]
    BY <2>5, <2>6
  <2>8. \E f1 : f1 = [i \in 1..(m + 1) |-> Step(f1, i)]
    BY <2>7, Zenon
  <2>9. m + 1 \in Nat
    OBVIOUS
  <2> QED BY <2>8, <2>9, Zenon
<1> HIDE DEF P
<1>4. n \in P
  BY <1>2, <1>3, Induction
<1>5. CASE n = 0
  <2> DEFINE F == [k \in 0..0 |-> <<>>]
  <2>1. seqs = <<>> /\ FlattenSeq(seqs) = seqs
    BY <1>1, <1>5 DEF FlattenSeq
  <2>2. F[0] = <<>> /\ F[n] = FlattenSeq(seqs) /\ 1..n = {}
    BY <1>5, <2>1
  <2>3. Flattens(F, n, seqs)
    BY <2>2 DEF Flattens
  <2> QED BY <2>3
<1>6. CASE n # 0
  <2>1. \E f : f = [i \in 1..Len(seqs) |-> IF i = 1 THEN seqs[i] ELSE f[i - 1] \o seqs[i]]
    BY <1>1, <1>4, Zenon DEF P
  <2>2. PICK f : /\ f = [i \in 1..Len(seqs) |-> IF i = 1 THEN seqs[i] ELSE f[i - 1] \o seqs[i]]
                 /\ FlattenSeq(seqs) = f[Len(seqs)]
    BY <1>1, <1>6, <2>1, Zenon DEF FlattenSeq
  <2>3. \A k \in 1..n : f[k] = IF k = 1 THEN seqs[k] ELSE f[k - 1] \o seqs[k]
    BY <1>1, <2>2, Zenon
  <2> DEFINE F == [k \in 0..n |-> IF k = 0 THEN <<>> ELSE f[k]]
  <2>4. F[0] = <<>> /\ F[n] = FlattenSeq(seqs)
    BY <1>1, <1>6, <2>2
  <2>5. ASSUME NEW k \in 1..n PROVE F[k] = F[k - 1] \o seqs[k]
    <3>1. F[k] = f[k] /\ k - 1 \in 0..n /\ F[k - 1] = IF k = 1 THEN <<>> ELSE f[k - 1]
      OBVIOUS
    <3>2. seqs[k] \in Seq(X)
      OBVIOUS
    <3>3. <<>> \o seqs[k] = seqs[k]
      BY <3>2, ConcatEmptySeq
    <3> HIDE DEF F
    <3> QED BY <2>3, <3>1, <3>3
  <2> HIDE DEF F
  <2>6. Flattens(F, n, seqs)
    BY <2>4, <2>5 DEF Flattens
  <2> QED BY <2>6
<1> QED BY <1>5, <1>6

(***************************************************************************)
(* What is printed for one event.                                          *)
(***************************************************************************)
Lines == [event : Shown, depth : Nat, more : BOOLEAN]

IsRow(x) == ~x.more

\* The event a line belongs under.
Owner(x) == IF x.more THEN x.event ELSE events[x.event].parent

\* Line m is the nearest line above line n with less indentation.
Over(l, m, n) ==
    /\ m \in 1..n-1 /\ l[m].depth < l[n].depth
    /\ \A k \in m+1..n-1 : l[n].depth <= l[k].depth

\* A line stands at the depth of its event, and no deeper than the limit; "[...]" at
\* one more, under an event at the limit.
AtItsDepth(x, L) ==
    /\ IsRow(x) => x.depth = Level[x.event] /\ (L = 0 \/ x.depth <= L)
    /\ ~IsRow(x) => /\ x.depth = L + 1 /\ Level[x.event] = L
                    /\ Children(x.event) # {}

Prints(l, c) == \E k \in 1..Len(l) : IsRow(l[k]) /\ l[k].event = c
Elides(l, i) == \E k \in 1..Len(l) : ~IsRow(l[k]) /\ l[k].event = i

\* Everything under the event of a line is printed, or left out with a "[...]".
Complete(l, x, L) ==
    IsRow(x) => /\ ~CutOff(x.depth, L) => \A c \in Children(x.event) : Prints(l, c)
                /\ CutOff(x.depth, L) /\ Children(x.event) # {} => Elides(l, x.event)

\* Rows m and n, of one depth, with nothing less deep between them.
Siblings(l, m, n) ==
    /\ m < n /\ IsRow(l[m]) /\ IsRow(l[n]) /\ l[m].depth = l[n].depth
    /\ \A k \in m+1..n-1 : l[n].depth <= l[k].depth

\* Lines that begin with the one of event i: all the others are deeper, each under the
\* line of its owner, siblings in order.
Block(l, i, L) ==
    /\ l \in Seq(Lines) /\ Len(l) >= 1 /\ l[1] = Line(i, Level[i])
    /\ \A n \in 2..Len(l) : Level[i] < l[n].depth
    /\ \A n \in 2..Len(l) : \E m \in 1..n-1 :
          Over(l, m, n) /\ IsRow(l[m]) /\ l[m].event = Owner(l[n])
    /\ \A m, n \in 1..Len(l) : Siblings(l, m, n) => l[m].event < l[n].event
    /\ \A n \in 1..Len(l) : AtItsDepth(l[n], L)

\* The lines of event i and of its children in done, and of all their descendants.
Begun(l, i, done, L) ==
    /\ Block(l, i, L)
    /\ \A n \in 2..Len(l) : Complete(l, l[n], L)
    /\ \A c \in done : Prints(l, c)
    /\ \A n \in 2..Len(l) :
          IsRow(l[n]) /\ l[n].depth = Level[i] + 1 => l[n].event \in done

Whole(l, i, L) == Block(l, i, L) /\ \A n \in 1..Len(l) : Complete(l, l[n], L)

\* What holds of the lines of an event stays when more lines are put around them.
LEMMA Around ==
    ASSUME NEW STATE l, NEW STATE p, NEW STATE x, NEW CONSTANT L,
           \A k \in 1..Len(l) : \E j \in 1..Len(p) : p[j] = l[k],
           Complete(l, x, L)
    PROVE  Complete(p, x, L)
<1>1. \A c : Prints(l, c) => Prints(p, c)
  BY DEF Prints
<1>2. \A c : Elides(l, c) => Elides(p, c)
  BY DEF Elides
<1> QED BY <1>1, <1>2 DEF Complete

\* The lines of one more child.
LEMMA OneMore ==
    ASSUME NEW STATE l, NEW STATE i, NEW STATE done, NEW CONSTANT L, NEW STATE b, NEW STATE c,
           Begun(l, i, done, L), Whole(b, c, L),
           Level[i] \in Nat, Level[c] = Level[i] + 1, events[c].parent = i,
           \A j \in done : j < c
    PROVE  Begun(l \o b, i, done \cup {c}, L)
<1> DEFINE p == l \o b
           a == Len(l)
           d == Level[i]
<1>1. l \in Seq(Lines) /\ b \in Seq(Lines) /\ a \in Nat /\ a >= 1 /\ Len(b) \in Nat /\ Len(b) >= 1
  BY LenProperties DEF Begun, Whole, Block
<1>2. /\ p \in Seq(Lines) /\ Len(p) = a + Len(b)
      /\ \A n \in 1..a : p[n] = l[n]
      /\ \A n \in 1..Len(b) : p[a + n] = b[n]
  <2>1. /\ p \in Seq(Lines) /\ Len(p) = a + Len(b)
        /\ \A n \in 1..a + Len(b) : p[n] = IF n <= a THEN l[n] ELSE b[n - a]
    BY <1>1, ConcatProperties
  <2> HIDE DEF p
  <2>2. ASSUME NEW n \in 1..Len(b) PROVE p[a + n] = b[n]
    <3>1. a + n \in 1..a + Len(b) /\ ~(a + n <= a) /\ (a + n) - a = n
      BY <1>1
    <3> QED BY <2>1, <3>1
  <2>3. \A n \in 1..a : n \in 1..a + Len(b) /\ n <= a
    BY <1>1
  <2>4. \A n \in 1..a : p[n] = l[n]
    BY <2>1, <2>3
  <2> QED BY <2>1, <2>2, <2>4
<1> HIDE DEF p, a
<1>3. \A n \in 1..Len(p) : n \in 1..a \/ (n - a \in 1..Len(b) /\ n = a + (n - a))
  BY <1>1, <1>2
<1>4. /\ \A n \in 1..a : l[n] \in Lines /\ l[n].depth \in Nat
      /\ \A n \in 1..Len(b) : b[n] \in Lines /\ b[n].depth \in Nat
  <2>1. \A n \in 1..a : l[n] \in Lines
    BY <1>1 DEF a
  <2>2. \A n \in 1..Len(b) : b[n] \in Lines
    BY <1>1
  <2> QED BY <2>1, <2>2 DEF Lines
<1>5. /\ l[1].event = i /\ l[1].depth = d /\ IsRow(l[1])
      /\ b[1].event = c /\ b[1].depth = d + 1 /\ IsRow(b[1])
  <2>1. l[1] = Line(i, d) /\ b[1] = Line(c, d + 1)
    BY DEF Begun, Whole, Block
  <2> QED BY <2>1 DEF Line, IsRow
<1>6. /\ \A n \in 2..a : d < l[n].depth
      /\ \A n \in 2..Len(b) : d + 1 < b[n].depth
  BY DEF Begun, Whole, Block, a
<1>7. p[1] = Line(i, d)
  BY <1>1, <1>2 DEF Begun, Block
<1>8. ASSUME NEW n \in 2..Len(p) PROVE d < p[n].depth
  <2>1. CASE n \in 1..a
    <3>1. n \in 2..a /\ p[n] = l[n]
      BY <1>1, <1>2, <2>1
    <3> QED BY <1>6, <3>1
  <2>2. CASE n \notin 1..a
    <3>1. n - a \in 1..Len(b) /\ p[n] = b[n - a]
      BY <1>1, <1>2, <1>3, <2>2
    <3>2. b[n - a].depth \in Nat /\ (n - a = 1 \/ n - a \in 2..Len(b))
      BY <1>1, <1>4, <3>1
    <3>3. d + 1 <= b[n - a].depth
      BY <1>5, <1>6, <3>2
    <3> QED BY <3>1, <3>2, <3>3
  <2> QED BY <2>1, <2>2
<1>9. ASSUME NEW n \in 2..Len(p)
      PROVE  \E m \in 1..n-1 : Over(p, m, n) /\ IsRow(p[m]) /\ p[m].event = Owner(p[n])
  <2>1. CASE n \in 1..a
    <3>1. PICK m \in 1..n-1 : Over(l, m, n) /\ IsRow(l[m]) /\ l[m].event = Owner(l[n])
      BY <1>1, <2>1 DEF Begun, Block, a
    <3>2. p[n] = l[n] /\ \A k \in 1..n-1 : p[k] = l[k]
      BY <1>1, <1>2, <2>1
    <3>3. Over(p, m, n)
      <4>1. /\ l[m].depth < l[n].depth
            /\ \A k \in m+1..n-1 : l[n].depth <= l[k].depth
        BY <3>1 DEF Over
      <4>2. n \in Int /\ m \in Int /\ 1 <= m
        OBVIOUS
      <4>3. \A k \in m+1..n-1 : k \in 1..n-1
        BY <4>2
      <4>4. p[m].depth < p[n].depth
        BY <3>2, <4>1
      <4>5. \A k \in m+1..n-1 : p[n].depth <= p[k].depth
        BY <3>2, <4>1, <4>3
      <4> QED BY <4>4, <4>5 DEF Over
    <3> QED BY <3>1, <3>2, <3>3
  <2>2. CASE n = a + 1
    <3>1. p[n] = b[1] /\ p[1] = l[1] /\ \A k \in 2..n-1 : p[k] = l[k] /\ k \in 2..a
      BY <1>1, <1>2, <2>2
    <3>2. Owner(p[n]) = i
      BY <1>5, <3>1 DEF Owner, IsRow
    <3>3. \A k \in 2..n-1 : d + 1 <= p[k].depth
      BY <1>1, <1>4, <1>6, <3>1
    <3>4. Over(p, 1, n) /\ 1 \in 1..n-1
      BY <1>1, <1>5, <2>2, <3>1, <3>3 DEF Over
    <3> QED BY <1>5, <3>1, <3>2, <3>4
  <2>3. CASE n \notin 1..a /\ n # a + 1
    <3>1. n - a \in 2..Len(b) /\ n = a + (n - a) /\ p[n] = b[n - a]
      BY <1>1, <1>2, <1>3, <2>3
    <3>2. PICK m \in 1..(n - a)-1 :
             Over(b, m, n - a) /\ IsRow(b[m]) /\ b[m].event = Owner(b[n - a])
      BY <3>1 DEF Whole, Block
    <3>3. m \in 1..Len(b) /\ p[a + m] = b[m] /\ a + m \in 1..n-1
      BY <1>1, <1>2, <3>1
    <3>4. ASSUME NEW k \in a+m+1..n-1 PROVE p[n].depth <= p[k].depth
      <4>1. k - a \in m+1..(n - a)-1 /\ k - a \in 1..Len(b) /\ a + (k - a) = k
        <5>1. m \in Int /\ 1 <= m /\ n \in Int /\ n - a <= Len(b)
          BY <1>1, <3>1, <3>2
        <5>2. k \in Int /\ a + m + 1 <= k /\ k <= n - 1
          BY <1>1, <5>1
        <5> QED BY <1>1, <5>1, <5>2
      <4>2. p[k] = b[k - a]
        BY <1>2, <4>1
      <4> QED BY <3>1, <3>2, <4>1, <4>2 DEF Over
    <3>5. Over(p, a + m, n)
      BY <3>1, <3>2, <3>3, <3>4 DEF Over
    <3> QED BY <3>1, <3>2, <3>3, <3>5
  <2> QED BY <2>1, <2>2, <2>3
<1>10. ASSUME NEW m \in 1..Len(p), NEW n \in 1..Len(p),
              m < n, IsRow(p[m]), IsRow(p[n]), p[m].depth = p[n].depth,
              \A k \in m+1..n-1 : p[n].depth <= p[k].depth
       PROVE  p[m].event < p[n].event
  <2>1. CASE n \in 1..a
    <3>1. m \in 1..a /\ \A k \in m+1..n-1 : k \in 1..a
      BY <1>1, <1>10, <2>1
    <3>2. p[n] = l[n] /\ p[m] = l[m] /\ \A k \in m+1..n-1 : p[k] = l[k]
      BY <1>2, <2>1, <3>1
    <3>3. Siblings(l, m, n)
      BY <1>10, <3>2 DEF Siblings
    <3> QED BY <2>1, <3>1, <3>2, <3>3 DEF Begun, Block, a
  <2>2. CASE m \notin 1..a
    <3>1. /\ n - a \in 1..Len(b) /\ n = a + (n - a) /\ m - a \in 1..Len(b) /\ m = a + (m - a)
          /\ m - a < n - a
      BY <1>1, <1>2, <1>3, <1>10, <2>2
    <3>2. p[n] = b[n - a] /\ p[m] = b[m - a]
      BY <1>2, <3>1
    <3>3. ASSUME NEW k \in (m - a)+1..(n - a)-1 PROVE b[n - a].depth <= b[k].depth
      <4>1. a + k \in m+1..n-1 /\ k \in 1..Len(b)
        BY <1>1, <3>1
      <4>2. p[a + k] = b[k]
        BY <1>2, <4>1
      <4> QED BY <1>10, <3>2, <4>1, <4>2
    <3>4. Siblings(b, m - a, n - a)
      BY <1>10, <3>1, <3>2, <3>3 DEF Siblings
    <3> QED BY <3>1, <3>2, <3>4 DEF Whole, Block
  <2>3. CASE m \in 1..a /\ n \notin 1..a
    <3>1. n - a \in 1..Len(b) /\ n = a + (n - a) /\ p[n] = b[n - a] /\ p[m] = l[m]
      BY <1>1, <1>2, <1>3, <2>3
    <3>2. n = a + 1
      <4> SUFFICES ASSUME n # a + 1 PROVE FALSE
        OBVIOUS
      <4>1. n - a \in 2..Len(b) /\ a + 1 \in m+1..n-1 /\ p[a + 1] = b[1]
        BY <1>1, <1>2, <2>3, <3>1
      <4>2. p[n].depth <= d + 1 /\ d + 1 < p[n].depth
        BY <1>5, <1>6, <1>10, <3>1, <4>1
      <4>3. p[n].depth \in Nat
        BY <1>4, <3>1
      <4> QED BY <4>2, <4>3
    <3>3. p[n] = b[1] /\ l[m].depth = d + 1
      BY <1>1, <1>5, <1>10, <3>1, <3>2
    <3>4. m \in 2..a
      BY <1>1, <1>5, <2>3, <3>3
    <3>5. l[m].event \in done
      BY <1>10, <3>1, <3>3, <3>4 DEF Begun, a
    <3> QED BY <1>5, <3>1, <3>3, <3>5
  <2> QED BY <2>1, <2>2, <2>3
<1>11. ASSUME NEW n \in 1..Len(p) PROVE AtItsDepth(p[n], L)
  <2>1. \A k \in 1..a : AtItsDepth(l[k], L)
    BY DEF Begun, Block, a
  <2>2. \A k \in 1..Len(b) : AtItsDepth(b[k], L)
    BY DEF Whole, Block
  <2> QED BY <1>2, <1>3, <2>1, <2>2
<1>12. Block(p, i, L)
  <2>1. p \in Seq(Lines) /\ Len(p) >= 1
    BY <1>1, <1>2
  <2>2. \A m, n \in 1..Len(p) : Siblings(p, m, n) => p[m].event < p[n].event
    BY <1>10 DEF Siblings
  <2> QED BY <1>7, <1>8, <1>9, <1>11, <2>1, <2>2 DEF Block
<1>13. ASSUME NEW n \in 2..Len(p) PROVE Complete(p, p[n], L)
  <2>1. CASE n \in 1..a
    <3>1. Complete(l, l[n], L) /\ p[n] = l[n]
      BY <1>1, <1>2, <2>1 DEF Begun, a
    <3>2. \A k \in 1..Len(l) : \E j \in 1..Len(p) : p[j] = l[k]
      BY <1>1, <1>2 DEF a
    <3> QED BY <3>1, <3>2, Around
  <2>2. CASE n \notin 1..a
    <3>1. n - a \in 1..Len(b) /\ p[n] = b[n - a]
      BY <1>1, <1>2, <1>3, <2>2
    <3>2. Complete(b, p[n], L)
      BY <3>1 DEF Whole
    <3>3. \A k \in 1..Len(b) : \E j \in 1..Len(p) : p[j] = b[k]
      <4>1. \A k \in 1..Len(b) : a + k \in 1..Len(p)
        BY <1>1, <1>2
      <4> QED BY <1>2, <4>1
    <3> QED BY <3>2, <3>3, Around
  <2> QED BY <2>1, <2>2
<1>14. ASSUME NEW e \in done \cup {c} PROVE Prints(p, e)
  <2>1. CASE e \in done
    <3>1. PICK k \in 1..a : IsRow(l[k]) /\ l[k].event = e
      BY <2>1 DEF Begun, Prints, a
    <3> QED BY <1>1, <1>2, <3>1 DEF Prints
  <2>2. CASE e = c
    <3>1. a + 1 \in 1..Len(p) /\ p[a + 1] = b[1]
      BY <1>1, <1>2
    <3> QED BY <1>5, <2>2, <3>1 DEF Prints
  <2> QED BY <2>1, <2>2
<1>15. ASSUME NEW n \in 2..Len(p), IsRow(p[n]), p[n].depth = d + 1
       PROVE  p[n].event \in done \cup {c}
  <2>1. CASE n \in 1..a
    <3>1. n \in 2..a /\ p[n] = l[n]
      BY <1>1, <1>2, <2>1
    <3> QED BY <1>15, <3>1 DEF Begun, a
  <2>2. CASE n \notin 1..a
    <3>1. n - a \in 1..Len(b) /\ p[n] = b[n - a]
      BY <1>1, <1>2, <1>3, <2>2
    <3>2. n - a = 1
      <4> SUFFICES ASSUME n - a # 1 PROVE FALSE
        OBVIOUS
      <4>1. n - a \in 2..Len(b)
        BY <1>1, <3>1
      <4>2. d + 1 < d + 1
        BY <1>6, <1>15, <3>1, <4>1
      <4> QED BY <4>2
    <3> QED BY <1>5, <3>1, <3>2
  <2> QED BY <2>1, <2>2
<1> QED BY <1>12, <1>13, <1>14, <1>15 DEF Begun, p

\* The levels exist, and count from the root.
LEMMA LevelIs ==
    ASSUME TreeInv, Roots # {}
    PROVE  /\ Level[latestSupervisorRoot] = 1
           /\ \A i \in Shown : Level[i] \in Nat \ {0}
           /\ \A i \in Shown \ {latestSupervisorRoot} :
                 Level[i] = Level[events[i].parent] + 1
<1> DEFINE N == Len(events)
           root == latestSupervisorRoot
           S(n) == {i \in Shown : i <= n}
           Step(f, i) == IF i = latestSupervisorRoot THEN 1 ELSE 1 + f[events[i].parent]
           P == {n \in Nat : \E f : f = [i \in S(n) |-> Step(f, i)]}
<1>1. /\ N \in Nat /\ root \in 1..N /\ root \in Shown
      /\ \A i \in Shown : i \in root..N /\ i \in Int
      /\ \A i \in Shown \ {root} : events[i].parent \in Shown
  BY RootIs, ShownIs
<1>2. ASSUME NEW i \in Shown \ {root}
      PROVE  events[i].parent \in Shown /\ events[i].parent < i
  <2>1. events[i].parent \in Shown /\ events[i].parent \in Nat /\ i \in 1..N
    BY <1>1
  <2> QED BY <2>1, ParentIs
<1>2a. \A i \in Shown : i \in Int /\ 1 <= i /\ i <= N
  BY <1>1
<1>2b. \A n \in Nat : \A i : i \in S(n) <=> i \in Shown /\ i <= n
  OBVIOUS
<1> HIDE DEF S
<1>3. 0 \in P
  <2>1. \A i : i \notin S(0)
    <3>1. 0 \in Nat /\ \A i \in Shown : ~(i <= 0)
      BY <1>2a
    <3> QED BY <1>2b, <3>1
  <2> DEFINE f == [i \in S(0) |-> 1]
  <2>2. f = [i \in S(0) |-> Step(f, i)]
    BY <2>1
  <2>4. \E f1 : f1 = [i \in S(0) |-> Step(f1, i)]
    BY <2>2, Zenon
  <2>5. 0 \in Nat
    OBVIOUS
  <2> QED BY <2>4, <2>5, Zenon
<1>4. ASSUME NEW n \in Nat, n \in P PROVE n + 1 \in P
  <2>1. PICK f : f = [i \in S(n) |-> Step(f, i)]
    BY <1>4
  <2> DEFINE g == [i \in S(n + 1) |-> IF i = n + 1 THEN Step(f, i) ELSE f[i]]
  <2>1a. n + 1 \in Nat
    OBVIOUS
  <2>2. \A i \in S(n + 1) : i \in Shown /\ (i = n + 1 \/ i \in S(n))
    BY <1>2a, <1>2b, <2>1a
  <2>3. \A i \in S(n) : i \in S(n + 1) /\ i # n + 1
    BY <1>2a, <1>2b, <2>1a
  <2>4. ASSUME NEW i \in S(n + 1), i # root PROVE events[i].parent \in S(n)
    <3>1. i \in Shown /\ i <= n + 1
      BY <1>2b, <2>1a
    <3>2. events[i].parent \in Shown /\ events[i].parent < i
      BY <1>2, <2>4, <3>1
    <3>3. events[i].parent <= n
      BY <1>2a, <3>1, <3>2
    <3> QED BY <1>2b, <3>2, <3>3
  <2>5. \A i \in S(n) : f[i] = Step(f, i)
    BY <2>1, Zenon
  <2>6. g = [i \in S(n + 1) |-> g[i]] /\ \A i \in S(n) : g[i] = f[i]
    BY <2>3
  <2>7. \A i \in S(n + 1) : i = n + 1 => g[i] = Step(f, i)
    OBVIOUS
  <2> HIDE DEF g
  <2>8. \A i \in S(n + 1) : Step(g, i) = Step(f, i)
    BY <2>4, <2>6
  <2>9. \A i \in S(n + 1) : g[i] = Step(g, i)
    BY <2>2, <2>5, <2>6, <2>7, <2>8
  <2>10. g = [i \in S(n + 1) |-> Step(g, i)]
    BY <2>6, <2>9
  <2>12. \E f1 : f1 = [i \in S(n + 1) |-> Step(f1, i)]
    BY <2>10, Zenon
  <2>13. n + 1 \in Nat
    OBVIOUS
  <2> QED BY <2>12, <2>13, Zenon
<1> HIDE DEF P
<1>5. N \in P
  BY <1>1, <1>3, <1>4, Induction
<1>6. S(N) = Shown
  <2>1. \A i : i \in S(N) <=> i \in Shown
    BY <1>1, <1>2a, <1>2b
  <2> QED BY <2>1
<1>7. \E f : f = [i \in Shown |-> IF i = latestSupervisorRoot THEN 1
                                 ELSE 1 + f[events[i].parent]]
  <2>1. \E f : f = [i \in S(N) |-> Step(f, i)]
    BY <1>5, Zenon DEF P
  <2> QED BY <1>6, <2>1, Zenon
<1>8. Level = [i \in Shown |-> IF i = latestSupervisorRoot THEN 1
                             ELSE 1 + Level[events[i].parent]]
  BY <1>7, Zenon DEF Level
<1>9. Level[root] = 1 /\ \A i \in Shown \ {root} : Level[i] = 1 + Level[events[i].parent]
  BY <1>1, <1>8, Zenon
<1> DEFINE Q == {n \in Nat : \A i \in S(n) : Level[i] \in Nat \ {0}}
<1>10. 0 \in Q
  <2>1. 0 \in Nat /\ \A i \in Shown : ~(i <= 0)
    BY <1>2a
  <2> QED BY <1>2b, <2>1
<1>11. ASSUME NEW n \in Nat, n \in Q PROVE n + 1 \in Q
  <2> SUFFICES ASSUME NEW i \in S(n + 1) PROVE Level[i] \in Nat \ {0}
    OBVIOUS
  <2>1. i \in Shown /\ (i = root \/ events[i].parent \in S(n))
    <3>1. n + 1 \in Nat /\ i \in Shown /\ i <= n + 1
      BY <1>2b
    <3>2. i # root => events[i].parent \in Shown /\ events[i].parent < i
      BY <1>2, <3>1
    <3>3. i # root => events[i].parent <= n
      BY <1>2a, <3>1, <3>2
    <3> QED BY <1>2b, <3>1, <3>2, <3>3
  <2>2. events[i].parent \in S(n) => Level[events[i].parent] \in Nat \ {0}
    BY <1>11
  <2> QED BY <1>9, <2>1, <2>2
<1> HIDE DEF Q
<1>12. N \in Q
  BY <1>1, <1>10, <1>11, Induction
<1>13. \A i \in Shown : Level[i] \in Nat \ {0}
  BY <1>6, <1>12 DEF Q
<1>14. ASSUME NEW i \in Shown \ {root} PROVE Level[i] = Level[events[i].parent] + 1
  <2>1. Level[i] = 1 + Level[events[i].parent] /\ Level[events[i].parent] \in Nat
    BY <1>2, <1>9, <1>13
  <2> QED BY <2>1
<1> QED BY <1>9, <1>13, <1>14

Tree == buildTree(Shown)

\* The tree has the children of every event that is shown, in order, one level below.
LEMMA TreeIs ==
    ASSUME TreeInv, Roots # {}, NEW i \in Shown
    PROVE  /\ DOMAIN Tree = Shown
           /\ Cardinality(Children(i)) \in Nat
           /\ Tree[i] \in [1..Cardinality(Children(i)) -> Children(i)]
           /\ \A j, k \in 1..Cardinality(Children(i)) : j < k => Tree[i][j] < Tree[i][k]
           /\ \A c \in Children(i) : \E k \in 1..Cardinality(Children(i)) : Tree[i][k] = c
           /\ \A c \in Children(i) : /\ c \in Shown /\ i < c /\ events[c].parent = i
                                     /\ Level[c] = Level[i] + 1
<1> DEFINE N == Len(events)
           root == latestSupervisorRoot
<1>1. /\ N \in Nat /\ DOMAIN events = 1..N /\ root \in 1..N
      /\ \A j \in Shown : j \in root..N
  BY RootIs, ShownIs
<1>2. ASSUME NEW c \in Children(i)
      PROVE  c \in 1..N /\ c \in Shown /\ i < c /\ events[c].parent = i
             /\ Level[c] = Level[i] + 1
  <2>1. c \in 1..N /\ events[c].parent = i /\ i \in 1..N
    BY <1>1 DEF Children
  <2>2. c \in Shown
    BY <2>1, ShownIs
  <2>3. i < c /\ c # root
    BY <1>1, <2>1, ParentIs
  <2> QED BY <2>1, <2>2, <2>3, LevelIs
<1>3. Children(i) \cap Shown = Children(i) /\ Children(i) \in SUBSET (1..N)
  BY <1>2
<1>4. DOMAIN Tree = Shown /\ Tree[i] = InOrder(Children(i))
  <2>1. DOMAIN Tree = Shown /\ Tree[i] = InOrder(Children(i) \cap Shown)
    BY DEF Tree, buildTree
  <2> QED BY <1>3, <2>1
<1> DEFINE C == Children(i)
           c0 == Cardinality(Children(i))
<1>5. /\ c0 \in Nat /\ InOrder(C) \in [1..c0 -> C]
      /\ \A j, k \in 1..c0 : j < k => InOrder(C)[j] < InOrder(C)[k]
      /\ \A e \in C : \E k \in 1..c0 : InOrder(C)[k] = e
  <2>1. C \in SUBSET (1..N)
    BY <1>3
  <2> HIDE DEF N, C
  <2> QED BY <1>1, <2>1, Ordered DEF C
<1> QED BY <1>2, <1>4, <1>5

\* The lines of the children, and the lines of an event from theirs.
Parts(f, tree, i, depth) == [k \in DOMAIN tree[i] |-> f[tree[i][k]][depth + 1]]

Body(f, tree, i, depth, maxDepth) ==
    <<Line(i, depth)>>
    \o IF ~CutOff(depth, maxDepth) THEN FlattenSeq(Parts(f, tree, i, depth))
       ELSE IF tree[i] # <<>> THEN <<Ellipsis(i, depth + 1)>>
       ELSE <<>>

\* The last n rows of the table, those of the tree.
LatestRows(n) == {i \in Shown : i > Len(events) - n}

\* Children come after their parent: with the last n rows done, row n + 1 from the end
\* can be.
LEMMA LastIs ==
    ASSUME TreeInv, Roots # {}
    PROVE  /\ Len(events) \in Nat /\ DOMAIN Tree = Shown
           /\ LatestRows(0) = {} /\ LatestRows(Len(events)) = Shown
           /\ \A n \in Nat :
                 /\ \A i \in LatestRows(n + 1) : i = Len(events) - n \/ i \in LatestRows(n)
                 /\ \A i \in LatestRows(n) : i \in LatestRows(n + 1) /\ i # Len(events) - n
                 /\ \A i \in LatestRows(n + 1) : \A k \in DOMAIN Tree[i] : Tree[i][k] \in LatestRows(n)
<1> DEFINE N == Len(events)
<1>1. N \in Nat /\ \A i \in Shown : i \in Int /\ 1 <= i /\ i <= N
  BY RootIs, ShownIs
<1>2. DOMAIN Tree = Shown
  BY TreeIs, ShownIs
<1>3. \A i \in Shown : \A k \in DOMAIN Tree[i] : Tree[i][k] \in Shown /\ i < Tree[i][k]
  <2> TAKE i \in Shown
  <2> TAKE k \in DOMAIN Tree[i]
  <2>1. Tree[i] \in [1..Cardinality(Children(i)) -> Children(i)]
        /\ \A c \in Children(i) : c \in Shown /\ i < c
    BY TreeIs
  <2> QED BY <2>1
<1>4. \A n \in Nat : \A i : i \in LatestRows(n) <=> i \in Shown /\ i > N - n
  BY DEF LatestRows
<1>5. LatestRows(0) = {}
  <2>1. 0 \in Nat /\ \A i \in Shown : ~(i > N - 0)
    BY <1>1
  <2> QED BY <1>4, <2>1
<1>6. LatestRows(N) = Shown
  <2>1. \A i \in Shown : i > N - N
    BY <1>1
  <2>2. \A i : i \in LatestRows(N) <=> i \in Shown
    BY <1>1, <1>4, <2>1
  <2> QED BY <2>2
<1>7. ASSUME NEW n \in Nat
      PROVE  /\ \A i \in LatestRows(n + 1) : i = N - n \/ i \in LatestRows(n)
             /\ \A i \in LatestRows(n) : i \in LatestRows(n + 1) /\ i # N - n
             /\ \A i \in LatestRows(n + 1) : \A k \in DOMAIN Tree[i] : Tree[i][k] \in LatestRows(n)
  <2>1. n + 1 \in Nat /\ N - (n + 1) \in Int /\ N - n \in Int
    BY <1>1
  <2>2. ASSUME NEW i \in LatestRows(n + 1) PROVE i \in Shown /\ i > N - (n + 1)
    BY <1>4, <2>1
  <2>3. ASSUME NEW i \in LatestRows(n + 1) PROVE i = N - n \/ i \in LatestRows(n)
    <3>1. i = N - n \/ i > N - n
      BY <1>1, <2>2
    <3> QED BY <1>4, <2>2, <3>1
  <2>4. ASSUME NEW i \in LatestRows(n) PROVE i \in LatestRows(n + 1) /\ i # N - n
    <3>1. i \in Shown /\ i > N - n
      BY <1>4
    <3>2. i > N - (n + 1) /\ i # N - n
      BY <1>1, <3>1
    <3> QED BY <1>4, <2>1, <3>1, <3>2
  <2>5. ASSUME NEW i \in LatestRows(n + 1), NEW k \in DOMAIN Tree[i] PROVE Tree[i][k] \in LatestRows(n)
    <3>1. i \in Shown /\ i > N - (n + 1)
      BY <2>2
    <3>2. Tree[i][k] \in Shown /\ i < Tree[i][k]
      BY <1>3, <3>1
    <3>3. Tree[i][k] > N - n
      BY <1>1, <3>1, <3>2
    <3> QED BY <1>4, <3>2, <3>3
  <2> QED BY <2>3, <2>4, <2>5
<1> QED BY <1>1, <1>2, <1>5, <1>6, <1>7

\* Printing is well defined, from the last row up.
LEMMA PrintIs ==
    ASSUME TreeInv, Roots # {}, NEW L
    PROVE  \A i \in Shown : \A d \in Nat :
              printTree(Tree, L)[i][d] = Body(printTree(Tree, L), Tree, i, d, L)
<1> DEFINE N == Len(events)
           Step(f, i) == [depth \in Nat |-> Body(f, Tree, i, depth, L)]
           P == {n \in Nat : \E f : f = [i \in LatestRows(n) |-> Step(f, i)]}
<1>1. N \in Nat /\ DOMAIN Tree = Shown /\ LatestRows(0) = {} /\ LatestRows(N) = Shown
  BY LastIs
<1>2. 0 \in P
  <2> DEFINE f == [i \in LatestRows(0) |-> 1]
  <2>1. f = [i \in LatestRows(0) |-> Step(f, i)]
    BY <1>1
  <2>2. \E f1 : f1 = [i \in LatestRows(0) |-> Step(f1, i)]
    BY <2>1, Zenon
  <2>3. 0 \in Nat
    OBVIOUS
  <2> QED BY <2>2, <2>3, Zenon
<1>3. ASSUME NEW n \in Nat, n \in P PROVE n + 1 \in P
  <2>1. PICK f : f = [i \in LatestRows(n) |-> Step(f, i)]
    BY <1>3
  <2> DEFINE g == [i \in LatestRows(n + 1) |-> IF i = N - n THEN Step(f, i) ELSE f[i]]
  <2>2. /\ \A i \in LatestRows(n + 1) : i = N - n \/ i \in LatestRows(n)
        /\ \A i \in LatestRows(n) : i \in LatestRows(n + 1) /\ i # N - n
        /\ \A i \in LatestRows(n + 1) : \A k \in DOMAIN Tree[i] : Tree[i][k] \in LatestRows(n)
    BY LastIs
  <2>3. \A i \in LatestRows(n) : f[i] = Step(f, i)
    BY <2>1, Zenon
  <2>4. g = [i \in LatestRows(n + 1) |-> g[i]] /\ \A i \in LatestRows(n) : g[i] = f[i]
    BY <2>2
  <2>5. \A i \in LatestRows(n + 1) : i = N - n => g[i] = Step(f, i)
    OBVIOUS
  <2> HIDE DEF g
  <2>6. ASSUME NEW i \in LatestRows(n + 1) PROVE Step(g, i) = Step(f, i)
    <3>1. \A depth \in Nat : Parts(g, Tree, i, depth) = Parts(f, Tree, i, depth)
      BY <2>2, <2>4 DEF Parts
    <3>2. \A depth \in Nat : Body(g, Tree, i, depth, L) = Body(f, Tree, i, depth, L)
      BY <3>1 DEF Body
    <3> QED BY <3>2
  <2>7. \A i \in LatestRows(n + 1) : g[i] = Step(g, i)
    <3> HIDE DEF Step
    <3> QED BY <2>2, <2>3, <2>4, <2>5, <2>6
  <2>8. g = [i \in LatestRows(n + 1) |-> Step(g, i)]
    <3> HIDE DEF Step
    <3> QED BY <2>4, <2>7
  <2>9. \E f1 : f1 = [i \in LatestRows(n + 1) |-> Step(f1, i)]
    BY <2>8, Zenon
  <2>10. n + 1 \in Nat
    OBVIOUS
  <2> QED BY <2>9, <2>10, Zenon
<1> HIDE DEF P
<1>4. N \in P
  BY <1>1, <1>2, <1>3, Induction
<1>5. \E f : f = [i \in DOMAIN Tree |-> [depth \in Nat |-> Body(f, Tree, i, depth, L)]]
  <2>1. \E f : f = [i \in LatestRows(N) |-> Step(f, i)]
    BY <1>4, Zenon DEF P
  <2>2. LatestRows(N) = DOMAIN Tree
    BY <1>1
  <2> QED BY <2>1, <2>2, Zenon
<1> DEFINE pr == printTree(Tree, L)
<1>6. pr = [i \in DOMAIN Tree |-> [depth \in Nat |-> Body(pr, Tree, i, depth, L)]]
  BY <1>5, Zenon DEF printTree, Body, Parts
<1> HIDE DEF pr
<1>7. \A i \in Shown : pr[i] = [depth \in Nat |-> Body(pr, Tree, i, depth, L)]
  BY <1>1, <1>6, Zenon
<1>8. ASSUME NEW i \in Shown, NEW d \in Nat PROVE pr[i][d] = Body(pr, Tree, i, d, L)
  <2>1. pr[i] = [depth \in Nat |-> Body(pr, Tree, i, depth, L)]
    BY <1>7
  <2> QED BY <2>1, Zenon
<1> QED BY <1>8 DEF pr

\* An event whose children are not printed yet.
LEMMA LineAlone ==
    ASSUME NEW STATE i, i \in Shown, Level[i] \in Nat, NEW CONSTANT L,
           L = 0 \/ Level[i] <= L
    PROVE  Begun(<<Line(i, Level[i])>>, i, {}, L)
<1> DEFINE x == Line(i, Level[i])
           l == <<x>>
<1>1. x \in Lines /\ x.event = i /\ x.depth = Level[i] /\ IsRow(x)
  BY DEF Line, Lines, IsRow
<1>2. AtItsDepth(x, L)
  BY <1>1 DEF AtItsDepth
<1> HIDE DEF x
<1>3. l \in Seq(Lines) /\ Len(l) = 1 /\ l[1] = x /\ 1..Len(l) = {1} /\ 2..Len(l) = {}
  BY <1>1
<1> HIDE DEF l
<1>4. ~(1 < 1)
  OBVIOUS
<1>5. \A m, n \in 1..Len(l) : ~Siblings(l, m, n)
  BY <1>3, <1>4 DEF Siblings
<1>6. Block(l, i, L)
  BY <1>2, <1>3, <1>5 DEF Block, x
<1>7. Begun(l, i, {}, L)
  BY <1>3, <1>6 DEF Begun
<1> QED BY <1>7 DEF l, x

\* An event at the limit with children.
LEMMA LineElided ==
    ASSUME NEW STATE i, i \in Shown, NEW CONSTANT L, L \in Nat, Level[i] = L,
           Children(i) # {}, CutOff(L, L)
    PROVE  Whole(<<Line(i, Level[i])>> \o <<Ellipsis(i, Level[i] + 1)>>, i, L)
<1> DEFINE x == Line(i, L)
           y == Ellipsis(i, L + 1)
           l == <<x>> \o <<y>>
<1>1. /\ x \in Lines /\ x.event = i /\ x.depth = L /\ IsRow(x)
      /\ y \in Lines /\ y.event = i /\ y.depth = L + 1 /\ ~IsRow(y) /\ Owner(y) = i
  BY DEF Line, Ellipsis, Lines, IsRow, Owner
<1>2. AtItsDepth(x, L) /\ AtItsDepth(y, L)
  BY <1>1 DEF AtItsDepth
<1> HIDE DEF x, y
<1>3. l \in Seq(Lines) /\ Len(l) = 2 /\ l[1] = x /\ l[2] = y
  BY <1>1
<1> HIDE DEF l
<1>4. 1..Len(l) = {1, 2} /\ 2..Len(l) = {2} /\ 1..2-1 = {1} /\ 1+1..2-1 = {}
  BY <1>3
<1>5. Over(l, 1, 2)
  BY <1>1, <1>3, <1>4 DEF Over
<1>6. \A m, n \in 1..Len(l) : ~Siblings(l, m, n)
  <2>1. ~(1 < 1) /\ ~(2 < 1) /\ ~(2 < 2)
    OBVIOUS
  <2> QED BY <1>1, <1>3, <1>4, <2>1 DEF Siblings
<1>7. Block(l, i, L)
  <2>1. l[1] = Line(i, Level[i])
    BY <1>3 DEF x
  <2>2. \A n \in 2..Len(l) : Level[i] < l[n].depth
    BY <1>1, <1>3, <1>4
  <2>3. \A n \in 2..Len(l) : \E m \in 1..n-1 :
           Over(l, m, n) /\ IsRow(l[m]) /\ l[m].event = Owner(l[n])
    BY <1>1, <1>3, <1>4, <1>5
  <2>4. \A n \in 1..Len(l) : AtItsDepth(l[n], L)
    BY <1>2, <1>3, <1>4
  <2> QED BY <1>3, <1>6, <2>1, <2>2, <2>3, <2>4 DEF Block
<1>8. Elides(l, i)
  BY <1>1, <1>3, <1>4 DEF Elides
<1>9. Complete(l, x, L) /\ Complete(l, y, L)
  BY <1>1, <1>8 DEF Complete
<1>10. Whole(l, i, L)
  BY <1>3, <1>4, <1>7, <1>9 DEF Whole
<1> QED BY <1>10 DEF l, x, y

\* An event, all of whose children are printed.
LEMMA AllBegun ==
    ASSUME NEW STATE l, NEW STATE i, NEW STATE done, NEW CONSTANT L, Begun(l, i, done, L),
           CutOff(Level[i], L) => Children(i) = {}, Children(i) \subseteq done
    PROVE  Whole(l, i, L)
<1>1. Block(l, i, L) /\ \A n \in 2..Len(l) : Complete(l, l[n], L)
  BY DEF Begun
<1>2. l[1] = Line(i, Level[i]) /\ Len(l) \in Nat /\ Len(l) >= 1
  BY <1>1, LenProperties DEF Block
<1>3. l[1].event = i /\ l[1].depth = Level[i]
  BY <1>2 DEF Line
<1>4. \A c \in Children(i) : Prints(l, c)
  BY DEF Begun
<1>5. Complete(l, l[1], L)
  BY <1>3, <1>4 DEF Complete
<1>6. \A n \in 1..Len(l) : n = 1 \/ n \in 2..Len(l)
  BY <1>2
<1> QED BY <1>1, <1>5, <1>6 DEF Whole

\* The lines of an event, from those of its children.
LEMMA PrintedBelow ==
    ASSUME TreeInv, Roots # {}, NEW L, L \in Nat, NEW i \in Shown,
           NEW pr, pr[i][Level[i]] = Body(pr, Tree, i, Level[i], L),
           L = 0 \/ Level[i] <= L,
           \A c \in Children(i) :
              L = 0 \/ Level[c] <= L => Whole(pr[c][Level[c]], c, L)
    PROVE  Whole(pr[i][Level[i]], i, L)
<1> DEFINE d == Level[i]
           K == Cardinality(Children(i))
           parts == Parts(pr, Tree, i, d)
<1>1. d \in Nat \ {0}
  BY LevelIs
<1>2. /\ K \in Nat /\ Tree[i] \in [1..K -> Children(i)]
      /\ \A j, k \in 1..K : j < k => Tree[i][j] < Tree[i][k]
      /\ \A c \in Children(i) : \E k \in 1..K : Tree[i][k] = c
      /\ \A c \in Children(i) : c \in Shown /\ events[c].parent = i /\ Level[c] = d + 1
  BY TreeIs
<1> HIDE DEF K, d
<1>3. Begun(<<Line(i, d)>>, i, {}, L) /\ <<Line(i, d)>> \in Seq(Lines)
  <2>1. Begun(<<Line(i, d)>>, i, {}, L)
    BY <1>1, LineAlone DEF d
  <2> QED BY <2>1 DEF Begun, Block
<1>4. CASE ~CutOff(d, L)
  <2>1. L = 0 \/ d + 1 <= L
    BY <1>1, <1>4 DEF CutOff, d
  <2>2. \A k \in 1..K : /\ Tree[i][k] \in Children(i) /\ parts[k] = pr[Tree[i][k]][d + 1]
                        /\ Whole(parts[k], Tree[i][k], L)
    <3> TAKE k \in 1..K
    <3>1. Tree[i][k] \in Children(i) /\ k \in DOMAIN Tree[i]
      BY <1>2
    <3>2. parts[k] = pr[Tree[i][k]][d + 1]
      BY <3>1 DEF Parts
    <3>3. Level[Tree[i][k]] = d + 1
      BY <1>2, <3>1
    <3>4. Whole(pr[Tree[i][k]][d + 1], Tree[i][k], L)
      BY <2>1, <3>1, <3>3
    <3> QED BY <3>1, <3>2, <3>4
  <2>3. parts \in [1..K -> Seq(Lines)]
    <3>1. DOMAIN Tree[i] = 1..K
      BY <1>2
    <3>2. parts = [k \in 1..K |-> parts[k]]
      BY <3>1 DEF Parts
    <3> HIDE DEF parts
    <3>3. \A k \in 1..K : parts[k] \in Seq(Lines)
      BY <2>2 DEF Whole, Block
    <3> QED BY <3>2, <3>3
  <2> HIDE DEF parts
  <2>3a. PICK F : Flattens(F, K, parts)
    BY <1>2, <2>3, FlattenIs
  <2>4. /\ F[0] = <<>> /\ F[K] = FlattenSeq(parts)
        /\ \A k \in 1..K : F[k] = F[k - 1] \o parts[k]
    BY <2>3a DEF Flattens
  <2> DEFINE done(k) == {Tree[i][j] : j \in 1..k}
             P == {k \in Nat : k <= K => /\ F[k] \in Seq(Lines)
                                         /\ Begun(<<Line(i, d)>> \o F[k], i, done(k), L)}
  <2>5. 0 \in P
    <3>1. <<Line(i, d)>> \o <<>> = <<Line(i, d)>> /\ <<>> \in Seq(Lines)
      BY <1>3, ConcatEmptySeq
    <3>2. done(0) = {}
      OBVIOUS
    <3> HIDE DEF done
    <3> QED BY <1>3, <2>4, <3>1, <3>2
  <2>6. ASSUME NEW k \in Nat, k \in P PROVE k + 1 \in P
    <3> SUFFICES ASSUME k + 1 <= K
                 PROVE  /\ F[k + 1] \in Seq(Lines)
                        /\ Begun(<<Line(i, d)>> \o F[k + 1], i, done(k + 1), L)
      OBVIOUS
    <3> DEFINE c == Tree[i][k + 1]
               l == <<Line(i, d)>> \o F[k]
    <3>1. k + 1 \in 1..K /\ (k + 1) - 1 = k /\ k <= K
      BY <1>2
    <3>2. F[k] \in Seq(Lines) /\ Begun(l, i, done(k), L)
      BY <2>6, <3>1
    <3>3. F[k + 1] = F[k] \o parts[k + 1]
      BY <2>4, <3>1
    <3>4. c \in Children(i) /\ Whole(parts[k + 1], c, L) /\ parts[k + 1] \in Seq(Lines)
      BY <2>2, <2>3, <3>1
    <3>5. F[k + 1] \in Seq(Lines)
      BY <3>2, <3>3, <3>4, ConcatProperties
    <3>6. <<Line(i, d)>> \o F[k + 1] = l \o parts[k + 1]
      <4>1. \A x, y, z \in Seq(Lines) : (x \o y) \o z = x \o (y \o z)
        BY ConcatAssociative
      <4>2. (<<Line(i, d)>> \o F[k]) \o parts[k + 1] = <<Line(i, d)>> \o (F[k] \o parts[k + 1])
        BY <1>3, <3>2, <3>4, <4>1, Zenon
      <4> QED BY <3>3, <4>2, Zenon
    <3>7. \A j \in done(k) : j < c
      <4>1. \A j \in 1..k : j \in 1..K /\ j < k + 1
        BY <1>2, <3>1
      <4>2. \A j \in 1..k : Tree[i][j] < c
        BY <1>2, <3>1, <4>1
      <4> QED BY <4>2
    <3>8. done(k + 1) = done(k) \cup {c}
      <4>1. \A j : j \in 1..k+1 <=> j \in 1..k \/ j = k + 1
        OBVIOUS
      <4> QED BY <4>1
    <3>9. Level[i] \in Nat /\ Level[c] = Level[i] + 1 /\ events[c].parent = i
      BY <1>1, <1>2, <3>4 DEF d
    <3> HIDE DEF done, c, l
    <3>10. Begun(l \o parts[k + 1], i, done(k) \cup {c}, L)
      BY <3>2, <3>4, <3>7, <3>9, OneMore
    <3> QED BY <3>5, <3>6, <3>8, <3>10
  <2> HIDE DEF P
  <2>7. K \in P
    BY <1>2, <2>5, <2>6, Induction
  <2>8. Begun(<<Line(i, d)>> \o FlattenSeq(parts), i, done(K), L)
    BY <1>2, <2>4, <2>7 DEF P
  <2>9. Children(i) \subseteq done(K)
    BY <1>2
  <2>10. Body(pr, Tree, i, d, L) = <<Line(i, d)>> \o FlattenSeq(parts)
    BY <1>4 DEF Body, parts
  <2> HIDE DEF done
  <2>11. Whole(<<Line(i, d)>> \o FlattenSeq(parts), i, L)
    BY <1>4, <2>8, <2>9, AllBegun DEF d
  <2> QED BY <2>10, <2>11 DEF d
<1>5. CASE CutOff(d, L) /\ Children(i) # {}
  <2>1. d = L
    BY <1>1, <1>5 DEF CutOff, d
  <2>2. Tree[i] # <<>>
    BY <1>2, <1>5
  <2>3. Body(pr, Tree, i, d, L) = <<Line(i, d)>> \o <<Ellipsis(i, d + 1)>>
    BY <1>5, <2>2 DEF Body
  <2>4. Whole(<<Line(i, d)>> \o <<Ellipsis(i, d + 1)>>, i, L)
    BY <1>5, <2>1, LineElided DEF d
  <2> QED BY <2>3, <2>4 DEF d
<1>6. CASE CutOff(d, L) /\ Children(i) = {}
  <2>1. Tree[i] = <<>>
    BY <1>2, <1>6
  <2>2. Body(pr, Tree, i, d, L) = <<Line(i, d)>> \o <<>>
    BY <1>6, <2>1 DEF Body
  <2>3. Whole(<<Line(i, d)>>, i, L)
    BY <1>3, <1>6, AllBegun DEF d
  <2> QED BY <1>3, <2>2, <2>3, ConcatEmptySeq DEF d
<1> QED BY <1>4, <1>5, <1>6

\* What is printed for every event down to the limit.
LEMMA Printed ==
    ASSUME TreeInv, Roots # {}, NEW L \in Nat
    PROVE  \A i \in Shown :
              L = 0 \/ Level[i] <= L => Whole(printTree(Tree, L)[i][Level[i]], i, L)
<1> DEFINE N == Len(events)
           pr == printTree(Tree, L)
           Goal(i) == L = 0 \/ Level[i] <= L => Whole(pr[i][Level[i]], i, L)
           P == {n \in Nat : \A i \in Shown : i > N - n => Goal(i)}
<1>1. N \in Nat /\ \A i \in Shown : i \in Int /\ 1 <= i /\ i <= N
  BY RootIs, ShownIs
<1> HIDE DEF Goal
<1>2. 0 \in P
  BY <1>1
<1>3. ASSUME NEW n \in Nat, n \in P PROVE n + 1 \in P
  <2> SUFFICES ASSUME NEW i \in Shown, i > N - (n + 1) PROVE Goal(i)
    OBVIOUS
  <2>1. ASSUME NEW c \in Children(i) PROVE Goal(c)
    <3>1. c \in Shown /\ i < c
      BY TreeIs
    <3>2. c > N - n
      BY <1>1, <3>1
    <3> QED BY <1>3, <3>1, <3>2
  <2>2. pr[i][Level[i]] = Body(pr, Tree, i, Level[i], L)
    BY LevelIs, PrintIs
  <2> HIDE DEF pr
  <2> QED BY <2>1, <2>2, PrintedBelow DEF Goal
<1> HIDE DEF P
<1>4. N \in P
  BY <1>1, <1>2, <1>3, Induction
<1>5. \A i \in Shown : i > N - N
  BY <1>1
<1>6. \A i \in Shown : Goal(i)
  BY <1>1, <1>4, <1>5 DEF P
<1> QED BY <1>6 DEF Goal

\* What PrintedIsTree says of one listing.
DrawsTree(l, L) ==
    LET rows == {n \in DOMAIN l : ~l[n].more}
    IN  /\ \A i \in Shown :
              Cardinality({n \in rows : l[n].event = i})
                 = IF L = 0 \/ Level[i] <= L THEN 1 ELSE 0
        /\ \A n \in 2..Len(l) :
              l[Max({m \in 1..n-1 : l[m].depth < l[n].depth})].event = Owner(l[n])
        /\ \A m, n \in rows :
              m < n /\ events[l[m].event].parent = events[l[n].event].parent
                 => l[m].event < l[n].event
        /\ {l[n].event : n \in DOMAIN l \ rows}
              = {i \in Shown : Level[i] = L /\ Children(i) # {}}

\* The lines of the root are a drawing of the tree.
LEMMA Drawing ==
    ASSUME TreeInv, Roots # {}, NEW L \in Nat, NEW STATE l, Whole(l, latestSupervisorRoot, L)
    PROVE  DrawsTree(l, L)
<1> DEFINE N == Len(events)
           root == latestSupervisorRoot
           rows == {n \in DOMAIN l : ~l[n].more}
           parent(n) == events[l[n].event].parent
<1>1. /\ N \in Nat /\ DOMAIN events = 1..N /\ root \in 1..N /\ root \in Shown
      /\ \A i \in Shown : i \in root..N /\ i \in Int /\ 1 <= i /\ i <= N
      /\ \A i \in Shown \ {root} : events[i].parent \in Shown
  BY RootIs, ShownIs
<1>1a. \A i \in Shown : i \in 1..N /\ i \in Nat /\ i \in DOMAIN events
  BY <1>1
<1>2. /\ Level[root] = 1 /\ \A i \in Shown : Level[i] \in Nat \ {0}
      /\ \A i \in Shown \ {root} : Level[i] = Level[events[i].parent] + 1
  BY LevelIs
<1>3. ASSUME NEW i \in Shown \ {root} PROVE events[i].parent < i
  <2>1. events[i].parent \in Shown /\ i \in Shown
    BY <1>1
  <2>2. events[i].parent \in Nat /\ i \in 1..N
    BY <1>1a, <2>1
  <2> QED BY <2>2, ParentIs
<1>4. /\ l \in Seq(Lines) /\ Len(l) \in Nat /\ Len(l) >= 1 /\ DOMAIN l = 1..Len(l)
      /\ \A n \in 1..Len(l) : l[n] \in Lines
      /\ l[1].event = root /\ l[1].depth = 1 /\ IsRow(l[1])
      /\ \A n \in 2..Len(l) : 1 < l[n].depth
  <2>1. l \in Seq(Lines) /\ Len(l) >= 1 /\ l[1] = Line(root, 1)
        /\ \A n \in 2..Len(l) : 1 < l[n].depth
    BY <1>2 DEF Whole, Block
  <2>2. l[1].event = root /\ l[1].depth = 1 /\ IsRow(l[1])
    BY <2>1 DEF Line, IsRow
  <2> QED BY <2>1, <2>2, LenProperties
<1>5. \A n \in 1..Len(l) : l[n].event \in Shown /\ l[n].depth \in Nat
  BY <1>4 DEF Lines
<1>6. \A n : n \in rows <=> n \in 1..Len(l) /\ IsRow(l[n])
  BY <1>4 DEF IsRow
<1> HIDE DEF rows
<1>7. /\ \A n \in rows : l[n].depth = Level[l[n].event] /\ (L = 0 \/ l[n].depth <= L)
      /\ \A n \in 1..Len(l) : n \notin rows =>
            l[n].depth = L + 1 /\ Level[l[n].event] = L /\ Children(l[n].event) # {}
  <2>1. \A n \in 1..Len(l) : AtItsDepth(l[n], L)
    BY DEF Whole, Block
  <2> QED BY <1>6, <2>1 DEF AtItsDepth
<1>8. \A n \in 2..Len(l) : \E m \in rows : Over(l, m, n) /\ l[m].event = Owner(l[n])
  <2> TAKE n \in 2..Len(l)
  <2>1. PICK m \in 1..n-1 : Over(l, m, n) /\ IsRow(l[m]) /\ l[m].event = Owner(l[n])
    BY DEF Whole, Block
  <2>2. m \in 1..Len(l)
    BY <1>4
  <2> QED BY <1>6, <2>1, <2>2
\* Only the first row is the root's; every other is under one of its parent.
<1>9. \A n \in rows : n # 1 => n \in 2..Len(l) /\ l[n].event \in Shown \ {root}
  BY <1>2, <1>4, <1>5, <1>6, <1>7
<1>10. ASSUME NEW n \in rows, n # 1
       PROVE  \E m \in rows : Over(l, m, n) /\ l[m].event = parent(n)
  <2>1. n \in 2..Len(l) /\ Owner(l[n]) = parent(n)
    BY <1>6, <1>9, <1>10 DEF Owner, IsRow
  <2> QED BY <1>8, <2>1
\* Two rows of one parent, when that has one row only.
<1>11. ASSUME NEW m \in rows, NEW n \in rows, m # 1, n # 1, m < n, parent(m) = parent(n),
              \A p, q \in rows : l[p].event = parent(n) /\ l[q].event = parent(n) => p = q
       PROVE  l[m].event < l[n].event
  <2>1. PICK p \in rows : Over(l, p, m) /\ l[p].event = parent(m)
    BY <1>10, <1>11
  <2>2. PICK q \in rows : Over(l, q, n) /\ l[q].event = parent(n)
    BY <1>10, <1>11
  <2>3. p = q
    BY <1>11, <2>1, <2>2
  <2>4. l[m].depth = l[n].depth
    BY <1>2, <1>7, <1>9, <1>11
  <2>5. m \in 1..Len(l) /\ n \in 1..Len(l) /\ p \in 1..Len(l) /\ p < m
    BY <1>4, <1>6, <2>1 DEF Over
  <2>6. \A k \in m+1..n-1 : l[n].depth <= l[k].depth
    <3>1. \A k \in m+1..n-1 : k \in q+1..n-1
      BY <2>3, <2>5
    <3> QED BY <2>2, <3>1 DEF Over
  <2>7. Siblings(l, m, n)
    BY <1>6, <1>11, <2>4, <2>6 DEF Siblings
  <2> QED BY <2>5, <2>7 DEF Whole, Block
\* No event has two rows.
<1>12. \A m, n \in rows : l[m].event = l[n].event => m = n
  <2> DEFINE P == {k \in Nat : \A m, n \in rows : l[m].event = l[n].event /\ l[n].event <= k => m = n}
  <2>1. 0 \in P
    <3>1. \A n \in rows : ~(l[n].event <= 0)
      BY <1>1, <1>5, <1>6
    <3> QED BY <3>1
  <2>2. ASSUME NEW k \in Nat, k \in P PROVE k + 1 \in P
    <3>1. ASSUME NEW m \in rows, NEW n \in rows, l[m].event = l[n].event, l[n].event <= k + 1, m < n
          PROVE  FALSE
      <4>1. n # 1
        BY <1>4, <1>6, <3>1
      <4>2. l[n].event \in Shown \ {root}
        BY <1>9, <4>1
      <4>3. m # 1
        BY <1>4, <3>1, <4>2
      <4>4. parent(n) < l[n].event /\ parent(n) \in Int /\ l[n].event \in Int
        BY <1>1, <1>3, <4>2
      <4>5. parent(n) <= k
        BY <3>1, <4>4
      <4>6. \A p, q \in rows : l[p].event = parent(n) /\ l[q].event = parent(n) => p = q
        BY <2>2, <4>5
      <4>7. l[m].event < l[n].event
        BY <1>11, <3>1, <4>1, <4>3, <4>6
      <4> QED BY <3>1, <4>4, <4>7
    <3>2. \A m, n \in rows : m = n \/ m < n \/ n < m
      BY <1>6
    <3>3. \A m, n \in rows : l[m].event = l[n].event /\ l[n].event <= k + 1 => m = n
      BY <3>1, <3>2
    <3> QED BY <3>3
  <2> HIDE DEF P
  <2>3. \A k \in Nat : k \in P
    BY <2>1, <2>2, Induction
  <2>4. N \in P
    BY <1>1, <2>3
  <2>5. \A n \in rows : l[n].event <= N
    BY <1>1, <1>5, <1>6
  <2> QED BY <2>4, <2>5 DEF P
\* Every event down to the limit has one.
<1>13. \A i \in Shown : L = 0 \/ Level[i] <= L => \E n \in rows : l[n].event = i
  <2> DEFINE P == {k \in Nat : \A i \in Shown :
                      i <= k /\ (L = 0 \/ Level[i] <= L) => \E n \in rows : l[n].event = i}
  <2>1. 0 \in P
    BY <1>1
  <2>2. ASSUME NEW k \in Nat, k \in P PROVE k + 1 \in P
    <3> SUFFICES ASSUME NEW i \in Shown, i <= k + 1, L = 0 \/ Level[i] <= L
                 PROVE  \E n \in rows : l[n].event = i
      OBVIOUS
    <3>1. CASE i = root
      <4>1. 1 \in rows
        BY <1>4, <1>6
      <4> QED BY <1>4, <3>1, <4>1
    <3>2. CASE i # root
      <4> DEFINE p == events[i].parent
      <4>1. /\ p \in Shown /\ p < i /\ p \in Int /\ i \in Int /\ Level[i] = Level[p] + 1
            /\ Level[p] \in Nat /\ i \in Children(p)
        <5>1. p \in Shown /\ p < i /\ Level[i] = Level[p] + 1
          BY <1>1, <1>2, <1>3, <3>2
        <5>2. p \in Int /\ i \in Int /\ Level[p] \in Nat /\ i \in DOMAIN events
          BY <1>1a, <1>2, <5>1
        <5> QED BY <5>1, <5>2 DEF Children
      <4>2. p <= k /\ (L = 0 \/ Level[p] < L)
        BY <4>1
      <4>3. PICK n \in rows : l[n].event = p
        BY <2>2, <4>1, <4>2
      <4>4. l[n].depth = Level[p] /\ ~CutOff(l[n].depth, L)
        BY <1>7, <4>1, <4>2, <4>3 DEF CutOff
      <4>5. Complete(l, l[n], L) /\ IsRow(l[n])
        BY <1>6 DEF Whole
      <4>6. Prints(l, i)
        BY <4>1, <4>3, <4>4, <4>5 DEF Complete
      <4> QED BY <1>6, <4>6 DEF Prints
    <3> QED BY <3>1, <3>2
  <2> HIDE DEF P
  <2>3. \A k \in Nat : k \in P
    BY <2>1, <2>2, Induction
  <2>4. N \in P
    BY <1>1, <2>3
  <2> QED BY <1>1, <2>4 DEF P
\* The four parts.
<1>14. ASSUME NEW i \in Shown
       PROVE  Cardinality({n \in rows : l[n].event = i}) = IF L = 0 \/ Level[i] <= L THEN 1 ELSE 0
  <2>1. CASE L = 0 \/ Level[i] <= L
    <3>1. PICK m \in rows : l[m].event = i
      BY <1>13, <2>1
    <3>2. {n \in rows : l[n].event = i} = {m}
      BY <1>12, <3>1
    <3> QED BY <2>1, <3>2, FS_Singleton
  <2>2. CASE ~(L = 0 \/ Level[i] <= L)
    <3>1. {n \in rows : l[n].event = i} = {}
      BY <1>7, <2>2
    <3> QED BY <2>2, <3>1, FS_EmptySet
  <2> QED BY <2>1, <2>2
<1>15. ASSUME NEW n \in 2..Len(l)
       PROVE  l[Max({m \in 1..n-1 : l[m].depth < l[n].depth})].event = Owner(l[n])
  <2> DEFINE S == {m \in 1..n-1 : l[m].depth < l[n].depth}
  <2>1. PICK m \in rows : Over(l, m, n) /\ l[m].event = Owner(l[n])
    BY <1>8
  <2>2. m \in S
    BY <2>1 DEF Over
  <2>3. ASSUME NEW k \in S PROVE m >= k
    <3> SUFFICES ASSUME ~(m >= k) PROVE FALSE
      OBVIOUS
    <3>1. k \in 1..n-1 /\ m \in 1..n-1 /\ k \in 1..Len(l) /\ n \in 1..Len(l)
      BY <1>4, <2>2
    <3>2. k \in m+1..n-1
      BY <3>1
    <3>3. l[n].depth <= l[k].depth /\ l[k].depth < l[n].depth
      BY <2>1, <3>2 DEF Over
    <3> QED BY <1>5, <3>1, <3>3
  <2>4. \A x \in S : (\A y \in S : x >= y) => x = m
    BY <2>2, <2>3
  <2> HIDE DEF S
  <2>5. Max(S) = m
    BY <2>2, <2>3, <2>4 DEF Max
  <2> QED BY <2>1, <2>5 DEF S
<1>16. ASSUME NEW m \in rows, NEW n \in rows, m < n, parent(m) = parent(n)
       PROVE  l[m].event < l[n].event
  <2>1. n # 1
    BY <1>4, <1>6, <1>16
  <2>2. m # 1
    <3> SUFFICES ASSUME m = 1 PROVE FALSE
      OBVIOUS
    <3>1. parent(m) \notin 1..N
      BY <1>1, <1>4, ParentIs
    <3>2. parent(n) \in 1..N
      <4>1. parent(n) \in Shown
        BY <1>1, <1>9, <2>1
      <4> QED BY <1>1a, <4>1
    <3> QED BY <1>16, <3>1, <3>2
  <2> QED BY <1>11, <1>12, <1>16, <2>1, <2>2
<1>17. {l[n].event : n \in DOMAIN l \ rows} = {i \in Shown : Level[i] = L /\ Children(i) # {}}
  <2>1. ASSUME NEW n \in DOMAIN l \ rows
        PROVE  l[n].event \in Shown /\ Level[l[n].event] = L /\ Children(l[n].event) # {}
    BY <1>4, <1>5, <1>7
  <2>2. ASSUME NEW i \in Shown, Level[i] = L, Children(i) # {}
        PROVE  \E n \in DOMAIN l \ rows : l[n].event = i
    <3>1. PICK m \in rows : l[m].event = i
      BY <1>2, <1>13, <2>2
    <3>2. l[m].depth = L /\ CutOff(l[m].depth, L)
      BY <1>2, <1>7, <2>2, <3>1 DEF CutOff
    <3>3. Complete(l, l[m], L) /\ IsRow(l[m])
      BY <1>6 DEF Whole
    <3>4. Elides(l, i)
      BY <2>2, <3>1, <3>2, <3>3 DEF Complete
    <3> QED BY <1>4, <1>6, <3>4 DEF Elides
  <2> QED BY <2>1, <2>2
<1> QED BY <1>14, <1>15, <1>16, <1>17 DEF DrawsTree, rows

\* For any log and any limit, the listing of event-tree is a drawing of the tree: one
\* line for each event down to the limit, under its parent, siblings in order, and
\* "[...]" exactly where events are left out.
THEOREM PrintedSafe == Spec => []PrintedIsTree
<1>1. ASSUME TreeInv PROVE PrintedIsTree
  <2> SUFFICES ASSUME Roots # {}, NEW L \in Depths
               PROVE  LET tree == buildTree(Shown)
                          level == Level
                          lines == printTree(tree, L)[latestSupervisorRoot][1]
                          rows == {n \in DOMAIN lines : ~lines[n].more}
                          Above(n) == lines[Max({m \in 1..n-1 : lines[m].depth < lines[n].depth})].event
                      IN  /\ \A i \in DOMAIN tree :
                                Cardinality({n \in rows : lines[n].event = i})
                                   = IF L = 0 \/ level[i] <= L THEN 1 ELSE 0
                          /\ \A n \in 2..Len(lines) : LET i == lines[n].event IN
                                Above(n) = IF lines[n].more THEN i ELSE events[i].parent
                          /\ \A m, n \in rows :
                                m < n /\ events[lines[m].event].parent = events[lines[n].event].parent
                                   => lines[m].event < lines[n].event
                          /\ {lines[n].event : n \in DOMAIN lines \ rows}
                                = {i \in DOMAIN tree : level[i] = L /\ Children(i) # {}}
    BY Zenon DEF PrintedIsTree
  <2> DEFINE l == printTree(Tree, L)[latestSupervisorRoot][1]
  <2>1. L \in Nat
    BY EventTreeAssumption
  <2>2. latestSupervisorRoot \in Shown /\ Level[latestSupervisorRoot] = 1
    BY <1>1, ShownIs, LevelIs
  <2>3. L = 0 \/ 1 <= L
    BY <2>1
  <2>4. Whole(l, latestSupervisorRoot, L)
    BY <1>1, <2>1, <2>2, <2>3, Printed
  <2>5. DOMAIN Tree = Shown
    BY <1>1, <2>2, TreeIs
  <2> HIDE DEF l
  <2>6. DrawsTree(l, L)
    BY <1>1, <2>1, <2>4, Drawing
  <2>7. LET rows == {n \in DOMAIN l : ~l[n].more}
        IN  /\ \A i \in DOMAIN Tree :
                  Cardinality({n \in rows : l[n].event = i})
                     = IF L = 0 \/ Level[i] <= L THEN 1 ELSE 0
            /\ \A n \in 2..Len(l) :
                  l[Max({m \in 1..n-1 : l[m].depth < l[n].depth})].event = Owner(l[n])
            /\ \A m, n \in rows :
                  m < n /\ events[l[m].event].parent = events[l[n].event].parent
                     => l[m].event < l[n].event
            /\ {l[n].event : n \in DOMAIN l \ rows}
                  = {i \in DOMAIN Tree : Level[i] = L /\ Children(i) # {}}
    BY <2>5, <2>6, Zenon DEF DrawsTree
  <2> QED BY <2>7, Zenon DEF l, Tree, Owner
<1> QED BY <1>1, TreeInvariance, PTL

(***************************************************************************)
(* The JSON output.                                                        *)
(***************************************************************************)
\* The object of an event, from those of its children.
Object(f, tree, i, depth, maxDepth) ==
    [id |-> i,
     children |-> IF CutOff(depth, maxDepth) THEN <<>> ELSE Parts(f, tree, i, depth)]

\* So are the objects.
LEMMA JSONIs ==
    ASSUME TreeInv, Roots # {}, NEW L
    PROVE  \A i \in Shown : \A d \in Nat :
              toJSONEvent(Tree, L)[i][d] = Object(toJSONEvent(Tree, L), Tree, i, d, L)
<1> DEFINE N == Len(events)
           Step(f, i) == [depth \in Nat |-> Object(f, Tree, i, depth, L)]
           P == {n \in Nat : \E f : f = [i \in LatestRows(n) |-> Step(f, i)]}
<1>1. N \in Nat /\ DOMAIN Tree = Shown /\ LatestRows(0) = {} /\ LatestRows(N) = Shown
  BY LastIs
<1>2. 0 \in P
  <2> DEFINE f == [i \in LatestRows(0) |-> 1]
  <2>1. f = [i \in LatestRows(0) |-> Step(f, i)]
    BY <1>1
  <2>2. \E f1 : f1 = [i \in LatestRows(0) |-> Step(f1, i)]
    BY <2>1, Zenon
  <2>3. 0 \in Nat
    OBVIOUS
  <2> QED BY <2>2, <2>3, Zenon
<1>3. ASSUME NEW n \in Nat, n \in P PROVE n + 1 \in P
  <2>1. PICK f : f = [i \in LatestRows(n) |-> Step(f, i)]
    BY <1>3
  <2> DEFINE g == [i \in LatestRows(n + 1) |-> IF i = N - n THEN Step(f, i) ELSE f[i]]
  <2>2. /\ \A i \in LatestRows(n + 1) : i = N - n \/ i \in LatestRows(n)
        /\ \A i \in LatestRows(n) : i \in LatestRows(n + 1) /\ i # N - n
        /\ \A i \in LatestRows(n + 1) : \A k \in DOMAIN Tree[i] : Tree[i][k] \in LatestRows(n)
    BY LastIs
  <2>3. \A i \in LatestRows(n) : f[i] = Step(f, i)
    BY <2>1, Zenon
  <2>4. g = [i \in LatestRows(n + 1) |-> g[i]] /\ \A i \in LatestRows(n) : g[i] = f[i]
    BY <2>2
  <2>5. \A i \in LatestRows(n + 1) : i = N - n => g[i] = Step(f, i)
    OBVIOUS
  <2> HIDE DEF g
  <2>6. ASSUME NEW i \in LatestRows(n + 1) PROVE Step(g, i) = Step(f, i)
    <3>1. \A depth \in Nat : Parts(g, Tree, i, depth) = Parts(f, Tree, i, depth)
      BY <2>2, <2>4 DEF Parts
    <3>2. \A depth \in Nat : Object(g, Tree, i, depth, L) = Object(f, Tree, i, depth, L)
      BY <3>1 DEF Object
    <3> QED BY <3>2
  <2>7. \A i \in LatestRows(n + 1) : g[i] = Step(g, i)
    <3> HIDE DEF Step
    <3> QED BY <2>2, <2>3, <2>4, <2>5, <2>6
  <2>8. g = [i \in LatestRows(n + 1) |-> Step(g, i)]
    <3> HIDE DEF Step
    <3> QED BY <2>4, <2>7
  <2>9. \E f1 : f1 = [i \in LatestRows(n + 1) |-> Step(f1, i)]
    BY <2>8, Zenon
  <2>10. n + 1 \in Nat
    OBVIOUS
  <2> QED BY <2>9, <2>10, Zenon
<1> HIDE DEF P
<1>4. N \in P
  BY <1>1, <1>2, <1>3, Induction
<1>5. \E f : f = [i \in DOMAIN Tree |-> [depth \in Nat |-> Object(f, Tree, i, depth, L)]]
  <2>1. \E f : f = [i \in LatestRows(N) |-> Step(f, i)]
    BY <1>4, Zenon DEF P
  <2>2. LatestRows(N) = DOMAIN Tree
    BY <1>1
  <2> QED BY <2>1, <2>2, Zenon
<1> DEFINE pr == toJSONEvent(Tree, L)
<1>6. pr = [i \in DOMAIN Tree |-> [depth \in Nat |-> Object(pr, Tree, i, depth, L)]]
  BY <1>5, Zenon DEF toJSONEvent, Object, Parts
<1> HIDE DEF pr
<1>7. \A i \in Shown : pr[i] = [depth \in Nat |-> Object(pr, Tree, i, depth, L)]
  BY <1>1, <1>6, Zenon
<1>8. ASSUME NEW i \in Shown, NEW d \in Nat PROVE pr[i][d] = Object(pr, Tree, i, d, L)
  <2>1. pr[i] = [depth \in Nat |-> Object(pr, Tree, i, depth, L)]
    BY <1>7
  <2> QED BY <2>1, Zenon
<1> QED BY <1>8 DEF pr

\* The objects inside those of a set.
Inside(S) == UNION {Range(x.children) : x \in S}

AreObjects(f, n, json) == f = [k \in 1..n |-> IF k = 1 THEN {json} ELSE Inside(f[k - 1])]

\* The objects of a depth are those inside the objects one level up.
LEMMA ObjectsAre ==
    ASSUME Len(events) \in Nat, Len(events) >= 1, NEW STATE json
    PROVE  /\ Objects(json)[1] = {json}
           /\ \A n \in 2..Len(events) : \A x :
                 x \in Objects(json)[n] <=>
                    \E y \in Objects(json)[n - 1] : \E k \in DOMAIN y.children : x = y.children[k]
<1> DEFINE N == Len(events)
           P == {n \in Nat : \E f : AreObjects(f, n, json)}
<1>1. 0 \in P
  <2> DEFINE f == [k \in 1..0 |-> {}]
  <2>1. AreObjects(f, 0, json)
    BY DEF AreObjects
  <2> QED BY <2>1
<1>2. ASSUME NEW n \in Nat, n \in P PROVE n + 1 \in P
  <2>1. PICK f : AreObjects(f, n, json)
    BY <1>2
  <2> DEFINE g == [k \in 1..(n + 1) |->
                      IF k = n + 1 THEN (IF k = 1 THEN {json} ELSE Inside(f[k - 1])) ELSE f[k]]
  <2>2. \A k \in 1..n : k \in 1..(n + 1) /\ k # n + 1
    OBVIOUS
  <2>3. \A k \in 1..n : g[k] = f[k]
    BY <2>2
  <2>4. \A k \in 1..n : f[k] = IF k = 1 THEN {json} ELSE Inside(f[k - 1])
    BY <2>1, Zenon DEF AreObjects
  <2>5. /\ g[n + 1] = IF n + 1 = 1 THEN {json} ELSE Inside(f[(n + 1) - 1])
        /\ g = [k \in 1..(n + 1) |-> g[k]]
    OBVIOUS
  <2> HIDE DEF g
  <2>6. \A k \in 1..(n + 1) : g[k] = IF k = 1 THEN {json} ELSE Inside(g[k - 1])
    <3> TAKE k \in 1..(n + 1)
    <3>1. (k = n + 1 \/ k \in 1..n) /\ (k # 1 => k - 1 \in 1..n)
      OBVIOUS
    <3>2. k # 1 => g[k - 1] = f[k - 1]
      BY <2>3, <3>1
    <3> QED BY <2>3, <2>4, <2>5, <3>1, <3>2
  <2>7. AreObjects(g, n + 1, json)
    BY <2>5, <2>6 DEF AreObjects
  <2>8. n + 1 \in Nat
    OBVIOUS
  <2> QED BY <2>7, <2>8
<1> HIDE DEF P
<1>3. N \in P
  BY <1>1, <1>2, Induction
<1>4. \E f : AreObjects(f, Len(events), json)
  BY <1>3 DEF P
<1> DEFINE o == Objects(json)
<1>5. AreObjects(o, Len(events), json)
  BY <1>4, Zenon DEF Objects, AreObjects, Inside
<1> HIDE DEF o
<1>6. \A n \in 1..N : o[n] = IF n = 1 THEN {json} ELSE Inside(o[n - 1])
  BY <1>5, Zenon DEF AreObjects
<1>7. o[1] = {json}
  BY <1>6
<1>8. ASSUME NEW n \in 2..N, NEW x
      PROVE  x \in o[n] <=> \E y \in o[n - 1] : \E k \in DOMAIN y.children : x = y.children[k]
  <2>1. o[n] = Inside(o[n - 1])
    BY <1>6
  <2> QED BY <2>1 DEF Inside, Range
<1> QED BY <1>7, <1>8 DEF o

\* At each depth down to the limit there is one object for each event of the level.
LEMMA ObjectsOf ==
    ASSUME TreeInv, Roots # {}, NEW L \in Nat, NEW STATE json, json = toJSONEvent(Tree, L),
           NEW d \in 1..Len(events)
    PROVE  \A x : x \in Objects(json[latestSupervisorRoot][1])[d] <=>
              \E i \in Shown : Level[i] = d /\ (L = 0 \/ d <= L) /\ x = json[i][d]
<1> DEFINE N == Len(events)
           root == latestSupervisorRoot
           o == Objects(json[root][1])
<1>1. /\ N \in Nat /\ N >= 1 /\ root \in Shown
      /\ \A i \in Shown \ {root} : events[i].parent \in Shown
  BY RootIs, ShownIs
<1>2. /\ Level[root] = 1 /\ \A i \in Shown : Level[i] \in Nat \ {0}
      /\ \A i \in Shown \ {root} : Level[i] = Level[events[i].parent] + 1
  BY LevelIs
<1>3. /\ o[1] = {json[root][1]}
      /\ \A n \in 2..N : \A x :
            x \in o[n] <=> \E y \in o[n - 1] : \E k \in DOMAIN y.children : x = y.children[k]
  BY <1>1, ObjectsAre
<1> HIDE DEF o
<1>4. ASSUME NEW i \in Shown, NEW n \in Nat
      PROVE  json[i][n].children = IF CutOff(n, L) THEN <<>> ELSE Parts(json, Tree, i, n)
  <2>1. json[i][n] = Object(json, Tree, i, n, L)
    BY JSONIs
  <2> QED BY <2>1 DEF Object
<1> DEFINE Is(n) == \A x : x \in o[n] <=>
                       \E i \in Shown : Level[i] = n /\ (L = 0 \/ n <= L) /\ x = json[i][n]
           P == {n \in Nat : n + 1 \in 1..N => Is(n + 1)}
<1>5. 0 \in P
  <2>1. \A i \in Shown : Level[i] = 1 => i = root
    <3> TAKE i \in Shown
    <3> SUFFICES ASSUME Level[i] = 1, i # root PROVE FALSE
      OBVIOUS
    <3>1. Level[events[i].parent] \in Nat \ {0} /\ Level[i] = Level[events[i].parent] + 1
      BY <1>1, <1>2
    <3> QED BY <3>1
  <2>2. L = 0 \/ 1 <= L
    OBVIOUS
  <2>3. Is(1)
    BY <1>1, <1>2, <1>3, <2>1, <2>2
  <2> HIDE DEF Is
  <2>4. 0 + 1 = 1
    OBVIOUS
  <2> QED BY <2>3, <2>4
<1>6. ASSUME NEW n \in Nat, n \in P PROVE n + 1 \in P
  <2> DEFINE m == n + 1
  <2> SUFFICES ASSUME m + 1 \in 1..N PROVE Is(m + 1)
    OBVIOUS
  <2>1. m \in 1..N /\ m \in Nat /\ m + 1 \in 2..N /\ (m + 1) - 1 = m
    BY <1>1
  <2>2. Is(m)
    BY <1>6, <2>1
  <2>3. ASSUME NEW x, x \in o[m + 1]
        PROVE  \E i \in Shown : Level[i] = m + 1 /\ (L = 0 \/ m + 1 <= L) /\ x = json[i][m + 1]
    <3>1. PICK y \in o[m] : \E k \in DOMAIN y.children : x = y.children[k]
      BY <1>3, <2>1, <2>3
    <3>2. PICK k \in DOMAIN y.children : x = y.children[k]
      BY <3>1
    <3>3. PICK i \in Shown : Level[i] = m /\ (L = 0 \/ m <= L) /\ y = json[i][m]
      BY <2>2
    <3>4. y.children = IF CutOff(m, L) THEN <<>> ELSE Parts(json, Tree, i, m)
      BY <1>4, <2>1, <3>3
    <3>5. ~CutOff(m, L) /\ y.children = Parts(json, Tree, i, m)
      BY <3>2, <3>4
    <3>6. k \in DOMAIN Tree[i] /\ x = json[Tree[i][k]][m + 1]
      BY <3>2, <3>5 DEF Parts
    <3>7. Tree[i][k] \in Shown /\ Level[Tree[i][k]] = m + 1
      <4>1. Tree[i] \in [1..Cardinality(Children(i)) -> Children(i)]
            /\ \A c \in Children(i) : c \in Shown /\ Level[c] = Level[i] + 1
        BY TreeIs
      <4>2. Tree[i][k] \in Children(i)
        BY <3>6, <4>1
      <4> QED BY <3>3, <4>1, <4>2
    <3>8. L = 0 \/ m + 1 <= L
      BY <2>1, <3>3, <3>5 DEF CutOff
    <3> QED BY <3>6, <3>7, <3>8
  <2>4. ASSUME NEW i \in Shown, Level[i] = m + 1, L = 0 \/ m + 1 <= L
        PROVE  json[i][m + 1] \in o[m + 1]
    <3> DEFINE p == events[i].parent
    <3>1. i # root
      BY <1>2, <2>1, <2>4
    <3>2. p \in Shown /\ Level[i] = Level[p] + 1 /\ Level[p] \in Nat
      BY <1>1, <1>2, <3>1
    <3>3. Level[p] = m
      BY <2>1, <2>4, <3>2
    <3>4. (L = 0 \/ m <= L) /\ ~CutOff(m, L)
      BY <2>1, <2>4 DEF CutOff
    <3>5. json[p][m] \in o[m] /\ json[p][m].children = Parts(json, Tree, p, m)
      BY <1>4, <2>1, <2>2, <3>2, <3>3, <3>4
    <3>6. i \in Children(p)
      <4>1. i \in DOMAIN events
        BY RootIs, ShownIs
      <4> QED BY <4>1 DEF Children
    <3>7. PICK k \in DOMAIN Tree[p] : Tree[p][k] = i
      BY <3>2, <3>6, TreeIs
    <3>8. k \in DOMAIN json[p][m].children /\ json[p][m].children[k] = json[i][m + 1]
      BY <3>5, <3>7 DEF Parts
    <3> QED BY <1>3, <2>1, <3>5, <3>8
  <2> QED BY <2>3, <2>4
<1> HIDE DEF P, Is
<1>7. d - 1 \in Nat /\ (d - 1) + 1 = d
  OBVIOUS
<1>8. d - 1 \in P
  BY <1>5, <1>6, <1>7, Induction
<1>9. Is(d)
  BY <1>7, <1>8 DEF P
<1> QED BY <1>9 DEF Is, o

\* For any log and any limit, the JSON output is the listing.
THEOREM JSONSafe == Spec => []JSONIsListing
<1>1. ASSUME TreeInv PROVE JSONIsListing
  <2> DEFINE root == latestSupervisorRoot
  <2> SUFFICES ASSUME Roots # {}, NEW L \in Depths, NEW d \in 1..Len(events)
               PROVE  LET lines == printTree(Tree, L)[root][1]
                          objects == Objects(toJSONEvent(Tree, L)[root][1])
                      IN  /\ {x.id : x \in objects[d]}
                                = {lines[n].event : n \in {m \in DOMAIN lines :
                                                             ~lines[m].more /\ lines[m].depth = d}}
                          /\ \A x \in objects[d] : \A k \in DOMAIN x.children :
                                /\ events[x.children[k].id].parent = x.id
                                /\ \A j \in 1..k-1 : x.children[j].id < x.children[k].id
    BY Zenon DEF JSONIsListing, Tree
  <2> DEFINE l == printTree(Tree, L)[root][1]
             json == toJSONEvent(Tree, L)
             o == Objects(json[root][1])
  <2>1. L \in Nat /\ d \in Nat
    BY EventTreeAssumption
  <2>2. root \in Shown /\ Level[root] = 1 /\ (L = 0 \/ 1 <= L)
    BY <1>1, <2>1, ShownIs, LevelIs
  <2>3. Whole(l, root, L)
    BY <1>1, <2>1, <2>2, Printed
  <2>4. DrawsTree(l, L)
    BY <1>1, <2>1, <2>3, Drawing
  <2>5. \A x : x \in o[d] <=> \E i \in Shown : Level[i] = d /\ (L = 0 \/ d <= L) /\ x = json[i][d]
    BY <1>1, <2>1, ObjectsOf
  <2>6. ASSUME NEW i \in Shown, NEW n \in Nat
        PROVE  /\ json[i][n].id = i
               /\ json[i][n].children = IF CutOff(n, L) THEN <<>> ELSE Parts(json, Tree, i, n)
    <3>1. json[i][n] = Object(json, Tree, i, n, L)
      BY <1>1, JSONIs
    <3> HIDE DEF json
    <3> QED BY <3>1 DEF Object
  <2> HIDE DEF l, json, o
  <2>7. \A i \in Shown : json[i][d].id = i
    BY <2>1, <2>6
  <2>8. {x.id : x \in o[d]} = {i \in Shown : Level[i] = d /\ (L = 0 \/ d <= L)}
    BY <2>5, <2>7
  <2>9. {l[n].event : n \in {m \in DOMAIN l : ~l[m].more /\ l[m].depth = d}}
           = {i \in Shown : Level[i] = d /\ (L = 0 \/ d <= L)}
    <3>1. /\ DOMAIN l = 1..Len(l) /\ \A n \in 1..Len(l) : AtItsDepth(l[n], L) /\ l[n].event \in Shown
      <4>1. l \in Seq(Lines) /\ \A n \in 1..Len(l) : AtItsDepth(l[n], L)
        BY <2>3 DEF Whole, Block
      <4>2. DOMAIN l = 1..Len(l) /\ \A n \in 1..Len(l) : l[n] \in Lines
        BY <4>1, LenProperties
      <4> QED BY <4>1, <4>2 DEF Lines
    <3>2. \A n \in DOMAIN l : ~l[n].more => l[n].depth = Level[l[n].event] /\ (L = 0 \/ l[n].depth <= L)
      BY <3>1 DEF AtItsDepth, IsRow
    <3>3. ASSUME NEW i \in Shown, Level[i] = d, L = 0 \/ d <= L
          PROVE  \E n \in DOMAIN l : ~l[n].more /\ l[n].event = i
      <4> DEFINE R == {n \in {m \in DOMAIN l : ~l[m].more} : l[n].event = i}
      <4>1. Cardinality(R) = 1
        BY <2>4, <3>3 DEF DrawsTree
      <4> HIDE DEF R
      <4>2. Cardinality({}) = 0
        BY FS_EmptySet, Zenon
      <4>3. R # {}
        BY <4>1, <4>2
      <4> QED BY <4>3 DEF R
    <3> QED BY <3>1, <3>2, <3>3
  <2>10. ASSUME NEW x \in o[d], NEW k \in DOMAIN x.children
         PROVE  /\ events[x.children[k].id].parent = x.id
                /\ \A j \in 1..k-1 : x.children[j].id < x.children[k].id
    <3>1. PICK i \in Shown : x = json[i][d]
      BY <2>5
    <3>2. x.id = i /\ x.children = IF CutOff(d, L) THEN <<>> ELSE Parts(json, Tree, i, d)
      BY <2>1, <2>6, <3>1
    <3>3. x.children = Parts(json, Tree, i, d)
      BY <3>2
    <3> DEFINE K == Cardinality(Children(i))
    <3>4. /\ K \in Nat /\ Tree[i] \in [1..K -> Children(i)]
          /\ \A j, h \in 1..K : j < h => Tree[i][j] < Tree[i][h]
          /\ \A c \in Children(i) : c \in Shown /\ events[c].parent = i
      BY <1>1, TreeIs
    <3> HIDE DEF K
    <3>5. DOMAIN x.children = 1..K /\ \A h \in 1..K : x.children[h] = json[Tree[i][h]][d + 1]
      BY <3>3, <3>4 DEF Parts
    <3>6. \A h \in 1..K : x.children[h].id = Tree[i][h]
      <4> TAKE h \in 1..K
      <4>1. Tree[i][h] \in Shown /\ d + 1 \in Nat
        BY <2>1, <3>4
      <4>2. json[Tree[i][h]][d + 1].id = Tree[i][h]
        BY <2>6, <4>1
      <4> QED BY <3>5, <4>2
    <3>7. k \in 1..K /\ \A j \in 1..k-1 : j \in 1..K /\ j < k
      BY <3>4, <3>5
    <3> QED BY <3>2, <3>4, <3>6, <3>7
  <2> QED BY <2>8, <2>9, <2>10 DEF l, o, json
<1> QED BY <1>1, TreeInvariance, PTL

==============================================================================
