--------------------------- MODULE SelfUpdateProofs ---------------------------
(***************************************************************************)
(* The inductive invariant of SelfUpdate and what follows from it, for any *)
(* set of tx_ids, any number of watchers, any crash threshold and any      *)
(* number of faults.                                                       *)
(***************************************************************************)
EXTENDS SelfUpdate, WellFoundedInduction, TLAPS

(***************************************************************************)
(* The repository functions of ArtifactStore, for tables of any size.      *)
(***************************************************************************)
\* A table: rows have their types, ids do not exceed the AUTOINCREMENT counter.
TableOK(a, n) ==
    /\ a \in [TxIds -> Row]
    /\ n \in Nat
    /\ \A t \in TxIds : a[t].id <= n

\* ORDER BY id DESC LIMIT 1 answers with a row whenever there is one.
LEMMA LatestExists ==
    ASSUME NEW a, NEW n, TableOK(a, n), NEW s, NEW t \in TxIds, a[t].status = s
    PROVE  LatestArtifactByStatus(a, s) # {}
<1> DEFINE Less == OpToRel(<, Nat)
           Rows == WithStatus(a, s)
           Gaps == {n - a[u].id : u \in Rows}
<1>1. IsWellFoundedOn(Less, Nat)
  BY NatLessThanWellFounded
<1>2. \A i, j \in Nat : i < j => <<i, j>> \in Less
  BY DEF OpToRel
<1> HIDE DEF Less
<1>3. \A u \in Rows : u \in TxIds /\ n - a[u].id \in Nat /\ a[u].id \in Nat
  BY DEF TableOK, Row, WithStatus
<1>4. n \in Nat /\ t \in Rows
  BY DEF TableOK, WithStatus
<1> HIDE DEF Rows
<1>5. Gaps \subseteq Nat /\ Gaps # {}
  BY <1>3, <1>4
<1>6. PICK g \in Gaps : \A h \in Gaps : ~(<<h, g>> \in Less)
  <2> HIDE DEF Gaps
  <2> QED BY <1>1, <1>5, WFMin
<1>7. PICK u \in Rows : g = n - a[u].id
  BY <1>6
<1>8. ASSUME NEW v \in Rows PROVE a[v].id <= a[u].id
  <2>1. n - a[v].id \in Gaps
    OBVIOUS
  <2>2. ~(n - a[v].id < g)
    BY <2>1, <1>2, <1>5, <1>6
  <2> QED BY <2>2, <1>3, <1>4, <1>7
<1> QED BY <1>7, <1>8 DEF LatestArtifactByStatus, Rows

(***************************************************************************)
(* What the table satisfies between any two transactions.                  *)
(***************************************************************************)

EverPromoted == {"promoted"} \cup Retiring

TableInv(a, n) ==
    /\ TableOK(a, n)
    /\ \A t \in TxIds : ~Exists(a, t) => a[t].base = None
    /\ a[Bootstrap].status \in {"absent", "promoted"}
    /\ a[Bootstrap].base = None
    /\ ~Exists(a, Bootstrap) => \A t \in TxIds : ~Exists(a, t)
    /\ \A t \in TxIds \ {Bootstrap} : Exists(a, t) =>
          /\ a[t].base \in TxIds
          /\ a[a[t].base].status \in EverPromoted
          /\ a[a[t].base].id < a[t].id

\* The query for a new row's base answers with a promoted row.
LEMMA LatestPromotedExists ==
    ASSUME NEW a, NEW n, TableInv(a, n), Exists(a, Bootstrap)
    PROVE  /\ LatestPromotedTxID(a) \in TxIds
           /\ a[LatestPromotedTxID(a)].status = "promoted"
           /\ a[LatestPromotedTxID(a)].id <= n
<1>1. TableOK(a, n) /\ a[Bootstrap].status = "promoted" /\ Bootstrap \in TxIds
  BY TxAssumption DEF TableInv, Exists
<1>2. LatestArtifactByStatus(a, "promoted") # {}
  BY <1>1, LatestExists
<1>3. PICK t \in TxIds : t \in LatestArtifactByStatus(a, "promoted")
  BY <1>2 DEF LatestArtifactByStatus, WithStatus
<1>4. WithStatus(a, "promoted") # {}
  BY <1>1 DEF WithStatus
<1>5. LatestPromotedTxID(a) \in TxIds
      /\ LatestPromotedTxID(a) \in LatestArtifactByStatus(a, "promoted")
  BY <1>3, <1>4 DEF LatestPromotedTxID
<1>6. a[LatestPromotedTxID(a)].status = "promoted"
  BY <1>5 DEF LatestArtifactByStatus, WithStatus
<1> QED BY <1>1, <1>5, <1>6 DEF TableOK

\* Without the baseline record the table is empty and the query answers NULL.
LEMMA NoBootstrapNoPromoted ==
    ASSUME NEW a, NEW n, TableInv(a, n), ~Exists(a, Bootstrap)
    PROVE  LatestPromotedTxID(a) = None
<1>1. \A t \in TxIds : a[t].status = "absent"
  BY DEF TableInv, Exists
<1>2. WithStatus(a, "promoted") = {}
  BY <1>1 DEF WithStatus
<1> QED BY <1>2 DEF LatestPromotedTxID

(***************************************************************************)
(* What a conditional status update does.                                  *)
(***************************************************************************)
Moved(a, b, t, from, to) ==
    /\ b \in [TxIds -> Row]
    /\ \A u \in TxIds : b[u].base = a[u].base /\ b[u].id = a[u].id
    /\ \A u \in TxIds : \/ b[u].status = a[u].status
                        \/ u = t /\ a[u].status = from /\ b[u].status = to
    /\ a[t].status = from => b[t].status = to

\* A conditional update moves at most the row it names, and only along the table.
LEMMA TransitionMoves ==
    ASSUME NEW a \in [TxIds -> Row], NEW t \in TxIds, NEW from, NEW to \in Status,
           IsValidArtifactStatusTransition(from, to)
    PROVE  Moved(a, TransitionArtifactStatus(a, t, from, to), t, from, to)
BY DEF Moved, TransitionArtifactStatus, Row

\* No conditional update along the table breaks the table, as long as it does
\* not retire a promoted row that has no base.
LEMMA MovedKeepsTable ==
    ASSUME NEW a, NEW b, NEW n, NEW t \in TxIds, NEW from, NEW to,
           TableInv(a, n), Moved(a, b, t, from, to),
           IsValidArtifactStatusTransition(from, to),
           from = "promoted" => a[t].base # None
    PROVE  TableInv(b, n)
<1>1. from # "absent" /\ to # "absent"
  BY DEF IsValidArtifactStatusTransition, artifactTransitions
<1>2. from \in EverPromoted => to \in EverPromoted
  BY DEF IsValidArtifactStatusTransition, artifactTransitions, EverPromoted, Retiring
<1>3. \A u \in TxIds : Exists(b, u) <=> Exists(a, u)
  BY <1>1 DEF Moved, Exists
<1>4. \A u \in TxIds : a[u].status \in EverPromoted => b[u].status \in EverPromoted
  BY <1>2 DEF Moved
<1>5. TableOK(b, n)
  BY DEF TableInv, TableOK, Moved
<1>6. b[Bootstrap].status = a[Bootstrap].status
  BY <1>1, TxAssumption DEF TableInv, Moved
<1> QED BY <1>3, <1>4, <1>5, <1>6, TxAssumption DEF TableInv, Moved

\* A new row on top of the latest promoted one keeps the table in order.
LEMMA InsertKeepsTable ==
    ASSUME NEW a, NEW n, NEW t \in TxIds, TableInv(a, n),
           Exists(a, Bootstrap), ~Exists(a, t)
    PROVE  TableInv(InsertArtifact(a, t, LatestPromotedTxID(a), "created", n + 1), n + 1)
<1> DEFINE base == LatestPromotedTxID(a)
           b == InsertArtifact(a, t, base, "created", n + 1)
<1>1. base \in TxIds /\ a[base].status = "promoted" /\ a[base].id <= n
  BY LatestPromotedExists
<1> HIDE DEF base
<1>2. n \in Nat /\ a \in [TxIds -> Row] /\ \A u \in TxIds : a[u].id \in Nat /\ a[u].id <= n
  BY DEF TableInv, TableOK, Row
<1>3. /\ b[t] = [status |-> "created", base |-> base, id |-> n + 1]
      /\ \A u \in TxIds \ {t} : b[u] = a[u]
  BY <1>2 DEF InsertArtifact
<1>4. b \in [TxIds -> Row]
  BY <1>1, <1>2 DEF InsertArtifact, Row, NullableTx, Status, Pipeline
<1>5. TableOK(b, n + 1)
  BY <1>2, <1>3, <1>4 DEF TableOK
<1>6. t # Bootstrap /\ t # base
  BY <1>1 DEF Exists
<1> HIDE DEF b
<1>7. \A u \in TxIds \ {Bootstrap} : Exists(b, u) =>
          /\ b[u].base \in TxIds
          /\ b[b[u].base].status \in EverPromoted
          /\ b[b[u].base].id < b[u].id
  <2> SUFFICES ASSUME NEW u \in TxIds \ {Bootstrap}, Exists(b, u)
               PROVE  /\ b[u].base \in TxIds
                      /\ b[b[u].base].status \in EverPromoted
                      /\ b[b[u].base].id < b[u].id
    OBVIOUS
  <2>1. CASE u = t
    BY <2>1, <1>1, <1>2, <1>3, <1>6 DEF EverPromoted
  <2>2. CASE u # t
    <3>1. Exists(a, u) /\ b[u] = a[u]
      BY <2>2, <1>3 DEF Exists
    <3>2. a[u].base # t
      BY <3>1 DEF TableInv, Exists, EverPromoted, Retiring
    <3> QED BY <3>1, <3>2, <1>3 DEF TableInv
  <2> QED BY <2>1, <2>2
<1>8. b[Bootstrap] = a[Bootstrap] /\ Exists(b, Bootstrap)
  BY <1>3, <1>6, TxAssumption DEF Exists
<1>9. \A u \in TxIds : ~Exists(b, u) => b[u].base = None
  BY <1>3 DEF TableInv, Exists
<1>10. b[Bootstrap].status \in {"absent", "promoted"} /\ b[Bootstrap].base = None
  BY <1>8 DEF TableInv
<1>11. TableInv(b, n + 1)
  BY <1>5, <1>7, <1>8, <1>9, <1>10 DEF TableInv
<1> QED BY <1>11 DEF b, base

\* The baseline record enters the empty table.
LEMMA BootstrapKeepsTable ==
    ASSUME NEW a, NEW n, TableInv(a, n), ~Exists(a, Bootstrap)
    PROVE  LET b == InsertArtifact(a, Bootstrap, None, "promoted", n + 1)
           IN  /\ TableInv(b, n + 1)
               /\ Exists(b, Bootstrap)
               /\ \A u \in TxIds : b[u].status \in {"absent", "promoted"}
<1> DEFINE b == InsertArtifact(a, Bootstrap, None, "promoted", n + 1)
<1>1. n \in Nat /\ a \in [TxIds -> Row] /\ \A u \in TxIds : a[u].id \in Nat /\ a[u].id <= n
  BY DEF TableInv, TableOK, Row
<1>2. /\ b[Bootstrap] = [status |-> "promoted", base |-> None, id |-> n + 1]
      /\ \A u \in TxIds \ {Bootstrap} : b[u] = a[u] /\ a[u].status = "absent"
  BY <1>1, TxAssumption DEF InsertArtifact, TableInv, Exists
<1>3. b \in [TxIds -> Row]
  BY <1>1, TxAssumption DEF InsertArtifact, Row, NullableTx, Status, Deployed, Retiring
<1> HIDE DEF b
<1>4. TableOK(b, n + 1)
  BY <1>1, <1>2, <1>3, TxAssumption DEF TableOK
<1>5. \A u \in TxIds : b[u].base = None
  <2>1. \A u \in TxIds \ {Bootstrap} : b[u].base = None
    BY <1>2 DEF TableInv, Exists
  <2>2. b[Bootstrap].base = None
    BY <1>2
  <2> QED BY <2>1, <2>2
<1>6. TableInv(b, n + 1)
  BY <1>2, <1>4, <1>5, TxAssumption DEF TableInv, Exists
<1>7. Exists(b, Bootstrap) /\ \A u \in TxIds : b[u].status \in {"absent", "promoted"}
  BY <1>2 DEF Exists
<1> QED BY <1>6, <1>7 DEF b

\* The startup cleanup leaves no row in progress and everything else alone.
LEMMA CleanupKeepsTable ==
    ASSUME NEW a, NEW n, TableInv(a, n)
    PROVE  LET b == CleanupInProgressArtifacts(a)
           IN  /\ TableInv(b, n)
               /\ \A u \in TxIds :
                     /\ b[u].status # "deploying"
                     /\ b[u].base = a[u].base
                     /\ \/ b[u].status = a[u].status
                        \/ IsValidArtifactStatusTransition(a[u].status, b[u].status)
                     /\ a[u].status \in EverPromoted \cup {"absent"} =>
                           b[u].status = a[u].status
                     /\ b[u].status \in EverPromoted \cup {"absent"} =>
                           b[u].status = a[u].status
<1> DEFINE b == CleanupInProgressArtifacts(a)
<1>1. a \in [TxIds -> Row]
  BY DEF TableInv, TableOK
<1>2. \A u \in TxIds : /\ b[u].base = a[u].base /\ b[u].id = a[u].id
                        /\ b[u].status = Interrupted(a[u].status)
  BY <1>1 DEF CleanupInProgressArtifacts, Row
<1>3. \A s \in Status :
          /\ Interrupted(s) \in Status
          /\ Interrupted(s) # "deploying"
          /\ Interrupted(s) = s \/ IsValidArtifactStatusTransition(s, Interrupted(s))
          /\ s \in EverPromoted \cup {"absent"} => Interrupted(s) = s
          /\ Interrupted(s) \in EverPromoted \cup {"absent"} => Interrupted(s) = s
  BY DEF Interrupted, Status, Pipeline, Rejected, Waiting, Deployed, Retiring,
         EverPromoted, IsValidArtifactStatusTransition, artifactTransitions
<1>4. b \in [TxIds -> Row]
  BY <1>1, <1>3 DEF CleanupInProgressArtifacts, Row
<1> HIDE DEF b
<1>5. \A u \in TxIds : a[u].status \in Status
  BY <1>1 DEF Row
<1>6. \A u \in TxIds :
          /\ b[u].status # "deploying"
          /\ \/ b[u].status = a[u].status
             \/ IsValidArtifactStatusTransition(a[u].status, b[u].status)
          /\ a[u].status \in EverPromoted \cup {"absent"} => b[u].status = a[u].status
          /\ b[u].status \in EverPromoted \cup {"absent"} => b[u].status = a[u].status
  BY <1>2, <1>3, <1>5
<1>7. TableOK(b, n)
  BY <1>2, <1>4 DEF TableInv, TableOK
<1>8. \A u \in TxIds : Exists(b, u) <=> Exists(a, u)
  BY <1>6 DEF Exists
<1>9. TableInv(b, n)
  <2>1. b[Bootstrap].status = a[Bootstrap].status
    BY <1>6, TxAssumption DEF TableInv, EverPromoted
  <2>2. \A u \in TxIds \ {Bootstrap} : Exists(b, u) =>
          /\ b[u].base \in TxIds
          /\ b[b[u].base].status \in EverPromoted
          /\ b[b[u].base].id < b[u].id
    BY <1>2, <1>6, <1>8 DEF TableInv
  <2> QED BY <1>2, <1>7, <1>8, <2>1, <2>2, TxAssumption DEF TableInv
<1> QED BY <1>2, <1>6, <1>9 DEF b

(***************************************************************************)
(* The inductive invariant.                                                *)
(***************************************************************************)
\* Once the supervisor is past its startup the baseline record exists.
BaselineInv ==
    spc \notin {"startup", "down"} => Exists(art, Bootstrap)

\* At most one row is deploying, and it is the one the supervisor holds.
DeployInv ==
    /\ DeployingIsOwned
    /\ \A t, u \in TxIds :
          art[t].status = "deploying" /\ art[u].status = "deploying" => t = u
    /\ spc \in {"verify", "switch", "complete"} =>
          cur \in TxIds /\ art[cur].status = "deploying"

\* The row being rolled back stays pending until the supervisor marks it, and
\* by then the link names its base.
RollbackInv ==
    /\ spc \in {"rb_switch", "rb_mark"} =>
          cur \in TxIds /\ art[cur].status = "rollback_pending"
    /\ spc = "rb_mark" => active = art[cur].base

\* Where worker.current may point.
LinkInv ==
    /\ ActiveIsDeployed
    /\ spc = "startup" => active = Bootstrap
    /\ active \in TxIds /\ art[active].status = "deploying" => spc \in {"complete", "down"}

\* What the processes hold in memory.
MemoryInv ==
    /\ spc \in {"promote_mark", "crash_mark"} => cur \in TxIds
    /\ worker # "dead" => spc = "wait"
    /\ worker = "staging" => wjob \in TxIds
    /\ worker = "rollback" =>
          /\ wjob \in TxIds
          /\ art[wjob].base # None
          /\ wread \in {"deployed_unstable", "promoted"}
    /\ \A w \in Watchers : watch[w].pc = "selected" => watch[w].tx \in TxIds

IInv ==
    /\ TypeOK
    /\ TableInv(art, seq)
    /\ BaselineInv
    /\ DeployInv
    /\ RollbackInv
    /\ LinkInv
    /\ MemoryInv

(***************************************************************************)
(* The initial state.                                                      *)
(***************************************************************************)
\* The first start of the container establishes the invariant.
LEMMA InitInv == Init => IInv
<1> SUFFICES ASSUME Init PROVE IInv
  OBVIOUS
<1> USE TxAssumption, ParameterAssumption
<1>1. TypeOK
  BY DEF Init, TypeOK, Row, NoRow, Status, NullableTx, Binaries, SupervisorPC,
         IdleWatcher
<1>2. TableInv(art, seq)
  BY DEF Init, TableInv, TableOK, Row, NoRow, Status, NullableTx, Exists
<1>3. \A t \in TxIds : art[t].status = "absent"
  BY DEF Init, NoRow
<1>4. BaselineInv /\ DeployInv /\ RollbackInv /\ LinkInv /\ MemoryInv
  BY <1>3 DEF Init, BaselineInv, DeployInv, DeployingIsOwned, RollbackInv, LinkInv,
              ActiveIsDeployed, MemoryInv, IdleWatcher
<1> QED BY <1>1, <1>2, <1>4 DEF IInv

(***************************************************************************)
(* Steps that leave the table alone.                                       *)
(***************************************************************************)

\* The parts of the invariant about the table and the processes' control state
\* survive a step that changes neither.
LEMMA QuietStep ==
    ASSUME IInv, UNCHANGED <<art, seq, active, spc, cur>>,
           TypeOK', MemoryInv'
    PROVE  IInv'
<1>1. TableInv(art, seq)'
  BY DEF IInv
<1>2. BaselineInv' /\ DeployInv' /\ RollbackInv' /\ LinkInv'
  BY DEF IInv, BaselineInv, DeployInv, DeployingIsOwned, RollbackInv, LinkInv,
         ActiveIsDeployed, Exists
<1> QED BY <1>1, <1>2 DEF IInv

(***************************************************************************)
(* Worker steps.                                                           *)
(***************************************************************************)

\* A conditional update of a row by the worker or a watcher: it starts or ends
\* no deployment, and touches no pending rollback.
LEMMA ForeignMove ==
    ASSUME IInv, NEW t \in TxIds, NEW from, NEW to,
           Moved(art, art', t, from, to), IsValidArtifactStatusTransition(from, to),
           from = "promoted" => art[t].base # None,
           from \notin {"approved", "deploying", "rollback_pending"},
           UNCHANGED <<seq, active, spc, cur>>, TypeOK', MemoryInv'
    PROVE  IInv'
<1>1. TableInv(art, seq)'
  BY MovedKeepsTable DEF IInv
<1>2. to # "deploying" /\ to # "absent" /\ from # "absent"
      /\ (from \in Deployed => to \in Deployed)
  BY DEF IsValidArtifactStatusTransition, artifactTransitions, Deployed, Retiring
<1>3. BaselineInv'
  BY <1>2, TxAssumption DEF IInv, BaselineInv, Exists, Moved
<1>4. DeployInv'
  BY <1>2 DEF IInv, DeployInv, DeployingIsOwned, Moved
<1>5. RollbackInv'
  BY DEF IInv, RollbackInv, Moved
<1>6. LinkInv'
  BY <1>2 DEF IInv, LinkInv, ActiveIsDeployed, Moved
<1> QED BY <1>1, <1>3, <1>4, <1>5, <1>6 DEF IInv

\* The stage pipeline, whichever gate passes or fails.
LEMMA StageStepInv == IInv /\ StageNext => IInv'
<1> SUFFICES ASSUME IInv, StageNext PROVE IInv'
  OBVIOUS
<1> DEFINE Edge(from, to) ==
        /\ art' = TransitionArtifactStatus(art, wjob, from, to)
        /\ IsValidArtifactStatusTransition(from, to)
        /\ from \in Pipeline /\ to \in Status
<1>1. wjob \in TxIds /\ art \in [TxIds -> Row] /\ worker = "staging"
  BY DEF IInv, MemoryInv, TypeOK, StageNext, StageStep, BeginBuild, BuildSucceeds,
         BuildFails, TestsPass, TestsFail, SelfCheckPasses, SelfCheckFails
<1>2. PICK from, to : Edge(from, to)
  BY DEF StageNext, StageStep, BeginBuild, BuildSucceeds, BuildFails, TestsPass,
         TestsFail, SelfCheckPasses, SelfCheckFails, Pipeline, Status, Rejected,
         Waiting, IsValidArtifactStatusTransition, artifactTransitions
<1>3. /\ UNCHANGED <<seq, active, sup, watch, wread, uptime, faults, proven>>
      /\ bin' \in [TxIds -> {"none", "built", "changed"}]
      /\ \/ worker' = worker /\ wjob' = wjob
         \/ worker' = "idle" /\ wjob' = None
  BY DEF StageNext, StageStep, StageContinues, StageEnds, BeginBuild, BuildSucceeds,
         BuildFails, TestsPass, TestsFail, SelfCheckPasses, SelfCheckFails, IInv, TypeOK
<1>4. Moved(art, art', wjob, from, to)
  BY <1>1, <1>2, TransitionMoves
<1>5. art' \in [TxIds -> Row]
  BY <1>4 DEF Moved
<1>6. TypeOK'
  BY <1>3, <1>5 DEF IInv, TypeOK, sup, NullableTx
<1>7. MemoryInv'
  BY <1>1, <1>3 DEF IInv, MemoryInv, sup
<1>8. from \notin {"approved", "deploying", "rollback_pending", "promoted"}
  BY <1>2 DEF Pipeline
<1> QED BY <1>1, <1>2, <1>3, <1>4, <1>6, <1>7, <1>8, ForeignMove DEF sup

\* The update commands of the worker.
LEMMA CommandStepInv == IInv /\ CommandNext => IInv'
<1> SUFFICES ASSUME IInv, NEW t \in TxIds,
                    StageCreate(t) \/ Approve(t) \/ Cancel(t) \/ RollbackRead(t)
             PROVE  IInv'
  BY DEF CommandNext
<1>0. art \in [TxIds -> Row] /\ seq \in Nat
  BY DEF IInv, TypeOK
<1>1. CASE StageCreate(t)
  <2>1. worker = "idle" /\ spc = "wait" /\ Exists(art, Bootstrap) /\ ~Exists(art, t)
    BY <1>1 DEF StageCreate, IInv, MemoryInv, BaselineInv
  <2>2. TableInv(art', seq')
    BY <1>1, <2>1, InsertKeepsTable DEF StageCreate, IInv
  <2>3. /\ art' \in [TxIds -> Row] /\ seq' \in Nat
        /\ \A u \in TxIds \ {t} : art'[u] = art[u]
        /\ art'[t].status = "created"
    <3>1. art'[t].status = "created" /\ \A u \in TxIds \ {t} : art'[u] = art[u]
      BY <1>0, <1>1 DEF StageCreate, InsertArtifact
    <3> QED BY <2>2, <3>1 DEF TableInv, TableOK
  <2>4. TypeOK'
    BY <1>1, <2>3 DEF StageCreate, IInv, TypeOK, files, sup, NullableTx
  <2>5. BaselineInv' /\ DeployInv'
    BY <1>1, <2>1, <2>3, TxAssumption
       DEF StageCreate, IInv, BaselineInv, DeployInv, DeployingIsOwned, Exists, sup
  <2>6. RollbackInv' /\ MemoryInv'
    BY <1>1, <2>1, <2>3 DEF StageCreate, IInv, RollbackInv, MemoryInv, Exists, sup
  <2>7. LinkInv'
    BY <1>1, <2>1, <2>3
       DEF StageCreate, IInv, LinkInv, ActiveIsDeployed, Deployed, Retiring, Exists, sup,
           files
  <2> QED BY <2>2, <2>4, <2>5, <2>6, <2>7 DEF IInv
<1>2. CASE Approve(t)
  <2>1. Moved(art, art', t, "staged", "approved")
    BY <1>0, <1>2, TransitionMoves
       DEF Approve, Status, Waiting, IsValidArtifactStatusTransition, artifactTransitions
  <2>2. TypeOK' /\ MemoryInv'
    BY <1>2, <2>1 DEF Approve, IInv, TypeOK, MemoryInv, Moved, files, sup
  <2> QED BY <1>2, <2>1, <2>2, ForeignMove
          DEF Approve, files, sup, IsValidArtifactStatusTransition, artifactTransitions
<1>3. CASE Cancel(t)
  <2>1. Moved(art, art', t, "staged", "cancelled")
    BY <1>0, <1>3, TransitionMoves
       DEF Cancel, Status, Rejected, IsValidArtifactStatusTransition, artifactTransitions
  <2>2. TypeOK' /\ MemoryInv'
    BY <1>3, <2>1 DEF Cancel, IInv, TypeOK, MemoryInv, Moved, files, sup, wrk
  <2> QED BY <1>3, <2>1, <2>2, ForeignMove
          DEF Cancel, files, sup, IsValidArtifactStatusTransition, artifactTransitions
<1>4. CASE RollbackRead(t)
  <2>1. TypeOK'
    BY <1>0, <1>4 DEF RollbackRead, IInv, TypeOK, db, files, sup, NullableTx, Row
  <2>2. MemoryInv'
    BY <1>4 DEF RollbackRead, IInv, MemoryInv, db, files, sup
  <2> QED BY <1>4, <2>1, <2>2, QuietStep DEF RollbackRead, db, files, sup
<1> QED BY <1>1, <1>2, <1>3, <1>4

\* The end of a command: the rollback request, the reply, the death of the worker.
LEMMA ReplyStepInv == IInv /\ (ReplyNext \/ WorkerDies) => IInv'
<1>1. ASSUME IInv, RollbackUpdate PROVE IInv'
  <2>1. /\ worker = "rollback" /\ wjob \in TxIds /\ art[wjob].base # None
        /\ wread \in {"deployed_unstable", "promoted"} /\ art \in [TxIds -> Row]
    BY <1>1 DEF RollbackUpdate, IInv, MemoryInv, TypeOK
  <2>2. IsValidArtifactStatusTransition(wread, "rollback_pending")
    BY <2>1 DEF IsValidArtifactStatusTransition, artifactTransitions
  <2>3. Moved(art, art', wjob, wread, "rollback_pending")
    BY <1>1, <2>1, <2>2, TransitionMoves DEF RollbackUpdate, Status, Deployed, Retiring
  <2>4. TypeOK' /\ MemoryInv'
    BY <1>1, <2>3 DEF RollbackUpdate, IInv, TypeOK, MemoryInv, Moved, files, sup,
                      NullableTx, Status
  <2> QED BY <1>1, <2>1, <2>2, <2>3, <2>4, ForeignMove DEF RollbackUpdate, files, sup
<1>2. ASSUME IInv, ReplySent \/ ReplyFails \/ WorkerDies PROVE IInv'
  <2>1. TypeOK' /\ MemoryInv'
    BY <1>2 DEF ReplySent, ReplyFails, WorkerDies, IInv, TypeOK, MemoryInv, db, files,
                sup, NullableTx, Status
  <2> QED BY <1>2, <2>1, QuietStep DEF ReplySent, ReplyFails, WorkerDies, db, files, sup
<1> QED BY <1>1, <1>2 DEF ReplyNext

(***************************************************************************)
(* Watchers, the passing of time and changing files.                       *)
(***************************************************************************)
\* A watcher that fires, selects a row and promotes it.
LEMMA WatcherStepInv == IInv /\ WatcherNext => IInv'
<1> SUFFICES ASSUME IInv, NEW w \in Watchers,
                    WatcherFires(w) \/ WatcherSelects(w) \/ WatcherPromotes(w)
             PROVE  IInv'
  BY DEF WatcherNext
<1>1. CASE WatcherFires(w)
  <2>1. TypeOK' /\ MemoryInv'
    BY <1>1 DEF WatcherFires, IInv, TypeOK, MemoryInv, db, files, sup, wrk
  <2> QED BY <1>1, <2>1, QuietStep DEF WatcherFires, db, files, sup
<1>2. CASE WatcherSelects(w)
  <2>1. \A t \in LatestArtifactByStatus(art, "deployed_unstable") : t \in TxIds
    BY DEF LatestArtifactByStatus, WithStatus
  <2>2. PICK v \in [pc : {"idle", "fired", "selected"}, tx : NullableTx] :
            /\ watch' = [watch EXCEPT ![w] = v]
            /\ v.pc = "selected" => v.tx \in TxIds
    BY <1>2, <2>1 DEF WatcherSelects, IdleWatcher, NullableTx
  <2>3. TypeOK'
    BY <1>2, <2>2 DEF WatcherSelects, IInv, TypeOK, db, files, sup, wrk
  <2>4. MemoryInv'
    BY <1>2, <2>2 DEF WatcherSelects, IInv, TypeOK, MemoryInv, db, files, sup, wrk
  <2> QED BY <1>2, <2>3, <2>4, QuietStep DEF WatcherSelects, db, files, sup
<1>3. CASE WatcherPromotes(w)
  <2>1. watch[w].tx \in TxIds /\ art \in [TxIds -> Row]
    BY <1>3 DEF WatcherPromotes, IInv, MemoryInv, TypeOK
  <2>2. IsValidArtifactStatusTransition("deployed_unstable", "promoted")
    BY DEF IsValidArtifactStatusTransition, artifactTransitions
  <2>3. Moved(art, art', watch[w].tx, "deployed_unstable", "promoted")
    BY <1>3, <2>1, <2>2, TransitionMoves
       DEF WatcherPromotes, MarkArtifactPromoted, Status, Deployed
  <2>4. TypeOK' /\ MemoryInv'
    BY <1>3, <2>3 DEF WatcherPromotes, IInv, TypeOK, MemoryInv, Moved, files, sup, wrk,
                      IdleWatcher, NullableTx
  <2> QED BY <1>3, <2>1, <2>2, <2>3, <2>4, ForeignMove DEF WatcherPromotes, files, sup
<1> QED BY <1>1, <1>2, <1>3

\* The stable window passes; a file of an artifact changes.
LEMMA EnvironmentStepInv ==
    IInv /\ (StableWindowPasses \/ \E t \in TxIds : FileChanges(t)) => IInv'
<1> SUFFICES ASSUME IInv, StableWindowPasses \/ \E t \in TxIds : FileChanges(t)
             PROVE  IInv'
  OBVIOUS
<1>1. TypeOK' /\ MemoryInv'
  BY ParameterAssumption
     DEF StableWindowPasses, FileChanges, Fault, IInv, TypeOK, MemoryInv, db, files, sup, wrk
<1> QED BY <1>1, QuietStep DEF StableWindowPasses, FileChanges, db, files, sup

(***************************************************************************)
(* Supervisor steps.                                                       *)
(***************************************************************************)

\* Startup, and the death of the supervisor.
LEMMA StartupStepInv ==
    IInv /\ (StartupScript \/ SupervisorStartup \/ SupervisorDies) => IInv'
<1>1. ASSUME IInv, StartupScript PROVE IInv'
  <2>1. TypeOK'
    BY <1>1, TxAssumption DEF StartupScript, IInv, TypeOK, db, wrk, Binaries, SupervisorPC
  <2>2. TableInv(art, seq)'
    BY <1>1 DEF StartupScript, IInv, db
  <2>3. BaselineInv' /\ DeployInv' /\ RollbackInv' /\ MemoryInv'
    BY <1>1 DEF StartupScript, IInv, BaselineInv, DeployInv, DeployingIsOwned, RollbackInv,
                MemoryInv, db, wrk
  <2>4. LinkInv'
    BY <1>1 DEF StartupScript, IInv, LinkInv, ActiveIsDeployed, TableInv, db
  <2> QED BY <2>1, <2>2, <2>3, <2>4 DEF IInv
<1>2. ASSUME IInv, SupervisorStartup PROVE IInv'
  <2> DEFINE old == IF Exists(art, Bootstrap) THEN art
                    ELSE InsertArtifact(art, Bootstrap, None, "promoted", seq + 1)
             n == IF Exists(art, Bootstrap) THEN seq ELSE seq + 1
  <2>1. art' = CleanupInProgressArtifacts(old) /\ seq' = n
    BY <1>2, NoBootstrapNoPromoted DEF SupervisorStartup, IInv
  <2>2. TableInv(old, n) /\ Exists(old, Bootstrap)
    BY <1>2, BootstrapKeepsTable DEF IInv
  <2> HIDE DEF old, n
  <2>3. /\ TableInv(art', seq')
        /\ \A u \in TxIds : art'[u].status # "deploying"
        /\ art'[Bootstrap].status = old[Bootstrap].status
    <3>1. old[Bootstrap].status \in EverPromoted \cup {"absent"}
      BY <2>2 DEF TableInv, EverPromoted
    <3> QED BY <2>1, <2>2, <3>1, CleanupKeepsTable, TxAssumption
  <2>4. Exists(art', Bootstrap)
    BY <2>2, <2>3 DEF Exists
  <2>5. TypeOK'
    BY <1>2, <2>3 DEF SupervisorStartup, IInv, TypeOK, TableInv, TableOK, files, wrk,
                      SupervisorPC
  <2>6. BaselineInv' /\ DeployInv' /\ RollbackInv'
    BY <1>2, <2>3, <2>4 DEF SupervisorStartup, BaselineInv, DeployInv, DeployingIsOwned,
                            RollbackInv, Exists
  <2>7. worker = "dead" /\ active = Bootstrap
    BY <1>2 DEF SupervisorStartup, IInv, MemoryInv, LinkInv
  <2>8. LinkInv'
    BY <1>2, <2>3, <2>7, TxAssumption DEF SupervisorStartup, LinkInv, ActiveIsDeployed, files
  <2>9. MemoryInv'
    BY <1>2, <2>7 DEF SupervisorStartup, IInv, MemoryInv, wrk
  <2> QED BY <2>3, <2>5, <2>6, <2>8, <2>9 DEF IInv
<1>3. ASSUME IInv, SupervisorDies PROVE IInv'
  <2>1. TypeOK' /\ MemoryInv'
    BY <1>3, ParameterAssumption
       DEF SupervisorDies, Fault, IInv, TypeOK, MemoryInv, IdleWatcher, db, files,
           NullableTx, Status, SupervisorPC
  <2>2. TableInv(art, seq)'
    BY <1>3 DEF SupervisorDies, IInv, db
  <2>3. BaselineInv' /\ DeployInv' /\ RollbackInv' /\ LinkInv'
    BY <1>3 DEF SupervisorDies, IInv, BaselineInv, DeployInv, DeployingIsOwned, RollbackInv,
                LinkInv, ActiveIsDeployed, db, files
  <2> QED BY <2>1, <2>2, <2>3 DEF IInv
<1> QED BY <1>1, <1>2, <1>3

\* A step of the supervisor's loop that only reads the table and does not move
\* the link: it is outside startup before and after (or has just died), holds
\* no deployment, and picks a row to roll back only if that row is pending.
LEMMA LoopReadStep ==
    ASSUME IInv, UNCHANGED <<art, seq, active>>, TypeOK', MemoryInv',
           spc \notin {"startup", "down", "verify", "switch", "complete"},
           spc' \notin {"startup", "verify", "switch", "complete", "rb_mark"},
           spc' = "rb_switch" => cur' \in TxIds /\ art[cur'].status = "rollback_pending"
    PROVE  IInv'
<1>1. TableInv(art, seq)' /\ BaselineInv'
  BY DEF IInv, BaselineInv, Exists
<1>2. \A t \in TxIds : art[t].status # "deploying"
  BY DEF IInv, DeployInv, DeployingIsOwned
<1>3. DeployInv' /\ RollbackInv' /\ LinkInv'
  BY <1>2 DEF IInv, DeployInv, DeployingIsOwned, RollbackInv, LinkInv, ActiveIsDeployed
<1> QED BY <1>1, <1>3 DEF IInv

\* The decisions of the loop that only read the table.
LEMMA LoopReadInv ==
    IInv /\ (ProcessPendingRollback \/ RollbackSwitchFails \/ SpawnWorker
              \/ WorkerReaped \/ PromoteSelect \/ CrashLoopSelect) => IInv'
<1> DEFINE Latest(s) == LatestArtifactByStatus(art, s)
<1>0. \A s : \A t \in Latest(s) : t \in TxIds /\ art[t].status = s
  BY DEF LatestArtifactByStatus, WithStatus
<1> HIDE DEF Latest
<1>1. ASSUME IInv, ProcessPendingRollback PROVE IInv'
  <2>1. /\ spc = "pending" /\ worker = "dead"
        /\ \/ spc' = "claim" /\ cur' = cur
           \/ spc' = "rb_switch" /\ cur' \in TxIds /\ art[cur'].status = "rollback_pending"
    BY <1>0, <1>1 DEF ProcessPendingRollback, Latest, IInv, MemoryInv
  <2>2. TypeOK' /\ MemoryInv'
    BY <1>1, <2>1 DEF ProcessPendingRollback, IInv, TypeOK, MemoryInv, db, files, wrk,
                      SupervisorPC, NullableTx
  <2> QED BY <1>1, <2>1, <2>2, LoopReadStep DEF ProcessPendingRollback, db, files
<1>2. ASSUME IInv, RollbackSwitchFails PROVE IInv'
  <2>1. spc = "rb_switch" /\ worker = "dead" /\ spc' \in {"claim", "git_rollback"}
    BY <1>2 DEF RollbackSwitchFails, RollbackReturns, IInv, MemoryInv
  <2>2. TypeOK' /\ MemoryInv'
    BY <1>2, <2>1, ParameterAssumption
       DEF RollbackSwitchFails, RollbackReturns, Fault, IInv, TypeOK, MemoryInv, db, files,
           wrk, SupervisorPC, NullableTx
  <2> QED BY <1>2, <2>1, <2>2, LoopReadStep DEF RollbackSwitchFails, db, files
<1>3. ASSUME IInv, SpawnWorker PROVE IInv'
  <2>1. spc = "spawn" /\ worker = "dead" /\ spc' \in {"down", "wait"}
    BY <1>3 DEF SpawnWorker, IInv, MemoryInv
  <2>2. TypeOK' /\ MemoryInv'
    BY <1>3, <2>1 DEF SpawnWorker, IInv, TypeOK, MemoryInv, IdleWatcher, db, files,
                      SupervisorPC, NullableTx
  <2> QED BY <1>3, <2>1, <2>2, LoopReadStep DEF SpawnWorker, db, files
<1>4. ASSUME IInv, WorkerReaped PROVE IInv'
  <2>1. spc = "wait" /\ worker = "dead" /\ spc' \in {"crash_loop", "pending", "promote"}
    BY <1>4 DEF WorkerReaped
  <2>2. crashes' \in Nat
    BY <1>4 DEF WorkerReaped, IInv, TypeOK
  <2>3. TypeOK' /\ MemoryInv'
    BY <1>4, <2>1, <2>2 DEF WorkerReaped, IInv, TypeOK, MemoryInv, db, files, wrk,
                            SupervisorPC
  <2> QED BY <1>4, <2>1, <2>3, LoopReadStep DEF WorkerReaped, db, files
<1>5. ASSUME IInv, PromoteSelect PROVE IInv'
  <2>1. /\ spc = "promote" /\ worker = "dead"
        /\ \/ spc' = "pending" /\ cur' = cur
           \/ spc' = "promote_mark" /\ cur' \in TxIds
    BY <1>0, <1>5 DEF PromoteSelect, Latest, IInv, MemoryInv
  <2>2. TypeOK' /\ MemoryInv'
    BY <1>5, <2>1 DEF PromoteSelect, IInv, TypeOK, MemoryInv, db, files, wrk, SupervisorPC,
                      NullableTx
  <2> QED BY <1>5, <2>1, <2>2, LoopReadStep DEF PromoteSelect, db, files
<1>6. ASSUME IInv, CrashLoopSelect PROVE IInv'
  <2>1. /\ spc = "crash_loop" /\ worker = "dead"
        /\ \/ spc' = "git_rollback" /\ cur' = cur
           \/ spc' = "crash_mark" /\ cur' \in TxIds
    BY <1>0, <1>6 DEF CrashLoopSelect, Latest, IInv, MemoryInv
  <2>2. TypeOK' /\ MemoryInv'
    BY <1>6, <2>1 DEF CrashLoopSelect, IInv, TypeOK, MemoryInv, db, files, wrk,
                      SupervisorPC, NullableTx
  <2> QED BY <1>6, <2>1, <2>2, LoopReadStep DEF CrashLoopSelect, db, files
<1> QED BY <1>1, <1>2, <1>3, <1>4, <1>5, <1>6

\* The rollback: the base is found, the link is switched, the row is marked.
LEMMA RollbackStepInv ==
    IInv /\ (RollbackSwitch \/ RollbackMark \/ CrashLoopMark \/ GitRollback) => IInv'
<1>1. ASSUME IInv, RollbackSwitch PROVE IInv'
  <2>1. /\ spc = "rb_switch" /\ worker = "dead" /\ cur \in TxIds
        /\ art[cur].status = "rollback_pending" /\ Exists(art, Bootstrap)
    BY <1>1 DEF RollbackSwitch, IInv, MemoryInv, RollbackInv, BaselineInv
  <2>2. /\ cur # Bootstrap
        /\ art[cur].base \in TxIds
        /\ art[art[cur].base].status \in EverPromoted
    BY <1>1, <2>1 DEF IInv, TableInv, Exists
  <2>3. Exists(art, art[cur].base) /\ art[cur].base # None
    BY <2>2, TxAssumption DEF EverPromoted, Retiring, Exists
  <2>4. active' = art[cur].base /\ spc' = "rb_mark" /\ UNCHANGED <<cur, crashes>>
    BY <1>1, <2>3 DEF RollbackSwitch
  <2>5. TypeOK' /\ MemoryInv'
    BY <1>1, <2>1, <2>2, <2>4 DEF RollbackSwitch, IInv, TypeOK, MemoryInv, db, wrk,
                                  SupervisorPC, Binaries
  <2>6. TableInv(art, seq)' /\ BaselineInv' /\ RollbackInv'
    BY <1>1, <2>1, <2>4 DEF RollbackSwitch, IInv, BaselineInv, RollbackInv, Exists, db
  <2>7. DeployInv' /\ LinkInv'
    BY <1>1, <2>1, <2>2, <2>4
       DEF RollbackSwitch, IInv, DeployInv, DeployingIsOwned, LinkInv, ActiveIsDeployed,
           EverPromoted, Deployed, Retiring, db
  <2> QED BY <2>5, <2>6, <2>7 DEF IInv
<1>2. ASSUME IInv, RollbackMark PROVE IInv'
  <2>1. /\ spc = "rb_mark" /\ worker = "dead" /\ cur \in TxIds
        /\ art[cur].status = "rollback_pending" /\ art \in [TxIds -> Row]
    BY <1>2 DEF RollbackMark, IInv, MemoryInv, RollbackInv, TypeOK
  <2>2. IsValidArtifactStatusTransition("rollback_pending", "rolled_back")
    BY DEF IsValidArtifactStatusTransition, artifactTransitions
  <2>3. Moved(art, art', cur, "rollback_pending", "rolled_back")
    BY <1>2, <2>1, <2>2, TransitionMoves
       DEF RollbackMark, MarkArtifactRolledBack, Status, Deployed, Retiring
  <2>4. spc' = "pending" /\ active' = active /\ seq' = seq /\ worker' = worker
        /\ crashes' \in Nat /\ cur' = None
    BY <1>2, <2>1 DEF RollbackMark, RollbackReturns, IInv, TypeOK, files, wrk
  <2>5. TypeOK' /\ MemoryInv'
    BY <1>2, <2>1, <2>3, <2>4 DEF RollbackMark, IInv, TypeOK, MemoryInv, Moved, files, wrk,
                                  SupervisorPC, NullableTx
  <2>6. TableInv(art, seq)'
    BY <2>1, <2>2, <2>3, <2>4, <1>2, MovedKeepsTable DEF IInv
  <2>7. BaselineInv' /\ RollbackInv' /\ DeployInv'
    BY <1>2, <2>1, <2>3, <2>4, TxAssumption
       DEF IInv, BaselineInv, RollbackInv, DeployInv, DeployingIsOwned, Moved, Exists
  <2>8. LinkInv'
    BY <1>2, <2>1, <2>3, <2>4
       DEF IInv, LinkInv, ActiveIsDeployed, Moved, Deployed, Retiring
  <2> QED BY <2>5, <2>6, <2>7, <2>8 DEF IInv
<1>3. ASSUME IInv, CrashLoopMark PROVE IInv'
  <2>1. spc = "crash_mark" /\ worker = "dead" /\ cur \in TxIds /\ art \in [TxIds -> Row]
    BY <1>3 DEF CrashLoopMark, IInv, MemoryInv, TypeOK
  <2>2. IsValidArtifactStatusTransition("deployed_unstable", "rollback_pending")
    BY DEF IsValidArtifactStatusTransition, artifactTransitions
  <2>3. Moved(art, art', cur, "deployed_unstable", "rollback_pending")
    BY <1>3, <2>1, <2>2, TransitionMoves
       DEF CrashLoopMark, MarkArtifactRollbackPending, Status, Deployed, Retiring
  <2>4. /\ active' = active /\ seq' = seq /\ worker' = worker
        /\ \/ spc' = "rb_switch" /\ cur' = cur /\ art[cur].status = "deployed_unstable"
           \/ spc' = "git_rollback" /\ cur' = None
    BY <1>3 DEF CrashLoopMark, files, wrk
  <2>5. TypeOK' /\ MemoryInv'
    BY <1>3, <2>1, <2>3, <2>4 DEF CrashLoopMark, IInv, TypeOK, MemoryInv, Moved, files, wrk,
                                  SupervisorPC, NullableTx
  <2>6. TableInv(art, seq)'
    BY <2>1, <2>2, <2>3, <2>4, <1>3, MovedKeepsTable DEF IInv
  <2>7. BaselineInv' /\ RollbackInv' /\ DeployInv'
    BY <1>3, <2>1, <2>3, <2>4, TxAssumption
       DEF IInv, BaselineInv, RollbackInv, DeployInv, DeployingIsOwned, Moved, Exists
  <2>8. LinkInv'
    BY <1>3, <2>1, <2>3, <2>4
       DEF IInv, LinkInv, ActiveIsDeployed, Moved, Deployed, Retiring
  <2> QED BY <2>5, <2>6, <2>7, <2>8 DEF IInv
<1>4. ASSUME IInv, GitRollback PROVE IInv'
  <2>1. /\ spc = "git_rollback" /\ worker = "dead" /\ spc' = "pending"
        /\ UNCHANGED <<art, seq, cur>>
        /\ active' = active \/ active' = WorkspaceBuild
        /\ bin' = bin \/ bin' = [bin EXCEPT ![active] = "changed"]
    BY <1>4 DEF GitRollback, IInv, MemoryInv, db
  <2>2. TypeOK' /\ MemoryInv'
    BY <1>4, <2>1 DEF GitRollback, IInv, TypeOK, MemoryInv, db, wrk, SupervisorPC, Binaries
  <2>3. TableInv(art, seq)' /\ BaselineInv' /\ RollbackInv' /\ DeployInv'
    BY <1>4, <2>1 DEF IInv, BaselineInv, RollbackInv, DeployInv, DeployingIsOwned, Exists
  <2>4. LinkInv'
    BY <1>4, <2>1, TxAssumption DEF IInv, LinkInv, ActiveIsDeployed
  <2> QED BY <2>2, <2>3, <2>4 DEF IInv
<1> QED BY <1>1, <1>2, <1>3, <1>4

\* The deployment: one row is claimed, verified, linked and completed, or fails;
\* and the promotion that follows a stable run.
LEMMA DeployStepInv ==
    IInv /\ (ClaimApproved \/ VerifyHash \/ DeploySwitch \/ DeploySwitchFails
              \/ DeployComplete \/ PromoteMark) => IInv'
<1> DEFINE Edge(from, to) == IsValidArtifactStatusTransition(from, to)
<1>0. /\ Edge("approved", "deploying")
      /\ Edge("deploying", "deploy_failed")
      /\ Edge("deploying", "deployed_unstable")
      /\ Edge("deployed_unstable", "promoted")
      /\ {"deploying", "deploy_failed", "deployed_unstable", "promoted"} \subseteq Status
  BY DEF IsValidArtifactStatusTransition, artifactTransitions, Status, Rejected, Deployed
<1> HIDE DEF Edge
<1>1. ASSUME IInv, ClaimApproved PROVE IInv'
  <2>1. /\ spc = "claim" /\ worker = "dead" /\ art \in [TxIds -> Row]
        /\ \A t \in TxIds : art[t].status # "deploying"
    BY <1>1 DEF ClaimApproved, IInv, MemoryInv, TypeOK, DeployInv, DeployingIsOwned
  <2>2. CASE UNCHANGED <<art, cur>> /\ spc' = "spawn"
    <3>1. TypeOK' /\ MemoryInv'
      BY <1>1, <2>1, <2>2 DEF ClaimApproved, IInv, TypeOK, MemoryInv, files, wrk, SupervisorPC
    <3> QED BY <1>1, <2>1, <2>2, <3>1, LoopReadStep DEF ClaimApproved, files
  <2>3. CASE \E t \in OldestApproved(art) :
                /\ art' = TransitionArtifactStatus(art, t, "approved", "deploying")
                /\ cur' = t
                /\ spc' = "verify"
    <3>1. PICK t \in TxIds :
              /\ art[t].status = "approved"
              /\ art' = TransitionArtifactStatus(art, t, "approved", "deploying")
              /\ cur' = t
              /\ spc' = "verify"
      BY <2>3 DEF OldestApproved, WithStatus
    <3>2. Moved(art, art', t, "approved", "deploying")
      BY <1>0, <2>1, <3>1, TransitionMoves DEF Edge
    <3>3. UNCHANGED <<seq, active, caller, crashes, watch, worker, wjob, wread>>
      BY <1>1 DEF ClaimApproved, files, wrk
    <3>4. TypeOK' /\ MemoryInv'
      BY <1>1, <2>1, <3>1, <3>2, <3>3
         DEF ClaimApproved, IInv, TypeOK, MemoryInv, Moved, files, SupervisorPC, NullableTx
    <3>5. TableInv(art, seq)'
      BY <1>0, <1>1, <3>2, <3>3, MovedKeepsTable DEF IInv, Edge
    <3>6. BaselineInv' /\ RollbackInv'
      BY <1>1, <2>1, <3>1, <3>2, TxAssumption DEF IInv, BaselineInv, RollbackInv, Moved, Exists
    <3>7. DeployInv'
      BY <2>1, <3>1, <3>2 DEF DeployInv, DeployingIsOwned, Moved
    <3>8. LinkInv'
      BY <1>1, <2>1, <3>1, <3>2, <3>3
         DEF IInv, LinkInv, ActiveIsDeployed, Moved, Deployed, Retiring, TableInv
    <3> QED BY <3>4, <3>5, <3>6, <3>7, <3>8 DEF IInv
  <2> QED BY <1>1, <2>2, <2>3 DEF ClaimApproved
\* The row being deployed leaves "deploying" and the supervisor lets go of it.
<1>2. ASSUME IInv, spc \in {"verify", "switch", "complete"}, NEW to \in Status,
             art' = TransitionArtifactStatus(art, cur, "deploying", to),
             Edge("deploying", to), to \in Deployed \/ spc # "complete",
             spc' = "spawn", cur' = None,
             UNCHANGED <<seq, active, bin, caller, crashes, watch, worker, wjob, wread,
                         uptime, proven>>,
             faults' \in 0..MaxFaults
      PROVE  IInv'
  <2>1. /\ worker = "dead" /\ art \in [TxIds -> Row]
        /\ cur \in TxIds /\ art[cur].status = "deploying"
        /\ \A t \in TxIds : art[t].status = "deploying" => t = cur
    BY <1>2 DEF IInv, MemoryInv, TypeOK, DeployInv
  <2>2. Moved(art, art', cur, "deploying", to)
    BY <1>2, <2>1, TransitionMoves DEF Edge
  <2>3. to # "deploying" /\ to # "absent" /\ to # "rollback_pending"
    BY <1>2 DEF Edge, IsValidArtifactStatusTransition, artifactTransitions
  <2>4. TypeOK' /\ MemoryInv'
    BY <1>2, <2>1, <2>2 DEF IInv, TypeOK, MemoryInv, Moved, SupervisorPC, NullableTx
  <2>5. TableInv(art, seq)'
    BY <1>2, <2>1, <2>2, MovedKeepsTable DEF IInv, Edge
  <2>6. BaselineInv' /\ RollbackInv' /\ DeployInv'
    BY <1>2, <2>1, <2>2, <2>3, TxAssumption
       DEF IInv, BaselineInv, RollbackInv, DeployInv, DeployingIsOwned, Moved, Exists
  <2>7. LinkInv'
    <3>1. active \in TxIds /\ art[active].status = "deploying" => spc = "complete"
      BY <1>2 DEF IInv, LinkInv
    <3> QED BY <1>2, <2>1, <2>2, <2>3, <3>1 DEF IInv, LinkInv, ActiveIsDeployed, Moved
  <2> QED BY <2>4, <2>5, <2>6, <2>7 DEF IInv
<1>3. ASSUME IInv, VerifyHash PROVE IInv'
  <2>1. CASE bin[cur] = "built" /\ spc' = "switch" /\ UNCHANGED <<art, cur>>
    <3>1. TypeOK' /\ MemoryInv'
      BY <1>3, <2>1 DEF VerifyHash, IInv, TypeOK, MemoryInv, files, wrk, SupervisorPC
    <3>2. TableInv(art, seq)' /\ BaselineInv' /\ DeployInv' /\ RollbackInv' /\ LinkInv'
      BY <1>3, <2>1 DEF VerifyHash, IInv, BaselineInv, DeployInv, DeployingIsOwned,
                        RollbackInv, LinkInv, ActiveIsDeployed, Exists, files
    <3> QED BY <3>1, <3>2 DEF IInv
  <2>2. CASE art' = MarkArtifactDeployFailed(art, cur) /\ spc' = "spawn" /\ cur' = None
    <3>1. faults' \in 0..MaxFaults
      BY <1>3 DEF VerifyHash, IInv, TypeOK
    <3> QED BY <1>0, <1>2, <1>3, <2>2, <3>1
            DEF VerifyHash, MarkArtifactDeployFailed, files, wrk
  <2> QED BY <1>3, <2>1, <2>2 DEF VerifyHash
<1>4. ASSUME IInv, DeploySwitch PROVE IInv'
  <2>1. /\ spc = "switch" /\ worker = "dead" /\ spc' = "complete"
        /\ cur \in TxIds /\ art[cur].status = "deploying" /\ active' = cur
        /\ UNCHANGED <<art, seq, cur>>
    BY <1>4 DEF DeploySwitch, IInv, MemoryInv, DeployInv, db
  <2>2. TypeOK' /\ MemoryInv'
    BY <1>4, <2>1 DEF DeploySwitch, IInv, TypeOK, MemoryInv, wrk, SupervisorPC, Binaries
  <2>3. TableInv(art, seq)' /\ BaselineInv' /\ DeployInv' /\ RollbackInv' /\ LinkInv'
    BY <1>4, <2>1 DEF IInv, BaselineInv, DeployInv, DeployingIsOwned, RollbackInv, LinkInv,
                      ActiveIsDeployed, Exists
  <2> QED BY <2>2, <2>3 DEF IInv
<1>5. ASSUME IInv, DeploySwitchFails PROVE IInv'
  <2>1. faults' \in 0..MaxFaults
    BY <1>5, ParameterAssumption DEF DeploySwitchFails, Fault, IInv, TypeOK
  <2> QED BY <1>0, <1>2, <1>5, <2>1
          DEF DeploySwitchFails, MarkArtifactDeployFailed, files, wrk
<1>6. ASSUME IInv, DeployComplete PROVE IInv'
  <2>1. faults' \in 0..MaxFaults /\ "deployed_unstable" \in Deployed
    BY <1>6 DEF DeployComplete, IInv, TypeOK, Deployed
  <2> QED BY <1>0, <1>2, <1>6, <2>1
          DEF DeployComplete, MarkArtifactDeployCompleted, files, wrk
<1>7. ASSUME IInv, PromoteMark PROVE IInv'
  <2>1. /\ spc = "promote_mark" /\ worker = "dead" /\ cur \in TxIds /\ art \in [TxIds -> Row]
        /\ \A t \in TxIds : art[t].status # "deploying"
    BY <1>7 DEF PromoteMark, IInv, MemoryInv, TypeOK, DeployInv, DeployingIsOwned
  <2>2. Moved(art, art', cur, "deployed_unstable", "promoted")
    BY <1>0, <1>7, <2>1, TransitionMoves DEF PromoteMark, MarkArtifactPromoted, Edge
  <2>3. spc' = "pending" /\ cur' = None /\ UNCHANGED <<seq, active, worker>>
    BY <1>7 DEF PromoteMark, files, wrk
  <2>4. TypeOK' /\ MemoryInv'
    BY <1>7, <2>1, <2>2, <2>3 DEF PromoteMark, IInv, TypeOK, MemoryInv, Moved, files, wrk,
                                  SupervisorPC, NullableTx
  <2>5. TableInv(art, seq)'
    BY <1>0, <1>7, <2>1, <2>2, <2>3, MovedKeepsTable DEF IInv, Edge
  <2>6. BaselineInv' /\ RollbackInv' /\ DeployInv'
    BY <1>7, <2>1, <2>2, <2>3, TxAssumption
       DEF IInv, BaselineInv, RollbackInv, DeployInv, DeployingIsOwned, Moved, Exists
  <2>7. LinkInv'
    BY <1>7, <2>1, <2>2, <2>3 DEF IInv, LinkInv, ActiveIsDeployed, Moved, Deployed
  <2> QED BY <2>4, <2>5, <2>6, <2>7 DEF IInv
<1> QED BY <1>1, <1>3, <1>4, <1>5, <1>6, <1>7

(***************************************************************************)
(* Every step keeps the invariant, and what follows.                       *)
(***************************************************************************)

\* No step of any process, fault or crash breaks the invariant.
LEMMA NextInv == IInv /\ [Next]_vars => IInv'
<1>1. CASE IInv /\ UNCHANGED vars
  <2>1. TypeOK' /\ MemoryInv'
    BY <1>1 DEF IInv, TypeOK, MemoryInv, vars
  <2> QED BY <1>1, <2>1, QuietStep DEF vars
<1>2. CASE IInv /\ Next
  BY <1>2, StageStepInv, CommandStepInv, ReplyStepInv, StartupStepInv, LoopReadInv,
     RollbackStepInv, DeployStepInv, WatcherStepInv, EnvironmentStepInv
     DEF Next, SupervisorNext
<1> QED BY <1>1, <1>2

\* The inductive invariant holds in every reachable state.
THEOREM Invariance == Spec => []IInv
BY InitInv, NextInv, PTL DEF Spec

\* Every variable keeps its type, for any number of updates and faults.
THEOREM TypeCorrect == Spec => []TypeOK
<1>1. IInv => TypeOK
  BY DEF IInv
<1> QED BY <1>1, Invariance, PTL

\* worker.current never names a binary that did not pass the gates and the
\* approval, nor one whose deployment was recorded as failed.
THEOREM LinkSafe == Spec => []ActiveIsDeployed
<1>1. IInv => ActiveIsDeployed
  BY DEF IInv, LinkInv
<1> QED BY <1>1, Invariance, PTL

\* No deployment is left behind: a deploying row is in the supervisor's hands or
\* waits for the cleanup of the next startup.
THEOREM DeploymentOwned == Spec => []DeployingIsOwned
<1>1. IInv => DeployingIsOwned
  BY DEF IInv, DeployInv
<1> QED BY <1>1, Invariance, PTL

\* Every update has an older row to go back to that was promoted once.
THEOREM RollbackTarget == Spec => []RollbackTargetExists
<1>1. IInv => RollbackTargetExists
  BY DEF IInv, TableInv, RollbackTargetExists, EverPromoted
<1> QED BY <1>1, Invariance, PTL

(***************************************************************************)
(* Where the rows move.                                                    *)
(***************************************************************************)

\* One conditional update of a row, and who is allowed to make it.
RowUpdate(t, from, to) ==
    /\ art' = TransitionArtifactStatus(art, t, from, to)
    /\ IsValidArtifactStatusTransition(from, to)
    /\ t \in TxIds /\ to \in Status
    /\ from = "promoted" => worker = "rollback" /\ wjob = t
    /\ from = "rollback_pending" => active = art[t].base
    /\ UNCHANGED active

\* A step leaves the table alone, updates one row, inserts one, or is the startup.
LEMMA TableSteps ==
    ASSUME IInv, Next
    PROVE  \/ UNCHANGED art
           \/ \E t, from, to : RowUpdate(t, from, to)
           \/ \E t \in TxIds : StageCreate(t)
           \/ SupervisorStartup
<1> USE DEF RowUpdate, IsValidArtifactStatusTransition, artifactTransitions, Status,
            Rejected, Waiting, Deployed, Retiring, Pipeline, files
<1>1. ASSUME StageNext PROVE \E t, from, to : RowUpdate(t, from, to)
  <2>1. wjob \in TxIds
    BY <1>1 DEF IInv, MemoryInv, StageNext, StageStep, BeginBuild, BuildSucceeds,
                BuildFails, TestsPass, TestsFail, SelfCheckPasses, SelfCheckFails
  <2>2. \E from, to : RowUpdate(wjob, from, to)
    BY <1>1, <2>1
       DEF StageNext, StageStep, BeginBuild, BuildSucceeds, BuildFails, TestsPass,
           TestsFail, SelfCheckPasses, SelfCheckFails
  <2> QED BY <2>2
<1>2. ASSUME NEW t \in TxIds, Approve(t) \/ Cancel(t)
      PROVE  \E from, to : RowUpdate(t, from, to)
  BY <1>2 DEF Approve, Cancel
<1>3. ASSUME RollbackUpdate PROVE RowUpdate(wjob, wread, "rollback_pending")
  BY <1>3 DEF RollbackUpdate, IInv, MemoryInv
<1>4. ASSUME RollbackMark PROVE RowUpdate(cur, "rollback_pending", "rolled_back")
  BY <1>4 DEF RollbackMark, MarkArtifactRolledBack, IInv, RollbackInv
<1>5. ASSUME CrashLoopMark PROVE RowUpdate(cur, "deployed_unstable", "rollback_pending")
  BY <1>5 DEF CrashLoopMark, MarkArtifactRollbackPending, IInv, MemoryInv
<1>6. ASSUME ClaimApproved PROVE UNCHANGED art \/ \E t, from, to : RowUpdate(t, from, to)
  <2>1. CASE \E t \in TxIds : art' = TransitionArtifactStatus(art, t, "approved", "deploying")
    <3>1. \E t : RowUpdate(t, "approved", "deploying")
      BY <1>6, <2>1 DEF ClaimApproved
    <3> QED BY <3>1
  <2> QED BY <1>6, <2>1 DEF ClaimApproved, OldestApproved, WithStatus
<1>7. ASSUME VerifyHash \/ DeploySwitchFails \/ DeployComplete
      PROVE  UNCHANGED art \/ \E to : RowUpdate(cur, "deploying", to)
  <2>1. cur \in TxIds
    BY <1>7 DEF VerifyHash, DeploySwitchFails, DeployComplete, IInv, DeployInv
  <2> QED BY <1>7, <2>1 DEF VerifyHash, DeploySwitchFails, DeployComplete,
                            MarkArtifactDeployFailed, MarkArtifactDeployCompleted
<1>8. ASSUME PromoteMark PROVE RowUpdate(cur, "deployed_unstable", "promoted")
  BY <1>8 DEF PromoteMark, MarkArtifactPromoted, IInv, MemoryInv
<1>9. ASSUME NEW w \in Watchers, WatcherPromotes(w)
      PROVE  RowUpdate(watch[w].tx, "deployed_unstable", "promoted")
  BY <1>9 DEF WatcherPromotes, MarkArtifactPromoted, IInv, MemoryInv
<1> USE DEF db
<1>10. ASSUME \/ \E t \in TxIds : RollbackRead(t) \/ FileChanges(t)
              \/ ReplySent \/ ReplyFails \/ WorkerDies \/ StartupScript \/ SupervisorDies
              \/ ProcessPendingRollback \/ RollbackSwitch \/ RollbackSwitchFails
              \/ DeploySwitch \/ SpawnWorker \/ WorkerReaped \/ PromoteSelect
              \/ CrashLoopSelect \/ GitRollback \/ StableWindowPasses
              \/ \E w \in Watchers : WatcherFires(w) \/ WatcherSelects(w)
       PROVE  UNCHANGED art
  BY <1>10 DEF RollbackRead, FileChanges, ReplySent, ReplyFails, WorkerDies, StartupScript,
               SupervisorDies, ProcessPendingRollback, RollbackSwitch, RollbackSwitchFails,
               DeploySwitch, SpawnWorker, WorkerReaped, PromoteSelect, CrashLoopSelect,
               GitRollback, StableWindowPasses, WatcherFires, WatcherSelects
<1> HIDE DEF RowUpdate
<1> QED BY <1>1, <1>2, <1>3, <1>4, <1>5, <1>6, <1>7, <1>8, <1>9, <1>10
        DEF Next, CommandNext, ReplyNext, SupervisorNext, WatcherNext

\* What any step may do to the status of a row, and who does it.
LEMMA StatusStep ==
    ASSUME IInv, [Next]_vars, NEW t \in TxIds
    PROVE  \/ art'[t].status = art[t].status
           \/ /\ UNCHANGED active
              /\ \/ art[t].status = "absent" /\ Lifecycle!Inserted(t, art'[t].status)
                 \/ IsValidArtifactStatusTransition(art[t].status, art'[t].status)
              /\ art'[t].status = "rolled_back" => active = art[t].base
              /\ art[t].status = "promoted" => worker = "rollback" /\ wjob = t
<1>0. art \in [TxIds -> Row] /\ TableInv(art, seq)
  BY DEF IInv, TypeOK
<1>1. CASE UNCHANGED art
  BY <1>1
<1>2. ASSUME NEW u, NEW from, NEW to, RowUpdate(u, from, to)
      PROVE  \/ art'[t].status = art[t].status
             \/ /\ UNCHANGED active
                /\ IsValidArtifactStatusTransition(art[t].status, art'[t].status)
                /\ art'[t].status = "rolled_back" => active = art[t].base
                /\ art[t].status = "promoted" => worker = "rollback" /\ wjob = t
  <2>1. Moved(art, art', u, from, to)
    BY <1>0, <1>2, TransitionMoves DEF RowUpdate
  <2>2. to = "rolled_back" => from = "rollback_pending"
    BY <1>2 DEF RowUpdate, IsValidArtifactStatusTransition, artifactTransitions
  <2> QED BY <1>2, <2>1, <2>2 DEF RowUpdate, Moved
<1>3. ASSUME NEW u \in TxIds, StageCreate(u)
      PROVE  \/ art'[t].status = art[t].status
             \/ /\ UNCHANGED active
                /\ art[t].status = "absent" /\ art'[t].status = "created"
  BY <1>0, <1>3 DEF StageCreate, InsertArtifact, Exists, files
<1>4. ASSUME SupervisorStartup
      PROVE  \/ art'[t].status = art[t].status
             \/ /\ UNCHANGED active
                /\ \/ /\ t = Bootstrap
                      /\ art[t].status = "absent" /\ art'[t].status = "promoted"
                   \/ IsValidArtifactStatusTransition(art[t].status, art'[t].status)
                /\ art'[t].status # "rolled_back"
                /\ art[t].status # "promoted"
  <2>1. UNCHANGED active
    BY <1>4 DEF SupervisorStartup, files
  <2>2. CASE Exists(art, Bootstrap)
    <3>1. art' = CleanupInProgressArtifacts(art)
      BY <1>4, <2>2 DEF SupervisorStartup
    <3> QED BY <1>0, <2>1, <3>1, CleanupKeepsTable DEF EverPromoted, Retiring
  <2>3. CASE ~Exists(art, Bootstrap)
    <3> DEFINE b == InsertArtifact(art, Bootstrap, None, "promoted", seq + 1)
    <3>1. art' = CleanupInProgressArtifacts(b)
      BY <1>0, <1>4, <2>3, NoBootstrapNoPromoted DEF SupervisorStartup
    <3>2. TableInv(b, seq + 1) /\ b[t].status \in {"absent", "promoted"}
      BY <1>0, <2>3, BootstrapKeepsTable
    <3>3. art[t].status = "absent" /\ (t # Bootstrap => b[t] = art[t])
      BY <1>0, <2>3 DEF InsertArtifact, TableInv, Exists
    <3> HIDE DEF b
    <3>4. art'[t].status = b[t].status
      BY <3>1, <3>2, CleanupKeepsTable DEF EverPromoted
    <3> QED BY <2>1, <3>2, <3>3, <3>4
  <2> QED BY <2>2, <2>3
<1>5. CASE UNCHANGED vars
  BY <1>5 DEF vars
<1>6. CASE Next
  BY <1>1, <1>2, <1>3, <1>4, <1>6, TableSteps DEF Lifecycle!Inserted
<1> QED BY <1>5, <1>6

\* A row becomes rolled_back only after worker.current names its base, whatever
\* happens between the switch and the mark.
THEOREM RollbackOrder == Spec => RolledBackAfterSwitch
<1>1. IInv /\ [Next]_vars =>
        [\A t \in TxIds :
            art[t].status # "rolled_back" /\ art'[t].status = "rolled_back"
               => active = art[t].base]_vars
  BY StatusStep
<1> QED BY <1>1, Invariance, PTL DEF Spec, RolledBackAfterSwitch

\* Only the rollback command takes a promoted artifact out of service.
THEOREM PromotedKept == Spec => OnlyUserRetiresPromoted
<1>1. IInv /\ [Next]_vars =>
        [\A t \in TxIds :
            art[t].status = "promoted" /\ art'[t].status # "promoted"
               => worker = "rollback" /\ wjob = t]_vars
  BY StatusStep
<1> QED BY <1>1, Invariance, PTL DEF Spec, OnlyUserRetiresPromoted

(***************************************************************************)
(* The subsystem implements the artifact life cycle.                       *)
(***************************************************************************)
statusMap == [t \in TxIds |-> art[t].status]

\* A step that moves worker.current is a start of the container, a git rollback,
\* the switch of the deployment or the switch of a pending rollback.
LEMMA LinkStep ==
    ASSUME IInv, [Next]_vars, active' # active
    PROVE  Lifecycle!DeploySwitch \/ Lifecycle!RollbackSwitch \/ Lifecycle!Rebuild
<1>1. /\ UNCHANGED art
      /\ \/ active' \in {Bootstrap, WorkspaceBuild}
         \/ spc = "switch" /\ active' = cur
         \/ spc = "rb_switch" /\ active' = art[cur].base
  BY DEF vars, Next, StageNext, StageStep, BeginBuild, BuildSucceeds, BuildFails, TestsPass,
         TestsFail, SelfCheckPasses, SelfCheckFails, CommandNext, StageCreate, Approve,
         Cancel, RollbackRead, ReplyNext, RollbackUpdate, ReplySent, ReplyFails,
         WorkerDies, SupervisorNext, StartupScript, SupervisorStartup,
         ProcessPendingRollback, RollbackSwitch, RollbackSwitchFails, RollbackMark,
         ClaimApproved, VerifyHash, DeploySwitch, DeploySwitchFails, DeployComplete,
         SpawnWorker, WorkerReaped, PromoteSelect, PromoteMark, CrashLoopSelect,
         CrashLoopMark, GitRollback, SupervisorDies, StableWindowPasses, WatcherNext,
         WatcherFires, WatcherSelects, WatcherPromotes, FileChanges, db, files
<1>2. UNCHANGED statusMap
  BY <1>1 DEF statusMap
<1>3. CASE active' \in {Bootstrap, WorkspaceBuild}
  BY <1>2, <1>3 DEF Lifecycle!Rebuild, statusMap
<1>4. CASE spc = "switch" /\ active' = cur
  <2>1. cur \in TxIds /\ art[cur].status = "deploying"
    BY <1>4 DEF IInv, DeployInv
  <2> QED BY <1>2, <1>4, <2>1 DEF Lifecycle!DeploySwitch, statusMap
<1>5. CASE spc = "rb_switch" /\ active' = art[cur].base
  <2>1. cur \in TxIds /\ art[cur].status = "rollback_pending"
    BY <1>5 DEF IInv, RollbackInv
  <2>2. art[cur].base \in TxIds /\ art[art[cur].base].status \in {"promoted"} \cup Retiring
    BY <2>1 DEF IInv, TableInv, EverPromoted, Exists
  <2> QED BY <1>2, <1>5, <2>1, <2>2
            DEF Lifecycle!RollbackSwitch, Lifecycle!Retiring, Retiring, statusMap
<1> QED BY <1>1, <1>3, <1>4, <1>5

\* Every step of the subsystem is a step of the life cycle or leaves it alone.
LEMMA StepRefines ==
    ASSUME IInv, IInv', [Next]_vars
    PROVE  [Lifecycle!Next]_<<statusMap, active>>
<1>1. CASE active' # active
  BY <1>1, LinkStep DEF Lifecycle!Next
<1>2. CASE active' = active
  <2>1. \A t \in TxIds : Lifecycle!Moves(t, art[t].status, art'[t].status)
    BY StatusStep DEF Lifecycle!Moves, Lifecycle!Inserted,
                      Lifecycle!IsValidArtifactStatusTransition, Lifecycle!artifactTransitions,
                      IsValidArtifactStatusTransition, artifactTransitions
  <2>2. statusMap' \in [TxIds -> Lifecycle!Status]
    BY DEF IInv, TypeOK, Row, statusMap, Status, Lifecycle!Status, Pipeline, Rejected,
           Waiting, Deployed, Retiring, Lifecycle!Pipeline, Lifecycle!Rejected,
           Lifecycle!Waiting, Lifecycle!Deployed, Lifecycle!Retiring
  <2>3. \A t, u \in TxIds :
           statusMap'[t] = "deploying" /\ statusMap'[u] = "deploying" => t = u
    BY DEF IInv, DeployInv, statusMap
  <2>4. Lifecycle!RowsMove
    BY <1>2, <2>1, <2>2, <2>3 DEF Lifecycle!RowsMove, statusMap
  <2> QED BY <2>4 DEF Lifecycle!Next
<1> QED BY <1>1, <1>2

\* For any number of updates, watchers and faults, what the processes do to the
\* table and the link is a behaviour of the artifact life cycle.
THEOREM Refinement == Spec => ImplementsLifecycle
<1>1. Init => Lifecycle!Init
  BY DEF Init, Lifecycle!Init, NoRow
<1>2. IInv /\ IInv' /\ [Next]_vars =>
        [Lifecycle!Next]_<<[t \in TxIds |-> art[t].status], active>>
  BY StepRefines DEF statusMap
<1> QED BY <1>1, <1>2, Invariance, PTL DEF Spec, ImplementsLifecycle, Lifecycle!Spec

==============================================================================
