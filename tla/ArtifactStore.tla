---------------------------- MODULE ArtifactStore ----------------------------
(***************************************************************************)
(* The artifacts table and the repository functions of                     *)
(* internal/db/artifacts.go, as operators on the value of the table.       *)
(* Each operator is one SQL statement or one SQL transaction.  A row keeps *)
(* the columns that decide something: status, base_tx_id and the           *)
(* AUTOINCREMENT id.  Rows are never deleted.                              *)
(***************************************************************************)
EXTENDS ArtifactStatus, Naturals

NullableTx == TxIds \cup {None}

Row == [status : Status, base : NullableTx, id : Nat]

NoRow == [status |-> "absent", base |-> None, id |-> 0]

(***************************************************************************)
(* Queries.  The ones ending in LIMIT 1 return a set: empty for no row.    *)
(***************************************************************************)
Exists(a, t) == a[t].status # "absent"

WithStatus(a, s) == {t \in TxIds : a[t].status = s}

\* ORDER BY id DESC LIMIT 1
LatestArtifactByStatus(a, s) ==
    {t \in WithStatus(a, s) : \A u \in WithStatus(a, s) : a[u].id <= a[t].id}

\* ORDER BY created_at ASC, id ASC LIMIT 1; created_at never decreases with id.
OldestApproved(a) ==
    {t \in WithStatus(a, "approved") :
        \A u \in WithStatus(a, "approved") : a[t].id <= a[u].id}

\* Mutant: the base is the latest row, whatever became of it.
LatestTxID(a) ==
    LET rows == {t \in TxIds : Exists(a, t)}
    IN  IF rows = {} THEN None
        ELSE CHOOSE t \in rows : \A u \in rows : a[u].id <= a[t].id

\* The tx_id of the promoted row with the highest id, or NULL.
LatestPromotedTxID(a) ==
    IF WithStatus(a, "promoted") = {}
      THEN None
      ELSE CHOOSE t \in TxIds : t \in LatestArtifactByStatus(a, "promoted")

(***************************************************************************)
(* Updates.                                                                *)
(***************************************************************************)
InsertArtifact(a, t, base, s, id) ==
    [a EXCEPT ![t] = [status |-> s, base |-> base, id |-> id]]

\* The conditional UPDATE ... WHERE tx_id = ? AND status = ?.
TransitionArtifactStatus(a, t, from, to) ==
    IF IsValidArtifactStatusTransition(from, to) /\ a[t].status = from
      THEN [a EXCEPT ![t].status = to]
      ELSE a

MarkArtifactDeployCompleted(a, t) ==
    TransitionArtifactStatus(a, t, "deploying", "deployed_unstable")

MarkArtifactDeployFailed(a, t) ==
    TransitionArtifactStatus(a, t, "deploying", "deploy_failed")

\* Mutant: the status read is not a condition of the update.
MarkArtifactPromotedAnyway(a, t) == [a EXCEPT ![t].status = "promoted"]

MarkArtifactPromoted(a, t) ==
    TransitionArtifactStatus(a, t, "deployed_unstable", "promoted")

\* Mutant: the status read is not a condition of the update.
MarkArtifactRollbackPendingAnyway(a, t) == [a EXCEPT ![t].status = "rollback_pending"]

MarkArtifactRollbackPending(a, t) ==
    TransitionArtifactStatus(a, t, "deployed_unstable", "rollback_pending")

\* Mutant: the wrong status is expected, so nothing is updated.
MarkArtifactRolledBackUnstable(a, t) ==
    TransitionArtifactStatus(a, t, "deployed_unstable", "rolled_back")

MarkArtifactRolledBack(a, t) ==
    TransitionArtifactStatus(a, t, "rollback_pending", "rolled_back")

\* Mutant: deployments are not cleaned up.
InterruptedPipeline(s) ==
    CASE s = "building"      -> "build_failed"
      [] s = "testing"       -> "test_failed"
      [] s = "self_checking" -> "self_check_failed"
      [] OTHER               -> s

\* Mutant: a status the table does not know.
InterruptedUnknown(s) ==
    IF s \in {"building", "testing", "self_checking", "deploying"} THEN "failed" ELSE s

\* The CASE of the startup cleanup.
Interrupted(s) ==
    CASE s = "building"      -> "build_failed"
      [] s = "testing"       -> "test_failed"
      [] s = "self_checking" -> "self_check_failed"
      [] s = "deploying"     -> "deploy_failed"
      [] OTHER               -> s

CleanupInProgressArtifacts(a) ==
    [t \in TxIds |-> [a[t] EXCEPT !.status = Interrupted(a[t].status)]]

==============================================================================
