-------------------------- MODULE ArtifactLifecycle --------------------------
(***************************************************************************)
(* What the self-update subsystem promises, without its processes: rows    *)
(* appear in two ways and move along the transition table, and the link    *)
(* worker.current is only ever pointed at a binary that earned it.         *)
(* SelfUpdate is shown to implement this specification.                    *)
(***************************************************************************)
EXTENDS ArtifactStatus

VARIABLES status,    \* status of each tx_id
          active     \* the binary worker.current names

(***************************************************************************)
(* The pipeline inserts "created"; the supervisor inserts the baseline     *)
(* record as "promoted".                                                   *)
(***************************************************************************)
Inserted(t, to) == to = "created" \/ (t = Bootstrap /\ to = "promoted")

Moves(t, from, to) ==
    \/ to = from
    \/ from = "absent" /\ Inserted(t, to)
    \/ IsValidArtifactStatusTransition(from, to)

Init ==
    /\ status = [t \in TxIds |-> "absent"]
    /\ active = Bootstrap

\* Rows move; at most one artifact is being deployed at any time.
RowsMove ==
    /\ status' \in [TxIds -> Status]
    /\ \A t \in TxIds : Moves(t, status[t], status'[t])
    /\ \A t, u \in TxIds :
          status'[t] = "deploying" /\ status'[u] = "deploying" => t = u
    /\ UNCHANGED active

\* The deploy switch: to the one artifact being deployed.
DeploySwitch ==
    /\ active' \in TxIds
    /\ status[active'] = "deploying"
    /\ UNCHANGED status

\* The rollback switch: while a rollback is pending, back to an artifact that
\* was promoted once.
RollbackSwitch ==
    /\ \E t \in TxIds : status[t] = "rollback_pending"
    /\ active' \in TxIds
    /\ status[active'] \in {"promoted"} \cup Retiring
    /\ UNCHANGED status

\* A container start or a git rollback.
Rebuild ==
    /\ active' \in {Bootstrap, WorkspaceBuild}
    /\ UNCHANGED status

Next == RowsMove \/ DeploySwitch \/ RollbackSwitch \/ Rebuild

Spec == Init /\ [][Next]_<<status, active>>

==============================================================================
