---------------------------- MODULE ArtifactStatus ----------------------------
(***************************************************************************)
(* The vocabulary of the self-update state machine: the status names and   *)
(* the table of legal transitions of internal/db/artifacts.go.  A row of   *)
(* the artifacts table is one update transaction, named by its tx_id.      *)
(***************************************************************************)

CONSTANTS TxIds,         \* every tx_id a row may ever have
          Bootstrap,     \* the tx_id of the baseline record, "bootstrap"
          None,          \* SQL NULL: no tx_id
          WorkspaceBuild \* the worker the git rollback builds; it has no row

ASSUME TxAssumption ==
    /\ Bootstrap \in TxIds
    /\ None \notin TxIds
    /\ WorkspaceBuild \notin TxIds

(***************************************************************************)
(* Status names.  "absent" stands for a tx_id without a row.               *)
(***************************************************************************)
Pipeline == {"created", "building", "testing", "self_checking"}
Rejected == {"build_failed", "test_failed", "self_check_failed",
             "cancelled", "deploy_failed"}
Waiting  == {"staged", "approved"}

\* Statuses only an artifact that has been promoted, or is on its way out, has.
Retiring == {"rollback_pending", "rolled_back"}
Deployed == {"deployed_unstable", "promoted"} \cup Retiring

Status ==
    Pipeline \cup Rejected \cup Waiting \cup {"deploying"} \cup Deployed
        \cup {"absent"}

(***************************************************************************)
(* artifactStatusTransitions.                                              *)
(***************************************************************************)
artifactTransitions ==
    { <<"created", "building">>,
      <<"building", "testing">>,        <<"building", "build_failed">>,
      <<"testing", "self_checking">>,   <<"testing", "test_failed">>,
      <<"self_checking", "staged">>,    <<"self_checking", "self_check_failed">>,
      <<"staged", "approved">>,         <<"staged", "cancelled">>,
      <<"approved", "deploying">>,
      <<"deploying", "deployed_unstable">>, <<"deploying", "deploy_failed">>,
      <<"deployed_unstable", "promoted">>,
      <<"deployed_unstable", "rollback_pending">>,
      <<"promoted", "rollback_pending">>,
      <<"rollback_pending", "rolled_back">> }

IsValidArtifactStatusTransition(from, to) == <<from, to>> \in artifactTransitions

==============================================================================
