------------------------------ MODULE SelfUpdate ------------------------------
(***************************************************************************)
(* The self-update subsystem: the worker's update commands                 *)
(* (cmd/worker/main.go), the supervisor's loop (cmd/supervisor/main.go),   *)
(* the auto-promote watcher goroutines the loop starts, and the container  *)
(* start (startup.sh).  They share the artifacts table, the artifact files *)
(* and the link worker.current.                                            *)
(*                                                                         *)
(* One action is one SQL transaction or one file-system operation, so      *)
(* every point at which another process or a crash can intervene is a      *)
(* state.  The worker, the supervisor and the watchers interleave freely.  *)
(*                                                                         *)
(* Abstracted: events and chat messages (only whether a send fails         *)
(* matters), SQL errors (the store retries for busy_timeout), the text of  *)
(* commands.  A command that only answers "ignored" changes nothing here   *)
(* and is a stuttering step.                                               *)
(***************************************************************************)
EXTENDS ArtifactStore

CONSTANTS Watchers,       \* slots for promotions in flight in watcher goroutines
          CrashThreshold, \* SUPERVISOR_CRASH_THRESHOLD
          AutoRollback,   \* SUPERVISOR_AUTO_ROLLBACK
          MaxFaults       \* bound: supervisor crashes, file changes, failed switches

ASSUME ParameterAssumption ==
    /\ CrashThreshold \in Nat
    /\ AutoRollback \in BOOLEAN
    /\ MaxFaults \in Nat

VARIABLES
    (* Shared, on disk *)
    art,      \* the artifacts table
    seq,      \* its AUTOINCREMENT counter
    bin,      \* the file at each bin_path: "none", "built", or "changed" since
    active,   \* the binary the link worker.current names
    (* The supervisor process *)
    spc,      \* where its loop stands
    cur,      \* the artifact the current step works on
    caller,   \* who called executeArtifactRollback
    crashes,  \* len(crashTimes)
    watch,    \* promotions in flight in watcher goroutines
    (* The worker process *)
    worker,   \* what it is doing
    wjob,     \* the tx_id of its command
    wread,    \* the status its rollback command has read
    uptime,   \* of this worker: "short", "stable", "watched" (watcher has fired)
    (* Bookkeeping *)
    faults,   \* faults so far
    proven    \* history: binaries that ran for the stable window

db     == <<art, seq>>
files  == <<bin, active>>
sup    == <<spc, cur, caller, crashes>>
wrk    == <<worker, wjob, wread>>
vars   == <<art, seq, bin, active, spc, cur, caller, crashes, watch,
            worker, wjob, wread, uptime, faults, proven>>

SupervisorPC ==
    {"down", "startup", "pending", "rb_switch", "rb_mark", "claim", "verify",
     "switch", "complete", "spawn", "wait", "promote", "promote_mark",
     "crash_loop", "crash_mark", "git_rollback"}

IdleWatcher == [pc |-> "idle", tx |-> None]

Binaries == TxIds \cup {WorkspaceBuild}

TypeOK ==
    /\ art \in [TxIds -> Row]
    /\ seq \in Nat
    /\ bin \in [TxIds -> {"none", "built", "changed"}]
    /\ active \in Binaries
    /\ spc \in SupervisorPC
    /\ cur \in NullableTx
    /\ caller \in {"loop", "crash_loop"}
    /\ crashes \in Nat
    /\ watch \in [Watchers -> [pc : {"idle", "fired", "selected"}, tx : NullableTx]]
    /\ worker \in {"dead", "idle", "staging", "rollback", "replying"}
    /\ wjob \in NullableTx
    /\ wread \in Status
    /\ uptime \in {"short", "stable", "watched"}
    /\ faults \in 0..MaxFaults
    /\ proven \subseteq Binaries

\* startup.sh has run for the first time: the baseline worker is built and
\* worker.current names it; the table is empty.
Init ==
    /\ art = [t \in TxIds |-> NoRow]
    /\ seq = 0
    /\ bin = [t \in TxIds |-> IF t = Bootstrap THEN "built" ELSE "none"]
    /\ active = Bootstrap
    /\ spc = "startup" /\ cur = None /\ caller = "loop" /\ crashes = 0
    /\ watch = [w \in Watchers |-> IdleWatcher]
    /\ worker = "dead" /\ wjob = None /\ wread = "absent"
    /\ uptime = "short"
    /\ faults = 0
    /\ proven = {}

Fault == faults < MaxFaults /\ faults' = faults + 1

(***************************************************************************)
(* Worker: the update stage pipeline.  Each status change commits with     *)
(* its event; the commands between two changes may fail or time out.       *)
(***************************************************************************)

\* A new tx_id is inserted on top of the latest promoted one.
StageCreate(t) ==
    /\ worker = "idle" /\ ~Exists(art, t)
    /\ art' = InsertArtifact(art, t, LatestPromotedTxID(art), "created", seq + 1)
    /\ seq' = seq + 1
    /\ worker' = "staging" /\ wjob' = t
    /\ UNCHANGED <<files, sup, watch, wread, uptime, faults, proven>>

StageStep(from, to) ==
    /\ worker = "staging" /\ art[wjob].status = from
    /\ art' = TransitionArtifactStatus(art, wjob, from, to)
    /\ UNCHANGED <<seq, active, sup, watch, wread, uptime, faults, proven>>

StageContinues == UNCHANGED <<worker, wjob>>
StageEnds      == worker' = "idle" /\ wjob' = None

BeginBuild ==
    /\ StageStep("created", "building") /\ StageContinues
    /\ UNCHANGED bin

\* go build, the hash of its output and the build metadata, then testing.
BuildSucceeds ==
    /\ StageStep("building", "testing") /\ StageContinues
    /\ bin' = [bin EXCEPT ![wjob] = "built"]

\* go build or reading its output fails, or the pipeline timeout expires.
BuildFails ==
    /\ StageStep("building", "build_failed") /\ StageEnds
    /\ UNCHANGED bin

TestsPass ==
    /\ StageStep("testing", "self_checking") /\ StageContinues
    /\ UNCHANGED bin

TestsFail ==
    /\ StageStep("testing", "test_failed") /\ StageEnds
    /\ UNCHANGED bin

SelfCheckPasses ==
    /\ StageStep("self_checking", "staged") /\ StageEnds
    /\ UNCHANGED bin

SelfCheckFails ==
    /\ StageStep("self_checking", "self_check_failed") /\ StageEnds
    /\ UNCHANGED bin

(***************************************************************************)
(* Worker: approve, cancel and rollback.                                   *)
(***************************************************************************)

\* The update of a staged row, then the reply that precedes the exit.
Approve(t) ==
    /\ worker = "idle" /\ art[t].status = "staged"
    /\ art' = TransitionArtifactStatus(art, t, "staged", "approved")
    /\ worker' = "replying"
    /\ UNCHANGED <<seq, files, sup, watch, wjob, wread, uptime, faults, proven>>

Cancel(t) ==
    /\ worker = "idle" /\ art[t].status = "staged"
    /\ art' = TransitionArtifactStatus(art, t, "staged", "cancelled")
    /\ UNCHANGED <<seq, files, sup, watch, wrk, uptime, faults, proven>>

\* RequestArtifactRollbackWithEvent reads the row ...
RollbackRead(t) ==
    /\ worker = "idle"
    /\ \/ /\ art[t].status = "rollback_pending"
          /\ worker' = "replying" /\ UNCHANGED <<wjob, wread>>
       \/ /\ art[t].status \in {"deployed_unstable", "promoted"}
          /\ art[t].base # None
          /\ worker' = "rollback" /\ wjob' = t /\ wread' = art[t].status
    /\ UNCHANGED <<db, files, sup, watch, uptime, faults, proven>>

\* ... and updates it under the condition that it still has the status read.
\* Otherwise the command answers "ignored" and the worker goes on.
RollbackUpdate ==
    /\ worker = "rollback"
    /\ art' = TransitionArtifactStatus(art, wjob, wread, "rollback_pending")
    /\ worker' = IF art[wjob].status = wread THEN "replying" ELSE "idle"
    /\ wjob' = None /\ wread' = "absent"
    /\ UNCHANGED <<seq, files, sup, watch, uptime, faults, proven>>

\* The reply is sent and the worker exits with code 0.
ReplySent ==
    /\ worker = "replying"
    /\ worker' = "dead"
    /\ UNCHANGED <<db, files, sup, watch, wjob, wread, uptime, faults, proven>>

\* The reply cannot be sent: the task is marked failed and the worker goes on.
ReplyFails ==
    /\ worker = "replying"
    /\ worker' = "idle"
    /\ UNCHANGED <<db, files, sup, watch, wjob, wread, uptime, faults, proven>>

\* A crash, a kill or the intentional exit after SuicideEvery messages.
WorkerDies ==
    /\ worker # "dead"
    /\ worker' = "dead" /\ wjob' = None /\ wread' = "absent"
    /\ UNCHANGED <<db, files, sup, watch, uptime, faults, proven>>

(***************************************************************************)
(* Supervisor: startup.                                                    *)
(***************************************************************************)

\* Mutant: the baseline worker is rebuilt but the link is left alone.
StartupScriptKeepsLink ==
    /\ spc = "down"
    /\ bin' = [bin EXCEPT ![Bootstrap] = "built"]
    /\ spc' = "startup"
    /\ UNCHANGED <<db, active, cur, caller, crashes, watch, wrk, uptime, faults, proven>>

\* startup.sh, on every start of the container: rebuild the baseline worker
\* and point worker.current at it.
StartupScript ==
    /\ spc = "down"
    /\ bin' = [bin EXCEPT ![Bootstrap] = "built"]
    /\ active' = Bootstrap
    /\ spc' = "startup"
    /\ UNCHANGED <<db, cur, caller, crashes, watch, wrk, uptime, faults, proven>>

\* ensureBootstrapArtifactRecord, then CleanupInProgressArtifacts.
SupervisorStartup ==
    /\ spc = "startup"
    /\ LET insert == LatestPromotedTxID(art) = None /\ ~Exists(art, Bootstrap)
       IN  /\ art' = CleanupInProgressArtifacts(
                        IF insert
                          THEN InsertArtifact(art, Bootstrap, None, "promoted", seq + 1)
                          ELSE art)
           /\ seq' = IF insert THEN seq + 1 ELSE seq
    /\ spc' = "pending"
    /\ UNCHANGED <<files, cur, caller, crashes, watch, wrk, uptime, faults, proven>>

(***************************************************************************)
(* Supervisor: rollback.                                                   *)
(***************************************************************************)

\* processPendingRollback: the latest rollback_pending row, if any.
ProcessPendingRollback ==
    /\ spc = "pending"
    /\ \/ /\ LatestArtifactByStatus(art, "rollback_pending") = {}
          /\ spc' = "claim" /\ UNCHANGED cur
       \/ \E t \in LatestArtifactByStatus(art, "rollback_pending") :
              spc' = "rb_switch" /\ cur' = t
    /\ caller' = "loop"
    /\ UNCHANGED <<db, files, crashes, watch, wrk, uptime, faults, proven>>

\* Where executeArtifactRollback returns to: the loop starts over when the
\* rollback is done and goes on to deploy when it is not; the crash-loop branch
\* clears crashTimes, after the git rollback when this one is not done.
RollbackReturns(done) ==
    /\ spc' = IF done THEN "pending"
              ELSE IF caller = "loop" THEN "claim" ELSE "git_rollback"
    /\ crashes' = IF caller = "crash_loop" /\ done THEN 0 ELSE crashes
    /\ cur' = None

\* executeArtifactRollback: look the base artifact up and switch the link to it.
RollbackSwitch ==
    /\ spc = "rb_switch"
    /\ IF art[cur].base # None /\ Exists(art, art[cur].base)
         THEN active' = art[cur].base /\ spc' = "rb_mark" /\ UNCHANGED <<cur, crashes>>
         ELSE RollbackReturns(FALSE) /\ UNCHANGED active
    /\ UNCHANGED <<db, bin, caller, watch, wrk, uptime, faults, proven>>

\* Mutant: the error of the switch is not looked at.
RollbackSwitchFailsUnseen ==
    /\ spc = "rb_switch"
    /\ Fault
    /\ spc' = "rb_mark"
    /\ UNCHANGED <<db, files, cur, caller, crashes, watch, wrk, uptime, proven>>

RollbackSwitchFails ==
    /\ spc = "rb_switch"
    /\ Fault
    /\ RollbackReturns(FALSE)
    /\ UNCHANGED <<db, files, caller, watch, wrk, uptime, proven>>

RollbackMark ==
    /\ spc = "rb_mark"
    /\ art' = MarkArtifactRolledBack(art, cur)
    /\ RollbackReturns(art[cur].status = "rollback_pending")
    /\ UNCHANGED <<seq, files, caller, watch, wrk, uptime, faults, proven>>

(***************************************************************************)
(* Supervisor: deployApprovedArtifact.                                     *)
(***************************************************************************)

\* ClaimApprovedArtifactForDeploy: the oldest approved row becomes deploying.
ClaimApproved ==
    /\ spc = "claim"
    /\ \/ /\ OldestApproved(art) = {}
          /\ spc' = "spawn" /\ UNCHANGED <<art, cur>>
       \/ \E t \in OldestApproved(art) :
              /\ art' = TransitionArtifactStatus(art, t, "approved", "deploying")
              /\ cur' = t
              /\ spc' = "verify"
    /\ UNCHANGED <<seq, files, caller, crashes, watch, wrk, uptime, faults, proven>>

\* The hash of the file is compared with the one recorded when it was built.
VerifyHash ==
    /\ spc = "verify"
    /\ \/ /\ bin[cur] = "built"
          /\ spc' = "switch" /\ UNCHANGED <<art, cur>>
       \/ /\ bin[cur] # "built"
          /\ art' = MarkArtifactDeployFailed(art, cur)
          /\ spc' = "spawn" /\ cur' = None
    /\ UNCHANGED <<seq, files, caller, crashes, watch, wrk, uptime, faults, proven>>

DeploySwitch ==
    /\ spc = "switch"
    /\ active' = cur
    /\ spc' = "complete"
    /\ UNCHANGED <<db, bin, cur, caller, crashes, watch, wrk, uptime, faults, proven>>

DeploySwitchFails ==
    /\ spc = "switch"
    /\ Fault
    /\ art' = MarkArtifactDeployFailed(art, cur)
    /\ spc' = "spawn" /\ cur' = None
    /\ UNCHANGED <<seq, files, caller, crashes, watch, wrk, uptime, proven>>

DeployComplete ==
    /\ spc = "complete"
    /\ art' = MarkArtifactDeployCompleted(art, cur)
    /\ spc' = "spawn" /\ cur' = None
    /\ UNCHANGED <<seq, files, caller, crashes, watch, wrk, uptime, faults, proven>>

(***************************************************************************)
(* Supervisor: run one worker.                                             *)
(***************************************************************************)

\* cmd.Start; a missing binary is fatal for the supervisor.
SpawnWorker ==
    /\ spc = "spawn"
    /\ IF active \in TxIds /\ bin[active] = "none"
         THEN /\ spc' = "down" /\ caller' = "loop" /\ crashes' = 0
              /\ watch' = [w \in Watchers |-> IdleWatcher]
              /\ UNCHANGED worker
         ELSE /\ spc' = "wait" /\ worker' = "idle"
              /\ UNCHANGED <<caller, crashes, watch>>
    /\ UNCHANGED <<db, files, cur, wjob, wread, uptime, faults, proven>>

\* The worker has been up for StableRunSeconds.
StableWindowPasses ==
    /\ spc = "wait" /\ worker # "dead" /\ uptime = "short"
    /\ uptime' = "stable"
    /\ proven' = proven \cup {active}
    /\ UNCHANGED <<db, files, sup, watch, wrk, faults>>

\* cmd.Wait returns and workerExited is stored: the uptime decides.
WorkerReaped ==
    /\ spc = "wait" /\ worker = "dead"
    /\ IF uptime = "short"
         \* The crash is recorded; crashes older than the window are dropped.
         THEN \E kept \in 0..crashes :
                  /\ crashes' = kept + 1
                  /\ spc' = IF kept + 1 >= CrashThreshold THEN "crash_loop" ELSE "pending"
         ELSE spc' = "promote" /\ UNCHANGED crashes
    /\ uptime' = "short"
    /\ UNCHANGED <<db, files, cur, caller, watch, wrk, faults, proven>>

\* promoteLatestDeployedArtifact reads the latest deployed_unstable row ...
PromoteSelect ==
    /\ spc = "promote"
    /\ \/ /\ LatestArtifactByStatus(art, "deployed_unstable") = {}
          /\ spc' = "pending" /\ crashes' = 0 /\ UNCHANGED cur
       \/ \E t \in LatestArtifactByStatus(art, "deployed_unstable") :
              spc' = "promote_mark" /\ cur' = t /\ UNCHANGED crashes
    /\ UNCHANGED <<db, files, caller, watch, wrk, uptime, faults, proven>>

\* ... and promotes it if it is still deployed_unstable.
PromoteMark ==
    /\ spc = "promote_mark"
    /\ art' = MarkArtifactPromoted(art, cur)
    /\ spc' = "pending" /\ cur' = None /\ crashes' = 0
    /\ UNCHANGED <<seq, files, caller, watch, wrk, uptime, faults, proven>>

(***************************************************************************)
(* Supervisor: the crash-loop branch.                                      *)
(***************************************************************************)

\* attemptArtifactRollback reads the latest deployed_unstable row ...
CrashLoopSelect ==
    /\ spc = "crash_loop"
    /\ \/ /\ \A t \in LatestArtifactByStatus(art, "deployed_unstable") : art[t].base = None
          /\ spc' = "git_rollback" /\ UNCHANGED cur
       \/ \E t \in LatestArtifactByStatus(art, "deployed_unstable") :
              art[t].base # None /\ spc' = "crash_mark" /\ cur' = t
    /\ UNCHANGED <<db, files, caller, crashes, watch, wrk, uptime, faults, proven>>

\* ... marks it rollback_pending unless it has been promoted meanwhile.
CrashLoopMark ==
    /\ spc = "crash_mark"
    /\ art' = MarkArtifactRollbackPending(art, cur)
    /\ IF art[cur].status = "deployed_unstable"
         THEN spc' = "rb_switch" /\ caller' = "crash_loop" /\ UNCHANGED cur
         ELSE spc' = "git_rollback" /\ cur' = None /\ UNCHANGED caller
    /\ UNCHANGED <<seq, files, crashes, watch, wrk, uptime, faults, proven>>

\* attemptRollback: with AutoRollback the worker is rebuilt from git over
\* worker.current, unless there is no good revision or git or go fails.  go build
\* renames its output over the link, or, when it has to copy (another file
\* system), writes through the link into the file of the active artifact.
GitRollback ==
    /\ spc = "git_rollback"
    /\ \/ UNCHANGED <<bin, active>>
       \/ AutoRollback /\ active' = WorkspaceBuild /\ UNCHANGED bin
       \/ /\ AutoRollback /\ active \in TxIds
          /\ bin' = [bin EXCEPT ![active] = "changed"]
          /\ UNCHANGED active
    /\ spc' = "pending" /\ crashes' = 0 /\ caller' = "loop"
    /\ UNCHANGED <<db, cur, watch, wrk, uptime, faults, proven>>

\* The supervisor dies; the container and everything in it goes with it.
SupervisorDies ==
    /\ spc # "down"
    /\ Fault
    /\ spc' = "down" /\ cur' = None /\ caller' = "loop" /\ crashes' = 0
    /\ watch' = [w \in Watchers |-> IdleWatcher]
    /\ worker' = "dead" /\ wjob' = None /\ wread' = "absent" /\ uptime' = "short"
    /\ UNCHANGED <<db, files, proven>>

(***************************************************************************)
(* Auto-promote watchers.  A watcher that finds workerExited set returns,  *)
(* so only the ones that passed that check are kept.                       *)
(***************************************************************************)
WatcherFires(w) ==
    /\ spc = "wait" /\ uptime = "stable" /\ watch[w].pc = "idle"
    /\ watch' = [watch EXCEPT ![w].pc = "fired"]
    /\ uptime' = "watched"
    /\ UNCHANGED <<db, files, sup, wrk, faults, proven>>

WatcherSelects(w) ==
    /\ watch[w].pc = "fired"
    /\ \/ /\ LatestArtifactByStatus(art, "deployed_unstable") = {}
          /\ watch' = [watch EXCEPT ![w] = IdleWatcher]
       \/ \E t \in LatestArtifactByStatus(art, "deployed_unstable") :
              watch' = [watch EXCEPT ![w] = [pc |-> "selected", tx |-> t]]
    /\ UNCHANGED <<db, files, sup, wrk, uptime, faults, proven>>

WatcherPromotes(w) ==
    /\ watch[w].pc = "selected"
    /\ art' = MarkArtifactPromoted(art, watch[w].tx)
    /\ watch' = [watch EXCEPT ![w] = IdleWatcher]
    /\ UNCHANGED <<seq, files, sup, wrk, uptime, faults, proven>>

(***************************************************************************)
(* The environment: the file of an artifact is altered or removed.         *)
(***************************************************************************)
FileChanges(t) ==
    /\ bin[t] = "built"
    /\ Fault
    /\ \E b \in {"changed", "none"} : bin' = [bin EXCEPT ![t] = b]
    /\ UNCHANGED <<db, active, sup, watch, wrk, uptime, proven>>

(***************************************************************************)
(* The specification.                                                      *)
(***************************************************************************)
StageNext ==
    \/ BeginBuild \/ BuildSucceeds \/ BuildFails \/ TestsPass \/ TestsFail
    \/ SelfCheckPasses \/ SelfCheckFails

CommandNext == \E t \in TxIds :
    StageCreate(t) \/ Approve(t) \/ Cancel(t) \/ RollbackRead(t)

ReplyNext == RollbackUpdate \/ ReplySent \/ ReplyFails

SupervisorNext ==
    \/ StartupScript \/ SupervisorStartup
    \/ ProcessPendingRollback \/ RollbackSwitch \/ RollbackSwitchFails \/ RollbackMark
    \/ ClaimApproved \/ VerifyHash \/ DeploySwitch \/ DeploySwitchFails \/ DeployComplete
    \/ SpawnWorker \/ WorkerReaped \/ PromoteSelect \/ PromoteMark
    \/ CrashLoopSelect \/ CrashLoopMark \/ GitRollback

WatcherNext == \E w \in Watchers :
    WatcherFires(w) \/ WatcherSelects(w) \/ WatcherPromotes(w)

Next ==
    \/ StageNext \/ CommandNext \/ ReplyNext \/ WorkerDies
    \/ SupervisorNext \/ SupervisorDies \/ StableWindowPasses
    \/ WatcherNext
    \/ \E t \in TxIds : FileChanges(t)

Spec == Init /\ [][Next]_vars

\* The processes run: the supervisor's loop and the watchers never block except
\* in cmd.Wait, docker restarts the container, every pipeline command has a
\* timeout.  Nothing makes the user send a command or the worker exit.
FairSpec ==
    /\ Spec
    /\ WF_vars(SupervisorNext)
    /\ WF_vars(StageNext)
    /\ WF_vars(ReplyNext)
    /\ WF_vars(WatcherNext)

(***************************************************************************)
(* Properties.                                                             *)
(***************************************************************************)

\* The whole subsystem implements the artifact life cycle: rows move only along
\* artifactStatusTransitions, one artifact at most is being deployed, and
\* worker.current is pointed only at the artifact being deployed, at one that
\* was promoted before, or at a rebuilt worker.
Lifecycle == INSTANCE ArtifactLifecycle
                 WITH status <- [t \in TxIds |-> art[t].status]

ImplementsLifecycle == Lifecycle!Spec

\* The link never names a binary that did not pass the gates and the approval,
\* nor one whose deployment was recorded as failed: not even when the
\* supervisor dies between the switch and MarkArtifactDeployCompleted and the
\* startup cleanup turns "deploying" into "deploy_failed".
ActiveIsDeployed ==
    active \in TxIds \ {Bootstrap} => art[active].status \in Deployed \cup {"deploying"}

\* A row is "deploying" only while the supervisor works on it, or until the
\* cleanup of the next startup; no deployment is left behind.
DeployingIsOwned ==
    \A t \in TxIds : art[t].status = "deploying" =>
        \/ spc \in {"verify", "switch", "complete"} /\ cur = t
        \/ spc \in {"down", "startup"}

\* Every update has somewhere to go back to: its base_tx_id names an older row
\* that was promoted at some time.  So the base look-up of
\* executeArtifactRollback never fails.
RollbackTargetExists ==
    \A t \in TxIds \ {Bootstrap} : Exists(art, t) =>
        /\ art[t].base \in TxIds
        /\ art[art[t].base].status \in {"promoted"} \cup Retiring
        /\ art[art[t].base].id < art[t].id

\* A row becomes rolled_back only after worker.current names its base, whatever
\* crashes, failed switches and promotions come between the two.
RolledBackAfterSwitch ==
    [][\A t \in TxIds :
         art[t].status # "rolled_back" /\ art'[t].status = "rolled_back"
            => active = art[t].base]_vars

\* Only the user's rollback command takes a promoted artifact out of service;
\* the crash-loop branch does not, even when a watcher promotes the artifact
\* between its read and its update.
OnlyUserRetiresPromoted ==
    [][\A t \in TxIds :
         art[t].status = "promoted" /\ art'[t].status # "promoted"
            => worker = "rollback" /\ wjob = t]_vars

\* If workers keep exiting, every approved artifact is eventually claimed and
\* every pending rollback eventually executed: the loop starves neither.
ExitsDrainRequests ==
    []<>(worker = "dead") =>
        \A t \in TxIds :
            /\ art[t].status = "approved" ~> art[t].status # "approved"
            /\ art[t].status = "rollback_pending" ~> art[t].status = "rolled_back"

\* After a crash of the worker or the supervisor, a failed switch or a missing
\* binary, a worker is eventually running again.
WorkerComesBack == worker = "dead" ~> worker # "dead"

(***************************************************************************)
(* What the documentation says and the code does not keep.                 *)
(***************************************************************************)

\* milestone-5: "promoted" means the new version has been found stable.
PromotedIsProven ==
    \A t \in TxIds \ {Bootstrap} : art[t].status = "promoted" => t \in proven

==============================================================================
