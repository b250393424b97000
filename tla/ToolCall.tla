------------------------------- MODULE ToolCall -------------------------------
(***************************************************************************)
(* One call of a tool: executeToolCalls of cmd/worker/main.go, RunOne and  *)
(* the Execute methods of internal/tool.  Every tool runs a process with a *)
(* time-out and collects its output.                                       *)
(*                                                                         *)
(* The processes and os/exec are external, modelled from how the tools use *)
(* them: exec.CommandContext kills the process it started, nothing else;   *)
(* Run returns when that process has been reaped and nobody holds the      *)
(* pipes of its output any more.  A shell may leave children behind that   *)
(* still hold them.  Which paths and commands the policy refuses is not    *)
(* modelled, only that it may refuse.                                      *)
(***************************************************************************)
EXTENDS ToolOutput

CONSTANTS Tools,       \* the tools called: "bash", "find", "grep", "write", and "read"
                       \* for read, ls and edit, which treat their output alike
          MaxLines,    \* AUTONOUS_TOOL_MAX_OUTPUT_LINES
          MaxBytes,    \* AUTONOUS_TOOL_MAX_OUTPUT_BYTES
          RowLimits,   \* "limit" arguments of find and grep; 0 for none
          MaxOutput,   \* bound: symbols written by one call
          MaxChildren  \* bound: children that hold the output at one time

ASSUME ToolAssumption ==
    /\ Tools \subseteq {"bash", "find", "grep", "read", "write"} /\ Tools # {}
    /\ {MaxLines, MaxBytes} \subseteq Nat \ {0}
    /\ RowLimits \subseteq Nat /\ 0 \in RowLimits
    /\ {MaxOutput, MaxChildren} \subseteq Nat

VARIABLES
    tool, limit, \* the call
    pc,          \* where the worker stands: "start", "wait" (in cmd.Run), "done"
    process,     \* what became of the process the call started
    reaped,      \* cmd.Run has its exit status; the timer is no longer looked at
    interrupted, \* the timer fired and its signal was accepted
    holders,     \* children that hold the output of the process
    written,     \* what has been written to stdout and stderr
    result       \* the tool_call event and the text for the model

vars == <<tool, limit, pc, process, reaped, interrupted, holders, written, result>>

Streams == {"stdout", "stderr"}
ErrorClasses == {"timeout", "policy", "validation", "tool_exec"}

NoText == [s \in Streams |-> <<>>]
NoResult == [event |-> "none", class |-> "none", text |-> NoText,
             truncatedLines |-> FALSE, truncatedBytes |-> FALSE]

TypeOK ==
    /\ tool \in Tools /\ limit \in RowLimits
    /\ pc \in {"start", "wait", "done"}
    /\ process \in {"none", "running", "succeeded", "failed", "killed"}
    /\ reaped \in BOOLEAN /\ interrupted \in BOOLEAN
    /\ holders \in 0..MaxChildren
    /\ written \in [Streams -> Seq(Symbols)]
    /\ result \in [event : {"none", "completed", "failed"},
                   class : ErrorClasses \cup {"none"},
                   text : [Streams -> Seq(Symbols)],
                   truncatedLines : BOOLEAN, truncatedBytes : BOOLEAN]

Init ==
    /\ tool \in Tools
    /\ limit \in IF tool \in {"find", "grep"} THEN RowLimits ELSE {0}
    /\ pc = "start" /\ process = "none" /\ reaped = FALSE /\ interrupted = FALSE
    /\ holders = 0 /\ written = NoText /\ result = NoResult

call == <<tool, limit>>

(***************************************************************************)
(* The worker.                                                             *)
(***************************************************************************)

\* tool_call.failed carries the class and not the flags.
Failed(class, text) ==
    [NoResult EXCEPT !.event = "failed", !.class = class, !.text = text]

\* Mutant: an error without any of the words is of no known class.
ClassesOfUnknown(class, quotes) == IF quotes THEN {"timeout", class} ELSE {"unknown"}

\* classifyToolError looks for words in the message, "timeout" first, then those of
\* the policy.  A message may quote the call: the name of an unknown tool, a path.
ClassesOf(class, quotes) ==
    IF ~quotes THEN {class}
    ELSE {"timeout", class} \cup (IF class = "validation" THEN {"policy"} ELSE {})

\* No name, unknown tool, invalid arguments; a denied command, a path outside.
Refuse ==
    /\ pc = "start"
    /\ \E why \in {"validation", "policy"}, quotes \in BOOLEAN :
          \E c \in ClassesOf(why, quotes) : result' = Failed(c, NoText)
    /\ pc' = "done"
    /\ UNCHANGED <<call, process, reaped, interrupted, holders, written>>

\* The program is missing, or the directory (which the message quotes), or the
\* time-out is over already.
StartFails ==
    /\ pc = "start"
    /\ \E c \in ErrorClasses : result' = Failed(c, NoText)
    /\ pc' = "done"
    /\ UNCHANGED <<call, process, reaped, interrupted, holders, written>>

Start ==
    /\ pc = "start"
    /\ pc' = "wait" /\ process' = "running"
    /\ UNCHANGED <<call, reaped, interrupted, holders, written, result>>

\* Mutant: the context has no deadline.
TimerNeverFires ==
    /\ FALSE
    /\ UNCHANGED vars

\* The context of the call ends before the process has been reaped: the process
\* is killed; one that has just ended accepts the signal too.
TimerFires ==
    /\ pc = "wait" /\ ~reaped /\ ~interrupted
    /\ process' = IF process = "running" THEN "killed" ELSE process
    /\ interrupted' = TRUE
    /\ UNCHANGED <<call, pc, reaped, holders, written, result>>

Reap ==
    /\ pc = "wait" /\ ~reaped /\ process # "running"
    /\ reaped' = TRUE
    /\ UNCHANGED <<call, pc, process, interrupted, holders, written, result>>

\* Mutant: the interruption of a process that succeeds is not an error.
RunErrorOfProcess == IF process = "succeeded" THEN "none" ELSE "exit"

\* The error of cmd.Run: how the process ended comes before the deadline.
RunError ==
    IF process # "succeeded" THEN "exit"
    ELSE IF interrupted THEN "deadline"
    ELSE "none"

\* find limits the rows of a success only, grep also those of a failure.
Rows(text) ==
    IF tool = "grep" \/ (tool = "find" /\ RunError = "none") THEN limitLines(text, limit)
    ELSE text

\* The output is limited, then the event written.  "exit status n" and "signal:
\* killed" are of class tool_exec.
Outcome ==
    LET limited == [s \in Streams |-> ApplyOutputLimits(written[s], MaxLines, MaxBytes)]
        text == [s \in Streams |-> IF s = "stdout" THEN Rows(limited[s].out)
                                   ELSE limited[s].out]
    IN  IF RunError # "none"
          THEN Failed(IF RunError = "deadline" THEN "timeout" ELSE "tool_exec", text)
          ELSE [event |-> "completed", class |-> "none", text |-> text,
                truncatedLines |-> \E s \in Streams : limited[s].truncatedLines,
                truncatedBytes |-> \E s \in Streams : limited[s].truncatedBytes]

\* Mutant: the call returns as soon as the process is gone (a WaitDelay, say).
ReturnAtExit ==
    /\ pc = "wait" /\ reaped
    /\ result' = Outcome /\ pc' = "done"
    /\ UNCHANGED <<call, process, reaped, interrupted, holders, written>>

\* cmd.Run returns once the process is gone and its output closed.
Return ==
    /\ pc = "wait" /\ reaped /\ holders = 0
    /\ result' = Outcome /\ pc' = "done"
    /\ UNCHANGED <<call, process, reaped, interrupted, holders, written>>

WorkerNext == Refuse \/ StartFails \/ Start \/ Reap \/ Return

(***************************************************************************)
(* The process and its children.                                           *)
(***************************************************************************)
SomebodyRuns == process = "running" \/ holders > 0

\* The standard output of write (tee) is discarded.
Writes(s, c) ==
    /\ SomebodyRuns /\ ~(tool = "write" /\ s = "stdout")
    /\ Len(written["stdout"]) + Len(written["stderr"]) < MaxOutput
    /\ written' = [written EXCEPT ![s] = Append(@, c)]
    /\ UNCHANGED <<call, pc, process, reaped, interrupted, holders, result>>

\* Only the shell leaves something in the background.
LeavesChild ==
    /\ tool = "bash" /\ SomebodyRuns /\ holders < MaxChildren
    /\ holders' = holders + 1
    /\ UNCHANGED <<call, pc, process, reaped, interrupted, written, result>>

ChildLetsGo ==
    /\ holders > 0
    /\ holders' = holders - 1
    /\ UNCHANGED <<call, pc, process, reaped, interrupted, written, result>>

ProcessEnds ==
    /\ process = "running"
    /\ process' \in {"succeeded", "failed"}
    /\ UNCHANGED <<call, pc, reaped, interrupted, holders, written, result>>

ProcessNext ==
    \/ \E s \in Streams, c \in Symbols : Writes(s, c)
    \/ LeavesChild \/ ChildLetsGo \/ ProcessEnds

Next == WorkerNext \/ TimerFires \/ ProcessNext

Spec == Init /\ [][Next]_vars

\* The worker goes on and the timer fires; nothing is assumed of the processes.
FairSpec == Spec /\ WF_vars(WorkerNext) /\ WF_vars(TimerFires)

(***************************************************************************)
(* Properties.                                                             *)
(***************************************************************************)

\* A call that is reported as completed shows the model everything its processes
\* have written, children that outlive the shell included, or an event says that
\* something was cut off.
NothingHidden ==
    result.event = "completed" /\ limit = 0 =>
        result.text = written \/ result.truncatedLines \/ result.truncatedBytes

\* A call that ran into its time-out is never reported as completed, also when
\* the process ends by itself while the timer fires.
TimeoutIsNoSuccess == interrupted => result.event # "completed"

LinesOf(text) ==
    Cardinality(Newlines(text)) + (IF text # <<>> /\ text[Len(text)] = "byte" THEN 1 ELSE 0)

\* Whatever a tool writes, the model sees at most the limits; the row limit of
\* find and grep may add a newline after the byte limit was applied.
OutputBounded ==
    \A s \in Streams : LET text == result.text[s] IN
        /\ LinesOf(text) <= MaxLines
        /\ Len(text) <= MaxBytes + (IF limit > 0 THEN 1 ELSE 0)
        /\ limit > 0 /\ result.event = "completed" /\ s = "stdout" /\ Newlines(text) # DOMAIN text
              => LinesOf(text) <= limit

\* A call ends although its process hangs, as soon as no child holds the output.
CallReturns == <>[](holders = 0) => <>(pc = "done")

(***************************************************************************)
(* What the documentation says and the code does not keep.                 *)
(***************************************************************************)

\* milestone-4: each tool call has a forced time-out.
CallTimesOut == <>(pc = "done")

==============================================================================
