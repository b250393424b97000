---------------------------- MODULE ContextWindow ----------------------------
(***************************************************************************)
(* The messages of a model call: internal/context and                      *)
(* injectToolInstruction of cmd/worker/main.go, on rows of the history     *)
(* table.  A message is its role and the task it comes from, 0 for the     *)
(* system prompt and the tool instruction.                                 *)
(***************************************************************************)
EXTENDS Integers, Sequences

SystemPrompt    == [task |-> 0, role |-> "system"]
ToolInstruction == [task |-> 0, role |-> "tools"]

\* Mutant: ORDER BY id without DESC.
GetHistoryOldest(rows, limit) ==
    IF limit < 0 \/ Len(rows) <= limit THEN rows ELSE SubSeq(rows, 1, limit)

\* ORDER BY id DESC LIMIT, turned round again; a negative LIMIT is none.
GetHistory(rows, limit) ==
    IF limit < 0 \/ Len(rows) <= limit THEN rows
    ELSE SubSeq(rows, Len(rows) - limit + 1, Len(rows))

\* SimpleCompressor: here 0 is no limit either.
Compress(messages, max) ==
    IF max <= 0 \/ Len(messages) <= max THEN messages
    ELSE SubSeq(messages, Len(messages) - max + 1, Len(messages))

Assemble(messages, u) ==
    <<SystemPrompt>> \o messages \o <<[task |-> u, role |-> "user"]>>

\* Behind the system prompt, before everything else when there is none.
injectToolInstruction(messages) ==
    IF messages # <<>> /\ Head(messages) = SystemPrompt
      THEN <<SystemPrompt, ToolInstruction>> \o Tail(messages)
      ELSE <<ToolInstruction>> \o messages

==============================================================================
