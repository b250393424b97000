------------------------------- MODULE AgentRun -------------------------------
(***************************************************************************)
(* One run of processTask (cmd/worker/main.go) under the limits of         *)
(* internal/control/control.go: model turns, rounds of tool calls, one     *)
(* more turn for an empty answer, the reply.                               *)
(*                                                                         *)
(* The model and the chat server are external.  Of a response only what    *)
(* parseToolProtocol finds in it matters: plain text or the JSON protocol, *)
(* with tool calls or without, with a final answer or without.  Tools are  *)
(* abstract; a failed tool is a result like any other, and a round of      *)
(* tools need not return (ToolCall says why).                              *)
(***************************************************************************)
EXTENDS Naturals

CONSTANTS MaxTurns,  \* policy.MaxTurns after the worker has raised it to 2
          MaxTokens, \* policy.MaxTokens
          Usage      \* token counts a response may report; 0 when it reports none

ASSUME BudgetAssumption ==
    /\ MaxTurns \in Nat /\ MaxTurns >= 2
    /\ MaxTokens \in Nat \ {0}
    /\ Usage \subseteq Nat /\ Usage # {}

VARIABLES pc,       \* where the run stands
          turns,    \* usedTurns: model calls started
          tokens,   \* totalTokens
          late,     \* more than MaxWallTime has passed since startedAt
          response, \* the last response
          last,     \* the last turn was the one for an empty answer
          rounds,   \* rounds of tool calls executed
          overtime  \* history: model calls started when it was late

vars == <<pc, turns, tokens, late, response, last, rounds, overtime>>

\* Text without the protocol, or the protocol: its tool calls and its answer.
Response == [json : BOOLEAN, calls : BOOLEAN, answer : BOOLEAN]
NoResponse == [json |-> FALSE, calls |-> FALSE, answer |-> FALSE]

\* Without the protocol there are no calls and the answer is the text itself.
Responses == {r \in Response : r.calls => r.json}

TypeOK ==
    /\ pc \in {"start", "ask", "check", "tools", "empty", "send", "done", "failed"}
    /\ turns \in 0..MaxTurns
    /\ tokens \in Nat
    /\ late \in BOOLEAN /\ last \in BOOLEAN
    /\ response \in Responses
    /\ rounds \in Nat /\ overtime \in Nat

Init ==
    /\ pc = "start" /\ turns = 0 /\ tokens = 0 /\ late = FALSE
    /\ response = NoResponse /\ last = FALSE /\ rounds = 0 /\ overtime = 0

\* Mutant: one turn too many.
CheckTurnLimitInclusive == turns <= MaxTurns

CheckTurnLimit  == turns < MaxTurns
CheckWallTime   == ~late
CheckTokenLimit == tokens <= MaxTokens

\* usedTurns++ and the next model call, if the limit allows one.
StartTurn ==
    IF CheckTurnLimit
      THEN /\ turns' = turns + 1 /\ pc' = "ask"
           /\ overtime' = IF late THEN overtime + 1 ELSE overtime
      ELSE pc' = "failed" /\ UNCHANGED <<turns, overtime>>

WallTimePasses ==
    /\ pc \notin {"done", "failed"} /\ ~late
    /\ late' = TRUE
    /\ UNCHANGED <<pc, turns, tokens, response, last, rounds, overtime>>

\* The limits, then the history, which may fail to load.
Begin ==
    /\ pc = "start"
    /\ \/ CheckWallTime /\ StartTurn
       \/ pc' = "failed" /\ UNCHANGED <<turns, overtime>>
    /\ UNCHANGED <<tokens, late, response, last, rounds>>

ProviderFails ==
    /\ pc = "ask"
    /\ pc' = "failed"
    /\ UNCHANGED <<turns, tokens, late, response, last, rounds, overtime>>

\* ChatCompletion returns.
ProviderAnswers ==
    /\ pc = "ask"
    /\ \E r \in Responses, used \in Usage :
          response' = r /\ tokens' = tokens + used
    /\ pc' = "check"
    /\ UNCHANGED <<turns, late, last, rounds, overtime>>

\* Mutant: the token limit is forgotten.
CheckTurnWithoutTokens ==
    /\ pc = "check"
    /\ pc' = IF ~CheckWallTime THEN "failed"
             ELSE IF response.calls /\ ~last THEN "tools"
             ELSE IF response.answer THEN "send"
             ELSE IF response.json /\ ~last THEN "empty"
             ELSE "failed"
    /\ UNCHANGED <<turns, tokens, late, response, last, rounds, overtime>>

\* Mutant: the wall time is asked for only when the run begins.
CheckTurnAnyTime ==
    /\ pc = "check"
    /\ pc' = IF ~CheckTokenLimit THEN "failed"
             ELSE IF response.calls /\ ~last THEN "tools"
             ELSE IF response.answer THEN "send"
             ELSE IF response.json /\ ~last THEN "empty"
             ELSE "failed"
    /\ UNCHANGED <<turns, tokens, late, response, last, rounds, overtime>>

\* The limits are checked after the turn; then the response decides.
CheckTurn ==
    /\ pc = "check"
    /\ pc' = IF ~CheckWallTime \/ ~CheckTokenLimit THEN "failed"
             ELSE IF response.calls /\ ~last THEN "tools"
             ELSE IF response.answer THEN "send"
             ELSE IF response.json /\ ~last THEN "empty"
             ELSE "failed"
    /\ UNCHANGED <<turns, tokens, late, response, last, rounds, overtime>>

\* Mutant: the turn after a round of tools is not counted.
RunToolsUncounted ==
    /\ pc = "tools"
    /\ rounds' = rounds + 1
    /\ pc' = "ask"
    /\ UNCHANGED <<turns, tokens, late, response, last, overtime>>

\* executeToolCalls, and only then CheckTurnLimit.
RunTools ==
    /\ pc = "tools"
    /\ rounds' = rounds + 1
    /\ StartTurn
    /\ UNCHANGED <<tokens, late, response, last>>

\* Mutant: the answer is asked for again and again, outside the turn limit.
AskForAnswerUncounted ==
    /\ pc = "empty"
    /\ pc' = "ask"
    /\ UNCHANGED <<turns, tokens, late, response, last, rounds, overtime>>

\* The model is asked once more for a non-empty final_answer.
AskForAnswer ==
    /\ pc = "empty"
    /\ StartTurn
    /\ last' = TRUE
    /\ UNCHANGED <<tokens, late, response, rounds>>

SendReply ==
    /\ pc = "send"
    /\ pc' \in {"done", "failed"}
    /\ UNCHANGED <<turns, tokens, late, response, last, rounds, overtime>>

RunNext ==
    \/ Begin \/ ProviderFails \/ ProviderAnswers \/ CheckTurn \/ RunTools
    \/ AskForAnswer \/ SendReply

Next == RunNext \/ WallTimePasses

Spec == Init /\ [][Next]_vars

\* Model calls and sends have time-outs, so these steps of the run end; a round
\* of tools may not.
FairSpec == Spec /\ WF_vars(pc # "tools" /\ RunNext)

(***************************************************************************)
(* Properties.                                                             *)
(***************************************************************************)

\* A reply is sent only from within the budget: the turns and tokens of the
\* whole run are within their limits.
ReplyWithinBudget ==
    pc \in {"send", "done"} =>
        turns <= MaxTurns /\ tokens <= MaxTokens /\ response.answer

\* Tools run at most once per model turn, so the turn limit bounds them too.
RoundsBounded == rounds <= turns /\ turns <= MaxTurns

\* The wall time is a soft limit: it is not looked at before a follow-up turn, yet
\* at most one model call is started after it has passed.
OneCallOverTime == overtime <= 1

\* A model that calls tools for ever, or never gives an answer, is stopped, also
\* when it reports no token usage and answers quickly, if its tools return.
RunEnds == []<>(pc # "tools") => <>(pc \in {"done", "failed"})

==============================================================================
