---------------------------- MODULE AgentRunProofs ----------------------------
(***************************************************************************)
(* The limits of a run, for any limits and any token usage.                *)
(***************************************************************************)
EXTENDS AgentRun, TLAPS

\* A round of tools is followed by a turn or by the end of the run, so before
\* that end there have been fewer rounds than turns.
RoundsInv ==
    /\ pc = "start" => turns = 0 /\ rounds = 0
    /\ pc \notin {"start", "failed"} => rounds < turns
    /\ rounds <= turns

\* Whoever gets past the check after a turn has not started a call too late.
OvertimeInv ==
    /\ overtime > 0 => late
    /\ pc \notin {"ask", "check", "failed"} => overtime = 0
    /\ overtime <= 1

IInv == TypeOK /\ RoundsInv /\ OvertimeInv /\ ReplyWithinBudget

\* The run starts with an empty budget.
LEMMA InitInv == Init => IInv
<1> SUFFICES ASSUME Init PROVE IInv
  OBVIOUS
<1>1. NoResponse \in Responses
  BY DEF NoResponse, Responses, Response
<1>2. TypeOK
  <2>1. turns \in 0..MaxTurns /\ tokens \in Nat /\ rounds \in Nat /\ overtime \in Nat
    BY BudgetAssumption, SMT DEF Init
  <2>2. /\ pc \in {"start", "ask", "check", "tools", "empty", "send", "done", "failed"}
        /\ late \in BOOLEAN /\ last \in BOOLEAN
    BY Zenon DEF Init
  <2> QED BY <1>1, <2>1, <2>2, Zenon DEF Init, TypeOK
<1>3. RoundsInv /\ OvertimeInv /\ ReplyWithinBudget
  BY DEF Init, RoundsInv, OvertimeInv, ReplyWithinBudget
<1> QED BY <1>2, <1>3 DEF IInv

\* No step of the run leaves the budget.
LEMMA NextInv == IInv /\ [Next]_vars => IInv'
<1> SUFFICES ASSUME IInv, [Next]_vars PROVE IInv'
  OBVIOUS
<1> USE BudgetAssumption DEF IInv, TypeOK, RoundsInv, OvertimeInv, ReplyWithinBudget
<1>1. CASE Begin
  BY <1>1 DEF Begin, StartTurn, CheckTurnLimit, CheckWallTime
<1>2. CASE ProviderFails
  BY <1>2 DEF ProviderFails
<1>3. CASE ProviderAnswers
  BY <1>3 DEF ProviderAnswers
<1>4. CASE CheckTurn
  BY <1>4 DEF CheckTurn, CheckTokenLimit, CheckWallTime
<1>5. CASE RunTools
  BY <1>5 DEF RunTools, StartTurn, CheckTurnLimit
<1>6. CASE AskForAnswer
  BY <1>6 DEF AskForAnswer, StartTurn, CheckTurnLimit
<1>7. CASE SendReply
  BY <1>7 DEF SendReply
<1>8. CASE WallTimePasses
  BY <1>8 DEF WallTimePasses
<1>9. CASE UNCHANGED vars
  BY <1>9 DEF vars
<1> QED BY <1>1, <1>2, <1>3, <1>4, <1>5, <1>6, <1>7, <1>8, <1>9 DEF Next, RunNext

\* A reply is sent only from within the budget of the whole run.
THEOREM ReplySafe == Spec => []ReplyWithinBudget
<1>1. IInv => ReplyWithinBudget
  BY DEF IInv
<1> QED BY <1>1, InitInv, NextInv, PTL DEF Spec

\* A run keeps its types: the token count and the numbers of calls stay bounded.
THEOREM TypeCorrect == Spec => []TypeOK
<1>1. IInv => TypeOK
  BY DEF IInv
<1> QED BY <1>1, InitInv, NextInv, PTL DEF Spec

\* The turn limit bounds the model calls and the rounds of tools.
THEOREM RoundsSafe == Spec => []RoundsBounded
<1>1. IInv => RoundsBounded
  BY BudgetAssumption DEF IInv, TypeOK, RoundsInv, RoundsBounded
<1> QED BY <1>1, InitInv, NextInv, PTL DEF Spec

\* However late a run is, it starts at most one more model call.
THEOREM OvertimeSafe == Spec => []OneCallOverTime
<1>1. IInv => OneCallOverTime
  BY DEF IInv, OvertimeInv, OneCallOverTime
<1> QED BY <1>1, InitInv, NextInv, PTL DEF Spec

==============================================================================
