---------------------------- MODULE CircuitBreaker ----------------------------
(***************************************************************************)
(* internal/control/circuit.go as operators on the value of the breaker.   *)
(* It lives in the worker's memory.  The time of opening is kept as the    *)
(* one thing Allow asks of it: has the cool-down passed since.             *)
(***************************************************************************)
EXTENDS Naturals, FiniteSets

CONSTANTS Classes,   \* the error classes of classifyError
          Threshold  \* failures of one class that open the breaker

ASSUME BreakerAssumption ==
    /\ IsFiniteSet(Classes) /\ "command_source_api" \in Classes
    /\ "none" \notin Classes
    /\ Threshold \in Nat \ {0}

Breaker == [state : {"closed", "open", "half_open"}, failures : [Classes -> Nat],
            openedClass : Classes \cup {"none"}, cooled : BOOLEAN]

NewCircuitBreaker ==
    [state |-> "closed", failures |-> [c \in Classes |-> 0],
     openedClass |-> "none", cooled |-> FALSE]

\* Allow answers this ...
Allowed(b) == b.state = "open" => b.cooled

\* ... and leaves the breaker in this state when it answers TRUE.
Allow(b) == IF b.state = "open" THEN [b EXCEPT !.state = "half_open"] ELSE b

RecordSuccess(b) == NewCircuitBreaker

\* openedAt = now: the cool-down starts.
Open(b, c) ==
    [b EXCEPT !.state = "open", !.openedClass = c, !.cooled = FALSE]

\* Mutant: a failed probe keeps the old time of opening.
RecordFailureKeepsTime(b, c) ==
    LET counted == [b EXCEPT !.failures[c] = @ + 1]
    IN  IF b.state = "half_open" THEN [b EXCEPT !.state = "open", !.openedClass = c]
        ELSE IF counted.failures[c] >= Threshold THEN Open(counted, c)
        ELSE counted

\* A failed probe opens the breaker again and is not counted.
RecordFailure(b, c) ==
    LET counted == [b EXCEPT !.failures[c] = @ + 1]
    IN  IF b.state = "half_open" THEN Open(b, c)
        ELSE IF counted.failures[c] >= Threshold THEN Open(counted, c)
        ELSE counted

==============================================================================
