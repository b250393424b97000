---------------------------- MODULE InboxLifecycle ----------------------------
(***************************************************************************)
(* What the inbox promises for each message, without polls, tables,        *)
(* back-offs or the breaker: it is stored at most once, run at most        *)
(* MaxRuns times and one at a time, and is over for good once it is        *)
(* answered or its runs are used up.                                       *)
(***************************************************************************)
EXTENDS Naturals

CONSTANTS Messages, MaxRuns

VARIABLES life, \* where each message stands
          left  \* how often it may still be run

vars == <<life, left>>

Init ==
    /\ life = [m \in Messages |-> "unsent"]
    /\ left = [m \in Messages |-> MaxRuns]

Moves(m, from, to) == life[m] \in from /\ life' = [life EXCEPT ![m] = to]

Send(m)  == Moves(m, {"unsent"}, "sent") /\ UNCHANGED left
Store(m) == Moves(m, {"sent"}, "queued") /\ UNCHANGED left

\* One message is run at a time, and only while it has runs left.
Run(m) ==
    /\ \A n \in Messages : life[n] # "running"
    /\ Moves(m, {"queued", "failed"}, "running")
    /\ left[m] > 0 /\ left' = [left EXCEPT ![m] = @ - 1]

Answer(m) == Moves(m, {"running"}, "answered") /\ UNCHANGED left

\* A failed run may turn out to be the last one, at once ...
NoMoreRuns(m) == left' = [left EXCEPT ![m] = 0]
Fail(m) == Moves(m, {"running"}, "failed") /\ (UNCHANGED left \/ NoMoreRuns(m))

\* ... or when it is seen to make no progress.
GiveUp(m) == life[m] = "failed" /\ NoMoreRuns(m) /\ UNCHANGED life

\* The worker dies in a run or cannot record its failure; the message is not
\* taken up again.
Strand(m) == Moves(m, {"running"}, "stranded") /\ UNCHANGED left

Next ==
    \E m \in Messages :
        Send(m) \/ Store(m) \/ Run(m) \/ Answer(m) \/ Fail(m) \/ GiveUp(m) \/ Strand(m)

Spec == Init /\ [][Next]_vars

==============================================================================
