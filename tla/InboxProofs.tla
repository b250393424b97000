------------------------------ MODULE InboxProofs ------------------------------
(***************************************************************************)
(* The queue keeps what InboxLifecycle promises for each message: every    *)
(* step of it is a step of one message there, or none.                     *)
(***************************************************************************)
EXTENDS TaskQueueProofs

\* Where a message stands, from what the queue keeps of it.
LifeOf(k, replied, status, held) ==
    IF k = "unsent" THEN "unsent"
    ELSE IF replied THEN "answered"
    ELSE CASE status = "absent"      -> "sent"
           [] status = "in_progress" -> IF held THEN "running" ELSE "stranded"
           [] OTHER                  -> status

\* That is what the mapping says, before and after a step.
LEMMA LifeIs ==
    ASSUME NEW u \in Updates
    PROVE  /\ Life[u] = LifeOf(kind[u], u \in answered, inbox[u].status, task = u)
           /\ Life'[u] = LifeOf(kind'[u], u \in answered', inbox'[u].status, task' = u)
           /\ Left[u] = MaxRetries + 1 - inbox[u].attempts
           /\ Left'[u] = MaxRetries + 1 - inbox'[u].attempts
BY DEF Life, Left, LifeOf

\* What a step may do to a message: nothing, or what the life cycle allows.
Stays(u) == Life'[u] = Life[u] /\ Left'[u] = Left[u]

MayMove(u) ==
    \/ Stays(u)
    \/ Life[u] = "unsent" /\ Life'[u] = "sent" /\ Left'[u] = Left[u]
    \/ Life[u] = "sent" /\ Life'[u] = "queued" /\ Left'[u] = Left[u]
    \/ /\ Life[u] \in {"queued", "failed"} /\ Life'[u] = "running"
       /\ Left[u] > 0 /\ Left'[u] = Left[u] - 1
       /\ \A n \in Updates : Life[n] # "running"
    \/ Life[u] = "running" /\ Life'[u] \in {"answered", "stranded"} /\ Left'[u] = Left[u]
    \/ Life[u] = "running" /\ Life'[u] = "failed" /\ Left'[u] \in {0, Left[u]}
    \/ Life[u] = "failed" /\ Life'[u] = "failed" /\ Left'[u] = 0

\* When one message makes a move and no other does, it is a step of the life
\* cycle.
LEMMA OneMoves ==
    ASSUME NEW m \in Updates, MayMove(m), \A u \in Updates \ {m} : Stays(u)
    PROVE  Inbox!Next \/ UNCHANGED <<Life, Left>>
<1>1. /\ Life = [u \in Updates |-> Life[u]] /\ Life' = [u \in Updates |-> Life'[u]]
      /\ Left = [u \in Updates |-> Left[u]] /\ Left' = [u \in Updates |-> Left'[u]]
  BY DEF Life, Left
<1>2. \A u \in Updates \ {m} : Life'[u] = Life[u] /\ Left'[u] = Left[u]
  BY DEF Stays
<1>3. Life' = [Life EXCEPT ![m] = Life'[m]]
  BY <1>1, <1>2
<1>4. Left' = [Left EXCEPT ![m] = Left'[m]]
  BY <1>1, <1>2
<1>5. Life'[m] = Life[m] => Life' = Life
  BY <1>1, <1>2
<1>6. Left'[m] = Left[m] => Left' = Left
  BY <1>1, <1>2
<1>7. ASSUME NEW from, NEW to, Life[m] \in from, Life'[m] = to
      PROVE  Inbox!Moves(m, from, to)
  BY <1>3, <1>7 DEF Inbox!Moves
<1>8. CASE Stays(m)
  BY <1>5, <1>6, <1>8 DEF Stays
<1>9. CASE Life[m] = "unsent" /\ Life'[m] = "sent" /\ Left'[m] = Left[m]
  <2>1. Inbox!Moves(m, {"unsent"}, "sent")
    BY <1>7, <1>9
  <2> QED BY <1>6, <1>9, <2>1 DEF Inbox!Next, Inbox!Send
<1>10. CASE Life[m] = "sent" /\ Life'[m] = "queued" /\ Left'[m] = Left[m]
  <2>1. Inbox!Moves(m, {"sent"}, "queued")
    BY <1>7, <1>10
  <2> QED BY <1>6, <1>10, <2>1 DEF Inbox!Next, Inbox!Store
<1>11. CASE /\ Life[m] \in {"queued", "failed"} /\ Life'[m] = "running"
            /\ Left[m] > 0 /\ Left'[m] = Left[m] - 1
            /\ \A n \in Updates : Life[n] # "running"
  <2>1. Inbox!Moves(m, {"queued", "failed"}, "running")
    BY <1>7, <1>11
  <2>2. Left' = [Left EXCEPT ![m] = @ - 1]
    BY <1>1, <1>4, <1>11
  <2> QED BY <1>11, <2>1, <2>2 DEF Inbox!Next, Inbox!Run
<1>12. CASE /\ Life[m] = "running" /\ Life'[m] \in {"answered", "stranded"}
            /\ Left'[m] = Left[m]
  <2>1. Inbox!Moves(m, {"running"}, "answered") \/ Inbox!Moves(m, {"running"}, "stranded")
    BY <1>7, <1>12
  <2> QED BY <1>6, <1>12, <2>1 DEF Inbox!Next, Inbox!Answer, Inbox!Strand
<1>13. CASE Life[m] = "running" /\ Life'[m] = "failed" /\ Left'[m] \in {0, Left[m]}
  <2>1. Inbox!Moves(m, {"running"}, "failed")
    BY <1>7, <1>13
  <2>2. UNCHANGED Left \/ Inbox!NoMoreRuns(m)
    BY <1>4, <1>6, <1>13 DEF Inbox!NoMoreRuns
  <2> QED BY <2>1, <2>2 DEF Inbox!Next, Inbox!Fail
<1>14. CASE Life[m] = "failed" /\ Life'[m] = "failed" /\ Left'[m] = 0
  <2>1. UNCHANGED Life /\ Inbox!NoMoreRuns(m)
    BY <1>4, <1>5, <1>14 DEF Inbox!NoMoreRuns
  <2> QED BY <1>14, <2>1 DEF Inbox!Next, Inbox!GiveUp
<1> QED BY <1>8, <1>9, <1>10, <1>11, <1>12, <1>13, <1>14 DEF MayMove

\* When none does, nothing changes.
LEMMA NothingChanges ==
    ASSUME \A u \in Updates : Stays(u)
    PROVE  UNCHANGED <<Life, Left>>
BY DEF Stays, Life, Left

\* A user's message is sent; no other message moves.
LEMMA SendMoves ==
    ASSUME IInv, NEW w \in Updates, NEW k \in Kinds, UserSends(w, k)
    PROVE  MayMove(w) /\ \A u \in Updates \ {w} : Stays(u)
<1>1. /\ UNCHANGED <<answered, inbox, task>>
      /\ kind[w] = "unsent" /\ kind' = [kind EXCEPT ![w] = k]
      /\ kind \in [Updates -> Kinds \cup {"unsent"}]
  BY DEF UserSends, tables, loop, IInv, TypeOK
<1>2. kind'[w] = k /\ k # "unsent" /\ \A u \in Updates \ {w} : kind'[u] = kind[u]
  BY <1>1, QueueAssumption
<1>3. inbox[w].status = "absent" /\ w \notin answered
  BY <1>1 DEF IInv, SentInv, RowInv, Message
<1>4. MayMove(w)
  BY <1>1, <1>2, <1>3, LifeIs DEF MayMove, LifeOf
<1>5. \A u \in Updates \ {w} : Stays(u)
  BY <1>1, <1>2, LifeIs DEF Stays, LifeOf
<1> QED BY <1>4, <1>5

\* The message that a step of the worker may move.
Mover == IF pc = "enqueue" THEN Least(batch) ELSE IF pc = "claim" THEN task' ELSE task

\* The others stay.
LEMMA OthersStay ==
    ASSUME IInv, Next, kind' = kind, NEW u \in Updates, u # Mover
    PROVE  Stays(u)
<1>1. u # 0
  BY QueueAssumption DEF Updates
<1>2. inbox'[u].status = inbox[u].status /\ inbox'[u].attempts = inbox[u].attempts
  BY RowStep DEF RowMoves, Mover
<1>3. u \in answered' <=> u \in answered
  BY AnsweredStep DEF Mover
<1>4. task = u <=> task' = u
  <2>1. pc \notin Busy => task = 0
    BY DEF IInv, TaskInv
  <2> QED BY <1>1, <2>1, TaskMoves DEF Mover, Busy
<1> QED BY <1>2, <1>3, <1>4, LifeIs DEF Stays, LifeOf

\* The message in hand moves as the life cycle allows.
LEMMA MoverMoves ==
    ASSUME IInv, Next, kind' = kind, NEW m \in Updates, m = Mover
    PROVE  MayMove(m)
<1>1. /\ m # 0 /\ MaxRetries \in Nat
      /\ inbox[m].attempts \in 0..(MaxRetries + 1)
      /\ inbox[m].status \in {"absent", "queued", "in_progress", "done", "failed"}
  <2>1. m # 0 /\ MaxRetries \in Nat
    BY QueueAssumption DEF Updates
  <2>2. inbox[m] \in InboxRow
    BY DEF IInv, TypeOK
  <2> QED BY <2>1, <2>2 DEF InboxRow
<1>2. RowMoves(m)
  BY RowStep
<1>3. pc \notin Busy => task = 0
  BY DEF IInv, TaskInv
<1>4. m \in answered => inbox[m].status \in {"in_progress", "done"}
  BY DEF IInv, RowInv
<1>5. inbox[m].status # "absent" => kind[m] # "unsent"
  BY DEF IInv, SentInv, Message
<1>6. CASE pc = "enqueue"
  <2>1. task = 0 /\ task' = 0
    BY <1>3, <1>6, TaskMoves DEF Busy
  <2>2. answered' = answered
    BY <1>6, AnsweredStep
  <2>3. CASE inbox'[m] = inbox[m]
    BY <1>1, <2>1, <2>2, <2>3, LifeIs DEF MayMove, Stays, LifeOf
  <2>4. CASE inbox[m].status = "absent" /\ inbox'[m] = Queued
    <3>1. inbox[m].attempts = 0
      BY <2>4 DEF IInv, RowInv
    <3>2. inbox'[m].status = "queued" /\ inbox'[m].attempts = 0
      BY <2>4 DEF Queued
    <3>3. kind[m] # "unsent"
      BY <1>6, LeastOfBatch DEF IInv, SentInv, Mover
    <3> QED BY <1>1, <1>4, <2>1, <2>2, <2>4, <3>1, <3>2, <3>3, LifeIs
            DEF MayMove, LifeOf
  <2>5. CASE inbox'[m].status = inbox[m].status /\ inbox'[m].attempts = inbox[m].attempts
    BY <1>1, <2>1, <2>2, <2>5, LifeIs DEF MayMove, Stays, LifeOf
  <2> QED BY <1>2, <1>6, <2>3, <2>4, <2>5 DEF RowMoves
<1>7. CASE pc = "claim"
  <2>1. task = 0 /\ task' = m /\ answered' = answered
    BY <1>3, <1>7, AnsweredStep DEF Busy, Mover
  <2>2. pc' = "run" /\ m \in Claimable
    BY <1>1, <1>7, <2>1, TaskMoves
  <2>3. inbox[m].status \in {"queued", "failed"} /\ m \notin answered
        /\ inbox[m].attempts \in 0..MaxRetries
    BY <2>2, ClaimableRow
  <2>4. inbox'[m].status = "in_progress"
    <3>1. TaskInv'
      BY TaskStep
    <3> QED BY <2>1, <2>2, <3>1 DEF TaskInv
  <2>5. inbox'[m].attempts = inbox[m].attempts + 1
    BY <1>2, <1>7, <2>3, <2>4 DEF RowMoves
  <2>6. \A n \in Updates : Life[n] # "running"
    <3>1. \A n \in Updates : n # 0
      BY QueueAssumption DEF Updates
    <3>2. ASSUME NEW n \in Updates
          PROVE  inbox[n].status \in {"absent", "queued", "in_progress", "done", "failed"}
      <4>1. inbox[n] \in InboxRow
        BY DEF IInv, TypeOK
      <4> QED BY <4>1 DEF InboxRow
    <3> QED BY <2>1, <3>1, <3>2, LifeIs DEF LifeOf
  <2>7. Life[m] \in {"queued", "failed"} /\ Life'[m] = "running"
    BY <1>5, <2>1, <2>3, <2>4, LifeIs DEF LifeOf
  <2>8. Left[m] > 0 /\ Left'[m] = Left[m] - 1
    BY <1>1, <2>3, <2>5, LifeIs
  <2> QED BY <2>6, <2>7, <2>8 DEF MayMove
<1>8. CASE pc \notin {"enqueue", "claim"}
  <2>1. m = task /\ pc \in Busy /\ task' \in {0, task}
    BY <1>1, <1>3, <1>8, TaskMoves DEF Mover
  <2>2. kind[m] # "unsent"
    BY <2>1 DEF IInv, TaskInv, Message
  <2>3. CASE inbox'[m] = inbox[m]
    <3>1. Left'[m] = Left[m]
      BY <2>3, LifeIs
    <3>2. CASE m \in answered
      <4>1. m \in answered'
        BY <3>2, AnsweredStep
      <4> QED BY <2>2, <3>1, <3>2, <4>1, LifeIs DEF MayMove, Stays, LifeOf
    <3>3. CASE m \notin answered
      <4>1. inbox[m].status \in {"in_progress", "failed"}
        BY <2>1, <3>3 DEF IInv, TaskInv, Busy, Replied
      <4>2. m \in answered' => pc = "run"
        BY <3>3, AnsweredStep
      <4>3. pc = "run" => inbox[m].status = "in_progress"
        BY <2>1 DEF IInv, TaskInv
      <4> QED BY <2>1, <2>2, <2>3, <3>1, <3>3, <4>1, <4>2, <4>3, LifeIs
              DEF MayMove, Stays, LifeOf
    <3> QED BY <3>2, <3>3
  <2>4. CASE /\ pc' = pc /\ inbox[m].status = "failed"
             /\ inbox'[m].status = "failed" /\ inbox'[m].attempts = inbox[m].attempts
    <3>1. m \notin answered /\ m \notin answered'
      BY <1>4, <2>4, AnsweredStep
    <3> QED BY <2>2, <2>4, <3>1, LifeIs DEF MayMove, Stays, LifeOf
  <2>5. CASE /\ pc = "run" /\ pc' \in {"poll", "judge"}
             /\ inbox'[m].status = "failed" /\ inbox'[m].attempts = inbox[m].attempts
    <3>1. inbox[m].status = "in_progress" /\ m \notin answered /\ m \notin answered'
      BY <2>1, <2>5, AnsweredStep DEF IInv, TaskInv
    <3> QED BY <2>1, <2>2, <2>5, <3>1, LifeIs DEF MayMove, LifeOf
  <2>6. CASE /\ pc \in {"answered", "appended"}
             /\ inbox'[m].status = "done" /\ inbox'[m].attempts = inbox[m].attempts
    <3>1. m \in answered /\ m \in answered'
      BY <2>1, <2>6, AnsweredStep DEF IInv, TaskInv, Replied
    <3> QED BY <2>2, <2>6, <3>1, LifeIs DEF MayMove, Stays, LifeOf
  <2>7. CASE /\ pc = "judge"
             /\ inbox'[m].status = "failed" /\ inbox'[m].attempts = MaxRetries + 1
    <3>1. inbox[m].status \in {"in_progress", "failed"} /\ m \notin answered
          /\ m \notin answered'
      BY <2>1, <2>7, AnsweredStep DEF IInv, TaskInv
    <3>2. Left'[m] = 0
      BY <1>1, <2>7, LifeIs
    <3> QED BY <2>1, <2>2, <2>7, <3>1, <3>2, LifeIs DEF MayMove, LifeOf
  <2> QED BY <1>2, <1>8, <2>3, <2>4, <2>5, <2>6, <2>7 DEF RowMoves
<1> QED BY <1>6, <1>7, <1>8

\* Every step of the queue is a step of the life cycle of one message, or
\* leaves all of them where they stand.
LEMMA StepRefines == IInv /\ [Next]_vars => [Inbox!Next]_<<Life, Left>>
<1> SUFFICES ASSUME IInv, Next PROVE Inbox!Next \/ UNCHANGED <<Life, Left>>
  BY DEF vars, Life, Left
<1>1. ASSUME NEW w \in Updates, NEW k \in Kinds, UserSends(w, k)
      PROVE  Inbox!Next \/ UNCHANGED <<Life, Left>>
  BY <1>1, SendMoves, OneMoves
<1>2. CASE kind' = kind
  <2>1. CASE Mover \in Updates
    <3>1. PICK m \in Updates : m = Mover
      BY <2>1
    <3>2. MayMove(m) /\ \A u \in Updates \ {m} : Stays(u)
      BY <1>2, <3>1, MoverMoves, OthersStay
    <3> QED BY <3>2, OneMoves
  <2>2. CASE Mover \notin Updates
    BY <1>2, <2>2, OthersStay, NothingChanges
  <2> QED BY <2>1, <2>2
<1>3. UNCHANGED kind \/ \E w \in Updates, k \in Kinds : UserSends(w, k)
  BY OffsetCases
     DEF OffsetRests, WorkerStarts, PollSucceeds, Enqueue, EnqueueFails, TakeUpdate, chat
<1> QED BY <1>1, <1>2, <1>3

\* The queue implements the life cycle: a message is stored once, run at most
\* MaxRetries + 1 times and one at a time, and over for good once it is answered
\* or its runs are used up.
THEOREM Refinement == Spec => ImplementsInbox
<1>1. Init => Inbox!Init
  BY QueueAssumption DEF Init, Inbox!Init, Life, Left, NoTask
<1> QED BY <1>1, StepRefines, Invariance, PTL
        DEF Spec, ImplementsInbox, Inbox!Spec, Inbox!vars

==============================================================================
