---------------------------- MODULE TaskQueueProofs ----------------------------
(***************************************************************************)
(* No message is lost or answered twice, the breaker limits what fails,    *)
(* and the model is shown the conversation, for any number of messages,    *)
(* retries, crashes and failed writes.                                     *)
(***************************************************************************)
EXTENDS TaskQueue, FiniteSetTheorems, SequenceTheorems, TLAPS

(***************************************************************************)
(* The inductive invariant.                                                *)
(***************************************************************************)
Busy    == {"run", "answered", "done", "appending", "appended", "judge"}
Replied == {"answered", "done", "appending", "appended"}

Message(u) == kind[u] \in {"text", "command"}

\* Its row is stored, or it is counted as given up.
Accounted(u) == inbox[u].status # "absent" \/ u \in waived

\* Updates are numbered as they are sent, and only messages get a row.
SentInv ==
    /\ \A u, v \in Updates : v <= u /\ kind[u] # "unsent" => kind[v] # "unsent"
    /\ \A u \in server : kind[u] # "unsent"
    /\ \A u \in batch : kind[u] \notin {"unsent", "unread"}
    /\ \A u \in Updates : inbox[u].status # "absent" => Message(u)

\* What lies below the offset, or below a fetched update, is stored, given up or
\* among the fetched ones; so the next poll may confirm it.
OffsetInv ==
    /\ \A u \in Updates : u < offset => kind[u] # "unsent" /\ (Message(u) => Accounted(u))
    /\ \A u \in Updates, v \in batch :
          u < v /\ Message(u) => Accounted(u) \/ u \in batch
    /\ pc = "enqueue" <=> batch # {}

\* What each place of the loop knows of the task in hand.
TaskInv ==
    /\ pc \in Busy => task \in Updates /\ Message(task)
    /\ pc \notin Busy => task = 0
    /\ pc = "run" => inbox[task].status = "in_progress"
    /\ pc = "judge" => /\ inbox[task].status \in {"in_progress", "failed"}
                       /\ errClass \in Classes /\ kind[task] = "text"
    /\ pc = "done" => kind[task] = "command"
    /\ pc \in Replied => task \in answered
    /\ pc \in {"run", "judge"} => task \notin answered

\* A row and its message.
RowInv ==
    \A u \in Updates : LET row == inbox[u] IN
        /\ u \in answered => row.status \in {"in_progress", "done"}
        /\ row.status = "done" => u \in answered
        /\ row.status \in {"absent", "queued"} <=> row.attempts = 0
        /\ row.status # "failed" => ~row.ready

\* Between a reply and its rows of the history nothing else is added.
HistoryInv ==
    /\ HistoryIsConversation
    /\ pc \in {"answered", "done"} => \A i \in DOMAIN history : history[i].task # task
    /\ pc = "appending" => \A i \in DOMAIN history :
          history[i].task = task => i = Len(history) /\ history[i].role = "user"

\* The failures the breaker has counted, one by one.
Counted(b) == {x \in Classes \X (1..(Threshold - 1)) : x[2] <= b.failures[x[1]]}

BurstBound == Cardinality(Classes) * (Threshold - 1) + 1

\* A closed breaker has counted every failure of the burst; behind a poll it is
\* not open.
BreakerInv ==
    /\ circuit.state = "closed" =>
          /\ \A c \in Classes : circuit.failures[c] < Threshold
          /\ burst <= Cardinality(Counted(circuit))
    /\ circuit.state = "open" => burst <= BurstBound
    /\ circuit.state = "half_open" \/ circuit.cooled => burst = 0
    /\ circuit.state = "closed" => ~circuit.cooled
    /\ pc \in {"enqueue", "claim", "run"} => circuit.state # "open"

IInv ==
    /\ TypeOK /\ SentInv /\ OffsetInv /\ NothingLost
    /\ TaskInv /\ RowInv /\ HistoryInv /\ BreakerInv

(***************************************************************************)
(* Least and greatest elements.                                            *)
(***************************************************************************)

\* Least finds the least element of a set of numbers.
LEMMA LeastIs ==
    ASSUME NEW S \in SUBSET Nat, S # {}
    PROVE  Least(S) \in S /\ \A v \in S : Least(S) <= v
<1> DEFINE Less == {p \in Nat \X Nat : p[1] < p[2]}
<1>1. IsWellFoundedOn(Less, Nat)
  BY NatLessThanWellFounded DEF OpToRel
<1>2. PICK u \in S : \A v \in S : <<v, u>> \notin Less
  BY <1>1, WFMin
<1>3. ASSUME NEW v \in S PROVE u <= v
  <2>1. u \in Nat /\ v \in Nat /\ <<v, u>> \notin Less
    BY <1>2
  <2> QED BY <2>1
<1> QED BY <1>3 DEF Least

\* Greatest finds the greatest one.
LEMMA GreatestIs ==
    ASSUME NEW S \in SUBSET Updates, S # {}
    PROVE  Greatest(S) \in S /\ \A v \in S : v <= Greatest(S)
<1> USE QueueAssumption DEF Updates
<1> DEFINE T == {MaxUpdates - v : v \in S}
<1>1. T \in SUBSET Nat /\ T # {}
  <2>1. ASSUME NEW v \in S PROVE MaxUpdates - v \in Nat
    OBVIOUS
  <2>2. T # {}
    OBVIOUS
  <2> QED BY <2>1, <2>2
<1>2. Least(T) \in T /\ \A w \in T : Least(T) <= w
  BY <1>1, LeastIs
<1>3. PICK u \in S : Least(T) = MaxUpdates - u
  BY <1>2
<1>4. ASSUME NEW v \in S PROVE v <= u
  <2>1. MaxUpdates - u <= MaxUpdates - v
    BY <1>2, <1>3
  <2> QED BY <2>1
<1>5. \E w \in S : \A v \in S : v <= w
  BY <1>4
<1> QED BY <1>5 DEF Greatest

\* Sets of updates are finite sets of numbers.
LEMMA SomeUpdates ==
    ASSUME NEW S \in SUBSET Updates
    PROVE  S \in SUBSET Nat /\ IsFiniteSet(S) /\ Cardinality(S) \in Nat
<1>1. IsFiniteSet(Updates)
  BY QueueAssumption, FS_Interval DEF Updates
<1>2. IsFiniteSet(S)
  BY <1>1, FS_Subset
<1> QED BY <1>2, FS_CardinalityType, QueueAssumption DEF Updates

(***************************************************************************)
(* The offset.                                                             *)
(***************************************************************************)

\* An offset the client may poll with: all that lies below was sent.
Possible(n) ==
    n \in 0..(MaxUpdates + 1) /\ \A u \in Updates : u < n => kind[u] # "unsent"

\* The number of an update that was sent, and the next one, are such offsets.
LEMMA BehindSent ==
    ASSUME SentInv, NEW v \in Updates, kind[v] # "unsent"
    PROVE  Possible(v) /\ Possible(v + 1)
BY QueueAssumption DEF SentInv, Possible, Updates

\* The offset of a fresh start, derived from the inbox or from the backlog.
LEMMA OffsetPossible ==
    ASSUME IInv
    PROVE  Possible(DeriveOffset) /\ \A n \in BootstrapOffsets : Possible(n)
<1>1. Possible(0)
  BY QueueAssumption DEF Possible, Updates
<1>2. Possible(DeriveOffset)
  <2> DEFINE stored == {u \in Updates : inbox[u].status # "absent"}
  <2>1. CASE stored = {}
    BY <1>1, <2>1 DEF DeriveOffset
  <2>2. CASE stored # {}
    <3>1. Greatest(stored) \in stored
      BY <2>2, GreatestIs
    <3>2. kind[Greatest(stored)] # "unsent" /\ Greatest(stored) \in Updates
      BY <3>1 DEF IInv, SentInv, Message
    <3>3. Possible(Greatest(stored) + 1)
      BY <3>2, BehindSent DEF IInv
    <3> QED BY <2>2, <3>3 DEF DeriveOffset
  <2> QED BY <2>1, <2>2
<1>3. ASSUME NEW n \in BootstrapOffsets PROVE Possible(n)
  <2> DEFINE fetched   == Visible(server)
             latest(W) == {u \in W : Cardinality({v \in W : u <= v}) <= PendingMax}
             first(W)  == IF W = {} THEN Greatest(fetched) + 1 ELSE Least(latest(W))
  <2>1. fetched \in SUBSET Updates /\ \A u \in fetched : kind[u] # "unsent"
    BY DEF Visible, IInv, TypeOK, SentInv
  <2>2. n = 0 \/ (fetched # {} /\ \E W \in SUBSET fetched : n = first(W))
    BY DEF BootstrapOffsets
  <2>3. ASSUME fetched # {} PROVE Possible(Greatest(fetched) + 1)
    <3>1. Greatest(fetched) \in fetched
      BY <2>1, <2>3, GreatestIs
    <3> QED BY <2>1, <3>1, BehindSent DEF IInv
  <2>4. ASSUME NEW W \in SUBSET fetched, W # {} PROVE Possible(Least(latest(W)))
    <3> HIDE DEF fetched
    <3>1. W \in SUBSET Updates
      BY <2>1
    <3>2. Greatest(W) \in W /\ \A v \in W : v <= Greatest(W)
      BY <2>4, <3>1, GreatestIs
    <3>3. {v \in W : Greatest(W) <= v} = {Greatest(W)}
      <4>1. \A v \in W : v \in Nat
        BY <3>1, SomeUpdates
      <4> QED BY <3>2, <4>1
    <3>4. Cardinality({v \in W : Greatest(W) <= v}) = 1
      BY <3>3, FS_Singleton
    <3>5. Greatest(W) \in latest(W)
      BY <3>2, <3>4, QueueAssumption
    <3>6. latest(W) \in SUBSET Nat
      BY <3>1, SomeUpdates
    <3>7. Least(latest(W)) \in latest(W)
      BY <3>5, <3>6, LeastIs
    <3>8. Least(latest(W)) \in fetched
      BY <3>7
    <3> QED BY <2>1, <3>8, BehindSent DEF IInv
  <2> HIDE DEF latest, fetched
  <2> QED BY <1>1, <2>2, <2>3, <2>4
<1> QED BY <1>2, <1>3

(***************************************************************************)
(* Types.                                                                  *)
(***************************************************************************)

\* The operations of the breaker return breakers.
LEMMA BreakerTypes ==
    ASSUME NEW b \in Breaker
    PROVE  /\ NewCircuitBreaker \in Breaker /\ RecordSuccess(b) \in Breaker
           /\ Allow(b) \in Breaker
           /\ [b EXCEPT !.cooled = TRUE] \in Breaker
           /\ \A c \in Classes : RecordFailure(b, c) \in Breaker
<1>1. NewCircuitBreaker \in Breaker
  BY DEF NewCircuitBreaker, Breaker
<1>2. RecordSuccess(b) \in Breaker
  BY <1>1 DEF RecordSuccess
<1>3. Allow(b) \in Breaker /\ [b EXCEPT !.cooled = TRUE] \in Breaker
  BY DEF Allow, Breaker
<1>4. ASSUME NEW c \in Classes PROVE RecordFailure(b, c) \in Breaker
  <2> DEFINE counted == [b EXCEPT !.failures[c] = @ + 1]
  <2>1. [b.failures EXCEPT ![c] = @ + 1] \in [Classes -> Nat]
    BY DEF Breaker
  <2>2. counted \in Breaker
    BY <2>1 DEF Breaker
  <2>3. ASSUME NEW d \in Breaker PROVE Open(d, c) \in Breaker
    BY DEF Open, Breaker
  <2> QED BY <2>2, <2>3 DEF RecordFailure
<1> QED BY <1>1, <1>2, <1>3, <1>4

\* The rows of the inbox after a failure and when no progress is seen.
Failed(rows, t, b) == [rows EXCEPT ![t].status = "failed", ![t].ready = b]
GivenUp(rows, t)   == [rows EXCEPT ![t].status = "failed", ![t].attempts = MaxRetries + 1]

\* A failure changes one row, and not the number of its runs.
LEMMA FailedRow ==
    ASSUME NEW rows \in [Updates -> InboxRow], NEW t \in Updates, NEW b \in BOOLEAN
    PROVE  /\ Failed(rows, t, b) \in [Updates -> InboxRow]
           /\ Failed(rows, t, b)[t].status = "failed"
           /\ Failed(rows, t, b)[t].ready = b
           /\ Failed(rows, t, b)[t].attempts = rows[t].attempts
           /\ \A u \in Updates \ {t} : Failed(rows, t, b)[u] = rows[u]
<1> DEFINE row == [rows[t] EXCEPT !.status = "failed", !.ready = b]
<1>1. row \in InboxRow
  BY DEF InboxRow
<1>2. Failed(rows, t, b) = [rows EXCEPT ![t] = row]
  BY DEF Failed
<1>3. row.status = "failed" /\ row.ready = b /\ row.attempts = rows[t].attempts
  BY DEF InboxRow
<1> HIDE DEF row
<1> QED BY <1>1, <1>2, <1>3

\* Giving up changes one row; it has no runs left.
LEMMA GivenUpRow ==
    ASSUME NEW rows \in [Updates -> InboxRow], NEW t \in Updates
    PROVE  /\ GivenUp(rows, t) \in [Updates -> InboxRow]
           /\ GivenUp(rows, t)[t].status = "failed"
           /\ GivenUp(rows, t)[t].attempts = MaxRetries + 1
           /\ GivenUp(rows, t)[t].ready = rows[t].ready
           /\ \A u \in Updates \ {t} : GivenUp(rows, t)[u] = rows[u]
<1> DEFINE row == [rows[t] EXCEPT !.status = "failed", !.attempts = MaxRetries + 1]
<1>1. row \in InboxRow
  <2>1. MaxRetries + 1 \in 0..(MaxRetries + 1)
    BY QueueAssumption
  <2> QED BY <2>1 DEF InboxRow
<1>2. GivenUp(rows, t) = [rows EXCEPT ![t] = row]
  BY DEF GivenUp
<1>3. row.status = "failed" /\ row.ready = rows[t].ready /\ row.attempts = MaxRetries + 1
  BY DEF InboxRow
<1> HIDE DEF row
<1> QED BY <1>1, <1>2, <1>3

\* The rows after any other write to a row.
Stored(rows, t)    == [rows EXCEPT ![t] = Queued]
Ready(rows, t)     == [rows EXCEPT ![t].ready = TRUE]
Done(rows, t)      == [rows EXCEPT ![t].status = "done"]
Claimed(rows, t)   == [rows EXCEPT ![t] = [status |-> "in_progress",
                                           attempts |-> @.attempts + 1, ready |-> FALSE]]

\* Each of them changes one row.
LEMMA ChangedRow ==
    ASSUME NEW rows \in [Updates -> InboxRow], NEW t \in Updates
    PROVE  /\ Stored(rows, t) \in [Updates -> InboxRow]
           /\ Stored(rows, t)[t] = Queued
           /\ \A u \in Updates \ {t} : Stored(rows, t)[u] = rows[u]
           /\ Ready(rows, t) \in [Updates -> InboxRow]
           /\ Ready(rows, t)[t].status = rows[t].status
           /\ Ready(rows, t)[t].attempts = rows[t].attempts /\ Ready(rows, t)[t].ready
           /\ \A u \in Updates \ {t} : Ready(rows, t)[u] = rows[u]
           /\ Done(rows, t) \in [Updates -> InboxRow]
           /\ Done(rows, t)[t].status = "done"
           /\ Done(rows, t)[t].attempts = rows[t].attempts
           /\ Done(rows, t)[t].ready = rows[t].ready
           /\ \A u \in Updates \ {t} : Done(rows, t)[u] = rows[u]
<1>1. Queued \in InboxRow
  BY QueueAssumption DEF Queued, InboxRow
<1>2. /\ [rows[t] EXCEPT !.ready = TRUE] \in InboxRow
      /\ [rows[t] EXCEPT !.ready = TRUE].status = rows[t].status
      /\ [rows[t] EXCEPT !.ready = TRUE].attempts = rows[t].attempts
      /\ [rows[t] EXCEPT !.ready = TRUE].ready
  BY DEF InboxRow
<1>3. /\ [rows[t] EXCEPT !.status = "done"] \in InboxRow
      /\ [rows[t] EXCEPT !.status = "done"].status = "done"
      /\ [rows[t] EXCEPT !.status = "done"].attempts = rows[t].attempts
      /\ [rows[t] EXCEPT !.status = "done"].ready = rows[t].ready
  BY DEF InboxRow
<1>4. /\ Stored(rows, t) \in [Updates -> InboxRow]
      /\ Stored(rows, t)[t] = Queued
      /\ \A u \in Updates \ {t} : Stored(rows, t)[u] = rows[u]
  BY <1>1 DEF Stored
<1>5. /\ Ready(rows, t) \in [Updates -> InboxRow]
      /\ Ready(rows, t)[t] = [rows[t] EXCEPT !.ready = TRUE]
      /\ \A u \in Updates \ {t} : Ready(rows, t)[u] = rows[u]
  BY <1>2 DEF Ready
<1>6. /\ Done(rows, t) \in [Updates -> InboxRow]
      /\ Done(rows, t)[t] = [rows[t] EXCEPT !.status = "done"]
      /\ \A u \in Updates \ {t} : Done(rows, t)[u] = rows[u]
  BY <1>3 DEF Done
<1> QED BY <1>2, <1>3, <1>4, <1>5, <1>6

\* A claim counts the run.
LEMMA ClaimedRow ==
    ASSUME NEW rows \in [Updates -> InboxRow], NEW t \in Updates,
           rows[t].attempts \in 0..MaxRetries
    PROVE  /\ Claimed(rows, t) \in [Updates -> InboxRow]
           /\ Claimed(rows, t)[t].status = "in_progress"
           /\ Claimed(rows, t)[t].attempts = rows[t].attempts + 1
           /\ ~Claimed(rows, t)[t].ready
           /\ \A u \in Updates \ {t} : Claimed(rows, t)[u] = rows[u]
<1> DEFINE row == [status |-> "in_progress", attempts |-> rows[t].attempts + 1,
                   ready |-> FALSE]
<1>1. row \in InboxRow
  <2>1. rows[t].attempts + 1 \in 0..(MaxRetries + 1)
    BY QueueAssumption
  <2> QED BY <2>1 DEF InboxRow
<1>2. Claimed(rows, t) = [rows EXCEPT ![t] = row]
  BY DEF Claimed
<1>3. row.status = "in_progress" /\ row.attempts = rows[t].attempts + 1 /\ ~row.ready
  OBVIOUS
<1> HIDE DEF row
<1> QED BY <1>1, <1>2, <1>3

\* A row that may be claimed has runs left, and its message was not answered.
LEMMA ClaimableRow ==
    ASSUME IInv, NEW u \in Claimable
    PROVE  /\ u \in Updates /\ inbox[u].status \in {"queued", "failed"}
           /\ u \notin answered
           /\ inbox[u].attempts \in 0..MaxRetries
<1>1. inbox \in [Updates -> InboxRow]
  BY DEF IInv, TypeOK
<1>2. CASE WithTaskStatus("queued") # {}
  BY <1>1, <1>2, QueueAssumption DEF Claimable, WithTaskStatus, IInv, RowInv, InboxRow
<1>3. CASE WithTaskStatus("queued") = {}
  <2> DEFINE due == {v \in Scanned : retryReady(v)}
  <2>1. due # {} /\ u = Least(due)
    BY <1>3 DEF Claimable
  <2>2. due \in SUBSET Nat
    BY SomeUpdates DEF Scanned, WithTaskStatus
  <2>3. u \in due
    BY <2>1, <2>2, LeastIs
  <2>4. u \in Updates /\ inbox[u].status = "failed" /\ retryReady(u)
    BY <2>3 DEF Scanned, WithTaskStatus
  <2>5. u \notin answered
    BY <2>4 DEF IInv, RowInv
  <2>6. inbox[u].attempts \in 0..MaxRetries
    BY <1>1, <2>4, QueueAssumption DEF retryReady, ShouldRetry, InboxRow
  <2> QED BY <2>4, <2>5, <2>6
<1> QED BY <1>2, <1>3

\* The first of the fetched updates.
LEMMA LeastOfBatch ==
    ASSUME IInv, pc = "enqueue"
    PROVE  /\ Least(batch) \in batch /\ \A v \in batch : Least(batch) <= v
           /\ Least(batch) \in Updates
<1>1. batch \in SUBSET Updates /\ batch # {}
  BY DEF IInv, TypeOK, OffsetInv
<1>2. batch \in SUBSET Nat
  BY <1>1, SomeUpdates
<1> QED BY <1>1, <1>2, LeastIs

\* At most MaxFaults faults.
LEMMA FaultTypes ==
    ASSUME TypeOK, Fault \/ UNCHANGED faults
    PROVE  faults' \in 0..MaxFaults
BY QueueAssumption DEF TypeOK, Fault

\* A mark of a failed run writes a row.
LEMMA MarkTypes ==
    ASSUME IInv, NEW c \in Classes, pc = "run", MarkFailed(c)
    PROVE  /\ inbox' \in [Updates -> InboxRow] /\ faults' \in 0..MaxFaults
           /\ circuit' \in Breaker /\ burst' \in Nat /\ errClass' \in Classes \cup {"none"}
           /\ task' \in 0..MaxUpdates
           /\ pc' \in {"poll", "judge"}
<1> DEFINE b == RetryBackoffSeconds(inbox[task].attempts) <= 0
<1>1. TypeOK /\ task \in Updates
  BY DEF IInv, TaskInv, Busy
<1>2. inbox \in [Updates -> InboxRow] /\ b \in BOOLEAN
  BY <1>1 DEF TypeOK
<1>3. Failed(inbox, task, b) \in [Updates -> InboxRow]
  BY <1>1, <1>2, FailedRow
<1>4. Update(Failed(inbox, task, b))
  BY DEF MarkFailed, Failed
<1> HIDE DEF b
<1>5. inbox' \in [Updates -> InboxRow]
  BY <1>2, <1>3, <1>4 DEF Update
<1>6. faults' \in 0..MaxFaults
  BY <1>1, <1>4, FaultTypes DEF Update
<1>7. circuit \in Breaker /\ burst \in Nat
  BY <1>1 DEF TypeOK
<1>8. circuit' \in Breaker /\ burst' \in Nat
  <2>1. RecordFailure(circuit, c) \in Breaker
    BY <1>7, BreakerTypes
  <2> QED BY <1>7, <2>1 DEF MarkFailed
<1>9. errClass' \in Classes \cup {"none"} /\ task' \in 0..MaxUpdates
      /\ pc' \in {"poll", "judge"}
  BY <1>1, QueueAssumption DEF MarkFailed, TypeOK
<1> QED BY <1>5, <1>6, <1>8, <1>9

\* Every step keeps the types.
LEMMA TypeStep == IInv /\ Next => TypeOK'
<1> SUFFICES ASSUME IInv, Next PROVE TypeOK'
  OBVIOUS
<1>0. TypeOK /\ NewCircuitBreaker \in Breaker /\ 0 \in 0..MaxUpdates
      /\ 0 \in 0..(MaxUpdates + 1) /\ inbox \in [Updates -> InboxRow]
  <2>1. NewCircuitBreaker \in Breaker
    BY DEF NewCircuitBreaker, Breaker
  <2> QED BY <2>1, QueueAssumption DEF IInv, TypeOK
<1>1. CASE WorkerStarts
  <2>1. offset' \in 0..(MaxUpdates + 1)
    BY <1>1, OffsetPossible DEF WorkerStarts, Possible
  <2> QED BY <1>0, <1>1, <2>1 DEF WorkerStarts, TypeOK, chat, tables
<1>2. ASSUME NEW c \in Classes, PollFails(c) PROVE TypeOK'
  <2>1. circuit' \in Breaker
    BY <1>0, <1>2, BreakerTypes DEF PollFails, TypeOK
  <2> QED BY <1>0, <1>2, <2>1 DEF PollFails, TypeOK, chat, tables, loop
<1>3. CASE PollSucceeds
  <2>1. circuit' \in Breaker /\ burst' \in Nat
    <3>1. circuit \in Breaker /\ burst \in Nat
      BY <1>0 DEF TypeOK
    <3>2. Allow(circuit) \in Breaker /\ RecordSuccess(Allow(circuit)) \in Breaker
      BY <3>1, BreakerTypes
    <3> QED BY <1>3, <3>1, <3>2 DEF PollSucceeds
  <2>2. server' \subseteq Updates /\ batch' \subseteq Updates
    BY <1>0, <1>3 DEF PollSucceeds, TypeOK, Visible
  <2>3. pc' \in {"claim", "enqueue"}
    BY <1>3 DEF PollSucceeds
  <2> QED BY <1>0, <1>3, <2>1, <2>2, <2>3 DEF PollSucceeds, TypeOK, tables
<1>4. ASSUME Enqueue \/ EnqueueFails PROVE TypeOK'
  <2>0. TakeUpdate
    BY <1>4 DEF Enqueue, EnqueueFails
  <2>1. Least(batch) \in Updates
    BY <2>0, LeastOfBatch DEF TakeUpdate
  <2>2. offset' \in 0..(MaxUpdates + 1) /\ batch' \subseteq Updates
        /\ pc' \in {"claim", "enqueue"}
    <3>1. Least(batch) + 1 \in 0..(MaxUpdates + 1)
      BY <2>1, QueueAssumption DEF Updates
    <3> QED BY <1>0, <2>0, <3>1 DEF TakeUpdate, TypeOK
  <2>3. Enqueue => inbox' \in [Updates -> InboxRow] /\ UNCHANGED <<waived, faults>>
    <3>1. Stored(inbox, Least(batch)) \in [Updates -> InboxRow]
      BY <1>0, <2>1, ChangedRow
    <3> QED BY <1>0, <3>1 DEF Enqueue, Stored
  <2>4. EnqueueFails => inbox' = inbox /\ waived' \subseteq Updates /\ faults' \in 0..MaxFaults
    BY <1>0, <2>1, FaultTypes DEF EnqueueFails, TypeOK
  <2>5. UNCHANGED <<kind, server, answered, retryLog, history, task, errClass, circuit, burst>>
    BY <2>0 DEF TakeUpdate, chat
  <2> QED BY <1>0, <1>4, <2>2, <2>3, <2>4, <2>5 DEF TypeOK
<1>5. CASE ClaimFails \/ NothingToClaim
  <2>1. faults' \in 0..MaxFaults
    BY <1>0, <1>5, FaultTypes DEF ClaimFails, NothingToClaim
  <2> QED BY <1>0, <1>5, <2>1 DEF ClaimFails, NothingToClaim, TypeOK, chat, tables
<1>6. ASSUME NEW u \in Updates, Claim(u) PROVE TypeOK'
  <2>1. inbox[u].attempts \in 0..MaxRetries
    BY <1>6, ClaimableRow DEF Claim
  <2>2. inbox' \in [Updates -> InboxRow]
    BY <1>0, <1>6, <2>1, ClaimedRow DEF Claim, Claimed
  <2>3. u \in 0..MaxUpdates
    BY <1>6, QueueAssumption DEF Updates
  <2> QED BY <1>0, <1>6, <2>2, <2>3 DEF Claim, TypeOK, chat
<1>7. ASSUME NEW c \in Classes, RunFails(c) \/ ReplyFails PROVE TypeOK'
  <2>1. PICK d \in Classes : MarkFailed(d)
    BY <1>7, BreakerAssumption DEF RunFails, ReplyFails
  <2>2. pc = "run" /\ UNCHANGED chat
    BY <1>7 DEF RunFails, ReplyFails
  <2>3. /\ inbox' \in [Updates -> InboxRow] /\ faults' \in 0..MaxFaults
        /\ circuit' \in Breaker /\ burst' \in Nat /\ errClass' \in Classes \cup {"none"}
        /\ task' \in 0..MaxUpdates
        /\ pc' \in {"poll", "judge"}
    BY <2>1, <2>2, MarkTypes
  <2>4. UNCHANGED <<retryLog, history, offset, batch, waived>>
    BY <2>1 DEF MarkFailed
  <2> QED BY <1>0, <2>2, <2>3, <2>4 DEF TypeOK, chat
<1>8. CASE ReplySent
  <2>1. task \in Updates
    BY <1>8 DEF ReplySent, IInv, TaskInv, Busy
  <2> QED BY <1>0, <1>8, <2>1 DEF ReplySent, TypeOK, tables
<1>9. CASE AppendUser \/ AppendAssistant
  <2>1. task \in Updates
    BY <1>9 DEF AppendUser, AppendAssistant, IInv, TaskInv, Busy
  <2>2. PICK role \in {"user", "assistant"} : appendHistory(role)
    BY <1>9 DEF AppendUser, AppendAssistant
  <2>3. [task |-> task, role |-> role] \in HistoryRow
    BY <2>1 DEF HistoryRow
  <2>4. Append(history, [task |-> task, role |-> role]) \in Seq(HistoryRow)
    BY <1>0, <2>3 DEF TypeOK
  <2>5. history' \in Seq(HistoryRow) /\ faults' \in 0..MaxFaults
    BY <1>0, <2>2, <2>4, FaultTypes DEF appendHistory, TypeOK
  <2>6. pc' \in {"appending", "appended"}
    BY <1>9 DEF AppendUser, AppendAssistant
  <2> QED BY <1>0, <2>2, <2>5, <2>6 DEF appendHistory, TypeOK, chat
<1>10. CASE FinishTask \/ MarkCommandDone
  <2>1. task \in Updates /\ inbox \in [Updates -> InboxRow]
    BY <1>0, <1>10 DEF FinishTask, MarkCommandDone, IInv, TaskInv, Busy, TypeOK
  <2>2. Done(inbox, task) \in [Updates -> InboxRow] /\ Update(Done(inbox, task))
    BY <1>10, <2>1, ChangedRow DEF FinishTask, MarkCommandDone, Done
  <2>3. inbox' \in [Updates -> InboxRow] /\ faults' \in 0..MaxFaults
    BY <1>0, <2>2, FaultTypes DEF Update
  <2>4. UNCHANGED <<chat, retryLog, history, waived>>
    BY <1>10 DEF FinishTask, MarkCommandDone
  <2>5. circuit' \in Breaker /\ burst' \in Nat
    BY <1>0, <1>10 DEF FinishTask, MarkCommandDone, Dies, RecordSuccess, TypeOK
  <2> QED BY <1>0, <1>10, <2>3, <2>4, <2>5
          DEF FinishTask, MarkCommandDone, GoesOn, Dies, TypeOK, chat
<1>11. CASE FinishCommand
  BY <1>0, <1>11 DEF FinishCommand, GoesOn, Dies, TypeOK, chat, tables
<1>12. CASE Judge
  <2> DEFINE fp == [task |-> task, class |-> errClass, history |-> Len(history)]
  <2>1. task \in Updates /\ inbox \in [Updates -> InboxRow] /\ errClass \in Classes
    BY <1>0, <1>12 DEF Judge, IInv, TaskInv, Busy, TypeOK
  <2>2. GivenUp(inbox, task) \in [Updates -> InboxRow]
    BY <2>1, GivenUpRow
  <2>3. Append(retryLog, fp) \in Seq(Fingerprint)
    <3>1. Len(history) \in Nat /\ retryLog \in Seq(Fingerprint)
      BY <1>0 DEF TypeOK
    <3>2. fp \in Fingerprint
      BY <2>1, <3>1 DEF Fingerprint
    <3> QED BY <3>1, <3>2
  <2>4. inbox' \in [Updates -> InboxRow] /\ retryLog' \in Seq(Fingerprint)
        /\ faults' \in 0..MaxFaults
    <3>1. \/ UNCHANGED <<inbox, retryLog, faults>>
          \/ Update(GivenUp(inbox, task)) /\ UNCHANGED retryLog
          \/ LogRetry(fp) /\ UNCHANGED inbox
      BY <1>12 DEF Judge, GivenUp
    <3> HIDE DEF fp
    <3>2. faults' \in 0..MaxFaults
      BY <1>0, <3>1, FaultTypes DEF Update, LogRetry
    <3> QED BY <1>0, <2>2, <2>3, <3>1, <3>2 DEF Update, LogRetry, TypeOK
  <2>5. UNCHANGED <<chat, history, waived>> /\ circuit' \in Breaker /\ burst' \in Nat
    BY <1>0, <1>12 DEF Judge, Dies, TypeOK
  <2>6. offset' \in 0..(MaxUpdates + 1) /\ batch' \subseteq Updates /\ task' = 0
        /\ errClass' = "none" /\ pc' \in {"poll", "down"}
    BY <1>0, <1>12 DEF Judge, GoesOn, Dies, TypeOK
  <2> QED BY <1>0, <2>4, <2>5, <2>6 DEF TypeOK, chat
<1>13. CASE WorkerCrashes
  <2>1. faults' \in 0..MaxFaults
    BY <1>0, <1>13, FaultTypes DEF WorkerCrashes
  <2> QED BY <1>0, <1>13, <2>1 DEF WorkerCrashes, Dies, TypeOK, chat, tables
<1>14. CASE UsersNext
  BY <1>0, <1>14 DEF UsersNext, UserSends, TypeOK, tables, loop
<1>15. CASE CooldownElapses
  <2>1. circuit' \in Breaker
    BY <1>0, <1>15, BreakerTypes DEF CooldownElapses, TypeOK
  <2> QED BY <1>0, <1>15, <2>1 DEF CooldownElapses, TypeOK, chat, tables, loop
<1>16. ASSUME NEW u \in Updates, BackoffElapses(u) PROVE TypeOK'
  <2>1. inbox' \in [Updates -> InboxRow]
    <3>1. Ready(inbox, u) \in [Updates -> InboxRow]
      BY <1>0, <1>16, ChangedRow
    <3> QED BY <1>16, <3>1 DEF BackoffElapses, Ready
  <2> QED BY <1>0, <1>16, <2>1 DEF BackoffElapses, TypeOK, chat, loop
<1> QED BY BreakerAssumption, <1>1, <1>2, <1>3, <1>4, <1>5, <1>6, <1>7, <1>8, <1>9, <1>10,
           <1>11, <1>12, <1>13, <1>14, <1>15, <1>16 DEF Next, WorkerNext

(***************************************************************************)
(* What a step may do to a row.                                            *)
(***************************************************************************)
RowMoves(u) ==
    \/ inbox'[u] = inbox[u]
    \/ /\ pc = "enqueue" /\ u = Least(batch) /\ kind[u] # "other"
       /\ inbox[u].status = "absent" /\ inbox'[u] = Queued
    \/ /\ pc' = pc /\ task' = task
       /\ inbox[u].status = "failed" /\ ShouldRetry(inbox[u].attempts)
       /\ inbox'[u].status = "failed" /\ inbox'[u].attempts = inbox[u].attempts
    \/ /\ pc = "claim" /\ u \in Claimable /\ task' = u /\ pc' = "run"
       /\ inbox'[u].status = "in_progress" /\ ~inbox'[u].ready
       /\ inbox'[u].attempts = inbox[u].attempts + 1
    \/ /\ pc = "run" /\ u = task /\ pc' \in {"poll", "judge"}
       /\ inbox'[u].status = "failed" /\ inbox'[u].attempts = inbox[u].attempts
       /\ inbox'[u].ready = (RetryBackoffSeconds(inbox[u].attempts) <= 0)
    \/ /\ pc \in {"answered", "appended"} /\ u = task /\ pc' \in {"done", "poll", "down"}
       /\ inbox'[u].status = "done" /\ inbox'[u].attempts = inbox[u].attempts
       /\ inbox'[u].ready = inbox[u].ready
    \/ /\ pc = "judge" /\ u = task /\ task' = 0 /\ pc' \in {"poll", "down"}
       /\ ShouldRetry(inbox[u].attempts)
       /\ inbox'[u].status = "failed" /\ inbox'[u].attempts = MaxRetries + 1
       /\ inbox'[u].ready = inbox[u].ready

\* No step does anything else to a row.
LEMMA RowStep ==
    ASSUME IInv, Next, NEW u \in Updates
    PROVE  RowMoves(u)
<1>1. inbox \in [Updates -> InboxRow]
  BY DEF IInv, TypeOK
<1>2. CASE UNCHANGED inbox
  BY <1>2 DEF RowMoves
<1>3. CASE Enqueue
  <2>1. pc = "enqueue" /\ Least(batch) \in Updates
    BY <1>3, LeastOfBatch DEF Enqueue, TakeUpdate
  <2>2. CASE inbox' = inbox
    BY <2>2 DEF RowMoves
  <2>3. CASE inbox' # inbox
    <3>1. inbox' = Stored(inbox, Least(batch)) /\ kind[Least(batch)] # "other"
          /\ inbox[Least(batch)].status = "absent"
      BY <1>3, <2>3 DEF Enqueue, Stored
    <3>2. u # Least(batch) => inbox'[u] = inbox[u]
      BY <1>1, <2>1, <3>1, ChangedRow
    <3>3. inbox'[Least(batch)] = Queued
      BY <1>1, <2>1, <3>1, ChangedRow
    <3> QED BY <2>1, <3>1, <3>2, <3>3 DEF RowMoves
  <2> QED BY <2>2, <2>3
<1>4. ASSUME NEW v \in Updates, BackoffElapses(v) PROVE RowMoves(u)
  <2>1. inbox' = Ready(inbox, v)
    BY <1>4 DEF BackoffElapses, Ready
  <2>2. u # v => inbox'[u] = inbox[u]
    BY <1>1, <2>1, ChangedRow
  <2>3. inbox'[v].status = inbox[v].status /\ inbox'[v].attempts = inbox[v].attempts
    BY <1>1, <2>1, ChangedRow
  <2>4. pc' = pc /\ task' = task /\ inbox[v].status = "failed" /\ ShouldRetry(inbox[v].attempts)
    BY <1>4 DEF BackoffElapses, loop
  <2> QED BY <2>2, <2>3, <2>4 DEF RowMoves
<1>5. ASSUME NEW v \in Updates, Claim(v) PROVE RowMoves(u)
  <2>1. inbox' = Claimed(inbox, v) /\ v \in Claimable /\ pc = "claim" /\ pc' = "run"
        /\ task' = v
    BY <1>5 DEF Claim, Claimed
  <2>2. inbox[v].attempts \in 0..MaxRetries
    BY <2>1, ClaimableRow
  <2>3. u # v => inbox'[u] = inbox[u]
    BY <1>1, <2>1, <2>2, ClaimedRow
  <2>4. inbox'[v].status = "in_progress" /\ ~inbox'[v].ready
        /\ inbox'[v].attempts = inbox[v].attempts + 1
    BY <1>1, <2>1, <2>2, ClaimedRow
  <2> QED BY <2>1, <2>3, <2>4 DEF RowMoves
<1>6. ASSUME NEW c \in Classes, pc = "run", MarkFailed(c) PROVE RowMoves(u)
  <2> DEFINE b == RetryBackoffSeconds(inbox[task].attempts) <= 0
  <2>1. task \in Updates
    BY <1>6 DEF IInv, TaskInv, Busy
  <2>2. Update(Failed(inbox, task, b)) /\ pc' \in {"poll", "judge"}
    BY <1>6 DEF MarkFailed, Failed
  <2>3. b \in BOOLEAN
    OBVIOUS
  <2> HIDE DEF b
  <2>4. CASE inbox' = Failed(inbox, task, b)
    <3>1. u # task => inbox'[u] = inbox[u]
      BY <1>1, <2>1, <2>3, <2>4, FailedRow
    <3>2. inbox'[task].status = "failed" /\ inbox'[task].attempts = inbox[task].attempts
          /\ inbox'[task].ready = b
      BY <1>1, <2>1, <2>3, <2>4, FailedRow
    <3> QED BY <1>6, <2>2, <3>1, <3>2 DEF RowMoves, b
  <2> QED BY <1>2, <2>2, <2>4 DEF Update
<1>7. CASE FinishTask \/ MarkCommandDone
  <2>1. task \in Updates
    BY <1>7 DEF FinishTask, MarkCommandDone, IInv, TaskInv, Busy
  <2>2. Update(Done(inbox, task)) /\ pc \in {"answered", "appended"}
        /\ pc' \in {"done", "poll", "down"}
    BY <1>7 DEF FinishTask, MarkCommandDone, GoesOn, Dies, Done
  <2>3. CASE inbox' = Done(inbox, task)
    <3>1. u # task => inbox'[u] = inbox[u]
      BY <1>1, <2>1, <2>3, ChangedRow
    <3>2. inbox'[task].status = "done" /\ inbox'[task].attempts = inbox[task].attempts
          /\ inbox'[task].ready = inbox[task].ready
      BY <1>1, <2>1, <2>3, ChangedRow
    <3> QED BY <2>2, <3>1, <3>2 DEF RowMoves
  <2> QED BY <1>2, <2>2, <2>3 DEF Update
<1>8. CASE Judge
  <2>1. task \in Updates
    BY <1>8 DEF Judge, IInv, TaskInv, Busy
  <2>2. pc = "judge" /\ task' = 0 /\ pc' \in {"poll", "down"}
    BY <1>8 DEF Judge, GoesOn, Dies
  <2>3. \/ inbox' = inbox
        \/ inbox' = GivenUp(inbox, task) /\ ShouldRetry(inbox[task].attempts)
    <3>1. UNCHANGED inbox \/ Update(GivenUp(inbox, task))
      BY <1>8 DEF Judge, GivenUp
    <3>2. ~ShouldRetry(inbox[task].attempts) => UNCHANGED inbox
      BY <1>8 DEF Judge
    <3> QED BY <3>1, <3>2 DEF Update
  <2>4. CASE inbox' = GivenUp(inbox, task) /\ ShouldRetry(inbox[task].attempts)
    <3>1. u # task => inbox'[u] = inbox[u]
      BY <1>1, <2>1, <2>4, GivenUpRow
    <3>2. inbox'[task].status = "failed" /\ inbox'[task].attempts = MaxRetries + 1
          /\ inbox'[task].ready = inbox[task].ready
      BY <1>1, <2>1, <2>4, GivenUpRow
    <3> QED BY <2>2, <2>4, <3>1, <3>2 DEF RowMoves
  <2> QED BY <1>2, <2>3, <2>4
<1>9. ASSUME NEW c \in Classes, RunFails(c) \/ ReplyFails PROVE RowMoves(u)
  BY <1>6, <1>9, BreakerAssumption DEF RunFails, ReplyFails
<1>10. \/ UNCHANGED inbox \/ Enqueue \/ \E v \in Updates : BackoffElapses(v)
       \/ \E v \in Updates : Claim(v)
       \/ \E c \in Classes : RunFails(c) \/ ReplyFails
       \/ FinishTask \/ MarkCommandDone \/ Judge
  BY BreakerAssumption
     DEF Next, WorkerNext, WorkerStarts, PollFails, PollSucceeds, EnqueueFails, ClaimFails,
         NothingToClaim, ReplySent, AppendUser, AppendAssistant, appendHistory,
         FinishCommand, WorkerCrashes, UsersNext, UserSends, CooldownElapses, tables
<1> QED BY <1>2, <1>3, <1>4, <1>5, <1>7, <1>8, <1>9, <1>10

\* A stored row stays stored.
LEMMA RowsStay ==
    ASSUME IInv, Next, NEW u \in Updates, inbox[u].status # "absent"
    PROVE  inbox'[u].status # "absent"
<1>1. RowMoves(u)
  BY RowStep
<1> QED BY <1>1 DEF RowMoves, Queued

(***************************************************************************)
(* Nothing is lost.                                                        *)
(***************************************************************************)

\* The steps that move the offset or the batch, send, or do neither.
OffsetRests ==
    /\ UNCHANGED <<kind, server, waived>>
    /\ \/ UNCHANGED <<offset, batch>> /\ (pc' = "enqueue" <=> pc = "enqueue")
       \/ offset' = 0 /\ batch' = {} /\ pc' # "enqueue"

\* There are no others.
LEMMA OffsetCases ==
    ASSUME IInv, Next
    PROVE  \/ WorkerStarts \/ PollSucceeds \/ Enqueue \/ EnqueueFails \/ OffsetRests
           \/ \E w \in Updates, k \in Kinds : UserSends(w, k)
<1>1. ASSUME NEW c \in Classes, PollFails(c) PROVE OffsetRests
  BY <1>1 DEF PollFails, OffsetRests, chat, loop
<1>2. ClaimFails \/ NothingToClaim => OffsetRests
  BY DEF ClaimFails, NothingToClaim, OffsetRests, chat
<1>3. ASSUME NEW u \in Updates, Claim(u) \/ BackoffElapses(u) PROVE OffsetRests
  BY <1>3 DEF Claim, BackoffElapses, OffsetRests, chat, loop
<1>4. ASSUME NEW c \in Classes, RunFails(c) PROVE OffsetRests
  BY <1>4 DEF RunFails, MarkFailed, OffsetRests, chat
<1>5. ReplyFails => OffsetRests
  BY DEF ReplyFails, MarkFailed, OffsetRests, chat
<1>6. ReplySent \/ AppendUser \/ AppendAssistant => OffsetRests
  BY DEF ReplySent, AppendUser, AppendAssistant, appendHistory, OffsetRests, chat
<1>7. FinishTask \/ MarkCommandDone \/ FinishCommand \/ Judge => OffsetRests
  BY DEF FinishTask, MarkCommandDone, FinishCommand, Judge, GoesOn, Dies, OffsetRests, chat
<1>8. WorkerCrashes \/ CooldownElapses => OffsetRests
  BY DEF WorkerCrashes, Dies, CooldownElapses, OffsetRests, chat, loop
<1> QED BY <1>1, <1>2, <1>3, <1>4, <1>5, <1>6, <1>7, <1>8 DEF Next, WorkerNext, UsersNext

\* An update that is stored or given up stays so.
LEMMA AccountedStays ==
    ASSUME IInv, Next, NEW u \in Updates, Accounted(u)
    PROVE  Accounted(u)'
<1>1. waived \subseteq waived'
  BY OffsetCases
     DEF OffsetRests, WorkerStarts, PollSucceeds, Enqueue, EnqueueFails, UserSends
<1> QED BY <1>1, RowsStay DEF Accounted

\* Numbers follow the order of sending.
LEMMA SentStep == IInv /\ Next => SentInv'
<1> SUFFICES ASSUME IInv, Next PROVE SentInv'
  OBVIOUS
<1>1. TypeOK /\ SentInv
  BY DEF IInv
<1> DEFINE Numbered ==
        /\ \A u, v \in Updates : v <= u /\ kind'[u] # "unsent" => kind'[v] # "unsent"
        /\ \A u \in server' : kind'[u] # "unsent"
        /\ \A u \in batch' : kind'[u] \notin {"unsent", "unread"}
        /\ \A u \in Updates : kind[u] # "unsent" => kind'[u] = kind[u]
<1>2. Numbered
  <2>1. ASSUME NEW w \in Updates, NEW k \in Kinds, UserSends(w, k) PROVE Numbered
    <3>1. /\ kind' = [kind EXCEPT ![w] = k] /\ server' = server \cup {w} /\ batch' = batch
          /\ kind[w] = "unsent" /\ \A v \in Updates : v < w => kind[v] # "unsent"
      BY <2>1 DEF UserSends, loop
    <3>2. k # "unsent"
      BY QueueAssumption
    <3>3. kind'[w] = k /\ \A u \in Updates \ {w} : kind'[u] = kind[u]
      BY <1>1, <3>1 DEF TypeOK
    <3>4. \A u \in batch : u # w /\ u \in Updates
      BY <1>1, <3>1 DEF SentInv, TypeOK
    <3>5. \A u, v \in Updates : v <= u /\ kind'[u] # "unsent" => kind'[v] # "unsent"
      <4>1. \A v \in Updates : v <= w => v = w \/ v < w
        BY QueueAssumption DEF Updates
      <4> QED BY <1>1, <3>1, <3>2, <3>3, <4>1 DEF SentInv
    <3>6. \A u \in server' : kind'[u] # "unsent"
      BY <1>1, <3>1, <3>2, <3>3 DEF SentInv, TypeOK
    <3>7. \A u \in batch' : kind'[u] \notin {"unsent", "unread"}
      BY <1>1, <3>1, <3>3, <3>4 DEF SentInv
    <3> QED BY <3>1, <3>3, <3>5, <3>6, <3>7
  <2>2. CASE PollSucceeds
    BY <1>1, <2>2 DEF PollSucceeds, SentInv, Visible, TypeOK
  <2>3. CASE Enqueue \/ EnqueueFails
    BY <1>1, <2>3 DEF Enqueue, EnqueueFails, TakeUpdate, SentInv, chat
  <2>4. CASE WorkerStarts \/ OffsetRests
    BY <1>1, <2>4 DEF WorkerStarts, OffsetRests, SentInv, chat
  <2> QED BY <2>1, <2>2, <2>3, <2>4, OffsetCases
<1>3. ASSUME NEW u \in Updates, inbox'[u].status # "absent" PROVE Message(u)'
  <2>1. kind[u] # "unsent" => kind'[u] = kind[u]
    BY <1>2
  <2>2. CASE inbox[u].status # "absent"
    BY <1>1, <2>1, <2>2 DEF SentInv, Message
  <2>3. CASE inbox[u].status = "absent"
    <3>1. pc = "enqueue" /\ u = Least(batch) /\ kind[u] # "other"
      <4>1. RowMoves(u) /\ u \notin Claimable
        BY <2>3, RowStep, ClaimableRow
      <4>2. u = task /\ pc \in {"run", "answered", "appended", "judge"} =>
               inbox[u].status # "absent"
        BY <2>3 DEF IInv, TaskInv, RowInv, Replied
      <4> QED BY <1>3, <2>3, <4>1, <4>2 DEF RowMoves
    <3>2. kind[u] \notin {"unsent", "unread"}
      BY <1>1, <3>1, LeastOfBatch DEF SentInv
    <3>3. kind[u] \in {"text", "command"}
      BY <1>1, <3>1, <3>2, QueueAssumption DEF TypeOK
    <3> QED BY <2>1, <3>3 DEF Message
  <2> QED BY <2>2, <2>3
<1> QED BY <1>2, <1>3 DEF SentInv

\* A fetched update is stored or given up when it is taken.
LEMMA TakenAccounted ==
    ASSUME IInv, Enqueue \/ EnqueueFails, Message(Least(batch))
    PROVE  inbox'[Least(batch)].status # "absent" \/ Least(batch) \in waived'
<1> DEFINE u == Least(batch)
<1>1. u \in Updates /\ inbox \in [Updates -> InboxRow]
  BY LeastOfBatch DEF Enqueue, EnqueueFails, TakeUpdate, IInv, TypeOK
<1>2. CASE EnqueueFails
  BY <1>2 DEF EnqueueFails
<1>3. CASE Enqueue
  <2>1. CASE inbox[u].status # "absent"
    BY <1>3, <2>1 DEF Enqueue
  <2>2. CASE inbox[u].status = "absent"
    <3>1. inbox' = Stored(inbox, u)
      BY <1>3, <2>2 DEF Enqueue, Message, Stored
    <3> HIDE DEF u
    <3>2. inbox'[u] = Queued
      BY <1>1, <3>1, ChangedRow
    <3> QED BY <3>2 DEF Queued, u
  <2> QED BY <2>1, <2>2
<1> QED BY <1>2, <1>3

\* A message the server does not hold is stored or given up: a poll confirms
\* only what lies below the offset.
LEMMA Covers ==
    ASSUME IInv, Next, NEW u \in Updates, Message(u)', u \notin server'
    PROVE  Accounted(u)'
<1>1. CASE Accounted(u)
  BY <1>1, AccountedStays
<1>2. CASE ~Accounted(u)
  <2>1. ~Message(u) \/ u \in server
    BY <1>2 DEF IInv, NothingLost, Message, Accounted
  <2>2. ~(u < offset /\ Message(u))
    BY <1>2 DEF IInv, OffsetInv
  <2>3. kind \in [Updates -> Kinds \cup {"unsent"}] /\ server \subseteq Updates
    BY DEF IInv, TypeOK
  <2>4. ~\E w \in Updates, k \in Kinds : UserSends(w, k)
    BY <2>1, <2>3 DEF UserSends, Message
  <2>5. kind' = kind
    BY <2>4, OffsetCases
       DEF OffsetRests, WorkerStarts, PollSucceeds, Enqueue, EnqueueFails, TakeUpdate, chat
  <2>6. Message(u) /\ u \in server
    BY <2>1, <2>5 DEF Message
  <2>7. u \in Nat /\ offset \in Nat
    BY QueueAssumption DEF IInv, TypeOK, Updates
  <2>8. u >= offset
    BY <2>2, <2>6, <2>7
  <2>9. u \in server'
    BY <2>4, <2>6, <2>8, OffsetCases
       DEF OffsetRests, WorkerStarts, PollSucceeds, Enqueue, EnqueueFails, TakeUpdate, chat
  <2> QED BY <2>9
<1> QED BY <1>1, <1>2

\* Every step keeps every message.
LEMMA NothingLostStep == IInv /\ Next => NothingLost'
BY Covers DEF NothingLost, Message, Accounted

\* Every step keeps what the offset says.
LEMMA OffsetStep == IInv /\ Next => OffsetInv'
<1> SUFFICES ASSUME IInv, Next PROVE OffsetInv'
  OBVIOUS
<1>1. TypeOK /\ SentInv /\ OffsetInv /\ NothingLost
  BY DEF IInv
<1>2. \A u \in Updates : u \in Nat
  BY QueueAssumption DEF Updates
<1>3. CASE OffsetRests
  <2>1. ASSUME NEW u \in Updates, u < offset'
        PROVE  kind'[u] # "unsent" /\ (Message(u)' => Accounted(u)')
    <3>1. u < offset /\ kind' = kind
      BY <1>2, <1>3, <2>1 DEF OffsetRests
    <3>2. kind[u] # "unsent" /\ (Message(u) => Accounted(u))
      BY <1>1, <3>1 DEF OffsetInv
    <3> QED BY <3>1, <3>2, AccountedStays DEF Message
  <2>2. ASSUME NEW u \in Updates, NEW v \in batch', u < v, Message(u)'
        PROVE  Accounted(u)' \/ u \in batch'
    <3>1. batch' = batch /\ kind' = kind
      BY <1>3, <2>2 DEF OffsetRests
    <3>2. Accounted(u) \/ u \in batch
      BY <1>1, <2>2, <3>1 DEF OffsetInv, Message
    <3> QED BY <3>1, <3>2, AccountedStays
  <2>3. pc' = "enqueue" <=> batch' # {}
    BY <1>1, <1>3 DEF OffsetRests, OffsetInv
  <2> QED BY <2>1, <2>2, <2>3 DEF OffsetInv
<1>4. CASE WorkerStarts
  <2>1. Possible(offset')
    BY <1>4, OffsetPossible DEF WorkerStarts
  <2>2. /\ kind' = kind /\ server' = server /\ batch' = batch /\ pc' = "poll" /\ pc = "down"
        /\ waived' = waived \cup {u \in server : u < offset'}
    BY <1>4 DEF WorkerStarts, chat
  <2>3. batch = {}
    BY <1>1, <2>2 DEF OffsetInv
  <2>4. ASSUME NEW u \in Updates, u < offset', Message(u)' PROVE Accounted(u)'
    <3>1. CASE u \in server
      BY <2>2, <2>4, <3>1 DEF Accounted
    <3>2. CASE u \notin server
      BY <2>2, <2>4, <3>2, Covers
    <3> QED BY <3>1, <3>2
  <2> QED BY <2>1, <2>2, <2>3, <2>4 DEF OffsetInv, Possible
<1>5. CASE PollSucceeds
  <2>1. offset' = offset /\ kind' = kind
    BY <1>5 DEF PollSucceeds
  <2>2. ASSUME NEW u \in Updates, u < offset'
        PROVE  kind'[u] # "unsent" /\ (Message(u)' => Accounted(u)')
    <3>1. kind[u] # "unsent" /\ (Message(u) => Accounted(u))
      BY <1>1, <2>1, <2>2 DEF OffsetInv
    <3> QED BY <2>1, <3>1, AccountedStays DEF Message
  <2>3. ASSUME NEW u \in Updates, NEW v \in batch', u < v, Message(u)'
        PROVE  Accounted(u)' \/ u \in batch'
    <3>1. batch' = Visible(server')
      BY <1>5, <2>3 DEF PollSucceeds
    <3>2. u \in server' => u \in batch'
      BY <2>1, <2>3, <3>1 DEF Visible, Message
    <3> QED BY <2>3, <3>2, Covers
  <2>4. pc' = "enqueue" <=> batch' # {}
    BY <1>5 DEF PollSucceeds
  <2> QED BY <2>2, <2>3, <2>4 DEF OffsetInv
<1>6. CASE Enqueue \/ EnqueueFails
  <2>0. PICK w \in Updates : w = Least(batch)
    BY <1>6, LeastOfBatch DEF Enqueue, EnqueueFails, TakeUpdate
  <2>1. pc = "enqueue" /\ batch' = batch \ {w} /\ offset' = w + 1 /\ kind' = kind
        /\ (pc' = "enqueue" <=> batch' # {})
    BY <1>6, <2>0 DEF Enqueue, EnqueueFails, TakeUpdate, chat
  <2>2. w \in batch /\ \A v \in batch : w <= v
    BY <2>0, <2>1, LeastOfBatch
  <2>3. Message(w) => Accounted(w)'
    BY <1>6, <2>0, TakenAccounted DEF Accounted
  <2>4. ASSUME NEW u \in Updates, u < w
        PROVE  kind'[u] # "unsent" /\ (Message(u)' => Accounted(u)')
    <3>1. kind[w] # "unsent" /\ u \notin batch
      BY <1>1, <1>2, <2>2, <2>4 DEF SentInv
    <3>2. kind[u] # "unsent"
      BY <1>1, <1>2, <2>2, <2>4, <3>1 DEF SentInv
    <3>3. Message(u) => Accounted(u)
      BY <1>1, <2>2, <2>4, <3>1 DEF OffsetInv
    <3> QED BY <2>1, <3>2, <3>3, AccountedStays DEF Message
  <2>5. kind'[w] # "unsent" /\ (Message(w)' => Accounted(w)')
    BY <1>1, <2>1, <2>2, <2>3 DEF SentInv, Message
  <2>6. \A u \in Updates : u < offset' => u < w \/ u = w
    BY <1>2, <2>1, <2>2
  <2>7. ASSUME NEW u \in Updates, NEW v \in batch', u < v, Message(u)'
        PROVE  Accounted(u)' \/ u \in batch'
    <3>1. Message(u) /\ v \in batch
      BY <2>1, <2>7 DEF Message
    <3>2. Accounted(u) \/ u \in batch
      BY <1>1, <2>7, <3>1 DEF OffsetInv
    <3> QED BY <2>1, <2>3, <3>1, <3>2, AccountedStays
  <2>8. ASSUME NEW u \in Updates, u < offset'
        PROVE  kind'[u] # "unsent" /\ (Message(u)' => Accounted(u)')
    BY <2>4, <2>5, <2>6, <2>8
  <2> QED BY <2>1, <2>7, <2>8 DEF OffsetInv
<1>7. ASSUME NEW w \in Updates, NEW k \in Kinds, UserSends(w, k) PROVE OffsetInv'
  <2>1. /\ kind' = [kind EXCEPT ![w] = k] /\ offset' = offset /\ batch' = batch /\ pc' = pc
        /\ kind[w] = "unsent"
    BY <1>7 DEF UserSends, loop
  <2>2. \A u \in Updates : u # w => kind'[u] = kind[u]
    BY <1>1, <2>1 DEF TypeOK
  <2>3. ASSUME NEW u \in Updates, u < offset'
        PROVE  kind'[u] # "unsent" /\ (Message(u)' => Accounted(u)')
    <3>1. kind[u] # "unsent" /\ (Message(u) => Accounted(u))
      BY <1>1, <2>1, <2>3 DEF OffsetInv
    <3>2. kind'[u] = kind[u]
      BY <2>1, <2>2, <3>1
    <3> QED BY <3>1, <3>2, AccountedStays DEF Message
  <2>4. ASSUME NEW u \in Updates, NEW v \in batch', u < v, Message(u)'
        PROVE  Accounted(u)' \/ u \in batch'
    <3>1. v \in batch /\ v \in Updates /\ kind[v] # "unsent"
      BY <1>1, <2>1 DEF SentInv, TypeOK
    <3>2. kind[u] # "unsent"
      BY <1>1, <1>2, <2>4, <3>1 DEF SentInv
    <3>3. Message(u)
      BY <2>1, <2>2, <2>4, <3>2 DEF Message
    <3>4. Accounted(u) \/ u \in batch
      BY <1>1, <2>4, <3>1, <3>3 DEF OffsetInv
    <3> QED BY <2>1, <3>4, AccountedStays
  <2>5. pc' = "enqueue" <=> batch' # {}
    BY <1>1, <2>1 DEF OffsetInv
  <2> QED BY <2>3, <2>4, <2>5 DEF OffsetInv
<1> QED BY <1>3, <1>4, <1>5, <1>6, <1>7, OffsetCases

(***************************************************************************)
(* Nobody is answered twice.                                               *)
(***************************************************************************)

\* A reply is the only thing that makes a message an answered one.
LEMMA AnsweredStep ==
    ASSUME IInv, Next
    PROVE  \/ answered' = answered
           \/ /\ pc = "run" /\ pc' = "answered" /\ task \in Updates /\ task' = task
              /\ answered' = answered \cup {task} /\ UNCHANGED inbox
<1>1. CASE ReplySent
  BY <1>1 DEF ReplySent, tables, IInv, TaskInv, Busy
<1>2. CASE UNCHANGED answered
  BY <1>2
<1> QED BY <1>1, <1>2
        DEF Next, WorkerNext, WorkerStarts, PollFails, PollSucceeds, Enqueue, EnqueueFails,
            TakeUpdate, ClaimFails, NothingToClaim, Claim, RunFails, ReplyFails, AppendUser,
            AppendAssistant, appendHistory, FinishTask, MarkCommandDone, FinishCommand, Judge,
            WorkerCrashes, UsersNext, UserSends, CooldownElapses, BackoffElapses, chat

\* Every step keeps each row and its message in agreement.
LEMMA RowInvStep == IInv /\ Next => RowInv'
<1> SUFFICES ASSUME IInv, Next, NEW u \in Updates
             PROVE  /\ u \in answered' => inbox'[u].status \in {"in_progress", "done"}
                    /\ inbox'[u].status = "done" => u \in answered'
                    /\ inbox'[u].status \in {"absent", "queued"} <=> inbox'[u].attempts = 0
                    /\ inbox'[u].status # "failed" => ~inbox'[u].ready
  BY DEF RowInv
<1>1. /\ u \in answered => inbox[u].status \in {"in_progress", "done"}
      /\ inbox[u].status = "done" => u \in answered
      /\ inbox[u].status \in {"absent", "queued"} <=> inbox[u].attempts = 0
      /\ inbox[u].status # "failed" => ~inbox[u].ready
  BY DEF IInv, RowInv
<1>2. /\ pc = "run" => inbox[task].status = "in_progress"
      /\ pc \in {"answered", "appended"} => task \in answered
      /\ pc \in {"run", "judge"} => task \notin answered
      /\ pc = "judge" => inbox[task].status \in {"in_progress", "failed"}
  BY DEF IInv, TaskInv, Replied
<1>3. inbox[u].attempts \in Nat
  BY QueueAssumption DEF IInv, TypeOK, InboxRow
<1>4. u \in Claimable => inbox[u].attempts + 1 # 0 /\ u \notin answered
  BY <1>3, ClaimableRow
<1>5. MaxRetries + 1 # 0
  BY QueueAssumption
<1>6. Queued.status = "queued" /\ Queued.attempts = 0 /\ ~Queued.ready
  BY DEF Queued
<1>7. CASE answered' = answered
  BY <1>1, <1>2, <1>4, <1>5, <1>6, <1>7, RowStep DEF RowMoves
<1>8. CASE /\ pc = "run" /\ task \in Updates
           /\ answered' = answered \cup {task} /\ UNCHANGED inbox
  BY <1>1, <1>2, <1>8
<1> QED BY <1>7, <1>8, AnsweredStep

\* The task in hand is dropped, kept, or claimed while there is none.
LEMMA TaskMoves ==
    ASSUME IInv, Next
    PROVE  \/ task' \in {0, task}
           \/ /\ pc = "claim" /\ pc' = "run" /\ task' \in Updates
              /\ task' \in Claimable /\ task' \notin answered
<1>1. ASSUME NEW u \in Updates, Claim(u)
      PROVE  /\ pc = "claim" /\ pc' = "run" /\ task' \in Updates
             /\ task' \in Claimable /\ task' \notin answered
  <2>1. task' = u /\ u \in Claimable /\ pc = "claim" /\ pc' = "run"
    BY <1>1 DEF Claim
  <2> QED BY <2>1, ClaimableRow
<1>2. CASE ~\E u \in Updates : Claim(u)
  BY <1>2 DEF Next, WorkerNext, WorkerStarts, PollFails, PollSucceeds, Enqueue, EnqueueFails,
              TakeUpdate, ClaimFails, NothingToClaim, RunFails, ReplySent, ReplyFails,
              MarkFailed, AppendUser, AppendAssistant, appendHistory, FinishTask,
              MarkCommandDone, FinishCommand, Judge, GoesOn, Dies, WorkerCrashes, UsersNext,
              UserSends, CooldownElapses, BackoffElapses, loop
<1> QED BY <1>1, <1>2

\* What an update was sent as stays.
LEMMA KindStays ==
    ASSUME IInv, Next, NEW u \in Updates, kind[u] # "unsent"
    PROVE  kind'[u] = kind[u]
<1>1. ASSUME NEW w \in Updates, NEW k \in Kinds, UserSends(w, k) PROVE kind'[u] = kind[u]
  BY <1>1 DEF UserSends, IInv, TypeOK
<1>2. UNCHANGED kind \/ \E w \in Updates, k \in Kinds : UserSends(w, k)
  BY OffsetCases
     DEF OffsetRests, WorkerStarts, PollSucceeds, Enqueue, EnqueueFails, TakeUpdate, chat
<1> QED BY <1>1, <1>2

\* Every step keeps what the loop knows of its task.
LEMMA TaskStep == IInv /\ Next => TaskInv'
<1> SUFFICES ASSUME IInv, Next PROVE TaskInv'
  OBVIOUS
<1>1. TypeOK /\ TaskInv /\ inbox \in [Updates -> InboxRow]
  BY DEF IInv, TypeOK
<1>2. pc \in Busy => /\ task \in Updates /\ Message(task)
                     /\ kind'[task] = kind[task]
  BY <1>1, KindStays DEF TaskInv, Message
<1>3. ASSUME pc' \notin Busy, task' = 0 PROVE TaskInv'
  BY <1>3 DEF TaskInv, Busy, Replied
<1>4. ASSUME pc' = pc, task' = task, errClass' = errClass PROVE TaskInv'
  <2>1. answered' = answered
    BY <1>4, AnsweredStep
  <2>2. pc \in {"run", "judge"} => inbox'[task].status = inbox[task].status
    BY <1>2, <1>4, RowStep DEF RowMoves, Busy
  <2> QED BY <1>1, <1>2, <1>4, <2>1, <2>2 DEF TaskInv, Message, Busy, Replied
<1>5. CASE \/ WorkerStarts \/ PollSucceeds \/ Enqueue \/ EnqueueFails \/ ClaimFails
           \/ NothingToClaim
  <2>1. pc \notin Busy /\ pc' \notin Busy /\ task' = task
    BY <1>5 DEF WorkerStarts, PollSucceeds, Enqueue, EnqueueFails, TakeUpdate, ClaimFails,
                NothingToClaim, Busy
  <2> QED BY <1>1, <1>3, <2>1 DEF TaskInv
<1>6. CASE FinishTask \/ FinishCommand \/ Judge \/ WorkerCrashes
  BY <1>3, <1>6 DEF FinishTask, FinishCommand, Judge, WorkerCrashes, GoesOn, Dies, Busy
<1>7. ASSUME NEW u \in Updates, Claim(u) PROVE TaskInv'
  <2>1. pc' = "run" /\ task' = u /\ inbox' = Claimed(inbox, u) /\ answered' = answered
        /\ kind' = kind /\ u \in Claimable
    BY <1>7 DEF Claim, Claimed, chat
  <2>2. inbox[u].status \in {"queued", "failed"} /\ u \notin answered
        /\ inbox[u].attempts \in 0..MaxRetries
    BY <2>1, ClaimableRow
  <2>3. inbox'[u].status = "in_progress"
    BY <1>1, <2>1, <2>2, ClaimedRow
  <2>4. Message(u)
    BY <2>2 DEF IInv, SentInv
  <2> QED BY <2>1, <2>2, <2>3, <2>4 DEF TaskInv, Message, Busy, Replied
<1>8. ASSUME NEW c \in Classes, pc = "run", MarkFailed(c), UNCHANGED chat PROVE TaskInv'
  <2>1. CASE kind[task] = "command"
    BY <1>3, <1>8, <2>1 DEF MarkFailed, Busy
  <2>2. CASE kind[task] # "command"
    <3>1. pc' = "judge" /\ task' = task /\ errClass' = c
      BY <1>8, <2>2 DEF MarkFailed
    <3>2. inbox'[task].status \in {"in_progress", "failed"}
      BY <1>1, <1>2, <1>8, <3>1, RowStep DEF RowMoves, Busy, TaskInv
    <3>3. kind[task] = "text" /\ task \notin answered
      BY <1>1, <1>2, <1>8, <2>2 DEF TaskInv, Message, Busy
    <3> QED BY <1>2, <1>8, <3>1, <3>2, <3>3 DEF TaskInv, Message, Busy, Replied, chat
  <2> QED BY <2>1, <2>2
<1>9. CASE ReplySent \/ AppendUser \/ AppendAssistant \/ MarkCommandDone
  <2>1. pc \in Busy /\ task' = task /\ pc' \in Replied /\ task \in answered'
    BY <1>1, <1>9 DEF ReplySent, AppendUser, AppendAssistant, appendHistory, MarkCommandDone,
                      TaskInv, Busy, Replied, chat
  <2>2. pc' = "done" => kind[task] = "command"
    BY <1>9 DEF ReplySent, AppendUser, AppendAssistant, MarkCommandDone
  <2> QED BY <1>2, <2>1, <2>2 DEF TaskInv, Message, Busy, Replied
<1>10. ASSUME NEW c \in Classes, PollFails(c) PROVE TaskInv'
  BY <1>4, <1>10 DEF PollFails, loop
<1>11. ASSUME NEW u \in Updates, BackoffElapses(u) PROVE TaskInv'
  BY <1>4, <1>11 DEF BackoffElapses, loop
<1>12. UsersNext \/ CooldownElapses => TaskInv'
  BY <1>4 DEF UsersNext, UserSends, CooldownElapses, loop
<1>13. ASSUME NEW c \in Classes, RunFails(c) \/ ReplyFails PROVE TaskInv'
  BY <1>8, <1>13, BreakerAssumption DEF RunFails, ReplyFails
<1> QED BY <1>5, <1>6, <1>7, <1>9, <1>10, <1>11, <1>12, <1>13, BreakerAssumption
        DEF Next, WorkerNext

(***************************************************************************)
(* The history is a conversation.                                          *)
(***************************************************************************)

\* A row of the task in hand may be added when it finds no row of that task,
\* or only the user's, at the end.
LEMMA ConversationGrows ==
    ASSUME TypeOK, HistoryIsConversation, task \in answered, answered' = answered,
           NEW role \in {"user", "assistant"},
           history' = Append(history, [task |-> task, role |-> role]),
           \A i \in DOMAIN history : history[i].task = task =>
               role = "assistant" /\ i = Len(history) /\ history[i].role = "user"
    PROVE  HistoryIsConversation'
<1> DEFINE n == Len(history)
<1>1. history \in Seq(HistoryRow) /\ n \in Nat /\ DOMAIN history = 1..n
  BY DEF TypeOK
<1>2. DOMAIN history' = 1..(n + 1) /\ \A i \in 1..n : history'[i] = history[i]
  BY <1>1
<1>3. history'[n + 1] = [task |-> task, role |-> role]
  BY <1>1
<1>4. history'[n + 1].task = task /\ history'[n + 1].role = role
  BY <1>3
<1>5. \A i \in 1..n : history[i].task = task =>
          role = "assistant" /\ i = n /\ history[i].role = "user"
  BY <1>1
<1>6. SUFFICES ASSUME NEW i \in DOMAIN history', NEW j \in DOMAIN history'
               PROVE  /\ history'[i].task \in answered
                      /\ history'[i] = history'[j] => i = j
                      /\ /\ history'[i].task = history'[j].task
                         /\ history'[i].role = "user" /\ history'[j].role = "assistant"
                         => j = i + 1
  BY DEF HistoryIsConversation
<1> HIDE DEF n
<1>7. (i \in 1..n \/ i = n + 1) /\ (j \in 1..n \/ j = n + 1)
  BY <1>1, <1>2
<1>8. CASE i \in 1..n /\ j \in 1..n
  BY <1>1, <1>2, <1>8 DEF HistoryIsConversation
<1>9. CASE i \in 1..n /\ j = n + 1
  BY <1>1, <1>2, <1>4, <1>5, <1>9 DEF HistoryIsConversation
<1>10. CASE i = n + 1 /\ j \in 1..n
  BY <1>1, <1>2, <1>4, <1>5, <1>10 DEF HistoryIsConversation
<1>11. CASE i = n + 1 /\ j = n + 1
  BY <1>4, <1>11
<1> QED BY <1>7, <1>8, <1>9, <1>10, <1>11

\* Every step keeps the conversation.
LEMMA HistoryStep == IInv /\ Next => HistoryInv'
<1> SUFFICES ASSUME IInv, Next PROVE HistoryInv'
  OBVIOUS
<1>1. TypeOK /\ HistoryInv /\ TaskInv
  BY DEF IInv
<1>2. answered \subseteq answered'
  BY AnsweredStep
<1>3. ASSUME history' = history PROVE HistoryIsConversation'
  BY <1>1, <1>2, <1>3 DEF HistoryInv, HistoryIsConversation
<1>4. CASE ReplySent
  <2>1. history' = history /\ task' = task /\ pc' = "answered" /\ task \notin answered
    BY <1>1, <1>4 DEF ReplySent, tables, TaskInv
  <2>2. \A i \in DOMAIN history : history[i].task # task
    BY <1>1, <2>1 DEF HistoryInv, HistoryIsConversation
  <2> QED BY <1>3, <2>1, <2>2 DEF HistoryInv
<1>5. CASE MarkCommandDone
  <2>1. history' = history /\ task' = task /\ pc' = "done" /\ pc = "answered"
    BY <1>5 DEF MarkCommandDone
  <2> QED BY <1>1, <1>3, <2>1 DEF HistoryInv
<1>6. CASE AppendUser
  <2>1. pc \in {"answered", "done"} /\ appendHistory("user") /\ pc' = "appending"
        /\ task' = task /\ answered' = answered
    BY <1>6 DEF AppendUser, appendHistory, chat
  <2>2. \A i \in DOMAIN history : history[i].task # task
    BY <1>1, <2>1 DEF HistoryInv
  <2>3. CASE history' = history
    BY <1>3, <2>1, <2>2, <2>3 DEF HistoryInv
  <2>4. CASE history' = Append(history, [task |-> task, role |-> "user"])
    <3>1. HistoryIsConversation'
      BY <1>1, <2>1, <2>2, <2>4, ConversationGrows DEF HistoryInv, TaskInv, Replied
    <3>2. /\ Len(history') = Len(history) + 1 /\ DOMAIN history' = 1..(Len(history) + 1)
          /\ \A i \in 1..Len(history) : history'[i] = history[i] /\ i \in DOMAIN history
          /\ history'[Len(history) + 1] = [task |-> task, role |-> "user"]
          /\ Len(history) \in Nat
      BY <1>1, <2>4 DEF TypeOK
    <3>3. ASSUME NEW i \in DOMAIN history', history'[i].task = task'
          PROVE  i = Len(history') /\ history'[i].role = "user"
      <4>1. i = Len(history) + 1
        BY <2>1, <2>2, <3>2, <3>3
      <4> QED BY <3>2, <4>1
    <3> QED BY <2>1, <3>1, <3>3 DEF HistoryInv
  <2> QED BY <2>1, <2>3, <2>4 DEF appendHistory
<1>7. CASE AppendAssistant
  <2>1. pc = "appending" /\ appendHistory("assistant") /\ pc' = "appended"
        /\ answered' = answered
    BY <1>7 DEF AppendAssistant, appendHistory, chat
  <2>2. CASE history' = history
    BY <1>3, <2>1, <2>2 DEF HistoryInv
  <2>3. CASE history' = Append(history, [task |-> task, role |-> "assistant"])
    <3>1. HistoryIsConversation'
      BY <1>1, <2>1, <2>3, ConversationGrows DEF HistoryInv, TaskInv, Replied
    <3> QED BY <2>1, <3>1 DEF HistoryInv
  <2> QED BY <2>1, <2>2, <2>3 DEF appendHistory
<1>8. CASE history' = history /\ pc' = pc /\ task' = task
  BY <1>1, <1>3, <1>8 DEF HistoryInv
<1>9. CASE history' = history /\ pc' \notin {"answered", "done", "appending"}
  BY <1>3, <1>9 DEF HistoryInv
<1>10. ASSUME NEW c \in Classes, RunFails(c) \/ ReplyFails
       PROVE  history' = history /\ pc' \notin {"answered", "done", "appending"}
  BY <1>10 DEF RunFails, ReplyFails, MarkFailed
<1>11. ASSUME \/ WorkerStarts \/ PollSucceeds \/ Enqueue \/ EnqueueFails \/ ClaimFails
              \/ NothingToClaim \/ FinishTask \/ FinishCommand \/ Judge \/ WorkerCrashes
              \/ \E u \in Updates : Claim(u)
       PROVE  history' = history /\ pc' \notin {"answered", "done", "appending"}
  BY <1>11 DEF WorkerStarts, PollSucceeds, Enqueue, EnqueueFails, TakeUpdate, ClaimFails,
               NothingToClaim, FinishTask, FinishCommand, Judge, WorkerCrashes, Claim, GoesOn,
               Dies, tables
<1>12. ASSUME \/ UsersNext \/ CooldownElapses \/ \E c \in Classes : PollFails(c)
              \/ \E u \in Updates : BackoffElapses(u)
       PROVE  history' = history /\ pc' = pc /\ task' = task
  BY <1>12 DEF UsersNext, UserSends, CooldownElapses, PollFails, BackoffElapses, tables, loop
<1> QED BY <1>4, <1>5, <1>6, <1>7, <1>8, <1>9, <1>10, <1>11, <1>12, BreakerAssumption
        DEF Next, WorkerNext

(***************************************************************************)
(* The breaker counts every failure of a burst.                            *)
(***************************************************************************)

\* It counts at most Threshold - 1 of each class.
LEMMA CountedBound ==
    ASSUME NEW b \in Breaker
    PROVE  /\ IsFiniteSet(Counted(b)) /\ Cardinality(Counted(b)) \in Nat
           /\ Cardinality(Counted(b)) + 1 <= BurstBound
           /\ BurstBound \in Nat /\ BurstBound >= 1
<1> DEFINE I == 1..(Threshold - 1)
<1>1. Threshold - 1 \in Nat /\ IsFiniteSet(Classes) /\ Cardinality(Classes) \in Nat
  BY BreakerAssumption, FS_CardinalityType
<1>2. IsFiniteSet(I) /\ Cardinality(I) = Threshold - 1
  <2>1. PICK k \in Nat : k = Threshold - 1
    BY <1>1
  <2>2. IsFiniteSet(1..k) /\ Cardinality(1..k) = IF 1 > k THEN 0 ELSE k - 1 + 1
    BY FS_Interval
  <2>3. Cardinality(1..k) = k
    BY <2>2
  <2> QED BY <2>1, <2>2, <2>3
<1> HIDE DEF I
<1>3. IsFiniteSet(Classes \X I)
      /\ Cardinality(Classes \X I) = Cardinality(Classes) * (Threshold - 1)
  BY <1>1, <1>2, FS_Product
<1>4. Counted(b) \subseteq Classes \X I
  BY DEF Counted, I
<1>5. IsFiniteSet(Counted(b)) /\ Cardinality(Counted(b)) <= Cardinality(Classes \X I)
  BY <1>3, <1>4, FS_Subset
<1>6. Cardinality(Counted(b)) \in Nat /\ Cardinality(Classes \X I) \in Nat
  BY <1>3, <1>5, FS_CardinalityType
<1>7. BurstBound = Cardinality(Classes \X I) + 1
  BY <1>3 DEF BurstBound
<1> QED BY <1>5, <1>6, <1>7

\* What a breaker knows of a burst of n failures.
Knows(b, n) ==
    /\ b.state = "closed" => /\ \A c \in Classes : b.failures[c] < Threshold
                             /\ n <= Cardinality(Counted(b))
    /\ b.state = "open" => n <= BurstBound
    /\ b.state = "half_open" \/ b.cooled => n = 0
    /\ b.state = "closed" => ~b.cooled

\* A new one knows of none.
LEMMA NothingKnown == Knows(NewCircuitBreaker, 0)
<1>1. NewCircuitBreaker \in Breaker
  BY DEF NewCircuitBreaker, Breaker
<1>2. Cardinality(Counted(NewCircuitBreaker)) \in Nat
  BY <1>1, CountedBound
<1>3. \A c \in Classes : NewCircuitBreaker.failures[c] < Threshold
  BY BreakerAssumption DEF NewCircuitBreaker
<1>4. NewCircuitBreaker.state = "closed" /\ ~NewCircuitBreaker.cooled
  BY DEF NewCircuitBreaker
<1> QED BY <1>2, <1>3, <1>4 DEF Knows

\* Another failure is counted, or it opens the breaker.
LEMMA FailureKnown ==
    ASSUME NEW b \in Breaker, NEW n \in Nat, NEW c \in Classes, Knows(b, n),
           b.state # "open"
    PROVE  Knows(RecordFailure(b, c), n + 1)
<1> DEFINE counted == [b EXCEPT !.failures[c] = @ + 1]
<1>1. b.failures \in [Classes -> Nat] /\ b.state \in {"closed", "half_open"}
  BY DEF Breaker
<1>2. /\ counted \in Breaker
      /\ counted.failures = [b.failures EXCEPT ![c] = @ + 1]
      /\ counted.state = b.state /\ counted.cooled = b.cooled
  <2>1. [b.failures EXCEPT ![c] = @ + 1] \in [Classes -> Nat]
    BY <1>1
  <2> QED BY <2>1 DEF Breaker
<1>3. ASSUME NEW d \in Breaker
      PROVE  Open(d, c).state = "open" /\ ~Open(d, c).cooled
  BY DEF Open, Breaker
<1>4. CASE b.state = "half_open"
  <2>1. n = 0
    BY <1>4 DEF Knows
  <2>2. RecordFailure(b, c) = Open(b, c)
    BY <1>4 DEF RecordFailure
  <2> QED BY <1>3, <2>1, <2>2, CountedBound DEF Knows
<1>5. CASE b.state = "closed" /\ counted.failures[c] >= Threshold
  <2>1. RecordFailure(b, c) = Open(counted, c)
    BY <1>5 DEF RecordFailure
  <2>2. n <= Cardinality(Counted(b))
    BY <1>5 DEF Knows
  <2>3. Cardinality(Counted(b)) \in Nat /\ Cardinality(Counted(b)) + 1 <= BurstBound
        /\ BurstBound \in Nat
    BY CountedBound
  <2>4. n + 1 <= BurstBound
    BY <2>2, <2>3
  <2>5. Open(counted, c).state = "open" /\ ~Open(counted, c).cooled
    BY <1>2, <1>3
  <2> HIDE DEF counted
  <2> QED BY <2>1, <2>4, <2>5 DEF Knows
<1>6. CASE b.state = "closed" /\ ~(counted.failures[c] >= Threshold)
  <2>1. RecordFailure(b, c) = counted
    BY <1>6 DEF RecordFailure
  <2> DEFINE x == <<c, b.failures[c] + 1>>
  <2>2. counted.failures[c] = b.failures[c] + 1
    BY <1>1, <1>2
  <2>3. \A d \in Classes : d # c => counted.failures[d] = b.failures[d]
    BY <1>1, <1>2
  <2>4. b.failures[c] \in Nat /\ Threshold \in Nat
    BY <1>1, BreakerAssumption
  <2>5. b.failures[c] + 1 < Threshold
    BY <1>6, <2>2, <2>4
  <2>6. \A d \in Classes : counted.failures[d] < Threshold
    BY <1>6, <2>2, <2>3, <2>5 DEF Knows
  <2>7. counted.state = "closed" /\ ~counted.cooled
    BY <1>2, <1>6 DEF Knows
  <2>8. x \notin Counted(b)
    BY <2>4 DEF Counted
  <2>9. Counted(counted) = Counted(b) \cup {x}
    <3> HIDE DEF counted
    <3>1. ASSUME NEW d \in Classes, NEW k \in 1..(Threshold - 1)
          PROVE  k <= counted.failures[d] <=> (k <= b.failures[d] \/ <<d, k>> = x)
      <4>1. CASE d = c
        BY <2>2, <2>4, <4>1
      <4>2. CASE d # c
        BY <2>3, <4>2
      <4> QED BY <4>1, <4>2
    <3>2. x \in Classes \X (1..(Threshold - 1))
      BY <2>4, <2>5
    <3> HIDE DEF x
    <3>3. ASSUME NEW y \in Classes \X (1..(Threshold - 1))
          PROVE  y \in Counted(counted) <=> (y \in Counted(b) \/ y = x)
      <4>1. y = <<y[1], y[2]>> /\ y[1] \in Classes /\ y[2] \in 1..(Threshold - 1)
        OBVIOUS
      <4> QED BY <3>1, <4>1 DEF Counted
    <3>4. Counted(counted) \subseteq Classes \X (1..(Threshold - 1))
          /\ Counted(b) \subseteq Classes \X (1..(Threshold - 1))
      BY DEF Counted
    <3> QED BY <3>2, <3>3, <3>4
  <2>10. IsFiniteSet(Counted(b)) /\ Cardinality(Counted(b)) \in Nat
    BY CountedBound
  <2> HIDE DEF counted, x
  <2>11. Cardinality(Counted(counted)) = Cardinality(Counted(b)) + 1
    BY <2>8, <2>9, <2>10, FS_AddElement
  <2>12. n <= Cardinality(Counted(b))
    BY <1>6 DEF Knows
  <2>13. n + 1 <= Cardinality(Counted(counted))
    BY <2>10, <2>11, <2>12
  <2> QED BY <2>1, <2>6, <2>7, <2>13 DEF Knows
<1> QED BY <1>1, <1>4, <1>5, <1>6

\* Every step keeps the account of the burst.
LEMMA BreakerStep == IInv /\ Next => BreakerInv'
<1> SUFFICES ASSUME IInv, Next PROVE BreakerInv'
  OBVIOUS
<1> DEFINE NotOpen == pc' \in {"enqueue", "claim", "run"} => circuit'.state # "open"
<1>1. circuit \in Breaker /\ burst \in Nat
  BY DEF IInv, TypeOK
<1>2. Knows(circuit, burst)
      /\ (pc \in {"enqueue", "claim", "run"} => circuit.state # "open")
  BY DEF IInv, BreakerInv, Knows
<1>3. SUFFICES Knows(circuit', burst') /\ NotOpen
  BY DEF Knows, BreakerInv, Counted
<1>4. ASSUME Allowed(circuit)
      PROVE  /\ Allow(circuit) \in Breaker /\ Allow(circuit).state # "open"
             /\ Knows(Allow(circuit), burst)
  <2>1. CASE circuit.state # "open"
    BY <1>1, <1>2, <2>1 DEF Allow
  <2>2. CASE circuit.state = "open"
    <3>1. burst = 0
      BY <1>2, <1>4, <2>2 DEF Allowed, Knows
    <3>2. Allow(circuit) \in Breaker /\ Allow(circuit).state = "half_open"
      BY <1>1, <2>2 DEF Allow, Breaker
    <3> QED BY <3>1, <3>2 DEF Knows
  <2> QED BY <2>1, <2>2
<1>5. CASE UNCHANGED <<circuit, burst>> /\ pc' \notin {"enqueue", "claim", "run"}
  BY <1>2, <1>5
<1>6. CASE /\ UNCHANGED <<circuit, burst>>
           /\ pc' = pc \/ pc \in {"enqueue", "claim", "run"}
  BY <1>2, <1>6
<1>7. CASE circuit' = NewCircuitBreaker /\ burst' = 0
  BY <1>7, NothingKnown DEF NewCircuitBreaker
<1>8. CASE CooldownElapses
  <2>1. circuit' = [circuit EXCEPT !.cooled = TRUE] /\ burst' = 0 /\ pc' = pc
        /\ circuit.state = "open"
    BY <1>8 DEF CooldownElapses, loop
  <2>2. circuit'.state = "open"
    BY <1>1, <2>1 DEF Breaker
  <2>3. BurstBound \in Nat
    BY <1>1, CountedBound
  <2>4. Knows(circuit', burst')
    BY <2>1, <2>2, <2>3 DEF Knows
  <2> QED BY <1>2, <2>1, <2>4
<1>9. ASSUME NEW c \in Classes, PollFails(c) PROVE Knows(circuit', burst') /\ NotOpen
  <2>1. Knows(RecordFailure(Allow(circuit), c), burst + 1)
    BY <1>1, <1>4, <1>9, FailureKnown DEF PollFails
  <2>2. pc' = "poll"
    BY <1>9 DEF PollFails, loop
  <2> QED BY <1>9, <2>1, <2>2 DEF PollFails
<1>10. CASE PollSucceeds
  <2>1. \/ circuit' = NewCircuitBreaker /\ burst' = 0
        \/ circuit' = Allow(circuit) /\ burst' = burst
    BY <1>10 DEF PollSucceeds, RecordSuccess
  <2> QED BY <1>4, <1>7, <1>10, <2>1 DEF PollSucceeds
<1>11. ASSUME NEW c \in Classes, pc = "run", MarkFailed(c)
       PROVE  Knows(circuit', burst') /\ NotOpen
  <2>1. pc' \in {"poll", "judge"}
    BY <1>11 DEF MarkFailed
  <2>2. \/ UNCHANGED <<circuit, burst>>
        \/ circuit' = RecordFailure(circuit, c) /\ burst' = burst + 1
    BY <1>11 DEF MarkFailed
  <2>3. Knows(RecordFailure(circuit, c), burst + 1)
    BY <1>1, <1>2, <1>11, FailureKnown
  <2> QED BY <1>2, <2>1, <2>2, <2>3
<1>12. ASSUME NEW c \in Classes, RunFails(c) \/ ReplyFails
       PROVE  Knows(circuit', burst') /\ NotOpen
  BY <1>11, <1>12, BreakerAssumption DEF RunFails, ReplyFails
<1>13. ASSUME \/ WorkerCrashes \/ FinishTask \/ FinishCommand \/ Judge
       PROVE  \/ circuit' = NewCircuitBreaker /\ burst' = 0
              \/ UNCHANGED <<circuit, burst>> /\ pc' \notin {"enqueue", "claim", "run"}
  BY <1>13 DEF WorkerCrashes, FinishTask, FinishCommand, Judge, GoesOn, Dies, RecordSuccess
<1>14. ASSUME \/ WorkerStarts \/ ClaimFails \/ NothingToClaim \/ ReplySent \/ AppendUser
              \/ AppendAssistant \/ MarkCommandDone
       PROVE  UNCHANGED <<circuit, burst>> /\ pc' \notin {"enqueue", "claim", "run"}
  BY <1>14 DEF WorkerStarts, ClaimFails, NothingToClaim, ReplySent, AppendUser,
               AppendAssistant, appendHistory, MarkCommandDone
<1>15. ASSUME \/ Enqueue \/ EnqueueFails \/ UsersNext
              \/ \E u \in Updates : Claim(u) \/ BackoffElapses(u)
       PROVE  /\ UNCHANGED <<circuit, burst>>
              /\ pc' = pc \/ pc \in {"enqueue", "claim", "run"}
  BY <1>15 DEF Enqueue, EnqueueFails, TakeUpdate, UsersNext, UserSends, Claim,
               BackoffElapses, loop
<1> QED BY <1>5, <1>6, <1>7, <1>8, <1>9, <1>10, <1>12, <1>13, <1>14, <1>15, BreakerAssumption
        DEF Next, WorkerNext

(***************************************************************************)
(* The invariant holds.                                                    *)
(***************************************************************************)

\* It holds before the first start.
LEMMA InitInv == Init => IInv
<1> SUFFICES ASSUME Init PROVE IInv
  OBVIOUS
<1>1. NewCircuitBreaker \in Breaker /\ Knows(NewCircuitBreaker, 0)
  BY NothingKnown DEF NewCircuitBreaker, Breaker
<1>2. NoTask \in InboxRow
  BY QueueAssumption DEF NoTask, InboxRow
<1>3. TypeOK
  BY <1>1, <1>2, QueueAssumption DEF Init, TypeOK
<1>4. SentInv /\ OffsetInv /\ NothingLost
  BY QueueAssumption
     DEF Init, SentInv, OffsetInv, NothingLost, Message, NoTask, Updates
<1>5. TaskInv /\ RowInv
  BY DEF Init, TaskInv, RowInv, Busy, Replied, NoTask
<1>6. HistoryInv
  BY DEF Init, HistoryInv, HistoryIsConversation
<1>7. BreakerInv
  BY <1>1 DEF Init, BreakerInv, Knows
<1> QED BY <1>3, <1>4, <1>5, <1>6, <1>7 DEF IInv

\* Every step keeps it.
LEMMA NextInv == IInv /\ [Next]_vars => IInv'
<1> SUFFICES ASSUME IInv, [Next]_vars PROVE IInv'
  OBVIOUS
<1>1. CASE Next
  BY <1>1, TypeStep, SentStep, OffsetStep, NothingLostStep, TaskStep, RowInvStep, HistoryStep,
     BreakerStep DEF IInv
<1>2. CASE UNCHANGED vars
  <2>1. TypeOK'
    BY <1>2 DEF IInv, TypeOK, vars
  <2>2. SentInv' /\ OffsetInv' /\ NothingLost'
    BY <1>2 DEF IInv, SentInv, OffsetInv, NothingLost, Message, Accounted, vars
  <2>3. TaskInv' /\ RowInv'
    BY <1>2 DEF IInv, TaskInv, RowInv, Message, vars
  <2>4. HistoryInv' /\ BreakerInv'
    BY <1>2 DEF IInv, HistoryInv, HistoryIsConversation, BreakerInv, Counted, vars
  <2> QED BY <2>1, <2>2, <2>3, <2>4 DEF IInv
<1> QED BY <1>1, <1>2

\* The inductive invariant holds in every state of every behaviour.
THEOREM Invariance == Spec => []IInv
BY InitInv, NextInv, PTL DEF Spec

\* The variables keep their types: no row is run more often than the policy
\* allows, no offset runs past the last update.
THEOREM TypeCorrect == Spec => []TypeOK
<1>1. IInv => TypeOK
  BY DEF IInv
<1> QED BY <1>1, Invariance, PTL

\* No message is lost between the server and the inbox, wherever the worker
\* crashes and whatever offset it derives.
THEOREM NothingLostSafe == Spec => []NothingLost
<1>1. IInv => NothingLost
  BY DEF IInv
<1> QED BY <1>1, Invariance, PTL

\* The history table holds a conversation.
THEOREM ConversationSafe == Spec => []HistoryIsConversation
<1>1. IInv => HistoryIsConversation
  BY DEF IInv, HistoryInv
<1> QED BY <1>1, Invariance, PTL

\* The breaker limits how much fails between two cool-downs.
THEOREM BurstBounded == Spec => []FailureBurst
<1>1. IInv => FailureBurst
  <2> SUFFICES ASSUME IInv PROVE burst <= BurstBound
    BY DEF FailureBurst, BurstBound
  <2>1. circuit \in Breaker /\ burst \in Nat
    BY DEF IInv, TypeOK
  <2>2. Cardinality(Counted(circuit)) \in Nat /\ BurstBound \in Nat
        /\ Cardinality(Counted(circuit)) + 1 <= BurstBound
    BY <2>1, CountedBound
  <2>3. circuit.state \in {"closed", "open", "half_open"}
    BY <2>1 DEF Breaker
  <2> QED BY <2>1, <2>2, <2>3 DEF IInv, BreakerInv
<1> QED BY <1>1, Invariance, PTL

\* Nobody is answered twice: once a reply is out the message is never taken up
\* again.
THEOREM NobodyAnsweredTwice == Spec => AnsweredOnce
<1>1. IInv /\ [Next]_vars => [\A u \in answered : task # u => task' # u]_vars
  <2> SUFFICES ASSUME IInv, Next, NEW u \in answered, task # u PROVE task' # u
    OBVIOUS
  <2>1. u \in Updates /\ u # 0
    BY QueueAssumption DEF IInv, TypeOK, Updates
  <2> QED BY <2>1, TaskMoves
<1> QED BY <1>1, Invariance, PTL DEF Spec, AnsweredOnce

(***************************************************************************)
(* Back-offs.                                                              *)
(***************************************************************************)

\* 2^k is positive and grows: it is the number of subsets of k elements.
LEMMA PowerGrows ==
    ASSUME NEW m \in Nat, NEW n \in Nat, m < n
    PROVE  2^m \in Nat /\ 2^n \in Nat /\ 2^m > 0 /\ 2^m < 2^n
<1>1. ASSUME NEW k \in Nat
      PROVE  /\ IsFiniteSet(SUBSET (1..k)) /\ Cardinality(SUBSET (1..k)) = 2^k
             /\ 2^k \in Nat
  <2>1. IsFiniteSet(1..k) /\ Cardinality(1..k) = IF 1 > k THEN 0 ELSE k - 1 + 1
    BY FS_Interval
  <2>2. Cardinality(1..k) = k
    BY <2>1
  <2>3. IsFiniteSet(SUBSET (1..k)) /\ Cardinality(SUBSET (1..k)) = 2^k
    <3>1. Cardinality(SUBSET (1..k)) = 2^Cardinality(1..k)
      BY <2>1, FS_SUBSET
    <3>2. IsFiniteSet(SUBSET (1..k))
      BY <2>1, FS_SUBSET
    <3> QED BY <2>2, <3>1, <3>2
  <2>4. Cardinality(SUBSET (1..k)) \in Nat
    BY <2>3, FS_CardinalityType
  <2> QED BY <2>3, <2>4
<1> DEFINE S == SUBSET (1..m)
           T == SUBSET (1..n)
<1>2. IsFiniteSet(S) /\ Cardinality(S) = 2^m /\ 2^m \in Nat
  BY <1>1
<1>3. IsFiniteSet(T) /\ Cardinality(T) = 2^n /\ 2^n \in Nat
  BY <1>1
<1>4. S \in SUBSET T /\ S # T /\ S # {}
  <2>1. 1..m \subseteq 1..n /\ n \in 1..n /\ n \notin 1..m
    OBVIOUS
  <2>2. {n} \in T /\ {n} \notin S /\ {} \in S
    BY <2>1
  <2> QED BY <2>1, <2>2
<1> HIDE DEF S, T
<1>5. Cardinality(S) <= Cardinality(T) /\ Cardinality(S) # Cardinality(T)
      /\ Cardinality(S) # 0
  BY <1>2, <1>3, <1>4, FS_Subset, FS_EmptySet
<1>6. 2^m <= 2^n /\ 2^m # 2^n /\ 2^m # 0
  BY <1>2, <1>3, <1>5
<1>7. \A a, b \in Nat : a <= b /\ a # b => a < b
  OBVIOUS
<1>8. \A a \in Nat : a # 0 => a > 0
  OBVIOUS
<1> QED BY <1>2, <1>3, <1>6, <1>7, <1>8

\* The shift does not reach the sign bit, so every back-off is positive.
LEMMA BackoffPositive ==
    ASSUME NEW n \in 1..(MaxRetries + 1)
    PROVE  RetryBackoffSeconds(n) \in Nat \ {0}
<1>1. MaxRetries \in Nat /\ IntWidth \in Nat \ {0} /\ MaxRetries + 1 < IntWidth
  BY QueueAssumption
<1> DEFINE k == n - 1
           w == IntWidth - 1
<1>2. k \in Nat /\ w \in Nat /\ k < w /\ w < IntWidth /\ k < IntWidth /\ IntWidth \in Nat
  BY <1>1
<1>3. RetryBackoffSeconds(n) = IF ShiftOne(k) > 30 THEN 30 ELSE ShiftOne(k)
  BY <1>1 DEF RetryBackoffSeconds
<1>4. ShiftOne(k) = IF (2^k) % (2^IntWidth) >= 2^w
                      THEN ((2^k) % (2^IntWidth)) - 2^IntWidth ELSE (2^k) % (2^IntWidth)
  BY DEF ShiftOne
<1> HIDE DEF k, w
<1>5. 2^k \in Nat /\ 2^w \in Nat /\ 2^k > 0 /\ 2^k < 2^w
  BY <1>2, PowerGrows
<1>6. 2^IntWidth \in Nat /\ 2^k < 2^IntWidth
  BY <1>2, PowerGrows
<1>7. \A a \in Nat, b \in Nat \ {0} : a < b => a % b = a
  OBVIOUS
<1>8. (2^k) % (2^IntWidth) = 2^k
  <2>1. \A a, b \in Nat : a < b => b # 0
    OBVIOUS
  <2> QED BY <1>5, <1>6, <1>7, <2>1
<1>9. \A a, b \in Nat : a < b => ~(a >= b)
  OBVIOUS
<1>10. ShiftOne(k) = 2^k
  BY <1>4, <1>5, <1>8, <1>9
<1>11. ShiftOne(k) \in Nat /\ ShiftOne(k) > 0
  BY <1>5, <1>10
<1> QED BY <1>3, <1>11

\* A task that fails is never runnable at once.
THEOREM FailedTaskWaits == Spec => RetriesWait
<1>1. IInv /\ [Next]_vars =>
         [\A u \in Updates :
             inbox[u].status # "failed" /\ inbox'[u].status = "failed" => ~inbox'[u].ready]_vars
  <2> SUFFICES ASSUME IInv, Next, NEW u \in Updates,
                      inbox[u].status # "failed", inbox'[u].status = "failed"
               PROVE  ~inbox'[u].ready
    OBVIOUS
  <2>1. RowMoves(u)
    BY RowStep
  <2>2. inbox[u].attempts \in 0..(MaxRetries + 1)
    BY DEF IInv, TypeOK, InboxRow
  <2>3. CASE pc = "run" /\ u = task
             /\ inbox'[u].ready = (RetryBackoffSeconds(inbox[u].attempts) <= 0)
    <3>1. inbox[u].attempts # 0
      BY <2>3 DEF IInv, TaskInv, RowInv
    <3>2. inbox[u].attempts \in 1..(MaxRetries + 1)
      BY <2>2, <3>1, QueueAssumption
    <3>3. RetryBackoffSeconds(inbox[u].attempts) \in Nat \ {0}
      BY <3>2, BackoffPositive
    <3>4. ~(RetryBackoffSeconds(inbox[u].attempts) <= 0)
      BY <3>3
    <3> QED BY <2>3, <3>4
  <2>4. CASE inbox'[u].ready = inbox[u].ready
    BY <2>4 DEF IInv, RowInv
  <2> QED BY <2>1, <2>3, <2>4 DEF RowMoves, Queued
<1> QED BY <1>1, Invariance, PTL DEF Spec, RetriesWait

(***************************************************************************)
(* The context of a model call.                                            *)
(***************************************************************************)

\* t is the end of s.
EndOf(t, s) ==
    /\ t \in Seq(HistoryRow) /\ Len(t) <= Len(s)
    /\ \A i \in 1..Len(t) : t[i] = s[Len(s) - Len(t) + i]

\* The last n of more than n rows are the end of them.
LEMMA LastRows ==
    ASSUME NEW s \in Seq(HistoryRow), NEW n \in Nat, n < Len(s)
    PROVE  EndOf(SubSeq(s, Len(s) - n + 1, Len(s)), s)
<1> DEFINE m == Len(s) - n + 1
           t == SubSeq(s, m, Len(s))
<1>1. Len(s) \in Nat /\ m \in Nat /\ m >= 1 /\ m <= Len(s) + 1
  OBVIOUS
<1>2. t \in Seq(HistoryRow) /\ Len(t) = Len(s) - m + 1
      /\ \A i \in 1..(Len(s) - m + 1) : t[i] = s[m + i - 1]
  BY <1>1
<1>3. Len(t) = n /\ Len(t) <= Len(s)
  BY <1>1, <1>2
<1>4. ASSUME NEW i \in 1..Len(t) PROVE t[i] = s[Len(s) - Len(t) + i]
  <2>1. m + i - 1 = Len(s) - Len(t) + i
    BY <1>1, <1>3
  <2>2. t[i] = s[m + i - 1]
    BY <1>1, <1>2
  <2> QED BY <2>1, <2>2
<1> HIDE DEF t
<1> QED BY <1>2, <1>3, <1>4 DEF EndOf, t

\* The query and the compressor both return the end of what they are given.
LEMMA HistoryCut ==
    ASSUME NEW s \in Seq(HistoryRow), NEW k \in Int
    PROVE  EndOf(GetHistory(s, k), s) /\ EndOf(Compress(s, k), s)
<1>1. EndOf(s, s)
  BY DEF EndOf
<1>2. CASE k < 0 \/ Len(s) <= k
  BY <1>1, <1>2, LastRows DEF GetHistory, Compress
<1>3. CASE ~(k < 0 \/ Len(s) <= k)
  <2>1. k \in Nat /\ k < Len(s) /\ Len(s) \in Nat
    BY <1>3
  <2>2. EndOf(SubSeq(s, Len(s) - k + 1, Len(s)), s)
    BY <2>1, LastRows
  <2> QED BY <1>1, <1>3, <2>2 DEF GetHistory, Compress
<1> QED BY <1>2, <1>3

\* The end of the end is the end.
LEMMA EndOfEnd ==
    ASSUME NEW s \in Seq(HistoryRow), NEW t, NEW r, EndOf(t, s), EndOf(r, t)
    PROVE  EndOf(r, s)
<1>1. /\ t \in Seq(HistoryRow) /\ r \in Seq(HistoryRow)
      /\ Len(r) <= Len(t) /\ Len(t) <= Len(s)
      /\ Len(r) \in Nat /\ Len(t) \in Nat /\ Len(s) \in Nat
  BY DEF EndOf
<1>2. ASSUME NEW i \in 1..Len(r) PROVE r[i] = s[Len(s) - Len(r) + i]
  <2>1. r[i] = t[Len(t) - Len(r) + i]
    BY DEF EndOf
  <2> DEFINE j == Len(t) - Len(r) + i
  <2>2. j \in 1..Len(t) /\ Len(s) - Len(t) + j = Len(s) - Len(r) + i
    BY <1>1
  <2> HIDE DEF j
  <2>3. t[j] = s[Len(s) - Len(t) + j]
    BY <2>2 DEF EndOf
  <2> QED BY <2>1, <2>2, <2>3 DEF j
<1> QED BY <1>1, <1>2 DEF EndOf

\* The prompt, the tool instruction, the rows, and the message to answer.
LEMMA Assembled ==
    ASSUME NEW t \in Seq(HistoryRow), NEW u \in Updates, NEW c,
           c = injectToolInstruction(Assemble(t, u))
    PROVE  /\ Len(c) = Len(t) + 3
           /\ c[1] = SystemPrompt /\ c[2] = ToolInstruction
           /\ c[Len(t) + 3] = [task |-> u, role |-> "user"]
           /\ \A i \in 1..Len(t) : c[i + 2] = t[i]
<1> DEFINE last  == [task |-> u, role |-> "user"]
           Shown == HistoryRow \cup {SystemPrompt, ToolInstruction, last}
           a     == <<SystemPrompt>> \o t \o <<last>>
<1> HIDE DEF last
<1>1. t \in Seq(Shown)
  OBVIOUS
<1>2. /\ <<SystemPrompt>> \in Seq(Shown) /\ <<last>> \in Seq(Shown)
      /\ <<SystemPrompt, ToolInstruction>> \in Seq(Shown)
      /\ Len(t) \in Nat
  OBVIOUS
<1> HIDE DEF Shown
<1>3. /\ <<SystemPrompt>> \o t \in Seq(Shown)
      /\ Len(<<SystemPrompt>> \o t) = Len(t) + 1
      /\ (<<SystemPrompt>> \o t)[1] = SystemPrompt
      /\ \A i \in 1..Len(t) : (<<SystemPrompt>> \o t)[i + 1] = t[i]
  BY <1>1, <1>2
<1>4. /\ a \in Seq(Shown) /\ Len(a) = Len(t) + 2
      /\ a[1] = SystemPrompt /\ a[Len(t) + 2] = last
      /\ \A i \in 1..Len(t) : a[i + 1] = t[i]
  BY <1>1, <1>2, <1>3
<1>5. Assemble(t, u) = a
  BY DEF Assemble, last
<1> HIDE DEF a
<1>6. a # <<>> /\ Head(a) = SystemPrompt
  BY <1>2, <1>4
<1>7. c = <<SystemPrompt, ToolInstruction>> \o Tail(a)
  BY <1>5, <1>6 DEF injectToolInstruction
<1>8. /\ Tail(a) \in Seq(Shown) /\ Len(Tail(a)) = Len(t) + 1
      /\ \A i \in 1..(Len(t) + 1) : Tail(a)[i] = a[i + 1]
  BY <1>2, <1>4, <1>6
<1>9. /\ Len(c) = Len(t) + 3 /\ c[1] = SystemPrompt /\ c[2] = ToolInstruction
      /\ \A i \in 1..(Len(t) + 1) : c[i + 2] = Tail(a)[i]
  BY <1>2, <1>7, <1>8
<1>10. c[Len(t) + 3] = last
  <2>1. Len(t) + 1 \in 1..(Len(t) + 1) /\ (Len(t) + 1) + 2 = Len(t) + 3
        /\ (Len(t) + 1) + 1 = Len(t) + 2
    BY <1>2
  <2> QED BY <1>4, <1>8, <1>9, <2>1
<1>11. ASSUME NEW i \in 1..Len(t) PROVE c[i + 2] = t[i]
  <2>1. i \in 1..(Len(t) + 1)
    BY <1>2
  <2> QED BY <1>4, <1>8, <1>9, <2>1
<1> QED BY <1>9, <1>10, <1>11 DEF last

\* The model is shown the end of the conversation and then the message to
\* answer, and that message only once.
THEOREM ContextSafe == Spec => []ContextIsConversation
<1>1. IInv => ContextIsConversation
  <2> SUFFICES ASSUME IInv, pc = "run", kind[task] = "text"
               PROVE  LET c == Context
                          n == Len(c)
                      IN  /\ c[1] = SystemPrompt /\ c[2] = ToolInstruction
                          /\ c[n] = [task |-> task, role |-> "user"]
                          /\ \A i \in 3..(n - 1) : c[i].task # task
                          /\ n > 3 => c[n - 1] = history[Len(history)]
    BY DEF ContextIsConversation
  <2> DEFINE s == GetHistory(history, HistoryWindow)
             t == Compress(s, HistoryWindow)
             c == Context
  <2>1. history \in Seq(HistoryRow) /\ HistoryWindow \in Int /\ task \in Updates
    BY QueueAssumption DEF IInv, TypeOK, TaskInv, Busy
  <2>2. EndOf(s, history)
    BY <2>1, HistoryCut
  <2>3. s \in Seq(HistoryRow)
    BY <2>2 DEF EndOf
  <2> HIDE DEF s
  <2>4. EndOf(t, s)
    BY <2>1, <2>3, HistoryCut
  <2>5. c = injectToolInstruction(Assemble(t, task))
    BY DEF Context, s
  <2> HIDE DEF t, c
  <2>6. EndOf(t, history) /\ t \in Seq(HistoryRow)
    BY <2>1, <2>2, <2>4, EndOfEnd DEF EndOf
  <2>7. /\ Len(c) = Len(t) + 3
        /\ c[1] = SystemPrompt /\ c[2] = ToolInstruction
        /\ c[Len(t) + 3] = [task |-> task, role |-> "user"]
        /\ \A i \in 1..Len(t) : c[i + 2] = t[i]
    BY <2>1, <2>5, <2>6, Assembled
  <2>8. /\ Len(t) \in Nat /\ Len(history) \in Nat /\ Len(t) <= Len(history)
        /\ \A i \in 1..Len(t) : t[i] = history[Len(history) - Len(t) + i]
    BY <2>1, <2>6 DEF EndOf
  <2>9. \A j \in 1..Len(history) : history[j].task # task
    BY <2>1 DEF IInv, HistoryInv, HistoryIsConversation, TaskInv
  <2>10. ASSUME NEW i \in 3..(Len(c) - 1) PROVE c[i].task # task
    <3>1. i - 2 \in 1..Len(t) /\ (i - 2) + 2 = i
      BY <2>7, <2>8
    <3>2. c[i] = history[Len(history) - Len(t) + (i - 2)]
      BY <2>7, <2>8, <3>1
    <3>3. Len(history) - Len(t) + (i - 2) \in 1..Len(history)
      BY <2>8, <3>1
    <3> QED BY <2>9, <3>2, <3>3
  <2>11. ASSUME Len(c) > 3 PROVE c[Len(c) - 1] = history[Len(history)]
    <3>1. Len(t) \in 1..Len(t) /\ Len(t) + 2 = Len(c) - 1
          /\ Len(history) - Len(t) + Len(t) = Len(history)
      BY <2>7, <2>8, <2>11
    <3> QED BY <2>7, <2>8, <3>1
  <2> QED BY <2>7, <2>10, <2>11 DEF c
<1> QED BY <1>1, Invariance, PTL

==============================================================================
