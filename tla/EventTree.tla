------------------------------ MODULE EventTree ------------------------------
(***************************************************************************)
(* What cmd/event-tree shows of the events table: the subtree of the       *)
(* latest supervisor as an indented listing or as nested JSON, cut off     *)
(* below a depth (-L, 0 for none).  Connectors, time stamps and payloads   *)
(* are left out: a line is the event it shows and its depth.               *)
(***************************************************************************)
EXTENDS EventLog, SequencesExt

CONSTANT Depths \* values of -L

ASSUME EventTreeAssumption == Depths \subseteq Nat

\* The roots of the supervisors (event-tree looks no further than the latest).
Roots == {i \in DOMAIN events : events[i].type = "supervisor"}

latestSupervisorRoot == CHOOSE i \in Roots : \A j \in Roots : j <= i

Children(i) == {c \in DOMAIN events : events[c].parent = i}

\* The recursive query: the rows reached from the root by parent_id.  A row comes
\* after its parent, so no branch is longer than the table.
querySubtree(root) ==
    LET reached[n \in 0..Len(events)] ==
            IF n = 0 THEN {root}
            ELSE LET above == reached[n - 1]
                 IN  above \cup UNION {Children(i) : i \in above}
    IN  reached[Len(events)]

\* By id: the query orders its rows.
InOrder(S) ==
    [k \in 1..Cardinality(S) |-> CHOOSE i \in S : Cardinality({j \in S : j < i}) = k - 1]

buildTree(subtree) == [i \in subtree |-> InOrder(Children(i) \cap subtree)]

\* Mutant: one level too many.
CutOffLate(depth, maxDepth) == maxDepth > 0 /\ depth > maxDepth

CutOff(depth, maxDepth) == maxDepth > 0 /\ depth >= maxDepth

Line(i, depth) == [event |-> i, depth |-> depth, more |-> FALSE]
Ellipsis(i, depth) == [event |-> i, depth |-> depth, more |-> TRUE]

\* For each event what is printed at a depth: its line and, below it, "[...]" or the
\* lines of its children.
printTree(tree, maxDepth) ==
    LET print[i \in DOMAIN tree] ==
            [depth \in Nat |->
                <<Line(i, depth)>>
                \o IF ~CutOff(depth, maxDepth)
                     THEN FlattenSeq([k \in DOMAIN tree[i] |-> print[tree[i][k]][depth + 1]])
                   ELSE IF tree[i] # <<>> THEN <<Ellipsis(i, depth + 1)>>
                   ELSE <<>>]
    IN  print

\* Mutant: -L is forgotten.
toJSONEventUncut(tree, maxDepth) ==
    LET json[i \in DOMAIN tree] ==
            [depth \in Nat |->
                [id |-> i,
                 children |-> [k \in DOMAIN tree[i] |-> json[tree[i][k]][depth + 1]]]]
    IN  json

\* The same as JSON: for each event and depth an object with those of its children.
toJSONEvent(tree, maxDepth) ==
    LET json[i \in DOMAIN tree] ==
            [depth \in Nat |->
                [id |-> i,
                 children |-> IF CutOff(depth, maxDepth) THEN <<>>
                              ELSE [k \in DOMAIN tree[i] |-> json[tree[i][k]][depth + 1]]]]
    IN  json

(***************************************************************************)
(* Properties.                                                             *)
(***************************************************************************)
Shown == querySubtree(latestSupervisorRoot)

\* As long as every row since the start of the supervisor has its parent, the
\* tree shows everything that was logged since then, in whatever order the two
\* processes logged it.
TreeIsWhole ==
    Roots # {} =>
        LET since == latestSupervisorRoot..Len(events)
        IN  (\A i \in since : events[i].parent # 0) => Shown = since

\* How deep an event of the tree lies.
Level ==
    LET level[i \in Shown] ==
            IF i = latestSupervisorRoot THEN 1 ELSE 1 + level[events[i].parent]
    IN  level

\* For every -L the listing has one line for each event of that depth or less; the
\* nearest line above with less indentation is the event's parent; siblings are
\* in the order they were logged; "[...]" stands exactly where events are left
\* out.
PrintedIsTree ==
    Roots # {} =>
        LET tree == buildTree(Shown)
            level == Level
        IN  \A L \in Depths :
        LET lines == printTree(tree, L)[latestSupervisorRoot][1]
            rows == {n \in DOMAIN lines : ~lines[n].more}
            Over(n) == lines[Max({m \in 1..n-1 : lines[m].depth < lines[n].depth})].event
        IN  /\ \A i \in DOMAIN tree :
                  Cardinality({n \in rows : lines[n].event = i})
                     = IF L = 0 \/ level[i] <= L THEN 1 ELSE 0
            /\ \A n \in 2..Len(lines) : LET i == lines[n].event IN
                  Over(n) = IF lines[n].more THEN i ELSE events[i].parent
            /\ \A m, n \in rows :
                  m < n /\ events[lines[m].event].parent = events[lines[n].event].parent
                     => lines[m].event < lines[n].event
            /\ {lines[n].event : n \in DOMAIN lines \ rows}
                  = {i \in DOMAIN tree : level[i] = L /\ Children(i) # {}}

\* The objects of a JSON value by their depth.
Objects(json) ==
    LET objects[n \in 1..Len(events)] ==
            IF n = 1 THEN {json}
            ELSE UNION {Range(x.children) : x \in objects[n - 1]}
    IN  objects

\* For every -L the JSON output has at each depth the events that the listing has
\* there, each inside the object of its parent and after its earlier siblings.
JSONIsListing ==
    Roots # {} =>
        LET tree == buildTree(Shown)
        IN  \A L \in Depths :
        LET lines == printTree(tree, L)[latestSupervisorRoot][1]
            objects == Objects(toJSONEvent(tree, L)[latestSupervisorRoot][1])
        IN  \A d \in 1..Len(events) :
                /\ {x.id : x \in objects[d]}
                      = {lines[n].event : n \in {m \in DOMAIN lines :
                                                   ~lines[m].more /\ lines[m].depth = d}}
                /\ \A x \in objects[d] : \A k \in DOMAIN x.children :
                      /\ events[x.children[k].id].parent = x.id
                      /\ \A j \in 1..k-1 : x.children[j].id < x.children[k].id

==============================================================================
