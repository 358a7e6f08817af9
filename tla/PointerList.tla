---------------------------- MODULE PointerList ----------------------------
(***************************************************************************)
(* The lists of exer4/prio/plist.c as they are in memory: rings of nodes   *)
(* linked in both directions, a head pointer for each list, malloc and     *)
(* free.  The plist.c of exer4/shell and of exer4/sched link and unlink    *)
(* nodes in the same way.  The callers never interrupt each other: a call, *)
(* or the two calls that move a task, is a step.                           *)
(*                                                                         *)
(* m is a memory: the nodes by their addresses and the head pointers.      *)
(***************************************************************************)
EXTENDS Naturals, Sequences, FiniteSetsExt, Functions

CONSTANTS Addrs,  \* where malloc may put a node
          NULL,
          Pids,
          MaxId   \* bound: so many tasks are created

ASSUME PointersAssumption == IsFiniteSet(Addrs) /\ NULL \notin Addrs /\ MaxId \in Nat

Lists == {"high", "low"}
Other(l) == IF l = "high" THEN "low" ELSE "high"

VARIABLES mem, nextID

vars == <<mem, nextID>>

\* Memory that is not a node now.
Freed == [id |-> MaxId, pid |-> NULL, next |-> NULL, prev |-> NULL]

Init ==
    /\ mem = [node |-> [a \in Addrs |-> Freed], head |-> [l \in Lists |-> NULL]]
    /\ nextID = 0

NewNode(id, pid, next, prev) == [id |-> id, pid |-> pid, next |-> next, prev |-> prev]

Unused(m) == {a \in Addrs : m.node[a] = Freed}

\* The nodes of a list in the order in which the loops of plist.c meet them: from
\* the head by next until the head comes again.
Walk(m, l) ==
    LET at[k \in 0 .. Cardinality(Addrs)] ==
            IF k = 0 THEN m.head[l] ELSE m.node[at[k - 1]].next
        back(k) == at[k] = m.head[l]
        size == Min({k \in 1 .. Cardinality(Addrs) : back(k)})
    IN  IF m.head[l] = NULL THEN << >> ELSE [k \in 1 .. size |-> at[k - 1]]

\* The first node of the walk that is one of these, or NULL.
FirstOf(m, l, these) ==
    LET w == Walk(m, l)
        hits == {k \in DOMAIN w : w[k] \in these}
    IN  IF hits = {} THEN NULL ELSE w[Min(hits)]

\* find_process_from_id; get_pid_from_id finds the same node.
find_process_from_id(m, l, id) == FirstOf(m, l, {a \in Addrs : m.node[a].id = id})

\* FAULT: the node before the head is not told of the new one.
LinkForward(m, h, a, id, pid) ==
    [m.node EXCEPT ![a] = NewNode(id, pid, h, m.node[h].prev),
                   ![h].prev = a]

\* The new node goes between the head and the one before it.
Link(m, h, a, id, pid) ==
    [m.node EXCEPT ![a] = NewNode(id, pid, h, m.node[h].prev),
                   ![m.node[h].prev].next = a,
                   ![h].prev = a]

\* append_to_list_with_id, when malloc returns a.
append_to_list_with_id(m, l, a, id, pid) ==
    LET h == m.head[l]
    IN  IF h = NULL
        THEN [node |-> [m.node EXCEPT ![a] = NewNode(id, pid, a, a)],
              head |-> [m.head EXCEPT ![l] = a]]
        ELSE [m EXCEPT !.node = Link(m, h, a, id, pid)]

\* The neighbours of node a are linked to each other, and a is freed.
Unlink(m, a) ==
    LET n == m.node[a]
    IN  [m.node EXCEPT ![n.prev].next = n.next, ![n.next].prev = n.prev, ![a] = Freed]

\* FAULT: the turn goes back to the node before the one that goes.
HeadMovesBack(m, l, a) ==
    IF a # m.head[l] THEN m.head[l]
    ELSE IF m.node[a].next = a THEN NULL
    ELSE m.node[a].prev

\* Where the head pointer points when a goes.
HeadWithout(m, l, a) ==
    IF a # m.head[l] THEN m.head[l]
    ELSE IF m.node[a].next = a THEN NULL
    ELSE m.node[a].next

Delete(m, l, a) ==
    IF a = NULL THEN m
    ELSE [node |-> Unlink(m, a), head |-> [m.head EXCEPT ![l] = HeadWithout(m, l, a)]]

delete_from_list(m, l, pid) ==
    Delete(m, l, FirstOf(m, l, {a \in Addrs : m.node[a].pid = pid}))

----------------------------------------------------------------------------
(* The calls. *)

\* sched_create_task, for a pid that no task has.
append_to_list ==
    /\ nextID < MaxId
    /\ \E a \in Unused(mem), pid \in Pids :
          /\ \A b \in Addrs : mem.node[b].pid # pid
          /\ mem' = append_to_list_with_id(mem, "low", a, nextID, pid)
    /\ nextID' = nextID + 1

\* A handler deletes the pid of a task that has died from both lists, one after
\* the other: one of them does not have it.
BuryTask ==
    /\ \E pid \in Pids :
          mem' = delete_from_list(delete_from_list(mem, "high", pid), "low", pid)
    /\ UNCHANGED nextID

\* *head = (*head)->next, when the current task has had its turn.
NextProcess ==
    /\ \E l \in Lists :
          /\ mem.head[l] # NULL
          /\ mem' = [mem EXCEPT !.head[l] = mem.node[@].next]
    /\ UNCHANGED nextID

\* sched_high_task_by_id and sched_low_task_by_id append before they delete; the
\* node that was found is read until the deletion frees it.
MoveTask ==
    /\ \E l \in Lists, id \in 0 .. MaxId - 1 :
          LET p == find_process_from_id(mem, l, id)
          IN  /\ p # NULL
              /\ \E a \in Unused(mem) :
                    mem' = delete_from_list(
                               append_to_list_with_id(mem, Other(l), a, id, mem.node[p].pid),
                               l, mem.node[p].pid)
    /\ UNCHANGED nextID

Next == append_to_list \/ BuryTask \/ NextProcess \/ MoveTask

Spec == Init /\ [][Next]_vars

----------------------------------------------------------------------------
(* Properties. *)

Reached(l) == Range(Walk(mem, l))

\* The lists are rings that share no node: next and prev undo each other, no link
\* leads to freed memory, and no node is lost without being freed.
RingsAreSound ==
    /\ Reached("high") \cap Reached("low") = {}
    /\ Reached("high") \cup Reached("low") = Addrs \ Unused(mem)
    /\ \A l \in Lists : \A a \in Reached(l) :
          /\ mem.node[a].next \in Reached(l)
          /\ mem.node[mem.node[a].next].prev = a

\* The pointers do what the other modules say of the lists.
TaskOf(a) == [id |-> mem.node[a].id, pid |-> mem.node[a].pid]
L == INSTANCE TaskLists
         WITH tasks <- [l \in Lists |-> [k \in DOMAIN Walk(mem, l) |->
                                            TaskOf(Walk(mem, l)[k])]],
              nextId <- nextID
ImplementsTaskLists == L!LSpec
=============================================================================
