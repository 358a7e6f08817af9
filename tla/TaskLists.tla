----------------------------- MODULE TaskLists -----------------------------
(***************************************************************************)
(* What the two lists of exer4/prio are to the scheduler: sequences of     *)
(* tasks, each with the id it got when it was created, in the order of     *)
(* their turns.  The other modules of exer4 use lists in this form.        *)
(***************************************************************************)
EXTENDS Naturals, ProcessList

CONSTANTS Pids

Lists == {"high", "low"}
Other(l) == IF l = "high" THEN "low" ELSE "high"

VARIABLES tasks, nextId

lvars == <<tasks, nextId>>

AllTasks == Range(tasks["high"]) \cup Range(tasks["low"])

LInit == tasks = [l \in Lists |-> << >>] /\ nextId = 0

\* A task is new: no task of the lists has its pid.
New(pid) ==
    /\ \A t \in AllTasks : t.pid # pid
    /\ tasks' = [tasks EXCEPT !["low"] = AppendToList(@, [id |-> nextId, pid |-> pid])]
    /\ nextId' = nextId + 1

\* A task that has died is deleted from where it is.
Gone(t) ==
    /\ tasks' = [l \in Lists |-> DeleteFromList(tasks[l], t)]
    /\ UNCHANGED nextId

\* The turn of the first task of a list is over.
NextTurn(l) ==
    /\ tasks[l] # << >>
    /\ tasks' = [tasks EXCEPT ![l] = Advance(@)]
    /\ UNCHANGED nextId

\* A task changes its priority: it keeps its id and goes to the end of the other
\* list.
Changes(l, t) ==
    /\ t \in Range(tasks[l])
    /\ tasks' = [tasks EXCEPT ![l] = DeleteFromList(@, t),
                              ![Other(l)] = AppendToList(@, t)]
    /\ UNCHANGED nextId

LNext ==
    \/ \E pid \in Pids : New(pid)
    \/ \E t \in AllTasks : Gone(t) \/ \E l \in Lists : Changes(l, t)
    \/ \E l \in Lists : NextTurn(l)

LSpec == LInit /\ [][LNext]_lvars
=============================================================================
