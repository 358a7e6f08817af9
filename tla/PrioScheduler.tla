--------------------------- MODULE PrioScheduler ---------------------------
(***************************************************************************)
(* The scheduler of exer4/prio: that of exer4/shell with two lists and a   *)
(* current_pid of its own.  Tasks are born LOW; the requests h and l move  *)
(* them.  A LOW task is started only when there is no HIGH one.            *)
(*                                                                         *)
(* Everything that does not look at a list is ShellScheduler's, with low   *)
(* for procs: append_to_list(&low_procs, ...) is all that main's start     *)
(* does with the lists.                                                    *)
(***************************************************************************)
EXTENDS Processes, ProcessList, Integers

CONSTANTS Tasks, Shell, NInitial, Ids   \* as in ShellScheduler

VARIABLES
    child, pc, cnt, arg, handler, got, sigchld, sigalrm, armed,   \* as in RoundRobin
    ids, loop, todo, shellAt, rq, target, ret, reply,         \* as in ShellScheduler
    high, low,   \* high_procs and low_procs
    current      \* current_pid

kernel == <<child, sigchld, sigalrm, armed>>
lists  == <<high, low>>
place  == <<pc, cnt, arg, handler, got>>
requestvars == <<ids, loop, todo, shellAt, rq, target, ret, reply>>
vars   == <<kernel, place, requestvars, lists, current>>

S == INSTANCE ShellScheduler WITH procs <- low
R == INSTANCE RoundRobin     WITH procs <- low, Early <- {}, Outside <- {}

ASSUME PrioAssumption == S!ShellAssumption

Queued == Range(high) \cup Range(low)

TypeOK ==
    /\ S!TypeOK
    /\ high \in Seq(Tasks)
    /\ current \in Tasks \cup {R!NoPid}

Init == S!Init /\ high = << >> /\ current = R!NoPid

----------------------------------------------------------------------------
(* start_next_process, at the start and in the handlers. *)

\* FAULT: the list that holds more tasks goes first.
LongerFirst(h, l) == IF Len(h) >= Len(l) THEN Head(h) ELSE Head(l)

\* FAULT: the lists in the wrong order.
LowFirst(h, l) == IF l # << >> THEN Head(l) ELSE Head(h)

NextTask(h, l) == IF h # << >> THEN Head(h) ELSE Head(l)

\* main's: both signals are unmasked, but no child changes state before the kill.
StartUp ==
    \/ R!InstallHandlers /\ UNCHANGED <<requestvars, high, current>>
    \/ /\ pc = "load"
       /\ current' = NextTask(high, low)
       /\ R!Start(current', "pause")
       /\ loop' = "read"
       /\ UNCHANGED <<cnt, arg, handler, got, sigalrm, lists,
                      ids, todo, shellAt, rq, target, ret, reply>>

\* A handler's, when the lists have become high' and low'.
StartNext ==
    /\ current' = NextTask(high', low')
    /\ R!Start(current', pc)

Start ==
    \/ StartUp
    \/ /\ S!ForkShell \/ S!StopShell \/ S!ForkTask \/ \E p \in Tasks : S!CollectReady(p)
       /\ UNCHANGED <<high, current>>

----------------------------------------------------------------------------
(* Requests. *)

\* FAULT: the task is not deleted from the list it leaves.
CopyTask(from, to, p) == from' = from /\ to' = AppendToList(to, p)

\* append_to_list_with_id, then delete_from_list.
MoveTask(from, to, p) ==
    /\ to' = AppendToList(to, p)
    /\ from' = DeleteFromList(from, p)

\* sched_high_task_by_id and sched_low_task_by_id: no system call, one step.
SetPriority ==
    /\ S!Looping("masked") /\ rq.op \in {"high", "low"}
    /\ LET from  == IF rq.op = "high" THEN low ELSE high
           found == S!PidFromId(from)
       IN IF found = {}
          THEN S!Return("error") /\ UNCHANGED lists
          ELSE /\ \E p \in found : IF rq.op = "high" THEN MoveTask(low, high, p)
                                                     ELSE MoveTask(high, low, p)
               /\ S!Return("ok")
    /\ UNCHANGED <<place, sigchld, sigalrm, armed, ids, todo, shellAt, rq, reply, current>>

BeginRequest ==
    /\ S!Looping("masked")
    /\ \/ S!BeginKill(S!PidFromId(high) \cup S!PidFromId(low))
       \/ S!BeginExec \/ S!PrintTasks
    /\ UNCHANGED <<place, sigchld, sigalrm, armed, ids, todo, shellAt, rq, reply,
                   lists, current>>

RequestLoop ==
    \/ SetPriority \/ BeginRequest
    \/ (S!ReadRequest \/ S!EndRequest \/ S!Answer) /\ UNCHANGED <<high, current>>

----------------------------------------------------------------------------
(* The handlers, which do not run while a request is executed. *)

Handling(at) == pc = "pause" /\ ~S!Masked /\ handler = at

HandleAlarm ==
    /\ Handling("none") /\ sigalrm
    /\ sigalrm' = FALSE
    /\ IF HasPid(child[current])
       THEN child' = [child EXCEPT ![current] = SendStop(@)] /\ armed' = TRUE /\ UNCHANGED pc
       ELSE pc' = "failed" /\ UNCHANGED <<child, armed>>
    /\ UNCHANGED <<cnt, arg, handler, got, sigchld, requestvars, lists, current>>

EnterChild == ~S!Masked /\ R!EnterChild /\ UNCHANGED <<requestvars, high, current>>

WaitForChild ==
    /\ ~S!Masked
    /\ R!WaitReportsNothing \/ \E p \in Tasks : R!WaitReports(p)
    /\ UNCHANGED <<requestvars, high, current>>

ReactContinued ==
    /\ Handling("react") /\ got.event = "continued"
    /\ IF got.pid = current
       THEN UNCHANGED <<child, pc>>
       ELSE IF HasPid(child[got.pid])
       THEN child' = [child EXCEPT ![got.pid] = SendStop(@)] /\ UNCHANGED pc
       ELSE pc' = "failed" /\ UNCHANGED child
    /\ R!NextTurn
    /\ UNCHANGED <<cnt, arg, sigchld, sigalrm, armed, requestvars, lists, current>>

Bury(p) ==
    /\ high' = DeleteFromList(high, p)
    /\ low'  = DeleteFromList(low, p)

ReactDied ==
    /\ Handling("react") /\ got.event = "exited"
    /\ Bury(got.pid)
    /\ IF high' = << >> /\ low' = << >>
       THEN pc' = "done" /\ UNCHANGED <<child, sigchld, armed, current>>
       ELSE IF got.pid = current
       THEN StartNext
       ELSE UNCHANGED <<child, sigchld, armed, pc, current>>
    /\ R!NextTurn
    /\ UNCHANGED <<cnt, arg, sigalrm, requestvars>>

\* FAULT: the HIGH list is never rotated.
RotateLow == low' = (IF low # << >> THEN Advance(low) ELSE low) /\ UNCHANGED high

\* Whichever list the task that has stopped is in.
Rotate ==
    IF high # << >> THEN high' = Advance(high) /\ UNCHANGED low
                    ELSE low'  = Advance(low)  /\ UNCHANGED high

ReactStopped ==
    /\ Handling("react") /\ got.event = "stopped"
    /\ IF got.pid = current
       THEN Rotate /\ StartNext
       ELSE UNCHANGED <<child, sigchld, armed, pc, lists, current>>
    /\ R!NextTurn
    /\ UNCHANGED <<cnt, arg, sigalrm, requestvars>>

ChildLoop == WaitForChild \/ ReactContinued \/ ReactDied \/ ReactStopped

----------------------------------------------------------------------------
Main == Start \/ RequestLoop

Environment ==
    /\ \/ S!ShellSteps \/ S!Kernel \/ \E p \in Tasks : S!TaskExits(p)
    /\ UNCHANGED <<high, current>>

Exited == ~R!Up /\ UNCHANGED vars

Next == Main \/ HandleAlarm \/ EnterChild \/ ChildLoop \/ Environment \/ Exited

Spec == Init /\ [][Next]_vars

\* As in ShellScheduler, but that a reply is not promised to be read: a LOW shell may
\* not get another turn.
Fairness ==
    /\ SF_vars(Main) /\ WF_vars(ChildLoop)
    /\ SF_vars(HandleAlarm) /\ SF_vars(EnterChild)
    /\ WF_vars(R!TimerExpires /\ UNCHANGED <<requestvars, high, current>>)
    /\ \A p \in Tasks :
          WF_vars(/\ R!TaskRaises(p) \/ R!TaskStops(p) \/ R!TaskKilled(p)
                  /\ UNCHANGED <<requestvars, high, current>>)

FairSpec == Spec /\ Fairness

----------------------------------------------------------------------------
(* Properties. *)

\* At most one program runs, that of current_pid, although current_pid is neither
\* the head of a list nor in the list that is rotated when a request has moved it.
OneRunner ==
    R!Catching => \A p \in Tasks :
        child[p].run = "running" /\ child[p].raised => p = current

\* Each child that is left is in one of the two lists, once.
InOneList ==
    R!Up /\ loop # "acting" =>
        /\ Queued = {p \in Tasks : HasPid(child[p]) \/ got = [pid |-> p, event |-> "exited"]}
        /\ IsInjective(high \o low)

\* A turn is given to a LOW task only when nobody is HIGH.
HighFirst ==
    [][\A p \in Tasks : Parked(child[p]) /\ ~Parked(child'[p]) /\ p \in Range(low')
            => high' = << >>]_vars

\* The turn of a LOW task ends, and then a HIGH one runs.
HighGetsProcessor ==
    high # << >> ~> (high = << >> \/ current \in Range(high) \/ ~R!Up)

\* Once no more priorities are changed, the HIGH tasks take turns; and so do the LOW
\* ones while there is no HIGH task.
NoMoreMoves == <>[][~SetPriority]_vars

TurnsAreTaken ==
    NoMoreMoves => \A p \in Tasks :
        /\ p \in Range(high) ~> (p \notin Range(high) \/ p = current \/ ~R!Up)
        /\ (R!Catching /\ p \in Range(low))
              ~> (p \notin Range(low) \/ p = current \/ high # << >> \/ ~R!Up)
=============================================================================
