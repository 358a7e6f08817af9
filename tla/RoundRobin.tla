----------------------------- MODULE RoundRobin -----------------------------
(***************************************************************************)
(* The round-robin scheduler of exer4/sched: scheduler.c, with the         *)
(* circular list of plist.c and wait_for_ready_children of proc-common.c.  *)
(*                                                                         *)
(* One process forks its tasks, waits until each has stopped itself,       *)
(* installs its two signal handlers, continues the first task and pauses;  *)
(* from then on everything happens in the handlers.  Each handler masks    *)
(* SIGCHLD and SIGALRM, so handlers never nest, but main is interrupted    *)
(* anywhere, and the tasks, the timer and whoever else can signal the      *)
(* tasks (Early, Outside) run between any two system calls of the scheduler.      *)
(*                                                                         *)
(* A pid is never reused: Tasks is the set of pids fork returns.           *)
(***************************************************************************)
EXTENDS Processes, ProcessList

CONSTANTS Tasks,     \* the processes named on the command line
          Early,     \* the signals others send to tasks before main pauses
          Outside    \* the signals others send to tasks from then on

ASSUME TasksAssumption == Tasks # {} /\ IsFiniteSet(Tasks)
ASSUME OutsideAssumption == Early \cup Outside \subseteq {"KILL", "STOP", "CONT"}

VARIABLES
    child,     \* kernel: the state of each task
    procs,     \* the circular list, read from the node procs points to
    pc,        \* where main is; "done" and "failed" are exit(0) and exit(-1)
    cnt,       \* children wait_for_ready_children has counted
    arg,       \* the pid main's start_next_process has loaded for kill()
    handler,   \* "none", or where the running SIGCHLD handler is
    got,       \* what that handler's last waitpid returned
    sigchld, sigalrm,   \* kernel: the signal is pending for the scheduler
    armed      \* kernel: the alarm is running

sched == <<procs, pc, cnt, arg, handler, got>>
vars  == <<child, procs, pc, cnt, arg, handler, got, sigchld, sigalrm, armed>>

NoPid == "nobody"

Nothing == [pid |-> NoPid, event |-> "none"]

Got == [pid : Tasks \cup {NoPid}, event : {"none", "stopped", "continued", "exited"}]

TypeOK ==
    /\ child \in [Tasks -> Child]
    /\ procs \in Seq(Tasks)
    /\ pc \in {"fork", "ready", "install", "load", "kill", "pause", "done", "failed"}
    /\ cnt \in Nat
    /\ arg \in Tasks \cup {NoPid}
    /\ handler \in {"none", "wait", "react"}
    /\ got \in Got
    /\ sigchld \in BOOLEAN
    /\ sigalrm \in BOOLEAN
    /\ armed \in BOOLEAN

Init ==
    /\ child = [p \in Tasks |-> Unborn]
    /\ procs = << >>
    /\ pc = "fork"
    /\ cnt = 0
    /\ arg = NoPid
    /\ handler = "none"
    /\ got = Nothing
    /\ sigchld = FALSE
    /\ sigalrm = FALSE
    /\ armed = FALSE

\* Signals are caught once the handlers are there; before, SIGCHLD's default
\* action discards it.
Catching == pc \in {"load", "kill", "pause"}

----------------------------------------------------------------------------
(* main.  (Definitions marked FAULT are deliberately wrong variants of the  *)
(* one that follows them; the mutants of PROJECT.json put them in its       *)
(* place.)                                                                  *)

ForkTask(p) ==
    /\ pc = "fork"
    /\ child[p].run = "none"
    /\ child' = [child EXCEPT ![p] = Forked]
    /\ procs' = AppendToList(procs, p)
    /\ pc' = IF \A q \in Tasks \ {p} : child[q].run # "none" THEN "ready" ELSE "fork"
    /\ UNCHANGED <<cnt, arg, handler, got, sigchld, sigalrm, armed>>

\* FAULT: the result of fork is not checked, and the -1 goes into the list.
ForkUnchecked ==
    /\ pc = "fork"
    /\ procs' = AppendToList(procs, NoPid)
    /\ UNCHANGED <<child, pc, cnt, arg, handler, got, sigchld, sigalrm, armed>>

ForkFails ==
    /\ pc = "fork"
    /\ pc' = "failed"
    /\ UNCHANGED <<child, procs, cnt, arg, handler, got, sigchld, sigalrm, armed>>

\* FAULT: nproc = argc - 2.
NprocShort == Len(procs) - 1

nproc == Len(procs)

\* One turn of wait_for_ready_children: a blocking wait for any stopped or
\* dead child.
CollectReady(p) ==
    /\ pc = "ready"
    /\ Reportable(child[p], {"stopped", "exited"})
    /\ child' = [child EXCEPT ![p] = Reported(@)]
    /\ IF child[p].event = "stopped"
       THEN /\ cnt' = cnt + 1
            /\ pc' = IF cnt' = nproc THEN "install" ELSE "ready"
       ELSE /\ pc' = "failed"
            /\ UNCHANGED cnt
    /\ UNCHANGED <<procs, arg, handler, got, sigchld, sigalrm, armed>>

InstallHandlers ==
    /\ pc = "install"
    /\ pc' = "load"
    /\ UNCHANGED <<child, procs, cnt, arg, handler, got, sigchld, sigalrm, armed>>

\* kill(p, SIGCONT) and alarm(), or exit(-1) when p has no process any more.
\* Nothing but the kill looks at the children, so the two are one step.
Start(p, where) ==
    IF HasPid(child[p])
    THEN /\ child' = [child EXCEPT ![p] = SendCont(@)]
         /\ sigchld' = (sigchld \/ ContNotifies(child[p]))
         /\ armed' = TRUE
         /\ pc' = where
    ELSE /\ pc' = "failed"
         /\ UNCHANGED <<child, sigchld, armed>>

\* main's own start_next_process runs with both signals unmasked: the
\* handlers may run after it has read procs->pid and before the kill.
LoadFirst ==
    /\ pc = "load" /\ handler = "none"
    /\ arg' = Head(procs)
    /\ pc' = "kill"
    /\ UNCHANGED <<child, procs, cnt, handler, got, sigchld, sigalrm, armed>>

StartFirst ==
    /\ pc = "kill" /\ handler = "none"
    /\ Start(arg, "pause")
    /\ UNCHANGED <<procs, cnt, arg, handler, got, sigalrm>>

----------------------------------------------------------------------------
(* sigalrm_handler: a single system call on the children, hence one step. *)

\* FAULT: the handler does not restart the timer.
HandleAlarmOnce ==
    /\ Catching /\ handler = "none" /\ sigalrm
    /\ sigalrm' = FALSE
    /\ child' = [child EXCEPT ![Head(procs)] = SendStop(@)]
    /\ UNCHANGED <<procs, pc, cnt, arg, handler, got, sigchld, armed>>

HandleAlarm ==
    /\ Catching /\ handler = "none" /\ sigalrm
    /\ sigalrm' = FALSE
    /\ IF HasPid(child[Head(procs)])
       THEN /\ child' = [child EXCEPT ![Head(procs)] = SendStop(@)]
            /\ armed' = TRUE
            /\ UNCHANGED pc
       ELSE /\ pc' = "failed"
            /\ UNCHANGED <<child, armed>>
    /\ UNCHANGED <<procs, cnt, arg, handler, got, sigchld>>

----------------------------------------------------------------------------
(* sigchld_handler: a loop of a non-blocking wait and a reaction to it. *)

EnterChild ==
    /\ Catching /\ handler = "none" /\ sigchld
    /\ sigchld' = FALSE
    /\ handler' = "wait"
    /\ UNCHANGED <<child, procs, pc, cnt, arg, got, sigalrm, armed>>

AnyEvent == {"stopped", "continued", "exited"}

WaitReports(p) ==
    /\ Catching /\ handler = "wait"
    /\ Reportable(child[p], AnyEvent)
    /\ got' = [pid |-> p, event |-> child[p].event]
    /\ child' = [child EXCEPT ![p] = Reported(@)]
    /\ handler' = "react"
    /\ UNCHANGED <<procs, pc, cnt, arg, sigchld, sigalrm, armed>>

WaitReportsNothing ==
    /\ Catching /\ handler = "wait"
    /\ \A p \in Tasks : ~Reportable(child[p], AnyEvent)
    /\ handler' = "none"
    /\ pc' = IF \E p \in Tasks : HasPid(child[p]) THEN pc ELSE "failed"
    /\ UNCHANGED <<child, procs, cnt, arg, got, sigchld, sigalrm, armed>>

\* Back to the head of the loop; got is dead from here on.
NextTurn == handler' = "wait" /\ got' = Nothing

ReactContinued ==
    /\ Catching /\ handler = "react" /\ got.event = "continued"
    /\ IF got.pid = Head(procs)
       THEN UNCHANGED <<child, pc>>
       ELSE IF HasPid(child[got.pid])
       THEN /\ child' = [child EXCEPT ![got.pid] = SendStop(@)]
            /\ UNCHANGED pc
       ELSE /\ pc' = "failed"
            /\ UNCHANGED child
    /\ NextTurn
    /\ UNCHANGED <<procs, cnt, arg, sigchld, sigalrm, armed>>

\* FAULT: the current pid is read after the deletion.
ReactDiedLate ==
    /\ Catching /\ handler = "react" /\ got.event = "exited"
    /\ procs' = DeleteFromList(procs, got.pid)
    /\ pc' = IF procs' = << >> THEN "done" ELSE pc
    /\ NextTurn
    /\ UNCHANGED <<child, sigchld, armed, cnt, arg, sigalrm>>

ReactDied ==
    /\ Catching /\ handler = "react" /\ got.event = "exited"
    /\ procs' = DeleteFromList(procs, got.pid)
    /\ IF procs' = << >>
       THEN /\ pc' = "done"
            /\ UNCHANGED <<child, sigchld, armed>>
       ELSE IF got.pid = Head(procs)
       THEN Start(Head(procs'), pc)
       ELSE UNCHANGED <<child, sigchld, armed, pc>>
    /\ NextTurn
    /\ UNCHANGED <<cnt, arg, sigalrm>>

\* FAULT: starts the current task before it moves to the next one.
ReactStoppedSwapped ==
    /\ Catching /\ handler = "react" /\ got.event = "stopped"
    /\ IF got.pid = Head(procs)
       THEN /\ procs' = Advance(procs)
            /\ Start(Head(procs), pc)
       ELSE UNCHANGED <<child, sigchld, armed, pc, procs>>
    /\ NextTurn
    /\ UNCHANGED <<cnt, arg, sigalrm>>

ReactStopped ==
    /\ Catching /\ handler = "react" /\ got.event = "stopped"
    /\ IF got.pid = Head(procs)
       THEN /\ procs' = Advance(procs)
            /\ Start(Head(procs'), pc)
       ELSE UNCHANGED <<child, sigchld, armed, pc, procs>>
    /\ NextTurn
    /\ UNCHANGED <<cnt, arg, sigalrm>>

----------------------------------------------------------------------------
(* The tasks, the timer and the outside.  They stop mattering once the      *)
(* scheduler has exited.                                                    *)

Up == pc \notin {"done", "failed"}

\* A state change of p, of which the scheduler is notified.
Becomes(p, c) ==
    /\ Up
    /\ child' = [child EXCEPT ![p] = c]
    /\ sigchld' = (sigchld \/ Catching)
    /\ UNCHANGED <<sched, sigalrm, armed>>

TaskRaises(p)  == CanRaise(child[p])    /\ Becomes(p, Raise(child[p]))
TaskStops(p)   == CanTakeStop(child[p]) /\ Becomes(p, TakeStop(child[p]))
TaskKilled(p)  == CanTakeKill(child[p]) /\ Becomes(p, Die(child[p]))
TaskExits(p)   == CanExit(child[p])     /\ Becomes(p, Die(child[p]))

TimerExpires ==
    /\ Up /\ armed
    /\ armed' = FALSE
    /\ sigalrm' = TRUE
    /\ UNCHANGED <<child, sched, sigchld>>

OutsideSignal(p, sig) ==
    /\ Up /\ HasPid(child[p])
    /\ sig \in (IF pc = "pause" THEN Outside ELSE Early)
    /\ child' = [child EXCEPT ![p] = Send(sig, @)]
    /\ sigchld' = (sigchld \/ (Catching /\ sig = "CONT" /\ ContNotifies(child[p])))
    /\ UNCHANGED <<sched, sigalrm, armed>>

Exited == ~Up /\ UNCHANGED vars

----------------------------------------------------------------------------
Main  == \/ \E p \in Tasks : ForkTask(p) \/ CollectReady(p)
         \/ ForkFails \/ InstallHandlers \/ LoadFirst \/ StartFirst

React == ReactContinued \/ ReactDied \/ ReactStopped

ChildLoop == \/ WaitReportsNothing \/ React
             \/ \E p \in Tasks : WaitReports(p)

Handlers == HandleAlarm \/ EnterChild \/ ChildLoop

Environment == \/ TimerExpires
               \/ \E p \in Tasks : \/ TaskRaises(p) \/ TaskStops(p)
                                   \/ TaskKilled(p) \/ TaskExits(p)
                                   \/ \E sig \in Early \cup Outside : OutsideSignal(p, sig)

Next == Main \/ Handlers \/ Environment \/ Exited

Spec == Init /\ [][Next]_vars
----------------------------------------------------------------------------
(* Fairness: the scheduler's own steps and the handling of its pending      *)
(* signals are never put off for ever, the alarm rings, a task acts on the  *)
(* signals it has got.                                                      *)

Fairness ==
    /\ WF_vars(Main) /\ WF_vars(HandleAlarm)
    /\ WF_vars(EnterChild) /\ WF_vars(ChildLoop)
    /\ WF_vars(TimerExpires)
    /\ \A p \in Tasks : WF_vars(TaskRaises(p)) /\ WF_vars(TaskStops(p))
                          /\ WF_vars(TaskKilled(p))

FairSpec == Spec /\ Fairness

----------------------------------------------------------------------------
(* Properties. *)

\* When wait_for_ready_children returns, every task is stopped (or has been
\* killed since): the count of cnt waits has seen each child once.
AllParkedAtStart == pc = "install" => \A p \in Tasks : Parked(child[p])

\* The scheduler never has two tasks running, and the one that runs is the one
\* it believes to be current: the node procs points to.
OneRunner ==
    Catching => \A p \in Tasks : child[p].run = "running" => p = Head(procs)

\* The list and the children agree: each child the kernel still knows, and the
\* one whose death the handler has just learnt of, is in the list exactly once.
ListIsUnreaped ==
    Up => /\ Range(procs) = {p \in Tasks : \/ HasPid(child[p])
                                          \/ got = [pid |-> p, event |-> "exited"]}
          /\ IsInjective(procs)

\* A task that waits for its turn is never overtaken: while p stays in the list
\* it only moves towards the head, unless it is the current task itself.
NoOvertaking ==
    [][\A p \in Range(procs) \cap Range(procs') :
          p # Head(procs) => Position(procs', p) <= Position(procs, p)]_procs

\* Once main pauses, no system call of a handler fails: the scheduler exits only
\* when no task is left.
HandlersNeverFail == [][pc = "pause" => pc' # "failed"]_vars

\* The outside may send what it likes, but not SIGCONT for ever.
NoMoreCont == <>[][\A p \in Tasks : ~OutsideSignal(p, "CONT")]_vars

\* Every task gets its turn, however long the others want to run.
EveryTaskGetsItsTurn ==
    NoMoreCont => \A p \in Tasks : (Catching /\ p \in Range(procs))
                      ~> (p \notin Range(procs) \/ p = Head(procs) \/ ~Up)

\* An outside SIGCONT starts a task that is not current.  The handler stops it
\* again, but a second SIGCONT discards that SIGSTOP while it is pending, and then
\* nothing is left to report: the stray runs beside the current task.  It does not
\* do so for ever: once the outside sends no more SIGCONT, the strays are stopped at
\* the latest at the end of their own turn, and a single task runs from then on.
StraysAreStopped == NoMoreCont => <>[]OneRunner

\* "loop forever until we exit from inside a signal handler": a scheduler that
\* reaches its loop does exit, when all its tasks have finished.  A task has a finite
\* amount of work (prog.c sends NMSG messages and exits): given the processor again
\* and again, it finishes.
FinitePrograms == \A p \in Tasks : SF_vars(TaskExits(p))
SchedulerExits == FinitePrograms => ((pc = "pause") ~> (pc = "done"))

----------------------------------------------------------------------------
(* The scheduler implements the abstract dispatcher.  Before the handlers   *)
(* are installed nothing is dispatched: what runs then is the code each     *)
(* child executes up to its raise(SIGSTOP).                                 *)

OnProcessor == IF Catching THEN {p \in Tasks : child[p].run = "running"} ELSE {}

D == INSTANCE Dispatcher
        WITH Process <- Tasks, queue <- procs, running <- OnProcessor

\* Every step of scheduler.c is a step of the dispatcher or changes nothing it
\* can see: in particular a task only loses its turn after it has stopped, and
\* goes behind all others when it does.
ImplementsDispatcher == D!DSpec
=============================================================================
