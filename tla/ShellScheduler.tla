--------------------------- MODULE ShellScheduler ---------------------------
(***************************************************************************)
(* The scheduler of exer4/shell: the round-robin scheduler of exer4/sched, *)
(* whose first task is a shell (shell.c).  The shell sends requests over a *)
(* pipe; the scheduler's main reads one, executes it with SIGCHLD and      *)
(* SIGALRM masked, and answers over a second pipe.                         *)
(*                                                                         *)
(* start_next_process and the two handlers are those of RoundRobin, line   *)
(* by line; what main does is new, and so is plist.c's numbering.          *)
(***************************************************************************)
EXTENDS Processes, ProcessList, Integers

CONSTANTS Tasks,      \* the pids fork can return
          Shell,      \* the one the shell gets
          NInitial,   \* argc - 1, the number of programs on the command line
          Ids         \* the numbers a user may type after k, h and l

ASSUME ShellAssumption ==
    /\ IsFiniteSet(Tasks) /\ Shell \in Tasks
    /\ NInitial \in Nat /\ NInitial < Cardinality(Tasks)
    /\ Ids \subseteq Int

VARIABLES
    child, procs, pc, cnt, arg, handler, got, sigchld, sigalrm, armed, \* as in RoundRobin
    ids,       \* the id plist.c has given to each pid; NoId before
    loop,      \* where main is in sched_create_shell and shell_request_loop
    todo,      \* programs of the command line still to be started
    shellAt,   \* where the shell is in its loop
    rq,        \* the request in the pipe or being executed
    target,    \* the pid process_request has looked up or forked
    ret,       \* the result of the request
    reply      \* what the answer pipe holds

kernel  == <<child, sigchld, sigalrm, armed>>
sched   == <<procs, pc, cnt, arg, handler, got>>
requestvars == <<ids, loop, todo, shellAt, rq, target, ret, reply>>
vars    == <<kernel, sched, requestvars>>

\* Signals come from the scheduler and its requests only.
R == INSTANCE RoundRobin WITH Early <- {}, Outside <- {}

NoId == -1

NoRequest == [op |-> "none", id |-> 0]

\* What a command line can ask for.  The shell of exer4/prio is the same program;
\* the scheduler here does not know "high" and "low".
Requests == [op : {"print", "exec"}, id : {0}] \cup [op : {"kill", "high", "low"}, id : Ids]

TypeOK ==
    /\ R!TypeOK
    /\ ids \in [Tasks -> NoId .. Cardinality(Tasks) - 1]
    /\ loop \in {"shell", "stop", "tasks", "read", "masked", "acting",
                "answer", "left"}
    /\ todo \in 0 .. NInitial
    /\ shellAt \in {"prompt", "waiting"}
    /\ rq \in Requests \cup {NoRequest}
    /\ target \in Tasks \cup {R!NoPid}
    /\ ret \in {"ok", "error"}
    /\ reply \in {"none", "ok", "error"}

Init ==
    /\ R!Init
    /\ ids = [p \in Tasks |-> NoId]
    /\ loop = "shell"
    /\ todo = NInitial
    /\ shellAt = "prompt"
    /\ rq = NoRequest
    /\ target = R!NoPid
    /\ ret = "ok"
    /\ reply = "none"

----------------------------------------------------------------------------
(* Creating processes. *)

nextID == Cardinality({p \in Tasks : ids[p] # NoId})

Fork(p) ==
    /\ child[p].run = "none"
    /\ child' = [child EXCEPT ![p] = Forked]

Enlist(p) ==
    /\ procs' = AppendToList(procs, p)
    /\ ids' = [ids EXCEPT ![p] = nextID]

ForkShell ==
    /\ pc = "fork" /\ loop = "shell"
    /\ \/ Fork(Shell) /\ Enlist(Shell) /\ loop' = "stop" /\ UNCHANGED pc
       \/ pc' = "failed" /\ UNCHANGED <<child, procs, ids, loop>>
    /\ UNCHANGED <<cnt, arg, handler, got, sigchld, sigalrm, armed,
                   todo, shellAt, rq, target, ret, reply>>

\* main stops the shell, which is going to stop itself too.
StopShell ==
    /\ pc = "fork" /\ loop = "stop"
    /\ child' = [child EXCEPT ![Shell] = SendStop(@)]
    /\ loop' = "tasks"
    /\ pc' = IF todo = 0 THEN "ready" ELSE "fork"
    /\ UNCHANGED <<procs, cnt, arg, handler, got, sigchld, sigalrm, armed,
                   ids, todo, shellAt, rq, target, ret, reply>>

\* A fork that fails is reported and otherwise ignored.
ForkTask ==
    /\ pc = "fork" /\ loop = "tasks"
    /\ \/ \E p \in Tasks \ {Shell} : Fork(p) /\ Enlist(p)
       \/ UNCHANGED <<child, procs, ids>>
    /\ todo' = todo - 1
    /\ pc' = IF todo' = 0 THEN "ready" ELSE "fork"
    /\ UNCHANGED <<cnt, arg, handler, got, sigchld, sigalrm, armed,
                   loop, shellAt, rq, target, ret, reply>>

\* FAULT: the shell is forgotten.
NprocWithoutShell == NInitial

nproc == NInitial + 1

\* One turn of wait_for_ready_children.
CollectReady(p) ==
    /\ pc = "ready"
    /\ Reportable(child[p], {"stopped", "exited"})
    /\ child' = [child EXCEPT ![p] = Reported(@)]
    /\ IF child[p].event = "stopped"
       THEN /\ cnt' = cnt + 1
            /\ pc' = IF cnt' = nproc THEN "install" ELSE "ready"
       ELSE /\ pc' = "failed"
            /\ UNCHANGED cnt
    /\ UNCHANGED <<procs, arg, handler, got, sigchld, sigalrm, armed, requestvars>>

\* The rest of main's start is that of RoundRobin.
StartUp ==
    \/ (R!InstallHandlers \/ R!LoadFirst) /\ UNCHANGED requestvars
    \/ /\ R!StartFirst
       /\ loop' = "read"
       /\ UNCHANGED <<ids, todo, shellAt, rq, target, ret, reply>>

----------------------------------------------------------------------------
(* shell_request_loop.  main runs when no handler does. *)

Looping(at) == pc = "pause" /\ handler = "none" /\ loop = at

\* A process that has died has closed its ends of the pipes.
ShellAlive == Alive(child[Shell])

\* read and signals_disable.  At the end of the file main gives up.
ReadRequest ==
    /\ Looping("read")
    /\ \/ rq # NoRequest /\ loop' = "masked"
       \/ rq = NoRequest /\ ~ShellAlive /\ loop' = "left"
    /\ UNCHANGED <<kernel, sched, ids, todo, shellAt, rq, target, ret, reply>>

\* FAULT: compares the position in the list, not the id.
NthPid(list) == {p \in Range(list) : Position(list, p) = rq.id + 1}

\* get_pid_from_id, for the id of the request: the pid it returns, if any.
PidFromId(list) == {p \in Range(list) : ids[p] = rq.id}

Return(result) == ret' = result /\ loop' = "answer" /\ UNCHANGED <<child, target>>

\* The look-up of sched_kill_task_by_id has found these pids, none or one.
BeginKill(found) ==
    /\ rq.op = "kill"
    /\ \/ found = {} /\ Return("error")
       \/ target' \in found /\ loop' = "acting" /\ UNCHANGED <<child, ret>>

\* FAULT: the result of fork is not checked, and the -1 is appended as a task.
BeginExecUnchecked ==
    /\ rq.op = "exec"
    /\ \/ \E p \in Tasks : Fork(p) /\ target' = p
       \/ target' = R!NoPid /\ UNCHANGED child
    /\ loop' = "acting"
    /\ UNCHANGED ret

\* The fork of sched_create_task, which may fail: the answer does not say so.
BeginExec ==
    /\ rq.op = "exec"
    /\ \/ /\ \E p \in Tasks : Fork(p) /\ target' = p
          /\ loop' = "acting"
          /\ UNCHANGED ret
       \/ Return("ok")

PrintTasks == rq.op = "print" /\ Return("ok")

\* The first half of process_request: all of it, but for the kill and for the
\* append_to_list.
BeginRequest ==
    /\ Looping("masked")
    /\ \/ BeginKill(PidFromId(procs)) \/ BeginExec \/ PrintTasks
       \/ rq.op \in {"high", "low"} /\ Return("error")
    /\ UNCHANGED <<sched, sigchld, sigalrm, armed, ids, todo, shellAt, rq, reply>>

\* The second half: the kill, the append_to_list.  signals_enable.
EndRequest ==
    /\ Looping("acting")
    /\ \/ /\ rq.op = "kill"
          /\ IF HasPid(child[target])
             THEN child' = [child EXCEPT ![target] = SendKill(@)] /\ UNCHANGED pc
             ELSE pc' = "failed" /\ UNCHANGED child
          /\ UNCHANGED <<procs, ids>>
       \/ rq.op = "exec" /\ Enlist(target) /\ UNCHANGED <<child, pc>>
    /\ ret' = "ok"
    /\ loop' = "answer"
    /\ target' = R!NoPid
    /\ UNCHANGED <<cnt, arg, handler, got, sigchld, sigalrm, armed,
                   todo, shellAt, rq, reply>>

\* FAULT: a request that fails is not answered.
AnswerSuccess ==
    /\ Looping("answer")
    /\ rq' = NoRequest
    /\ loop' = IF ShellAlive THEN "read" ELSE "left"
    /\ reply' = IF ShellAlive /\ ret = "ok" THEN ret ELSE reply
    /\ UNCHANGED <<kernel, sched, ids, todo, shellAt, target, ret>>

\* When the shell is dead the write fails with EPIPE and main gives up.
Answer ==
    /\ Looping("answer")
    /\ rq' = NoRequest
    /\ IF ShellAlive
       THEN reply' = ret /\ loop' = "read"
       ELSE loop' = "left" /\ UNCHANGED reply
    /\ UNCHANGED <<kernel, sched, ids, todo, shellAt, target, ret>>

----------------------------------------------------------------------------
(* The handlers are RoundRobin's.  They do not start while main executes a  *)
(* request.                                                                 *)

\* FAULT: the signals are not masked.
NeverMasked == FALSE

Masked == loop \in {"masked", "acting"}

Handlers == ~Masked /\ R!Handlers /\ UNCHANGED requestvars

----------------------------------------------------------------------------
(* The processes. *)

ShellRuns == R!Up /\ CanExit(child[Shell])

\* A command line makes the shell send a request and wait for the answer.
IssueRequest ==
    /\ ShellRuns /\ shellAt = "prompt"
    /\ rq' \in Requests
    /\ shellAt' = "waiting"
    /\ UNCHANGED <<kernel, sched, ids, loop, todo, target, ret, reply>>

ReceiveReply ==
    /\ ShellRuns /\ shellAt = "waiting" /\ reply # "none"
    /\ reply' = "none"
    /\ shellAt' = "prompt"
    /\ UNCHANGED <<kernel, sched, ids, loop, todo, rq, target, ret>>

TaskExits(p) ==
    /\ p = Shell => shellAt = "prompt"
    /\ R!TaskExits(p)
    /\ UNCHANGED requestvars

Kernel ==
    /\ \/ R!TimerExpires
       \/ \E p \in Tasks : R!TaskRaises(p) \/ R!TaskStops(p) \/ R!TaskKilled(p)
    /\ UNCHANGED requestvars

Exited == R!Exited /\ UNCHANGED requestvars

----------------------------------------------------------------------------
Start == \/ ForkShell \/ StopShell \/ ForkTask \/ StartUp
         \/ \E p \in Tasks : CollectReady(p)

RequestLoop == ReadRequest \/ BeginRequest \/ EndRequest \/ Answer

Main == Start \/ RequestLoop

ShellSteps == IssueRequest \/ ReceiveReply

Next == \/ Main \/ Handlers \/ ShellSteps \/ Kernel \/ Exited
        \/ \E p \in Tasks : TaskExits(p)

Spec == Init /\ [][Next]_vars

\* As in RoundRobin, but for what masking and the quantum of two seconds make of
\* it: a signal that is pending is delivered when it is unmasked, main has time
\* between two handlers, and the shell has time in its turn to read an answer that
\* is there.  These are strongly fair.  Nobody has to type anything.
Fairness ==
    /\ SF_vars(Main) /\ SF_vars(ReceiveReply)
    /\ SF_vars(~Masked /\ R!HandleAlarm /\ UNCHANGED requestvars)
    /\ SF_vars(~Masked /\ R!EnterChild /\ UNCHANGED requestvars)
    /\ WF_vars(~Masked /\ R!ChildLoop /\ UNCHANGED requestvars)
    /\ WF_vars(R!TimerExpires /\ UNCHANGED requestvars)
    /\ \A p \in Tasks :
          WF_vars((R!TaskRaises(p) \/ R!TaskStops(p) \/ R!TaskKilled(p)) /\ UNCHANGED requestvars)

FairSpec == Spec /\ Fairness

----------------------------------------------------------------------------
(* Properties. *)

\* The list and the children agree, as in RoundRobin, except between the fork and
\* the append_to_list of a request, when no handler can look.
ListIsUnreaped == loop # "acting" => R!ListIsUnreaped

\* No system call of a handler or of a request fails once main has started.
NothingFails == [][pc = "pause" => pc' # "failed"]_vars

\* The answer to a kill is true: "ok" means that the task with that id is dead or
\* about to die, an error that no living process has that id.
RepliesAreTrue ==
    loop = "answer" /\ rq.op = "kill" =>
        LET Named == {p \in Tasks : ids[p] = rq.id}
            Doomed(p) == child[p].kill \/ child[p].run \in {"zombie", "reaped"}
        IN IF ret = "ok" THEN Named # {} /\ \A p \in Named : Doomed(p)
                         ELSE \A p \in Named : ~HasPid(child[p])

\* A request is answered, although the shell waits for its turns like any task.
EveryRequestIsAnswered ==
    shellAt = "waiting" ~> (shellAt = "prompt" \/ ~ShellAlive \/ ~R!Up)

\* The abstract dispatcher again, with a task that joins the queue at any time.
OnProcessor ==
    IF R!Catching THEN {p \in Tasks : child[p].run = "running" /\ child[p].raised} ELSE {}

D == INSTANCE Dispatcher
        WITH Process <- Tasks, queue <- procs, running <- OnProcessor

ImplementsDispatcher == D!DSpec
=============================================================================
