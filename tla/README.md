# A verification of the programs of cslab-os-2018

The repository holds the programs of an operating-systems laboratory: file
concatenation, process trees, threads that synchronize, and a user-level
scheduler with a shell and with priorities. They are short, but almost every one
of them is about *interleaving*: signals that arrive between two system calls,
processes that stop and continue one another, threads that wait for one another.
That is what is specified here, in TLA+, checked by TLC on small instances, and,
for the parts that matter most, proved with TLAPS for every number of processes
or threads.

Contents: [the system](#1-the-system), [the plan](#2-the-plan),
[the modules](#3-the-modules), [the runs](#4-the-runs),
[the proofs](#5-the-proofs), [what the code gets wrong](#6-findings),
[what is left out](#7-limits).

## 1. The system

There is no shared library: each directory is a program of its own, and a file
that several need (`proc-common.c`, `tree.c`, `plist.c`) is copied into each, and
in exer4 changed a little.

### exer4/sched: the round-robin scheduler

*State.* The kernel's state of each child (running, stopped, dead, what has not
been waited for yet, pending SIGSTOP and SIGKILL), the circular list `procs`
whose first node is the current process, the timer, the pending SIGCHLD and
SIGALRM, and where `main` and the handlers are.
*Operations.* `main` (fork, `wait_for_ready_children`, install the handlers,
first `start_next_process`, pause), `sigalrm_handler`, `sigchld_handler`,
`start_next_process`; `append_to_list`, `delete_from_list`.
*Interaction.* Only by signals and `waitpid`; tasks stop themselves at the start
and are stopped, continued or killed by the scheduler or by anybody else.
*Hard.* Signals between any two steps, SIGCHLD that coalesce, events reported in
any order, handlers that interrupt `main`, tasks that die while stopped or before
the handlers are there.
*Correct if.* At most one task runs and it is the current one; the list is the set
of children not yet buried; nobody is overtaken; everyone gets a turn; the
scheduler ends when the last task does.

### exer4/shell: the scheduler with a shell

As above, plus `shell.c`, a child that is scheduled like the others and sends
requests over a pair of pipes (`'p'` list, `'e'` start a program, `'k'` kill a
task by its serial number, `'q'` quit); `shell_request_loop` reads one, masks the
signals, executes it, unmasks them and answers.
*Hard.* The shell waits for an answer while it may be stopped; a task named by a
request may be dead but not yet reported; a task created by a request enters the
list while the handlers are running; the count of ready children includes the
shell, which is stopped twice.
*Correct if.* As for sched; a request acts on the task with that id or on none;
ids are unique and never reused; each request gets one answer; the signals are
unmasked whenever `main` blocks.

### exer4/prio: HIGH and LOW priority

As shell, with two lists, `high_procs` and `low_procs`, a `current_pid`, and the
requests `'h'` and `'l'` that move a task between the lists.
*Hard.* The current task may be moved while it runs; the rotation at the end of a
turn rotates `high_procs` whenever it is not empty, whether or not the task that
stopped is its head; LOW tasks may starve.
*Correct if.* A LOW task runs only when no HIGH task was there to be chosen; each
task is in exactly one list; the HIGH tasks share the processor evenly.

### exer4: plist.c

*State.* Rings of malloc'ed nodes linked in both directions and a head pointer for
each. *Operations.* Append, delete by pid or by id, look-up; in prio also an append
with a given id, so that a task keeps its id when it changes lists.
*Hard.* Deleting the head, the only node or the node before the head; a task that is
in both lists for a moment; the caller's pointer to a node that is about to be freed.
*Correct if.* The rings are sound and no node is lost, and the calls do to them what
the schedulers think of as a queue.

### exer3/kgarten: the kindergarten

Threads that are children or teachers enter and leave a kindergarten for ever;
`vt` and `vc` count those inside, under one mutex and one condition variable.
*Hard.* Lost, stolen and spurious wake-ups; one condition variable for two kinds
of waiters; signals sent after the unlock.
*Correct if.* Never more than `ratio` children per teacher; the counters are what
they count; somebody can always go on; everybody gets in eventually.

### exer3/mandel: the parallel Mandelbrot set

`mandel.c` and `mandel2.c`: `NTHREADS` threads compute interleaved lines and
draw them in order by a ring of semaphores.
*Hard.* Threads that start before their semaphore is initialized, a
`pthread_create` that fails, a number of lines that is no multiple of that of
threads. *Correct if.* The lines appear one at a time and in order, each once;
the program ends.

### exer3/simplesync

Two threads increment and decrement one integer, with an atomic operation or
with a mutex. *Correct if* the result is zero, and the exit status says so.

### exer2: process trees

`tree.c` parses a tree from a file; `ask2-tree` forks a process per node,
`ask2-signals` has every process stop itself and wakes them depth first,
`ask2-expr` computes an arithmetic expression with a pipe per inner node, and
`ask2-expr-rv` does so with exit statuses. `proc-common.c` holds
`wait_for_ready_children` and `explain_wait_status`.
*Hard.* A parent that waits for its children to have stopped before it stops
itself; a pipe that both children of an operator write to and all its descendants
hold; exit statuses of eight bits; children that die instead of stopping; forks that
fail in the middle; files that lack a line. *Correct if.* The tree is the one the
file describes, or the file is refused; every process of the tree has stopped before
the root is woken; they wake in the order of the tree; the value of the expression
reaches the root; no process is left behind, and `main` ends whatever fails.

### exer1: fconc and zing

`fconc` concatenates two files and `fconc2` any number of them, refusing an
output file that is one of the inputs; `zing` greets. *Hard.* Partial reads and
writes, files that are missing, the output being an input under another name.
*Correct if* the output is the concatenation of the inputs, which are unchanged.
`.old` keeps earlier versions: one opens the output before the inputs, one does not
compare them.

## 2. The plan

In this order, the most important behaviour first:

| step | modules | about | state |
|---|---|---|---|
| 1 | `Processes`, `ProcessList`, `RoundRobin`, `Dispatcher` | exer4/sched and what it implements | done |
| 2 | `SharedLemmas`, `RoundRobinProofs` | invariance and refinement for every set of tasks | done |
| 3 | `Kgarten`, `Exer3Proofs` | exer3/kgarten | done |
| 4 | `Mandel`, `Plotter`, `Exer3Proofs` | exer3/mandel | done |
| 5 | `ShellScheduler`, `ShellSchedulerProofs` | exer4/shell: `RoundRobin`'s handlers plus requests and the shell | done |
| 6 | `PrioScheduler`, `PrioSchedulerProofs` | exer4/prio: `ShellScheduler`'s requests with two lists | done |
| 7 | `TreeFile`, `ProcessTree`, `MCProcessTree`, `ProcessTreeProofs` | exer2: the parser and the four programs over the trees it gives | done |
| 8 | `Fconc`, `FconcProofs` | exer1/fconc and its earlier versions | done |
| 9 | `TaskLists`, `PointerList`, `PointerListProofs` | exer4's plist.c in memory, and the sequences it implements | done |

How the modules are composed: `RoundRobin` uses `Processes` and `ProcessList`;
`ShellScheduler` takes `RoundRobin`'s handlers, and `PrioScheduler` takes both;
`ProcessTree` uses `Processes` and, in `MCProcessTree`, starts from the trees that
`TreeFile` parses. The abstract specifications are `Dispatcher` (sched and shell),
`Plotter` (mandel) and `TaskLists` (plist.c), each with a refinement that is checked.
Worth proving: the invariants of the schedulers and of the kindergarten, the ring of
Mandel, that every process of a tree is stopped when the root is woken, and that
fconc keeps its inputs and copies them in order, and that the pointers of plist.c do what
the schedulers' sequences do.

## 3. The modules

### Processes (external: the kernel)

A child is a record: `run` ("none", "running", "stopped", "zombie", "reaped"),
`event`, the last state change `waitpid` has not reported, `stop` and `kill`,
pending signals, and `raised`, whether the task has executed its
`raise(SIGSTOP)`. Both the schedulers and the process trees use it. `SendStop`, `SendCont`, `SendKill`, `TakeStop`, `Die`,
`Reported`... are what the kernel does to it, from the way the code uses it.
Three facts of POSIX matter: a SIGCONT cancels a pending SIGSTOP and the other
way round; a newer state change replaces one that was not waited for; a zombie
accepts signals until it is waited for.

### ProcessList (plist.c)

The circular list as the sequence that starts at the node `procs` points to:
`AppendToList` puts a pid behind the last node, `DeleteFromList` removes one and,
when it is the head, makes the next one the head; `Advance` is
`procs = procs->next`.

### PointerList and TaskLists (plist.c in memory)

`PointerList` is what the sequences stand for: `mem` has the nodes by their
addresses, with `next` and `prev`, and the two head pointers of prio; `malloc` gives
any free address. `append_to_list`, `BuryTask` (the two deletions of a handler),
`NextProcess` and `MoveTask` (append to one list, delete from the other) are its
steps; `Walk` is the loop that every look-up is. `TaskLists` has the same steps on
sequences of tasks, with `ProcessList`'s operators, and `ImplementsTaskLists` says
that the pointers do that, in particular that a task that changes lists is found
again, keeps its id and goes to the end.

### RoundRobin (scheduler.c)

One action per system-call step:

| code | actions |
|---|---|
| `main`, fork loop | `ForkTask`, `ForkFails` |
| `wait_for_ready_children` | `CollectReady` |
| `install_signal_handlers` | `InstallHandlers` |
| `main`'s `start_next_process` | `LoadFirst` (reads `procs->pid`), `StartFirst` (kill, alarm) |
| `sigalrm_handler` | `HandleAlarm` |
| `sigchld_handler` | `EnterChild`, then for each turn of its loop `WaitReports` or `WaitReportsNothing`, then `ReactContinued`, `ReactDied` or `ReactStopped` |
| the tasks | `TaskRaises`, `TaskExits`; the kernel: `TaskStops`, `TaskKilled` |
| timer, other processes | `TimerExpires`, `OutsideSignal` |

Each handler masks SIGCHLD and SIGALRM, so it is never interrupted by the other;
`main` is. `Early` and `Outside` are the signals other processes send to a task
before and after `main` pauses: they are the assumption each property needs.

### ShellScheduler (exer4/shell)

The handlers, the waits and the kernel are `RoundRobin`'s, by `INSTANCE`; what is
added is

| code | actions |
|---|---|
| `sched_create_shell`, `main`'s kill, its loop of `sched_create_task` | `ForkShell`, `StopShell`, `ForkTask` |
| `wait_for_ready_children(argc)` | `CollectReady` |
| `shell_request_loop` | `ReadRequest` (with `signals_disable`), `BeginRequest`, `EndRequest` (with `signals_enable`), `Answer` |
| `process_request` | a look-up or a fork in `BeginRequest`, then the kill or the `append_to_list` in `EndRequest`: children can die in between, the handlers cannot run |
| `shell.c` | `IssueRequest`, `ReceiveReply`, `TaskExits(Shell)` for `q` |

`loop` is where `main` is in all this; `Masked` says when the handlers cannot
start. `ids` are the serial numbers `plist.c` gives out and never reuses. Once the
shell is dead, reading its pipe ends and writing to it fails, and `main` only
pauses. Others do not signal the tasks here; that is `RoundRobin`'s business.

### PrioScheduler (exer4/prio)

`ShellScheduler` and `RoundRobin` with `low` for `procs`, plus `high` and
`current`. The three reactions of the handler, `HandleAlarm` and
`start_next_process` (`NextTask`, `StartNext`) are its own, and so is
`SetPriority`, the requests `h` and `l`: `MoveTask` appends to one list and deletes
from the other with the signals masked and without a system call, hence in one
step. `Rotate` follows the code: it turns `high` whenever there is one, even when
the task that stopped is not in it or not at its head.

### Dispatcher

The abstract round robin: a queue that processes join at any time and at most one
process on the processor, always the first. `RoundRobin!ImplementsDispatcher` and
`ShellScheduler!ImplementsDispatcher` say that the schedulers implement it, with
`queue <- procs` and `running` the tasks that run.

### Kgarten (kgarten.c)

A critical section of `kg->mutex` is one step, up to its unlock or its
`pthread_cond_wait`; the `pthread_cond_signal` after the unlock is a step of its
own. `child_enter`, `child_exit`, `teacher_enter`, `teacher_exit` are `ChildEnter`,
... ; the two `verify` of a loop are `Verify`; `asleep` is the set of threads in
`pthread_cond_wait`.

### Mandel (mandel.c, mandel2.c) and Plotter

`CreateThread`, `InitSem`, `Begin`, `Join` are `main`; `LoopHead`, `SemWait`,
`Draw`, `Post` are `thread_func`. `ahead`, which never changes, tells whether the
program is `mandel2.c`, so that a run checks both; `Height` is the number of lines the
threads of each have between them, which mandel2 rounds up. `MayWaitEarly` lets a thread reach `sem_wait` before `main` has reached its `sem_init`, and
`CreateMayFail` lets `pthread_create` fail. `Plotter` is the promise: the lines
of the picture from the top, one at a time.

### TreeFile (tree.c)

`GetTree(f)` is the tree that `get_tree_from_file` makes of a file, or the failure it
exits with. A file is a sequence of lines; the parser skips comments and empty lines
up to a block, takes the name, the number of children and their names, and goes on
into each child, whose block must be headed by its name. What the C library does with
a word (`atol`, cutting a name to 16 bytes, removing the last character) is given by
functions, so that a long name and a missing last newline are members of small sets.
`MCProcessTree` gives them their values, and has, for the properties, a reader of the
format as the headers of proc.tree and expr.tree describe it: blocks of lines between
empty lines and comments, one for each node, depth first. It uses none of the parser's
operators and none of those functions.

### ProcessTree (ask2-tree, ask2-signals, ask2-expr, ask2-expr-rv)

One module for the four programs; `program` tells which and never changes. A process
is the path of its node: `<<1>>` is the root, `<<1, 2>>` its second child, and
`<< >>` is `main`, which makes the same calls for its one child as a node for its own.

| code | actions |
|---|---|
| `fork_procs` or `main`: `pipe`, `fork` | `Start` (the head of the function), `Fork`, `ForkFails` |
| `wait_for_ready_children` with `explain_wait_status` | `WaitReady`, once for each child |
| `raise(SIGSTOP)`, then the kernel's SIGCONT | `RaiseStop`, `Awake` |
| the loop of `kill(SIGCONT)` and `waitpid` | `Wake`, `WaitKid` |
| the reads from the pipe | `ReadPipe`, `ReadEnd` |
| the computation, the write, `exit` | `Result`, `Write`, `Exit` |
| `main` | `Photo` (`show_pstree`), `MainEnds` |

`at` is where a process is, `i` its loop counter, `child` the state of each process
as its parent sees it, `got` the values it has from its children. Who holds the write
end of a pipe (`Writers`) follows from who is alive: descendants inherit it and none
closes it.

### Fconc (fconc.c, fconc2.c, defs.c, .old)

One action per system call: `Check` (the two `stat` of `check_if_same`), `OpenIn`,
`OpenOut` (with O_CREAT and O_TRUNC), `Read`, `WriteSome`, and each of their failures.
A name stands for an inode, several may stand for one, and `read` and `write` take
any part of what they are offered. `program` tells which of the two programs or
of the two earlier versions it is.

## 4. The runs

Runs without deadlock check are those whose program really may stop for ever or has
an end: after a failed fork (shell, prio), a failed thread creation or an early wait
(mandel), when `main` has returned (fconc), and in the process trees, where processes
whose parent failed stay stopped. In `PointerListRings` there is always a death that
changes nothing.

### The schedulers

* **RoundRobinSafety**: three tasks; others may send SIGSTOP at any moment and
  SIGKILL from the pause on. One runner, the list and the children agree,
  handlers do not fail, `ImplementsDispatcher`.
* **RoundRobinLive**: three tasks; others may send SIGCONT from the pause on, and
  tasks need not end. Then two tasks can run; `StraysAreStopped` says that they do
  not once the SIGCONTs end, `EveryTaskGetsItsTurn` that everyone gets a turn, and
  `SchedulerExits` that the scheduler ends when the tasks' work is finite.
* **ShellSchedulerSafety**: the shell, a program of the command line and one that
  a request starts; kills of the shell, of a task and of a task that may not exist
  yet. Masking keeps the handlers out of requests (`NothingFails`,
  `ListIsUnreaped`), kills are answered truthfully (`RepliesAreTrue`), every request
  is answered, and the scheduler still implements `Dispatcher`.
* **PrioSchedulerSafety**: the same processes, with requests that move the shell or
  the task. One runner, everyone in one list, HIGH first.
* **PrioSchedulerLive**: the shell and one task, both of which can become HIGH and
  change lists in the middle of their turns; `HighGetsProcessor`, `TurnsAreTaken`.
  That LOW tasks get turns beside HIGH ones is not promised and not true, and the
  answer to the request of a LOW shell may wait for ever.
* **PointerListRings**: five addresses, four pids, five tasks in all, in every order
  of creation, death, turn and move. `RingsAreSound` and `ImplementsTaskLists`. Five
  nodes are two lists of which one has a node that is neither the head nor one of its
  neighbours, or four tasks and the second node of the one that moves; all addresses
  are alike and all pids, so the run is symmetric in both.

Three tasks are enough for a task to be neither the head nor its successor nor
its predecessor; the models have no other counter than `cnt`, which stops at the
number of tasks, and `ids`, which ends with them. With two tasks the lists of
PrioSchedulerLive can still be in both orders, and the rotated list the one the
current task is not in.

*Fairness.* Weak fairness of `main`, of the entry of each handler, of its loop, of
the timer and of a task's reaction to its own pending signals: the kernel
delivers pending signals and schedules runnable processes. Where requests mask the
signals, the entries of the handlers are strongly fair, because a pending signal
is delivered as soon as it is unmasked; and `main` and the shell's reading of an
answer are, because a quantum of two seconds leaves them time between two
handlers. `FinitePrograms`, an assumption of `SchedulerExits` only, adds strong
fairness of a task's exit: `prog.c` sends a fixed number of messages, so a task
that is given the processor again and again finishes.

### Kgarten

* **KgartenSafety**: three children, two teachers, two children per teacher: a
  first teacher may leave beside one or two children and may not beside three, and
  several threads of either kind can sleep at once. Weak fairness of each
  thread's steps for `KeepsMoving`.
* **KgartenStarve**: one child, one teacher; a [finding](#6-findings).

### Mandel

* **MandelRing**: both programs with three threads and seven lines, so that the
  threads have different numbers of lines; threads may be missing or wait too
  early. What is drawn is in order in any case (`ImplementsPlotter`) and stops before
  the first line of a missing thread, and when `main` returns it is `y_chars` lines
  long, or as much longer as mandel2 may make it (`PictureIsRight`, which measures the
  picture by `y_chars` and not by the loops; mandel2 draws nine lines for seven).
  `IntactThreadsFinish` adds that the program ends when nothing of this happens. That
  `main` returns although a thread is missing takes at least as many threads as lines,
  so that nobody waits for the turn that is lost; the theorem covers it.
* **MandelEarlyWait**: a finding.

### The process trees

* **Trees**: the four programs on the files of exer2/helpcode (`proc.tree`,
  `expr.tree`, `bad.tree`), on eight more trees of up to five nodes, and on small
  files that are spoiled: a line lost, said twice or replaced, a comment or a name
  that is too long in the middle, no newline at the end, no file at all. Forks
  fail at any moment. `TreeIsTheFiles` compares the recursive parser with the
  reader of the documented format: a file that describes a tree is not refused, and
  of a file that has a number wherever a count belongs, and whose lines and names
  are within the limits of the code, only the tree it describes is made.
  `ReadyRecursively` is what `wait_for_ready_children` promises in its comment; `WakesInOrder` that the
  processes wake in the order in which the tree is printed; `ResultIsRight` that what
  `main` prints is the value of the expression, or its last eight bits;
  `NobodyLeft` and `AlwaysEnds` that `main` ends and, when it returns, has
  everybody buried. The trees are up to four levels deep and a node has up to
  three children: enough for a process that is neither first nor last, and for a
  grandchild that holds a pipe. The biggest value is 460, the only one that
  does not fit an exit status.

*Fairness.* Weak fairness of each process: the kernel schedules it when it can run.

### fconc

* **FconcFiles**: the two programs and the two earlier versions, one to three inputs
  among three names, of which two may stand for one file or for none. Files of up to
  three bytes with a buffer of two, so that a read, and then a write, takes a file in
  more than one part; the disk is full at a file of seven bytes, which the three
  inputs exceed. Every call may fail. `CopiesInOrder`, `KeepsFiles`, and, when the
  program is scheduled (weak fairness), `AlwaysEnds`: an output that is one of its
  own inputs grows while it is read, and ends with the disk.

## 5. The proofs

`SharedLemmas` is used by most of the others. Its first part is induction over numbers
in a form that needs no operator as a parameter: `SetInduction` speaks of a *set* that
contains 0 and the successors of its members, and follows from the library's facts on
well-founded relations. `Recursion` follows from it, that a step function on a set has
the function that repeats it: that is what a recursive definition over `0 .. n` means.
The rest is about sequences without repetitions (plist.c) and about the kernel.

### RoundRobinProofs

For every finite, non-empty set of tasks. `SharedLemmas` has the facts about
appending, deleting and advancing a sequence without repetitions.

* `ListInv` is inductive whatever others send: types, and that `procs` has each
  pid once and holds exactly the children that still have a pid, or whose death
  the handler has just learnt of. The latter is why `OneRunner` is not part of it.
  From it: `TypeCorrect`, `ListCorrect`, `NoHandlerFails`, and `NeverOvertaken`: a
  task that waits only moves towards the head of the list, which is only proved.
* `RunInv` needs `Undisturbed`: nobody sends SIGCONT, and before the pause at most
  SIGSTOP is sent. It says which children can be running, stopped or have an event
  at each place of `main` and of the handlers; above all that when a task other
  than the head is not stopped it is dead, and that the head is the only one with a
  running state or an unreported stop. From it: `SingleRunner`,
  `ReadyCountIsRight`, and, action by action, `Implementation` (every step is a
  `Dispatcher` step or a stutter).

### Exer3Proofs: the kindergarten

For every finite set of children and teachers and every ratio. `KInv` adds to the
properties that a sleeping child is at its entrance, a sleeping teacher inside, and
that only children signal on their way in. The lemma `LastAwake` is the heart:
when everyone else sleeps, no child is inside and every teacher is, so the
condition of the last one is false and it does not sleep. `VerifyHolds`, that no
`verify` ends the program, follows and is only proved.

### Exer3Proofs: Mandel

For every number of threads and of lines and both programs. `TInv` is the type
invariant with the range of `main`'s counter: no semaphore goes below zero. `RingInv`
is the ring: from the first `sem_post` of `main` on there is one thread `h` that has
the turn (`TurnAt`); its semaphore is the only one that can be above zero, it alone can
be at the screen, its next line is the lowest, the other threads are less than a round
ahead, and what has been drawn is exactly the lines before. That a post moves the turn
to `(h + 1) % N` is arithmetic about remainders, which has lemmas of its own. With
`Joined` (`main` has seen the end of every thread that was created) and `NoTurns` (a
missing thread has had no turn, so its first line is never drawn) it gives
`PictureTheorem`, and action by action `PlotterTheorem`: mandel implements `Plotter`,
whether threads are missing, wait too early or not.

### FconcProofs

For any files, any directory and any number of inputs; the assumptions say only that
the sizes are natural numbers and that a failed `stat` is no file. `TInv` adds to the
types what is open at each place: at a read the input it is at, at a write the output,
and, unless the program opens each input when it gets to it, every input once the loop
of `open_fin` is over. `FInv` splits a run of a program that checks in two:
`Untouched`, in which no file has changed and the inputs its loops have passed are
neither the output nor missing, and `Copying`, in which the output is open, is the file
its name stands for and none of the inputs. `OpenOut` is the one step from the first
to the second, and the place where a file that is created must be new to every name.
From it `InputsSurvive`, which is `KeepsFiles`.

`CopiedInOrder`, which is `CopiesInOrder`, needs more. `InputsInTurn` and `OutputInTurn`
say where each position and the output are, in all four versions. `Faithful` is the
copy: the output holds the inputs before the `k`-th, then as much of the `k`-th as its
position says without what is in the buffer and not written, and the buffer is the piece
of the input that ends at the position. A read extends the piece, a write moves
its beginning (`PieceOfPiece`, `OneMorePiece`), the end of an input carries the
whole of it over to the next `k`. An output that is one of its own inputs is excluded by
the property, as before. `Concatenated`, what the output must be, is a recursive
function; that it exists and does what its equations say is `SharedLemmas!Recursion`.

### PointerListProofs

For every finite set of addresses, any pids and any number of tasks. The code says
"ring" by a loop: go on by `next` until the head comes again. `Walk` is that loop, and
nothing about it is inductive by itself. The invariant is `PointersInv`: there are two
sequences of addresses `s`, one for each list, such that the memory holds them
(`Rings`: `next` and `prev` of the `i`-th node lead to its neighbours in the sequence, the
head pointer to the first, the two share no node and every other address is
`Freed`), and such that no two nodes have one pid (`OneNodeEach`).

* `WalkIs`: of a memory that holds a ring, the loop gives back the sequence; so the
  first node that a look-up finds is the first of the sequence (`FirstOfIs`).
* `AppendRing`, `DeleteRing`, `AdvanceRing`: what four assignments to pointers do to the
  sequence, with the cases that a test would have to hit one by one: an empty list, the
  only node, the head, the node before the head, two nodes whose neighbours are the
  same. `OneRingChanges` says that the other list stays.
* `CreateStep`, `BuryStep`, `TurnStep`, `SwitchStep`: the steps, each with the sequences
  after it. In `MoveTask` the task is for a moment in both lists under one pid, and
  `delete_from_list` looks in one of them only: `DeleteFinds` is that it finds the old
  node.

From it `RingsSound`, and `PointersImplementLists`: `View`, the tasks of the sequences, is
what `TaskLists` calls `tasks`, and each step is one of its steps or, when a pid is buried
that is in no list, a stutter.

### ShellSchedulerProofs

For every finite set of tasks, any number of programs on the command line and any
ids a user may type. What a handler does to the list and to the children is not
proved again: `RR` is an instance of `RoundRobinProofs` without signals of others, and
its lemmas hold of each step that is `RoundRobin`'s. What is new is a `main` that forks
and kills.

* `ShellInv`: the list holds the children that have a pid, but for a newcomer between
  its fork and its `append_to_list` and for the one whose death is being handled
  (`Listed`); requests and answers alternate, and nothing but a request in execution
  masks the handlers (`Phases`, `Requesting`); ids are unique and below `nextID`
  (`Numbered`). From it: `ListCorrect`, `RepliesCorrect`, `NoSystemCallFails`. Here
  masking is what the proof needs: between the two halves of a request the lists do not
  move, only the children do, and a child that dies is still a zombie that accepts a
  kill.
* `RunInv`: until the first task is started nothing runs but what stops itself, and
  afterwards only the head. The count of the shell's two stops is where the proof was
  not `RoundRobin`'s: what counts is that `nextID` never exceeds the number of forks
  `main` has tried, so that the count reaches `nproc` only when no fork failed. From
  it `Implementation`: each step is a `Dispatcher` step or a stutter.

### PrioSchedulerProofs

With the same assumptions. Until `main` has started its first task there are no
requests and no handlers, `high` is empty, and the program is `ShellScheduler` with
`low` for its list, so the invariants of that module are used as they are
(`StartInv`). From then on `LoopInv`: the two lists share the children that have a pid
without overlapping (`Shared`), and `current_pid` is in one of them and the only one
that runs (`Turn`), although a request may have moved it and the rotation may have turned
the other list. From it `ListsCorrect`, `SingleRunner`, `HighGoesFirst` (an action
property), `TypeCorrect` and `NoSystemCallFails`, which is only proved.

### ProcessTreeProofs

For every tree: any number of processes, in any shape, under each of the four
programs, with forks that fail at any moment. The only assumption on a tree is
`TreesAssumption`, that it is one: it has the nodes on the way to each node, a node of
`nr` children has the children 1 to `nr`, and what is in a name is a number for `atoi`.

* `StopInv` says of each process where it can be, what its parent can see of it, how
  many values it has, and (`Counted`) which children are stopped; and it contains
  `ReadyRecursively`, which speaks of all descendants at once: a process that stops
  knows that its children are stopped, and their descendants are by the invariant. So
  there is no induction over the tree. The heart is the count of
  `wait_for_ready_children`: it does not look at which child stopped, and `Waited`,
  the children whose stop was reported, has at least `i` members, so `Nr(p)` rounds
  mean all of them. From it: `TypeCorrect`, `ReadyTheorem`.
* `AwakeInv` is about the walk: whoever runs after its stop has every ancestor waiting
  for the child on its branch, up to `main` (`OnTheWay`), so there is one at a time; and
  a process that has waited for a child knows that its whole subtree has woken, has
  ended and was waited for (`Cleared`). Two paths neither of which goes on from the
  other part at a least place (`Parting`), which is what `Before` compares. From it:
  `WakeOrder` and `NobodyLeftTheorem`.
* `ValueInv` follows the values up the tree, for the two programs that have them.
  `Denotes(p, x)` says without recursion that the expression below `p` has the value
  `x`: some valuation of the nodes below `p` satisfies every node, and every one that
  does gives `p` the value `x`. `Answer(p, y)` adds that no operator below `p` is bad,
  and for ask2-expr-rv that `y` and `x` agree in their last eight bits, which sums and
  products preserve (`CombinedBits`). A process computes once it has the answers of its
  children (`ComputedAnswers`), so the run climbs the tree and no induction over it is
  needed. What has to be shown is that the values a process has taken, followed by those
  still in its pipe, are those of its children in order: `Gathered`, because only the
  child the parent waits for can write (`ParentWaits`); and that a process that fails
  leaves its parent one value short for good, in ask2-expr. In ask2-expr-rv the status
  of a failed process would be taken for a value; `Told` says that after a wake-up
  without bad operators there is none. From it: `ResultTheorem`, with `ValueIs`, which
  says that the recursive `ValueAt` is such a valuation if there is one.

The first attempt failed for a reason: the guards of the CASE in `StatusOf` overlapped,
so that for a process that fails in ask2-tree the status was one of two; they are
disjoint now.

### What stays with TLC

* Liveness under fairness, which is beyond this prover: `EveryTaskGetsItsTurn`,
  `StraysAreStopped`, `SchedulerExits`, `KeepsMoving`, `IntactThreadsFinish`,
  `AlwaysEnds` and the like; and the two findings of the runs.
* `TreeIsTheFiles`, the parser of exer2. `ParseNode` recurs once for each child over a
  tree that is not there yet, so it is a recursive operator, which no backend
  takes; and that a file describes no tree at all is checked over a set of sample
  trees. The proofs about the process trees begin where the parser ends: they
  hold for every tree (`TreesAssumption`), whether a file describes it or not.

Every other safety invariant, action property and refinement that a run checks is a
theorem.

## 6. Findings

* **kgarten, missed wake-ups** (`EveryoneReenters`). `teacher_enter` makes room for
  more children, and `child_exit` makes room and may let a teacher go, and neither
  signals anybody. A child that sleeps at the entrance is signalled by `teacher_exit`
  (kgarten.c:221), which is when there is no room. In the run's behaviour the child
  looks again at `vt = 0` each time and is asleep before the teacher is back, so it
  never re-enters; it would if it once looked while she is inside. She sleeps before
  she comes back (kgarten.c:291) and the child needs only the mutex, so nothing in the
  code works against this schedule.
* **mandel, early wait** (`ThreadsFinish`). `sem_init` of a thread's semaphore comes
  after the `pthread_create` of that thread (mandel.c:165-172): a thread that sleeps on
  it before is never woken.
Two disagreements with what the repository says have no run of their own; the
properties leave room for them, and no more:

* mandel2: "Output at the terminal is is x_chars wide by y_chars long" (mandel2.c:27),
  but every thread draws `ceil(y_chars / NTHREADS)` lines (mandel2.c:128), 51 together
  with the default arguments. In the module, `Heights`.
* exer2: the second line of a block is the "number of children" and "no comments are
  allowed within a block" (proc.tree:6,9), but `parse_node` takes `atol` of that line
  (tree.c:143), which is 0 for a line that is no number: the file `2`, `#` and an empty
  line is accepted, as a leaf named 2. In the module, `CountsAreNumbers`; without it
  TLC finds `TreeIsTheFiles` violated by that file.

## 7. Limits

*Seen in the models, without a run.* These are behaviours the code has and makes no
promise about; the actions are in the models and the properties are stated so as not to
claim more.

* exer4/sched: a task that dies between `wait_for_ready_children` and the
  installation of the handlers is never noticed; with `Early = {"KILL"}` TLC finds
  `SchedulerExits` violated. It has a second face: `main` reads `procs->pid` with its
  signals unmasked (scheduler.c:207), so the handlers may move the list before `main`
  continues the task it has read. `Undisturbed` excludes both.
* exer4/shell and prio: `main` counts on `argc` children whether or not their forks
  succeeded, and waits for ever for the missing one.
* exer2: when a fork or a process of the tree fails, `main` exits and the processes
  that are stopped already stay so. What the kernel does to them once their group is
  orphaned (SIGHUP, SIGCONT) is outside the model.
* exer2: a line as long as the parser's buffer ends the program, a name is cut to 15
  characters, and a last line without a newline loses its last character. All of it is
  in `TreeFile` and among the files of the run Trees; `WithinLimits` keeps it out of
  the properties.
* fconc does not look at what `close` returns, and compares inodes without their
  devices; the files of the model are on one device.

*Not modelled.*

* exer3/simplesync: every access to its one shared integer is an atomic instruction
  or a critical section; there is no interleaving to explore. (It returns `ok` as its
  exit status, which is 1 when the result is right.)
* exer3/mandel/mandel-lib.c: floating-point arithmetic and colours, without state or
  concurrency.
* exer1/zing, and the examples of exer2/helpcode other than its tree files, which are
  course material with lines to fill in.
* exer1/.old/.../fconc2.c closes `in[argc-2]`, beyond its array: its loop has lost its
  braces. What that does is undefined, and comes when everything has been written.
* `shell.c`'s parsing of command lines, `prog.c`'s messages, `pstree` and what
  `show_pstree` does when `system` fails (it exits with 104), the shared
  memory of `proc-common.c`, and everything that is printed, except for the order of
  Mandel's lines, the order in which processes wake and the results of expressions.
* Memory that runs out (but for fconc2's array), interrupted system calls (the handlers
  are installed with SA_RESTART), the reuse of pids, and the overflow of `int` in
  expressions and in `ratio * vt`.
