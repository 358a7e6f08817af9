------------------------------- MODULE Mandel -------------------------------
(***************************************************************************)
(* The parallel Mandelbrot programs of exer3/mandel: mandel.c and          *)
(* mandel2.c, which computes all the lines of a thread before the first is *)
(* drawn.  Thread t computes the lines t, t + N, t + 2N, ..., and the      *)
(* threads take turns at the terminal by a ring of semaphores.             *)
(*                                                                         *)
(* What a line looks like is left out: only its number matters.  Drawing   *)
(* a line takes many calls of write; it begins when sem_wait returns and   *)
(* ends in Draw.                                                           *)
(***************************************************************************)
EXTENDS Naturals, Sequences, FiniteSets, Functions

CONSTANTS N,          \* NTHREADS
          YChars,     \* y_chars
          MayWaitEarly,  \* a thread may call sem_wait before main's sem_init
          CreateMayFail  \* pthread_create may fail

ASSUME NAssumption == N \in Nat \ {0} /\ YChars \in Nat
ASSUME VariantAssumption ==
    MayWaitEarly \in BOOLEAN /\ CreateMayFail \in BOOLEAN

Threads == 0 .. N - 1

VARIABLES ahead,      \* the program is mandel2.c; never changes
          pc, i,      \* where main is and its loop counter
          sem,        \* the values of the semaphores
          at,         \* where each thread is
          turn,       \* how often each thread has gone round its loop
          screen      \* the lines on the terminal

mainvars == <<ahead, pc, i>>
vars == <<ahead, pc, i, sem, at, turn, screen>>

\* FAULT: without the (float), so that the division rounds down.
szTruncated == YChars \div N

\* ceil((float) y_chars / NTHREADS)
sz == (YChars + N - 1) \div N

\* Does thread t go round its loop for the (k+1)-st time?
More(t, k) == IF ahead THEN k < sz ELSE t + k * N < YChars

\* The line of the turn thread t is in.
Line(t) == t + turn[t] * N

\* The lines the threads have between them.
Height == IF ahead THEN sz * N ELSE YChars

TypeOK ==
    /\ ahead \in BOOLEAN
    /\ pc \in {"create", "init", "begin", "join", "done", "crashed", "failed"}
    /\ i \in 0 .. N
    /\ sem \in [Threads -> Nat]
    /\ at \in [Threads -> {"unborn", "missing", "loop", "wait", "lost", "draw", "post", "done"}]
    /\ turn \in [Threads -> Nat]
    /\ screen \in Seq(Nat)

Init ==
    /\ ahead \in BOOLEAN
    /\ pc = "create" /\ i = 0
    /\ sem = [t \in Threads |-> 0]
    /\ at = [t \in Threads |-> "unborn"]
    /\ turn = [t \in Threads |-> 0]
    /\ screen = << >>

----------------------------------------------------------------------------
(* main. *)

\* pthread_create reports a failure by a positive number, and main looks for a
\* negative one: it goes on without the thread.
CreateThread ==
    /\ pc = "create"
    /\ \E to \in {"loop"} \cup (IF CreateMayFail THEN {"missing"} ELSE {}) :
          at' = [at EXCEPT ![i] = to]
    /\ pc' = "init"
    /\ UNCHANGED <<ahead, i, sem, turn, screen>>

InitSem ==
    /\ pc = "init"
    /\ sem' = [sem EXCEPT ![i] = 0]
    /\ i' = i + 1
    /\ pc' = IF i' < N THEN "create" ELSE "begin"
    /\ UNCHANGED <<ahead, at, turn, screen>>

PostFirst == [sem EXCEPT ![0] = @ + 1]

Begin ==
    /\ pc = "begin"
    /\ sem' = PostFirst
    /\ i' = 0
    /\ pc' = "join"
    /\ UNCHANGED <<ahead, at, turn, screen>>

LastJoined == i' = N

\* The handle of a thread that was never created is not initialized: joining it
\* crashes, or fails, which is ignored.
Join ==
    /\ pc = "join"
    /\ \/ /\ at[i] \in {"done", "missing"}
          /\ i' = i + 1
          /\ pc' = IF LastJoined THEN "done" ELSE "join"
       \/ /\ at[i] = "missing"
          /\ pc' = "crashed"
          /\ UNCHANGED i
    /\ UNCHANGED <<ahead, sem, at, turn, screen>>

----------------------------------------------------------------------------
(* thread_func, while the process exists. *)

Up == pc \notin {"done", "crashed", "failed"}

Goes(t, from, to) == Up /\ at[t] = from /\ at' = [at EXCEPT ![t] = to]

\* The head of the loop, and the computation, which touches nothing shared.
LoopHead(t) ==
    /\ Goes(t, "loop", IF More(t, turn[t]) THEN "wait" ELSE "done")
    /\ UNCHANGED <<mainvars, sem, turn, screen>>

\* Memory that main has not yet passed to sem_init.
IsRaw(t) == pc \in {"create", "init"} /\ t >= i

SemWait(t) ==
    /\ ~IsRaw(t) /\ sem[t] > 0
    /\ Goes(t, "wait", "draw")
    /\ sem' = [sem EXCEPT ![t] = @ - 1]
    /\ UNCHANGED <<mainvars, turn, screen>>

\* On fresh memory, which is zero, sem_wait counts the thread as a sleeper and
\* blocks; the sem_init that follows forgets the count, and a later sem_post
\* sees nobody to wake.
RawWait(t) ==
    /\ MayWaitEarly /\ IsRaw(t)
    /\ Goes(t, "wait", "lost")
    /\ UNCHANGED <<mainvars, sem, turn, screen>>

Draw(t) ==
    /\ Goes(t, "draw", "post")
    /\ screen' = Append(screen, Line(t))
    /\ UNCHANGED <<mainvars, sem, turn>>

\* A write fails: exit(1).
DrawFails(t) ==
    /\ Up /\ at[t] = "draw"
    /\ pc' = "failed"
    /\ UNCHANGED <<ahead, i, sem, at, turn, screen>>

\* FAULT: signals the semaphore it waits for.
OwnSemaphore(t) == t

Successor(t) == (t + 1) % N

Post(t) ==
    /\ Goes(t, "post", "loop")
    /\ sem' = [sem EXCEPT ![Successor(t)] = @ + 1]
    /\ turn' = [turn EXCEPT ![t] = @ + 1]
    /\ UNCHANGED <<mainvars, screen>>

Exited == ~Up /\ UNCHANGED vars

----------------------------------------------------------------------------
Main == CreateThread \/ InitSem \/ Begin \/ Join

Step(t) == LoopHead(t) \/ SemWait(t) \/ RawWait(t) \/ Draw(t) \/ Post(t)

Next == Main \/ Exited \/ \E t \in Threads : Step(t) \/ DrawFails(t)

Spec == Init /\ [][Next]_vars

\* main and every thread that can run do run.
FairSpec == Spec /\ WF_vars(Main) /\ \A t \in Threads : WF_vars(Step(t))

----------------------------------------------------------------------------
(* Properties. *)

Drawing == {t \in Threads : at[t] = "draw"}

Missing == {t \in Threads : at[t] = "missing"}
Lost == {t \in Threads : at[t] = "lost"}

\* "Output at the terminal is is x_chars wide by y_chars long" (mandel.c:27), to which
\* mandel2.c may add a line for each thread but one (its sz is rounded up).
Heights == IF ahead THEN YChars .. YChars + N - 1 ELSE {YChars}

\* The lines come out in order, line 0 at the top and each next one below, at every
\* moment; the picture stops short of the first line of a thread that could not be
\* created, and when main returns it has come that far, or to its full height.
PictureIsRight ==
    /\ screen = [n \in 1 .. Len(screen) |-> n - 1]
    /\ \E full \in Heights :
          /\ \A m \in {full} \cup Missing : Len(screen) <= m
          /\ pc = "done" => Len(screen) \in {full} \cup Missing

\* "wait for threads to finish": they do finish, and main with them.
ThreadsFinish == <>(pc \in {"done", "failed"})

\* They do when every thread was created and found its semaphore initialized.
IntactThreadsFinish == [](Missing = {} /\ Lost = {}) => ThreadsFinish

\* The terminal shows what a single plotter would draw: no two lines are ever
\* drawn at once, and none out of turn.
P == INSTANCE Plotter WITH height <- Height, drawing <- {Line(t) : t \in Drawing}
ImplementsPlotter == P!PSpec
=============================================================================
