------------------------ MODULE ShellSchedulerProofs ------------------------
(***************************************************************************)
(* Proofs about ShellScheduler, for every set of tasks, every number of    *)
(* programs on the command line and every id a user may type.  What a      *)
(* handler does to the list is taken from the theorems about RoundRobin,   *)
(* of which the handlers are an instance; what is new is main, which forks *)
(* and kills between two handlers.                                         *)
(***************************************************************************)
EXTENDS ShellScheduler, SharedLemmas, FiniteSetTheorems

RR == INSTANCE RoundRobinProofs WITH Early <- {}, Outside <- {}

----------------------------------------------------------------------------
(* The inductive invariant. *)

\* The task of an exec between its fork and its append_to_list.
Newcomer == IF loop = "acting" /\ rq.op = "exec" THEN {target} ELSE {}

\* The list has the children the kernel knows, except the newcomer, and the one
\* whose death is being handled.
Listed ==
    /\ R!Up => /\ IsInjective(procs)
               /\ Range(procs) = {p \in Tasks \ Newcomer :
                                     \/ HasPid(child[p])
                                     \/ got = [pid |-> p, event |-> "exited"]}
    /\ R!Up /\ loop # "shell" => procs # << >>
    /\ RR!HandlerInv
    /\ pc = "kill" => arg \in Tasks

\* How far main is, and what that says of the handlers.
Phases ==
    /\ pc \in {"fork", "ready", "install", "load", "kill"} => loop \in {"shell", "stop", "tasks"}
    /\ loop \in {"shell", "stop"} => pc \in {"fork", "failed"}
    /\ pc = "fork" /\ loop = "tasks" => todo > 0
    /\ loop = "stop" => todo = NInitial
    /\ loop = "shell" => todo = NInitial
    /\ Masked => pc = "pause" /\ handler = "none"

\* One request is under way at a time, from IssueRequest to ReceiveReply.
Requesting ==
    /\ shellAt = "prompt" => rq = NoRequest /\ reply = "none"
    /\ rq # NoRequest => reply = "none"
    /\ loop \in {"masked", "acting", "answer"} => rq # NoRequest
    /\ loop = "acting" =>
          /\ target \in Tasks /\ HasPid(child[target])
          /\ \/ rq.op = "exec"
             \/ rq.op = "kill" /\ target \in Range(procs) /\ ids[target] = rq.id

\* An id belongs to one task for ever, and every task that was put into the list
\* has one.
Numbered ==
    /\ \A p \in Tasks : ids[p] < nextID
    /\ \A p, q \in Tasks : ids[p] = ids[q] /\ ids[p] # NoId => p = q
    /\ \A p \in Tasks : ids[p] = NoId <=> child[p].run = "none" \/ p \in Newcomer

ShellInv == TypeOK /\ Listed /\ Phases /\ Requesting /\ Numbered /\ RepliesAreTrue

----------------------------------------------------------------------------
(* What is RoundRobin's. *)

LEMMA RoundRobinAssumptions == RR!TasksAssumption /\ RR!OutsideAssumption
  <1>1. RR!TasksAssumption
    BY ShellAssumption DEF RR!TasksAssumption, RR!IsFiniteSet, IsFiniteSet
  <1>2. RR!OutsideAssumption
    BY Zenon DEF RR!OutsideAssumption
  <1> QED BY <1>1, <1>2

LEMMA SameTypes == R!TypeOK <=> RR!TypeOK
  BY DEF R!TypeOK, RR!TypeOK, R!Child, RR!Child, R!Got, RR!Got, R!NoPid, RR!NoPid

LEMMA Typed ==
    ASSUME TypeOK
    PROVE  /\ child \in [Tasks -> Child] /\ procs \in Seq(Tasks)
           /\ \A p \in Tasks : child[p] \in Child
           /\ sigchld \in BOOLEAN /\ sigalrm \in BOOLEAN /\ armed \in BOOLEAN
           /\ got.pid \in Tasks \cup {R!NoPid} /\ cnt \in Nat
           /\ got = [pid |-> got.pid, event |-> got.event]
  BY DEF TypeOK, R!TypeOK, R!Child, Child, R!Got

\* Outside of an exec, what Listed says is what RoundRobin's invariant says.
LEMMA AsRoundRobin ==
    ASSUME TypeOK, Listed, Newcomer = {}, loop # "shell"
    PROVE  RR!ListInv
  <1>1. RR!ListIsUnreaped
    BY DEF Listed, RR!ListIsUnreaped, R!Up, RR!Up, HasPid, RR!HasPid, Range, RR!Range,
           IsInjective, RR!IsInjective
  <1> QED BY <1>1, SameTypes DEF TypeOK, Listed, RR!ListInv, R!Up, RR!Up

LEMMA FromRoundRobin ==
    ASSUME RR!ListInv', Newcomer' = {}, pc' # "fork"
    PROVE  R!TypeOK' /\ Listed'
  <1>1. R!TypeOK'
    <2>1. RR!TypeOK'
      BY DEF RR!ListInv
    <2> QED BY <2>1 DEF R!TypeOK, RR!TypeOK, R!Child, RR!Child, R!Got, RR!Got, R!NoPid, RR!NoPid
  <1>2. RR!ListIsUnreaped'
    BY DEF RR!ListInv
  <1>3. R!Up' =>
          /\ IsInjective(procs')
          /\ Range(procs') = {p \in Tasks \ Newcomer' :
                                \/ HasPid(child'[p])
                                \/ got' = [pid |-> p, event |-> "exited"]}
    BY <1>2 DEF RR!ListIsUnreaped, R!Up, RR!Up, HasPid, RR!HasPid, Range, RR!Range,
                IsInjective, RR!IsInjective
  <1> QED BY <1>1, <1>3 DEF Listed, RR!ListInv, R!Up, RR!Up

LEMMA HandlersAreSteps == R!Handlers => RR!Handlers
  <1>1. R!HandleAlarm \/ R!EnterChild => RR!HandleAlarm \/ RR!EnterChild
    BY DEF R!HandleAlarm, RR!HandleAlarm, R!EnterChild, RR!EnterChild, R!Catching, RR!Catching,
           R!HasPid, RR!HasPid, R!SendStop, RR!SendStop
  <1>2. R!WaitReportsNothing => RR!WaitReportsNothing
    BY DEF R!WaitReportsNothing, RR!WaitReportsNothing, R!Catching, RR!Catching, R!HasPid,
           RR!HasPid, R!Reportable, RR!Reportable, R!AnyEvent, RR!AnyEvent
  <1>3. ASSUME NEW p \in Tasks, R!WaitReports(p) PROVE RR!WaitReports(p)
    BY <1>3 DEF R!WaitReports, RR!WaitReports, R!Catching, RR!Catching, R!HasPid, RR!HasPid,
           R!Reportable, RR!Reportable, R!Reported, RR!Reported, R!AnyEvent, RR!AnyEvent
  <1>4. R!ReactContinued => RR!ReactContinued
    BY DEF R!ReactContinued, RR!ReactContinued, R!Catching, RR!Catching, R!HasPid, RR!HasPid,
           R!SendStop, RR!SendStop, R!NextTurn, RR!NextTurn, R!Nothing, RR!Nothing, R!NoPid, RR!NoPid
  <1>5. R!ReactDied => RR!ReactDied
    BY DEF R!ReactDied, RR!ReactDied, R!Catching, RR!Catching, R!Start, RR!Start,
           R!SendCont, RR!SendCont, R!HasPid, RR!HasPid, R!ContNotifies, RR!ContNotifies,
           R!DeleteFromList, RR!DeleteFromList, R!NextTurn, RR!NextTurn, R!Nothing,
           RR!Nothing, R!NoPid, RR!NoPid, R!Range, RR!Range, R!RemoveAt, RR!RemoveAt,
           R!Position, RR!Position
  <1>6. R!ReactStopped => RR!ReactStopped
    BY DEF R!ReactStopped, RR!ReactStopped, R!Catching, RR!Catching, R!Start, RR!Start,
           R!SendCont, RR!SendCont, R!HasPid, RR!HasPid, R!ContNotifies, RR!ContNotifies,
           R!NextTurn, RR!NextTurn, R!Nothing, RR!Nothing, R!NoPid, RR!NoPid, R!Advance, RR!Advance
  <1> QED BY <1>1, <1>2, <1>3, <1>4, <1>5, <1>6
          DEF R!Handlers, RR!Handlers, R!ChildLoop, RR!ChildLoop, R!React, RR!React

LEMMA StartsAreSteps ==
    R!InstallHandlers \/ R!LoadFirst \/ R!StartFirst => RR!Main
  BY DEF R!InstallHandlers, RR!InstallHandlers, R!LoadFirst, RR!LoadFirst, R!StartFirst,
         RR!StartFirst, R!Start, RR!Start, R!SendCont, RR!SendCont, R!HasPid, RR!HasPid,
         R!ContNotifies, RR!ContNotifies, RR!Main

\* A step of RoundRobin keeps what Listed says.
LEMMA RoundRobinKeepsList ==
    ASSUME TypeOK, Listed, loop # "shell", Newcomer = {}, Newcomer' = {}, pc # "fork",
           RR!Handlers \/ RR!Main, pc' # "fork"
    PROVE  R!TypeOK' /\ Listed'
  <1>1. RR!ListInv /\ [RR!Next]_(RR!vars)
    BY AsRoundRobin DEF RR!Next
  <1>2. RR!ListInv'
    BY <1>1, RoundRobinAssumptions, RR!ListStep
  <1> QED BY <1>2, FromRoundRobin

----------------------------------------------------------------------------
(* What may happen to a child, but for its fork. *)

Doomed(c) == c.kill \/ c.run \in {"zombie", "reaped"}

Evolves(c, d) ==
    /\ HasPid(d) => HasPid(c)
    /\ d.run = "none" <=> c.run = "none"
    /\ Doomed(c) => Doomed(d)

LEMMA EvolutionFacts ==
    ASSUME NEW c \in Child
    PROVE  /\ Evolves(c, c) /\ Evolves(c, SendStop(c)) /\ Evolves(c, SendCont(c))
           /\ HasPid(c) => Evolves(c, SendKill(c)) /\ Doomed(SendKill(c))
           /\ CanRaise(c) => Evolves(c, Raise(c))
           /\ CanTakeStop(c) => Evolves(c, TakeStop(c))
           /\ CanExit(c) \/ CanTakeKill(c) => Evolves(c, Die(c))
           /\ HasPid(c) => Evolves(c, Reported(c))
  <1> USE DEF Child, Evolves, Doomed, HasPid
  <1>1. Evolves(c, SendStop(c)) /\ Evolves(c, SendCont(c))
    BY DEF SendStop, SendCont
  <1>2. HasPid(c) => Evolves(c, SendKill(c)) /\ Doomed(SendKill(c))
    <2>1. SendKill(c) = [c EXCEPT !.kill = Alive(c)] /\ SendKill(c).run = c.run
      BY DEF SendKill
    <2>2. SendKill(c).kill = Alive(c)
      BY DEF SendKill
    <2>3. HasPid(c) => Alive(c) \/ c.run = "zombie"
      BY DEF Alive
    <2> QED BY <2>1, <2>2, <2>3
  <1>3. /\ CanRaise(c) => Evolves(c, Raise(c))
        /\ CanTakeStop(c) => Evolves(c, TakeStop(c))
    BY DEF CanRaise, Raise, CanTakeStop, TakeStop
  <1>4. CanExit(c) \/ CanTakeKill(c) => Evolves(c, Die(c))
    BY DEF CanExit, CanTakeKill, Die, Alive
  <1>5. HasPid(c) => Evolves(c, Reported(c))
    BY DEF Reported
  <1> QED BY <1>1, <1>2, <1>3, <1>4, <1>5

LEMMA HandlersEvolve ==
    ASSUME TypeOK, Listed, loop # "shell", Newcomer = {}, RR!Handlers
    PROVE  \A p \in Tasks : Evolves(child[p], child'[p])
  <1>1. \A p \in Tasks :
           \/ child'[p] \in {child[p], SendStop(child[p]), SendCont(child[p])}
           \/ HasPid(child[p]) /\ child'[p] = Reported(child[p])
    <2>1. RR!ListInv
      BY AsRoundRobin
    <2>2. \A p \in Tasks :
             \/ child'[p] \in {child[p], RR!SendStop(child[p]), RR!SendCont(child[p])}
             \/ RR!HasPid(child[p]) /\ child'[p] = RR!Reported(child[p])
      BY <2>1, RoundRobinAssumptions, RR!HandlerSignals
    <2> QED BY <2>2 DEF RR!SendStop, SendStop, RR!SendCont, SendCont, RR!HasPid, HasPid,
                        RR!Reported, Reported
  <1> QED BY <1>1, Typed, EvolutionFacts

\* The steps of the children themselves, and of the timer.
LEMMA KernelSteps ==
    ASSUME TypeOK, Kernel \/ \E p \in Tasks : TaskExits(p)
    PROVE  /\ R!Up /\ UNCHANGED <<sched, requestvars>>
           /\ child' \in [Tasks -> Child]
           /\ sigchld' \in BOOLEAN /\ sigalrm' \in BOOLEAN /\ armed' \in BOOLEAN
           /\ ~armed => UNCHANGED <<sigalrm, armed>>
           /\ \/ sigchld' = sigchld
              \/ R!Catching /\ \E p \in Tasks : child[p].run = "running" \/ child[p].kill
           /\ \A p \in Tasks :
                 \/ child'[p] = child[p]
                 \/ CanRaise(child[p]) /\ child'[p] = Raise(child[p])
                 \/ CanTakeStop(child[p]) /\ child'[p] = TakeStop(child[p])
                 \/ (CanExit(child[p]) \/ CanTakeKill(child[p])) /\ child'[p] = Die(child[p])
  <1>0. /\ child \in [Tasks -> Child] /\ \A p \in Tasks : child[p] \in Child
        /\ sigchld \in BOOLEAN /\ sigalrm \in BOOLEAN /\ armed \in BOOLEAN
    BY Typed
  <1> DEFINE Moves(p) == child[p].run = "running" \/ child[p].kill
  <1>1. CASE R!TimerExpires /\ UNCHANGED requestvars
    BY <1>0, <1>1 DEF R!TimerExpires, R!sched, sched
  <1>2. ASSUME NEW p \in Tasks, NEW c \in Child, R!Becomes(p, c), UNCHANGED requestvars
        PROVE  /\ R!Up /\ UNCHANGED <<sched, requestvars>>
               /\ child' \in [Tasks -> Child] /\ child'[p] = c
               /\ sigchld' \in BOOLEAN /\ sigalrm' \in BOOLEAN /\ armed' \in BOOLEAN
               /\ UNCHANGED <<sigalrm, armed>>
               /\ sigchld' = sigchld \/ R!Catching
               /\ \A q \in Tasks \ {p} : child'[q] = child[q]
    BY <1>0, <1>2 DEF R!Becomes, R!sched, sched, R!Catching
  <1>3. ASSUME NEW p \in Tasks, R!TaskRaises(p), UNCHANGED requestvars
        PROVE  Moves(p) /\ CanRaise(child[p]) /\ R!Becomes(p, Raise(child[p])) /\ Raise(child[p]) \in Child
    BY <1>0, <1>3, ChildFacts DEF R!TaskRaises, R!CanRaise, CanRaise, R!Raise, Raise
  <1>4. ASSUME NEW p \in Tasks, R!TaskStops(p), UNCHANGED requestvars
        PROVE  Moves(p) /\ CanTakeStop(child[p]) /\ R!Becomes(p, TakeStop(child[p])) /\ TakeStop(child[p]) \in Child
    BY <1>0, <1>4, ChildFacts DEF R!TaskStops, R!CanTakeStop, CanTakeStop, R!TakeStop, TakeStop
  <1>5. ASSUME NEW p \in Tasks, R!TaskKilled(p) \/ R!TaskExits(p), UNCHANGED requestvars
        PROVE  /\ Moves(p)
               /\ CanTakeKill(child[p]) \/ CanExit(child[p])
               /\ R!Becomes(p, Die(child[p])) /\ Die(child[p]) \in Child
    BY <1>0, <1>5, ChildFacts DEF R!TaskKilled, R!CanTakeKill, CanTakeKill, R!TaskExits,
           R!CanExit, CanExit, R!Die, Die, R!Alive, Alive
  <1> QED BY <1>1, <1>2, <1>3, <1>4, <1>5 DEF Kernel, TaskExits

----------------------------------------------------------------------------
(* The invariant is kept. *)

LEMMA ShellAtFirst == Init => ShellInv
  <1> SUFFICES ASSUME Init PROVE ShellInv
    OBVIOUS
  <1>1. /\ procs = << >> /\ pc = "fork" /\ got = R!Nothing /\ handler = "none"
        /\ child = [p \in Tasks |-> Unborn] /\ cnt = 0 /\ arg = R!NoPid
        /\ ~sigchld /\ ~sigalrm /\ ~armed
    BY DEF Init, R!Init, R!Unborn, Unborn
  <1>2. Range(<< >>) = {} /\ IsInjective(<< >>)
    BY EmptySeq, LenProperties DEF Range, IsInjective
  <1>3. /\ NInitial \in Nat /\ IsFiniteSet(Tasks) /\ Cardinality(Tasks) \in Nat
        /\ sigchld = FALSE /\ sigalrm = FALSE /\ armed = FALSE
    BY ShellAssumption, FS_CardinalityType DEF Init, R!Init
  <1>4. R!TypeOK
    BY <1>1, <1>3, ForkFacts, EmptySeq DEF R!TypeOK, R!Got, R!Nothing, Child, R!Child
  <1>5. TypeOK
    BY <1>3, <1>4 DEF Init, TypeOK, NoId
  <1>6. nextID = 0
    <2>1. {p \in Tasks : ids[p] # NoId} = {}
      BY DEF Init
    <2> QED BY <2>1, FS_EmptySet DEF nextID
  <1>7. Newcomer = {} /\ \A p \in Tasks : ids[p] = -1 /\ child[p] = Unborn
    BY <1>1 DEF Init, Newcomer, NoId
  <1>8. Numbered
    BY <1>6, <1>7 DEF Numbered, NoId, Unborn
  <1>9. Listed
    BY <1>1, <1>2, <1>7, ForkFacts DEF Listed, RR!HandlerInv, R!Nothing, Init
  <1> QED BY <1>1, <1>5, <1>8, <1>9
          DEF ShellInv, Init, Phases, Requesting, RepliesAreTrue, Masked

LEMMA NumberOfIds ==
    ASSUME TypeOK
    PROVE  /\ IsFiniteSet({p \in Tasks : ids[p] # NoId})
           /\ nextID \in Nat /\ nextID <= Cardinality(Tasks) /\ Cardinality(Tasks) \in Nat
  BY ShellAssumption, FS_Subset, FS_CardinalityType DEF nextID

\* append_to_list of a process that is not in the list yet.
LEMMA EnlistFacts ==
    ASSUME TypeOK, NEW p \in Tasks, Enlist(p), ids[p] = NoId, p \notin Range(procs),
           IsInjective(procs),
           \A q \in Tasks : ids[q] < nextID,
           \A q, r \in Tasks : ids[q] = ids[r] /\ ids[q] # NoId => q = r
    PROVE  /\ procs' \in Seq(Tasks) /\ procs' # << >> /\ IsInjective(procs')
           /\ Range(procs') = Range(procs) \cup {p}
           /\ procs # << >> => Head(procs') = Head(procs)
           /\ ids' \in [Tasks -> NoId .. Cardinality(Tasks) - 1]
           /\ \A q \in Tasks : ids'[q] < nextID'
           /\ \A q, r \in Tasks : ids'[q] = ids'[r] /\ ids'[q] # NoId => q = r
           /\ \A q \in Tasks : ids'[q] = NoId <=> ids[q] = NoId /\ q # p
           /\ nextID' = nextID + 1
  <1> DEFINE S == {q \in Tasks : ids[q] # NoId}
  <1>1. /\ procs' \in Seq(Tasks) /\ procs' # << >> /\ IsInjective(procs')
        /\ Range(procs') = Range(procs) \cup {p}
        /\ procs # << >> => Head(procs') = Head(procs)
    BY Typed, AppendFacts DEF Enlist
  <1>2. /\ IsFiniteSet(S) /\ nextID = Cardinality(S) /\ nextID \in Nat
        /\ Cardinality(Tasks) \in Nat /\ p \notin S
    BY NumberOfIds DEF nextID
  <1>3. /\ Cardinality(S \cup {p}) = nextID + 1 /\ nextID + 1 <= Cardinality(Tasks)
    <2>1. Cardinality(S \cup {p}) = nextID + 1
      BY <1>2, FS_AddElement
    <2>2. Cardinality(S \cup {p}) <= Cardinality(Tasks)
      BY ShellAssumption, FS_Subset
    <2> QED BY <2>1, <2>2
  <1>4. ids \in [Tasks -> NoId .. Cardinality(Tasks) - 1]
    BY DEF TypeOK
  <1>5. \A q \in Tasks : ids'[q] = IF q = p THEN nextID ELSE ids[q]
    BY <1>4 DEF Enlist
  <1>6. ids' \in [Tasks -> NoId .. Cardinality(Tasks) - 1]
    BY <1>2, <1>3, <1>4 DEF Enlist, NoId
  <1>7. \A q \in Tasks : ids'[q] = NoId <=> ids[q] = NoId /\ q # p
    BY <1>2, <1>5 DEF NoId
  <1>8. nextID' = nextID + 1
    <2>1. {q \in Tasks : ids'[q] # NoId} = S \cup {p}
      BY <1>7
    <2>2. nextID' = Cardinality({q \in Tasks : ids'[q] # NoId})
      BY DEF nextID
    <2> QED BY <1>3, <2>1, <2>2
  <1>9. \A q \in Tasks : ids[q] \in Int
    BY <1>2, <1>4 DEF NoId
  <1>10. \A q \in Tasks : ids'[q] < nextID'
    BY <1>2, <1>5, <1>8, <1>9
  <1>11. \A q, r \in Tasks : ids'[q] = ids'[r] /\ ids'[q] # NoId => q = r
    BY <1>2, <1>5, <1>9
  <1> QED BY <1>1, <1>6, <1>7, <1>8, <1>10, <1>11

\* What a fork does to the children.
LEMMA ForkIs ==
    ASSUME TypeOK, NEW p \in Tasks, Fork(p)
    PROVE  /\ child' \in [Tasks -> Child]
           /\ child[p].run = "none" /\ child'[p] = Forked /\ HasPid(child'[p])
           /\ \A q \in Tasks \ {p} : child'[q] = child[q]
  BY Typed, ForkFacts DEF Fork

LEMMA RepliesKept ==
    ASSUME RepliesAreTrue, UNCHANGED <<ids, loop, rq, ret>>,
           \A p \in Tasks : Evolves(child[p], child'[p])
    PROVE  RepliesAreTrue'
  BY DEF RepliesAreTrue, Evolves, Doomed

\* Steps in which nobody is forked and nobody is numbered.
LEMMA NumbersKept ==
    ASSUME Numbered, UNCHANGED ids, Newcomer' = Newcomer,
           \A p \in Tasks : Evolves(child[p], child'[p])
    PROVE  Numbered'
  BY DEF Numbered, nextID, Evolves

\* The handlers, and main's own start_next_process.
LEMMA HandlersKeep ==
    ASSUME ShellInv, Handlers \/ StartUp PROVE ShellInv'
  <1> USE DEF ShellInv
  <1>1. CASE Handlers
    <2>1. RR!Handlers /\ UNCHANGED requestvars /\ ~Masked
      BY <1>1, HandlersAreSteps DEF Handlers
    <2>2. /\ pc \in {"load", "kill", "pause"} /\ pc' \in {pc, "done", "failed"}
      BY <2>1 DEF RR!Handlers, RR!HandleAlarm, RR!EnterChild, RR!ChildLoop, RR!React,
             RR!WaitReportsNothing, RR!WaitReports, RR!ReactContinued, RR!ReactDied,
             RR!ReactStopped, RR!Catching, RR!Start
    <2>3. Newcomer = {} /\ Newcomer' = {} /\ loop # "shell" /\ UNCHANGED <<loop, todo, shellAt, rq, target, ret, reply, ids>>
      BY <2>1, <2>2 DEF Masked, Newcomer, requestvars, Phases
    <2>4. R!TypeOK' /\ Listed'
      BY <2>1, <2>2, <2>3, RoundRobinKeepsList
    <2>5. TypeOK'
      BY <2>3, <2>4 DEF TypeOK
    <2>6. \A p \in Tasks : Evolves(child[p], child'[p])
      BY <2>1, <2>3, HandlersEvolve
    <2>7. Numbered' /\ RepliesAreTrue'
      BY <2>3, <2>6, NumbersKept, RepliesKept
    <2>8. Phases' /\ Requesting'
      BY <2>1, <2>2, <2>3 DEF Phases, Requesting, Masked
    <2> QED BY <2>4, <2>5, <2>7, <2>8
  <1>2. CASE StartUp
    <2>1. RR!Main /\ UNCHANGED <<ids, todo, shellAt, rq, target, ret, reply, procs, handler, got>>
      BY <1>2, StartsAreSteps DEF StartUp, R!StartFirst, R!InstallHandlers, R!LoadFirst, requestvars
    <2>2. /\ pc \in {"install", "load", "kill"} /\ pc' \in {"load", "kill", "pause", "failed"}
          /\ loop' = IF pc = "kill" THEN "read" ELSE loop
          /\ pc \in {"install", "load"} => pc' \in {"load", "kill"}
          /\ pc = "kill" => pc' \in {"pause", "failed"}
      BY <1>2 DEF StartUp, R!StartFirst, R!InstallHandlers, R!LoadFirst, R!Start, requestvars
    <2>3. loop = "tasks" /\ Newcomer = {} /\ Newcomer' = {}
      BY <2>2 DEF Phases, Newcomer
    <2>4. R!TypeOK' /\ Listed'
      BY <2>1, <2>2, <2>3, RoundRobinKeepsList
    <2>5. TypeOK'
      BY <2>1, <2>2, <2>3, <2>4 DEF TypeOK
    <2>6. \A p \in Tasks : child'[p] \in {child[p], SendCont(child[p])}
      BY <1>2, Typed DEF StartUp, R!InstallHandlers, R!LoadFirst, R!StartFirst, R!Start,
            R!SendCont, SendCont
    <2>7. Numbered'
      BY <2>1, <2>3, <2>6, Typed, EvolutionFacts, NumbersKept
    <2>8. Phases' /\ Requesting' /\ RepliesAreTrue'
      BY <2>1, <2>2, <2>3 DEF Phases, Requesting, Masked, RepliesAreTrue
    <2> QED BY <2>4, <2>5, <2>7, <2>8
  <1> QED BY <1>1, <1>2

\* A step that leaves the list, the handler and the numbers alone, and all pids.
LEMMA PidsKept ==
    ASSUME Listed, UNCHANGED <<procs, pc, handler, arg, loop, rq, target>>,
           got' = got \/ (got.event = "none" /\ got'.event = "none"),
           \A p \in Tasks : HasPid(child'[p]) <=> HasPid(child[p])
    PROVE  Listed'
  BY DEF Listed, R!Up, Newcomer, RR!HandlerInv, RR!HasPid, HasPid

LEMMA KernelKeeps ==
    ASSUME ShellInv, Kernel \/ \E p \in Tasks : TaskExits(p) PROVE ShellInv'
  <1> USE DEF ShellInv
  <1>1. /\ UNCHANGED <<procs, pc, cnt, arg, handler, got, requestvars>>
        /\ child' \in [Tasks -> Child]
        /\ sigchld' \in BOOLEAN /\ sigalrm' \in BOOLEAN /\ armed' \in BOOLEAN
        /\ \A p \in Tasks :
              \/ child'[p] = child[p]
              \/ CanRaise(child[p]) /\ child'[p] = Raise(child[p])
              \/ CanTakeStop(child[p]) /\ child'[p] = TakeStop(child[p])
              \/ (CanExit(child[p]) \/ CanTakeKill(child[p])) /\ child'[p] = Die(child[p])
    BY KernelSteps DEF sched
  <1>2. \A p \in Tasks : Evolves(child[p], child'[p])
    BY <1>1, Typed, EvolutionFacts
  <1>3. \A p \in Tasks : HasPid(child'[p]) <=> HasPid(child[p])
    BY <1>1, Typed, ChildFacts
  <1>4. R!TypeOK'
    BY <1>1 DEF TypeOK, R!TypeOK, R!Child, Child, R!Got
  <1>5. TypeOK' /\ Phases'
    BY <1>1, <1>4 DEF TypeOK, requestvars, Phases, Masked
  <1>6. Listed'
    BY <1>1, <1>3, PidsKept DEF requestvars
  <1>7. Numbered' /\ RepliesAreTrue'
    BY <1>1, <1>2, NumbersKept, RepliesKept DEF requestvars, Newcomer
  <1>8. Requesting'
    BY <1>1, <1>3 DEF Requesting, requestvars
  <1> QED BY <1>5, <1>6, <1>7, <1>8

LEMMA ForksKeep ==
    ASSUME ShellInv, ForkShell \/ StopShell \/ ForkTask PROVE ShellInv'
  <1> USE DEF ShellInv
  <1>0. /\ pc = "fork" /\ R!Up /\ handler = "none" /\ got.event = "none"
        /\ UNCHANGED <<cnt, arg, handler, got, sigchld, sigalrm, armed, shellAt, rq, target, ret, reply>>
        /\ loop \in {"shell", "stop", "tasks"} /\ Newcomer = {} /\ Newcomer' = {}
        /\ loop' \in {"shell", "stop", "tasks"}
    BY DEF ForkShell, StopShell, ForkTask, R!Up, Listed, RR!HandlerInv, Phases, Newcomer
  <1>1. ASSUME NEW p \in Tasks, Fork(p), Enlist(p),
               loop' \in {"stop", "tasks"}, pc' \in {"fork", "ready"},
               todo' \in 0 .. NInitial
        PROVE  TypeOK' /\ Listed' /\ Numbered'
    <2>1. /\ child' \in [Tasks -> Child]
          /\ child[p].run = "none" /\ child'[p] = Forked /\ HasPid(child'[p])
          /\ \A q \in Tasks \ {p} : child'[q] = child[q]
      BY <1>1, ForkIs
    <2>2. p \notin Range(procs) /\ IsInjective(procs) /\ ids[p] = NoId
      BY <1>0, <2>1 DEF Listed, Numbered, HasPid
    <2>3. /\ procs' \in Seq(Tasks) /\ procs' # << >> /\ IsInjective(procs')
          /\ Range(procs') = Range(procs) \cup {p}
          /\ ids' \in [Tasks -> NoId .. Cardinality(Tasks) - 1]
          /\ \A q \in Tasks : ids'[q] < nextID'
          /\ \A q, r \in Tasks : ids'[q] = ids'[r] /\ ids'[q] # NoId => q = r
          /\ \A q \in Tasks : ids'[q] = NoId <=> ids[q] = NoId /\ q # p
      BY <1>1, <2>2, EnlistFacts DEF Numbered
    <2>4. R!TypeOK'
      BY <1>0, <1>1, <2>1, <2>3 DEF TypeOK, R!TypeOK, R!Child, Child, R!Got
    <2>5. TypeOK'
      BY <1>0, <1>1, <2>3, <2>4 DEF TypeOK
    <2>6. Listed'
      BY <1>0, <1>1, <2>1, <2>3 DEF Listed, RR!HandlerInv, R!Up
    <2>7. Numbered'
      BY <1>0, <2>1, <2>3, ForkFacts DEF Numbered
    <2> QED BY <2>5, <2>6, <2>7
  <1>2. ASSUME UNCHANGED <<procs, ids>>, \A p \in Tasks : child'[p] \in {child[p], SendStop(child[p])},
               child' \in [Tasks -> Child],
               pc' \in {"fork", "ready", "failed"}, loop # "shell" \/ pc' = "failed",
               loop' \in {loop, "tasks"}, todo' \in 0 .. NInitial
        PROVE  TypeOK' /\ Listed' /\ Numbered'
    <2>1. R!TypeOK'
      BY <1>0, <1>2 DEF TypeOK, R!TypeOK, R!Child, Child, R!Got
    <2>2. \A p \in Tasks : Evolves(child[p], child'[p]) /\ (HasPid(child'[p]) <=> HasPid(child[p]))
      <3> SUFFICES ASSUME NEW p \in Tasks
                   PROVE  Evolves(child[p], child'[p]) /\ (HasPid(child'[p]) <=> HasPid(child[p]))
        OBVIOUS
      <3>1. child[p] \in Child /\ child'[p] \in {child[p], SendStop(child[p])}
        BY <1>2, Typed
      <3> QED BY <3>1, EvolutionFacts, SignalFacts
    <2>3. TypeOK'
      BY <1>0, <1>2, <2>1 DEF TypeOK
    <2>4. Listed'
      BY <1>0, <1>2, <2>2 DEF Listed, RR!HandlerInv, R!Up
    <2> QED BY <1>0, <1>2, <2>2, <2>3, <2>4, NumbersKept
  <1>3. Shell \in Tasks /\ NInitial \in Nat /\ todo \in 0 .. NInitial
    BY ShellAssumption DEF TypeOK
  <1>4. child \in [Tasks -> Child] /\ \A p \in Tasks : child[p] \in Child
    BY Typed
  <1>5. TypeOK' /\ Listed' /\ Numbered' /\ Phases'
    <2>1. CASE ForkShell
      <3>1. /\ loop = "shell" /\ UNCHANGED todo /\ todo = NInitial
        BY <2>1 DEF ForkShell, Phases
      <3>2. CASE Fork(Shell) /\ Enlist(Shell) /\ loop' = "stop" /\ UNCHANGED pc
        BY <1>0, <1>1, <1>3, <3>1, <3>2 DEF Phases, Masked
      <3>3. CASE pc' = "failed" /\ UNCHANGED <<child, procs, ids, loop>>
        BY <1>0, <1>2, <1>3, <1>4, <3>1, <3>3 DEF Phases, Masked
      <3> QED BY <2>1, <3>2, <3>3 DEF ForkShell
    <2>2. CASE StopShell
      <3>1. /\ loop = "stop" /\ loop' = "tasks" /\ UNCHANGED <<procs, ids, todo>>
            /\ child' = [child EXCEPT ![Shell] = SendStop(@)]
            /\ pc' = IF todo = 0 THEN "ready" ELSE "fork"
        BY <2>2 DEF StopShell
      <3>2. /\ child' \in [Tasks -> Child]
            /\ \A p \in Tasks : child'[p] \in {child[p], SendStop(child[p])}
        BY <1>3, <1>4, <3>1, SignalFacts
      <3>3. TypeOK' /\ Listed' /\ Numbered'
        BY <1>2, <1>3, <3>1, <3>2
      <3> QED BY <1>0, <1>3, <3>1, <3>3 DEF Phases, Masked
    <2>3. CASE ForkTask
      <3>1. /\ loop = "tasks" /\ UNCHANGED loop /\ todo' = todo - 1 /\ todo > 0
            /\ pc' = IF todo' = 0 THEN "ready" ELSE "fork"
        BY <2>3 DEF ForkTask, Phases
      <3>2. todo' \in 0 .. NInitial
        BY <1>3, <3>1
      <3>3. TypeOK' /\ Listed' /\ Numbered'
        <4>1. CASE \E p \in Tasks \ {Shell} : Fork(p) /\ Enlist(p)
          BY <1>1, <3>1, <3>2, <4>1
        <4>2. CASE UNCHANGED <<child, procs, ids>>
          BY <1>2, <1>4, <3>1, <3>2, <4>2
        <4> QED BY <2>3, <4>1, <4>2 DEF ForkTask
      <3> QED BY <1>0, <1>3, <3>1, <3>2, <3>3 DEF Phases, Masked
    <2> QED BY <2>1, <2>2, <2>3
  <1>6. Requesting' /\ RepliesAreTrue'
    BY <1>0 DEF Requesting, RepliesAreTrue
  <1> QED BY <1>5, <1>6

LEMMA CollectKeeps ==
    ASSUME ShellInv, NEW p \in Tasks, CollectReady(p) PROVE ShellInv'
  <1> USE DEF ShellInv
  <1>0. /\ pc = "ready" /\ R!Up /\ handler = "none" /\ got.event = "none"
        /\ UNCHANGED <<procs, arg, handler, got, sigchld, sigalrm, armed, requestvars>>
        /\ HasPid(child[p]) /\ child[p].event \in {"stopped", "exited"}
        /\ loop = "tasks"
    BY DEF CollectReady, Reportable, R!Up, Listed, RR!HandlerInv, Phases
  <1>1. /\ child' = [child EXCEPT ![p] = Reported(child[p])]
        /\ IF child[p].event = "stopped"
           THEN cnt' = cnt + 1 /\ pc' = IF cnt' = nproc THEN "install" ELSE "ready"
           ELSE pc' = "failed" /\ UNCHANGED cnt
    BY DEF CollectReady
  <1>2. /\ Reported(child[p]) \in Child /\ child' \in [Tasks -> Child]
        /\ child[p].event = "stopped" => \A q \in Tasks : HasPid(child'[q]) <=> HasPid(child[q])
        /\ \A q \in Tasks : Evolves(child[q], child'[q])
    BY <1>0, <1>1, Typed, ReportFacts, EvolutionFacts
  <1>3. R!TypeOK'
    BY <1>0, <1>1, <1>2 DEF TypeOK, R!TypeOK, R!Child, Child, R!Got
  <1>4. TypeOK'
    BY <1>0, <1>3 DEF TypeOK, requestvars
  <1>5. Listed'
    BY <1>0, <1>1, <1>2 DEF Listed, R!Up, RR!HandlerInv, requestvars, Newcomer
  <1>6. Numbered' /\ RepliesAreTrue'
    BY <1>0, <1>2, NumbersKept, RepliesKept DEF requestvars, Newcomer
  <1>7. Phases' /\ Requesting'
    BY <1>0, <1>1 DEF Phases, Requesting, Masked, requestvars
  <1> QED BY <1>4, <1>5, <1>6, <1>7

\* The steps of main's loop and of the shell that touch no child and no list.
LEMMA TalkingKeeps ==
    ASSUME ShellInv, ReadRequest \/ Answer \/ ShellSteps PROVE ShellInv'
  <1> USE DEF ShellInv
  <1>1. /\ UNCHANGED <<kernel, sched, ids, todo, target, ret>>
        /\ loop # "acting" /\ loop' # "acting" /\ (loop = "shell" => loop' = "shell")
    BY DEF ReadRequest, Answer, ShellSteps, IssueRequest, ReceiveReply, Looping, ShellRuns,
           Requesting
  <1>2. R!TypeOK'
    BY <1>1 DEF TypeOK, R!TypeOK, kernel, sched
  <1>3. TypeOK'
    BY <1>1, <1>2 DEF TypeOK, ReadRequest, Answer, ShellSteps, IssueRequest, ReceiveReply
  <1>4. Listed'
    BY <1>1 DEF Listed, R!Up, RR!HandlerInv, RR!HasPid, Newcomer, kernel, sched
  <1>5. Numbered'
    BY <1>1 DEF Numbered, nextID, Newcomer, kernel
  <1>6. Phases'
    BY <1>1 DEF Phases, Masked, ReadRequest, Answer, ShellSteps, IssueRequest, ReceiveReply,
                Looping, kernel, sched
  <1>7. Requesting'
    BY <1>1 DEF Requesting, ReadRequest, Answer, ShellSteps, IssueRequest, ReceiveReply, Looping,
                Requests, NoRequest
  <1>8. RepliesAreTrue'
    <2>1. CASE loop' = "answer"
      <3>1. UNCHANGED <<rq, loop, child>>
        BY <1>1, <2>1 DEF ReadRequest, Answer, ShellSteps, IssueRequest, ReceiveReply, kernel,
                          Requesting
      <3> QED BY <1>1, <3>1 DEF RepliesAreTrue
    <2> QED BY <2>1 DEF RepliesAreTrue
  <1> QED BY <1>3, <1>4, <1>5, <1>6, <1>7, <1>8

\* Between two handlers nothing is being handled: the list is that of the pids.
LEMMA Quiet ==
    ASSUME ShellInv, Masked
    PROVE  /\ pc = "pause" /\ handler = "none" /\ got.event = "none" /\ R!Up
           /\ IsInjective(procs) /\ procs # << >>
           /\ Range(procs) = {p \in Tasks \ Newcomer : HasPid(child[p])}
  BY DEF ShellInv, Phases, Masked, Listed, RR!HandlerInv, R!Up

LEMMA BeginKeeps ==
    ASSUME ShellInv, BeginRequest PROVE ShellInv'
  <1> USE DEF ShellInv
  <1>0. /\ loop = "masked" /\ pc = "pause" /\ handler = "none" /\ Newcomer = {}
        /\ UNCHANGED <<sched, sigchld, sigalrm, armed, ids, todo, shellAt, rq, reply>>
        /\ rq # NoRequest
    BY DEF BeginRequest, Looping, Newcomer, Requesting
  <1>1. /\ got.event = "none" /\ R!Up /\ procs # << >> /\ IsInjective(procs)
        /\ Range(procs) = {p \in Tasks : HasPid(child[p])}
    BY <1>0, Quiet DEF Masked
  <1>2. CASE rq.op = "exec" /\ loop' = "acting"
    <2>1. PICK p \in Tasks : Fork(p) /\ target' = p /\ UNCHANGED ret
      BY <1>2 DEF BeginRequest, BeginKill, BeginExec, PrintTasks, Return
    <2>2. /\ child' \in [Tasks -> Child]
          /\ child[p].run = "none" /\ child'[p] = Forked /\ HasPid(child'[p])
          /\ \A q \in Tasks \ {p} : child'[q] = child[q]
      BY <2>1, ForkIs
    <2>3. Newcomer' = {p}
      BY <1>0, <1>2, <2>1 DEF Newcomer
    <2>4. R!TypeOK'
      BY <1>0, <2>2 DEF TypeOK, R!TypeOK, R!Child, Child, R!Got, sched
    <2>5. TypeOK'
      BY <1>0, <1>2, <2>1, <2>4 DEF TypeOK
    <2>6. Listed'
      BY <1>0, <1>1, <1>2, <2>2, <2>3 DEF Listed, R!Up, RR!HandlerInv, sched, HasPid
    <2>7. Numbered'
      BY <1>0, <2>2, <2>3, ForkFacts DEF Numbered, nextID
    <2> QED BY <1>0, <1>2, <2>1, <2>2, <2>5, <2>6, <2>7
            DEF Phases, Masked, Requesting, RepliesAreTrue, sched
  <1>3. CASE rq.op # "exec" \/ loop' # "acting"
    <2>1. /\ UNCHANGED child /\ loop' \in {"acting", "answer"} /\ Newcomer' = {}
          /\ target' \in Tasks \cup {R!NoPid} /\ ret' \in {"ok", "error"}
          /\ loop' = "acting" => rq.op = "kill"
      BY <1>0, <1>1, <1>3 DEF BeginRequest, BeginKill, BeginExec, PrintTasks, Return, Newcomer,
             PidFromId, TypeOK
    <2>2. TypeOK'
      BY <1>0, <2>1 DEF TypeOK, R!TypeOK, sched
    <2>3. Listed' /\ Numbered' /\ Phases'
      BY <1>0, <1>1, <2>1 DEF Listed, R!Up, RR!HandlerInv, RR!HasPid, Numbered, nextID, Phases,
             Masked, sched
    <2>4. Requesting'
      BY <1>0, <1>1, <2>1 DEF Requesting, BeginRequest, BeginKill, BeginExec, PrintTasks, Return,
             PidFromId, sched
    <2>5. RepliesAreTrue'
      <3> SUFFICES ASSUME loop' = "answer", rq.op = "kill"
                   PROVE  ret' = "error" /\ \A p \in Tasks : ids[p] = rq.id => ~HasPid(child[p])
        BY <1>0, <2>1 DEF RepliesAreTrue
      <3>1. PidFromId(procs) = {} /\ ret' = "error"
        BY DEF BeginRequest, BeginKill, BeginExec, PrintTasks, Return
      <3> QED BY <1>1, <3>1 DEF PidFromId
    <2> QED BY <2>2, <2>3, <2>4, <2>5
  <1> QED BY <1>2, <1>3

LEMMA EndKeeps ==
    ASSUME ShellInv, EndRequest PROVE ShellInv' /\ pc' = "pause"
  <1> USE DEF ShellInv
  <1>0. /\ loop = "acting" /\ pc = "pause" /\ handler = "none" /\ rq # NoRequest
        /\ target \in Tasks /\ HasPid(child[target])
        /\ UNCHANGED <<cnt, arg, handler, got, sigchld, sigalrm, armed, todo, shellAt, rq, reply>>
        /\ ret' = "ok" /\ loop' = "answer" /\ target' = R!NoPid /\ Newcomer' = {}
    BY DEF EndRequest, Looping, Newcomer, Requesting
  <1>1. /\ got.event = "none" /\ R!Up /\ procs # << >> /\ IsInjective(procs)
        /\ Range(procs) = {p \in Tasks \ Newcomer : HasPid(child[p])}
    BY <1>0, Quiet DEF Masked
  <1>2. CASE rq.op = "kill"
    <2>1. /\ target \in Range(procs) /\ ids[target] = rq.id /\ Newcomer = {}
          /\ child' = [child EXCEPT ![target] = SendKill(child[target])] /\ UNCHANGED <<pc, procs, ids>>
      BY <1>0, <1>2 DEF EndRequest, Requesting, Newcomer
    <2>2. /\ child' \in [Tasks -> Child] /\ Doomed(child'[target])
          /\ \A q \in Tasks : /\ Evolves(child[q], child'[q])
                              /\ HasPid(child'[q]) <=> HasPid(child[q])
      BY <1>0, <2>1, Typed, SignalFacts, EvolutionFacts
    <2>3. R!TypeOK'
      BY <1>0, <2>1, <2>2 DEF TypeOK, R!TypeOK, R!Child, Child, R!Got
    <2>4. TypeOK'
      BY <1>0, <2>1, <2>3 DEF TypeOK
    <2>5. Listed'
      BY <1>0, <1>1, <2>1, <2>2 DEF Listed, R!Up, RR!HandlerInv
    <2>6. Numbered'
      BY <1>0, <2>1, <2>2, NumbersKept
    <2>7. RepliesAreTrue'
      <3>1. ids[target] # NoId
        BY <1>0, <2>1 DEF Numbered, HasPid
      <3>2. \A p \in Tasks : ids[p] = rq.id => p = target
        BY <1>0, <2>1, <3>1 DEF Numbered
      <3> QED BY <1>0, <2>1, <2>2, <3>2 DEF RepliesAreTrue, Doomed
    <2> QED BY <1>0, <2>1, <2>4, <2>5, <2>6, <2>7 DEF Phases, Masked, Requesting
  <1>3. CASE rq.op # "kill"
    <2>1. rq.op = "exec" /\ Newcomer = {target} /\ Enlist(target) /\ UNCHANGED <<child, pc>>
      BY <1>0, <1>3 DEF EndRequest, Newcomer
    <2>2. target \notin Range(procs) /\ ids[target] = NoId
      BY <1>0, <1>1, <2>1 DEF Numbered
    <2>3. /\ procs' \in Seq(Tasks) /\ procs' # << >> /\ IsInjective(procs')
          /\ Range(procs') = Range(procs) \cup {target}
          /\ ids' \in [Tasks -> NoId .. Cardinality(Tasks) - 1]
          /\ \A q \in Tasks : ids'[q] < nextID'
          /\ \A q, r \in Tasks : ids'[q] = ids'[r] /\ ids'[q] # NoId => q = r
          /\ \A q \in Tasks : ids'[q] = NoId <=> ids[q] = NoId /\ q # target
      BY <1>0, <1>1, <2>1, <2>2, EnlistFacts DEF Numbered
    <2>4. R!TypeOK'
      BY <1>0, <2>1, <2>3 DEF TypeOK, R!TypeOK, R!Got
    <2>5. TypeOK'
      BY <1>0, <2>3, <2>4 DEF TypeOK
    <2>6. Listed'
      BY <1>0, <1>1, <2>1, <2>3 DEF Listed, R!Up, RR!HandlerInv
    <2>7. Numbered'
      BY <1>0, <2>1, <2>3 DEF Numbered, HasPid
    <2> QED BY <1>0, <2>1, <2>5, <2>6, <2>7 DEF Phases, Masked, Requesting, RepliesAreTrue
  <1> QED BY <1>2, <1>3

LEMMA ShellStep == ShellInv /\ [Next]_vars => ShellInv'
  <1> SUFFICES ASSUME ShellInv, [Next]_vars PROVE ShellInv'
    OBVIOUS
  <1>1. CASE UNCHANGED vars
    BY <1>1 DEF vars, kernel, sched, requestvars, ShellInv, TypeOK, R!TypeOK, Listed, R!Up, Newcomer,
                RR!HandlerInv, RR!HasPid, Phases, Masked, Requesting, Numbered, nextID, RepliesAreTrue
  <1>2. CASE Exited
    <2>1. UNCHANGED vars
      BY <1>2 DEF Exited, R!Exited, R!vars, vars, kernel, sched
    <2> QED BY <1>1, <2>1
  <1>3. CASE Start
    BY <1>3, ForksKeep, HandlersKeep, CollectKeeps DEF Start
  <1>4. CASE RequestLoop
    BY <1>4, TalkingKeeps, BeginKeeps, EndKeeps DEF RequestLoop
  <1> QED BY <1>1, <1>2, <1>3, <1>4, HandlersKeep, TalkingKeeps, KernelKeeps DEF Next, Main

LEMMA ShellInvariance == Spec => []ShellInv
  BY ShellAtFirst, ShellStep, PTL DEF Spec

\* The variables keep their types.
THEOREM TypeCorrect == Spec => []TypeOK
  <1>1. ShellInv => TypeOK
    BY DEF ShellInv
  <1> QED BY <1>1, ShellInvariance, PTL

\* The list and the kernel agree on which children are left, whatever the user asks
\* for and whenever a fork fails.
THEOREM ListCorrect == Spec => []ListIsUnreaped
  <1>1. ShellInv => ListIsUnreaped
    BY DEF ShellInv, Listed, ListIsUnreaped, Newcomer, R!ListIsUnreaped, R!HasPid, HasPid,
           R!Range, Range, R!IsInjective, IsInjective
  <1> QED BY <1>1, ShellInvariance, PTL

\* No user is told that a task was killed that lives on, nor that a task that lives
\* does not exist.
THEOREM RepliesCorrect == Spec => []RepliesAreTrue
  <1>1. ShellInv => RepliesAreTrue
    BY DEF ShellInv
  <1> QED BY <1>1, ShellInvariance, PTL

LEMMA StepFailsNot ==
    ASSUME ShellInv, [Next]_vars, pc = "pause" PROVE pc' # "failed"
  <1>1. CASE Handlers
    <2>1. RR!Handlers /\ ~Masked
      BY <1>1, HandlersAreSteps DEF Handlers
    <2>2. RR!ListInv
      BY <2>1, AsRoundRobin DEF ShellInv, Newcomer, Masked, Phases
    <2> QED BY <2>1, <2>2, RoundRobinAssumptions, RR!HandlerNeverFails DEF RR!Next
  <1>2. CASE EndRequest
    BY <1>2, EndKeeps
  <1>3. CASE Start
    BY <1>3 DEF Start, ForkShell, StopShell, ForkTask, StartUp, R!InstallHandlers, R!LoadFirst,
                R!StartFirst, CollectReady
  <1>4. CASE ReadRequest \/ BeginRequest \/ Answer \/ ShellSteps
    BY <1>4 DEF ReadRequest, BeginRequest, Answer, ShellSteps, IssueRequest, ReceiveReply, sched
  <1>5. CASE Kernel \/ \E p \in Tasks : TaskExits(p)
    BY <1>5, KernelSteps DEF ShellInv, sched
  <1>6. CASE Exited \/ UNCHANGED vars
    BY <1>6 DEF Exited, R!Exited, R!vars, vars, sched
  <1> QED BY <1>1, <1>2, <1>3, <1>4, <1>5, <1>6 DEF Next, Main, RequestLoop

\* Once main has started, no kill of a handler or of a request misses: nobody is
\* reaped between the look-up of a pid and the signal it gets.
THEOREM NoSystemCallFails == Spec => NothingFails
  <1> QED BY StepFailsNot, ShellInvariance, PTL DEF Spec, NothingFails

----------------------------------------------------------------------------
(* One task at a time. *)

\* A child that runs the program it was forked for.
Runs(c) == c.run = "running" /\ c.raised

\* The children wait_for_ready_children has counted so far.
Counted(R1) == /\ Cardinality(R1) = cnt
               /\ \A p \in R1 : child[p].run = "stopped" /\ child[p].event # "stopped"

\* Until main starts the first task nothing happens but that the children stop; the
\* count of stops reaches nproc only when no fork has failed.  From then on the head
\* of the list alone runs.
RunInv ==
    /\ R!Up /\ pc # "pause" =>
          /\ handler = "none" /\ ~sigchld /\ ~sigalrm /\ ~armed
          /\ \A p \in Tasks : Fresh(child[p])
    /\ \A p \in Tasks : Honest(child[p])
    /\ pc = "fork" => cnt = 0
    /\ pc \in {"fork", "ready"} =>
          nextID <= IF loop = "shell" THEN 0 ELSE nproc - todo
    /\ pc = "ready" => \E R1 \in SUBSET Tasks : Counted(R1)
    /\ pc \in {"install", "load", "kill"} =>
          \A p \in Tasks : child[p].run \in {"none", "stopped"}
    /\ pc = "kill" => arg = Head(procs)
    /\ pc = "pause" => \A p \in Tasks : Runs(child[p]) => p = Head(procs)
    /\ handler = "react" /\ got.event = "stopped" => child[got.pid].run # "running"

LEMMA RunAtFirst == Init => RunInv
  <1> SUFFICES ASSUME Init PROVE RunInv
    OBVIOUS
  <1>1. /\ pc = "fork" /\ handler = "none" /\ cnt = 0 /\ loop = "shell"
        /\ ~sigchld /\ ~sigalrm /\ ~armed
        /\ \A p \in Tasks : child[p] = Unborn /\ ids[p] = NoId
    BY DEF Init, R!Init, R!Unborn, Unborn
  <1>2. nextID = 0
    <2>1. {p \in Tasks : ids[p] # NoId} = {}
      BY <1>1
    <2> QED BY <2>1, FS_EmptySet DEF nextID
  <1> QED BY <1>1, <1>2, FreshFacts, HonestFacts DEF RunInv

\* The forks: the number of ids given never exceeds the number of forks main has tried.
LEMMA ForksRun ==
    ASSUME ShellInv, RunInv, ForkShell \/ StopShell \/ ForkTask PROVE RunInv'
  <1> USE DEF ShellInv
  <1>0. /\ pc = "fork" /\ cnt = 0 /\ handler = "none" /\ ~sigchld /\ ~sigalrm /\ ~armed
        /\ \A q \in Tasks : Fresh(child[q])
        /\ UNCHANGED <<cnt, arg, handler, got, sigchld, sigalrm, armed>>
        /\ pc' \in {"fork", "ready", "failed"} /\ (pc' = "ready" => loop' = "tasks")
    BY DEF ForkShell, StopShell, ForkTask, R!Up, RunInv
  <1>1. /\ Shell \in Tasks /\ NInitial \in Nat /\ nextID \in Nat /\ todo \in 0 .. NInitial
        /\ loop \in {"shell", "stop"} => todo = NInitial
        /\ nproc = NInitial + 1
    BY ShellAssumption, NumberOfIds DEF Phases, TypeOK, nproc
  <1>2. \A q \in Tasks : child[q] \in Child /\ Honest(child[q])
    BY Typed DEF RunInv
  <1>3. ASSUME NEW p \in Tasks, Fork(p), Enlist(p) PROVE nextID' = nextID + 1
    <2>1. p \notin Range(procs) /\ IsInjective(procs) /\ ids[p] = NoId
      BY <1>0, <1>3 DEF Fork, Listed, Numbered, HasPid, R!Up, RR!HandlerInv
    <2> QED BY <1>3, <2>1, EnlistFacts DEF Numbered
  <1>4. \A q \in Tasks : Fresh(child'[q]) /\ Honest(child'[q])
    <2>1. \A q \in Tasks : child'[q] \in {child[q], SendStop(child[q]), Forked}
      BY <1>1, Typed DEF ForkShell, StopShell, ForkTask, Fork
    <2> QED BY <1>0, <1>2, <2>1, FreshFacts, HonestFacts
  <1>5. pc' \in {"fork", "ready"} => nextID' <= IF loop' = "shell" THEN 0 ELSE nproc - todo'
    <2>1. CASE ForkShell /\ pc' # "failed"
      <3>1. Fork(Shell) /\ Enlist(Shell) /\ loop = "shell" /\ loop' = "stop" /\ UNCHANGED <<pc, todo>>
        BY <1>0, <2>1 DEF ForkShell
      <3>2. nextID' = nextID + 1
        BY <1>1, <1>3, <3>1
      <3> QED BY <1>0, <1>1, <3>1, <3>2 DEF RunInv
    <2>2. CASE StopShell
      <3>1. nextID' = nextID /\ loop = "stop" /\ loop' = "tasks" /\ UNCHANGED todo
        BY <2>2 DEF StopShell, nextID
      <3> QED BY <1>0, <1>1, <3>1 DEF RunInv
    <2>3. CASE ForkTask
      <3>1. loop = "tasks" /\ loop' = "tasks" /\ todo' = todo - 1
        BY <2>3 DEF ForkTask
      <3>2. nextID' = nextID \/ nextID' = nextID + 1
        BY <2>3, <1>3 DEF ForkTask, nextID
      <3>3. nextID <= nproc - todo
        BY <1>0, <3>1 DEF RunInv
      <3> QED BY <1>1, <3>1, <3>2, <3>3
    <2> QED BY <2>1, <2>2, <2>3, <1>0
  <1>6. Counted({})'
    BY <1>0, FS_EmptySet DEF Counted
  <1> QED BY <1>0, <1>4, <1>5, <1>6 DEF RunInv

\* wait_for_ready_children: when it has counted nproc stops, each child forked has
\* been counted, for there are no more than nproc of them.
LEMMA CollectRuns ==
    ASSUME ShellInv, RunInv, NEW p \in Tasks, CollectReady(p) PROVE RunInv'
  <1> USE DEF ShellInv
  <1>0. /\ pc = "ready" /\ handler = "none" /\ ~sigchld /\ ~sigalrm /\ ~armed
        /\ \A q \in Tasks : Fresh(child[q])
        /\ UNCHANGED <<procs, arg, handler, got, sigchld, sigalrm, armed, requestvars>>
        /\ HasPid(child[p]) /\ child[p].event = "stopped"
        /\ loop = "tasks" /\ Newcomer = {}
    BY DEF CollectReady, Reportable, R!Up, RunInv, Phases, Fresh, Newcomer
  <1>1. /\ child' = [child EXCEPT ![p] = Reported(child[p])]
        /\ cnt' = cnt + 1 /\ pc' = IF cnt' = nproc THEN "install" ELSE "ready"
    BY <1>0 DEF CollectReady
  <1>2. \A q \in Tasks : child[q] \in Child /\ Honest(child[q])
    BY Typed DEF RunInv
  <1>3. /\ \A q \in Tasks : Fresh(child'[q]) /\ Honest(child'[q])
        /\ \A q \in Tasks \ {p} : child'[q] = child[q]
        /\ child'[p].run = "stopped" /\ child'[p].event = "none"
        /\ \A q \in Tasks : child'[q].run = "none" <=> child[q].run = "none"
    <2>1. /\ Fresh(Reported(child[p])) /\ Honest(Reported(child[p]))
          /\ Reported(child[p]).run = "stopped" /\ Reported(child[p]).event = "none"
      BY <1>0, <1>2, FreshFacts, HonestFacts, ReportFacts
    <2>2. child[p].run = "stopped"
      BY <1>0 DEF Fresh
    <2>3. \A q \in Tasks : child'[q] = IF q = p THEN Reported(child[p]) ELSE child[q]
      BY <1>1, Typed
    <2> QED BY <1>0, <1>2, <2>1, <2>2, <2>3
  <1>4. PICK R1 \in SUBSET Tasks : Counted(R1)
    BY <1>0 DEF RunInv
  <1>5. IsFiniteSet(R1) /\ p \notin R1
    BY <1>0, <1>4, ShellAssumption, FS_Subset DEF Counted
  <1>6. Counted(R1 \cup {p})'
    BY <1>1, <1>3, <1>4, <1>5, FS_AddElement DEF Counted
  <1>7. nextID \in Nat /\ nextID <= nproc /\ nextID' = nextID
    <2>1. nextID <= nproc - todo /\ todo \in 0 .. NInitial /\ nextID \in Nat
      BY <1>0, NumberOfIds DEF RunInv, TypeOK
    <2>2. NInitial \in Nat /\ nproc = NInitial + 1
      BY ShellAssumption DEF nproc
    <2>3. nextID' = nextID
      BY <1>0 DEF nextID, requestvars
    <2> QED BY <2>1, <2>2, <2>3
  <1>8. ASSUME pc' = "install" PROVE \A q \in Tasks : child'[q].run \in {"none", "stopped"}
    <2> DEFINE Born == {q \in Tasks : ids[q] # NoId}
    <2>1. IsFiniteSet(Born) /\ Cardinality(Born) = nextID
      BY NumberOfIds DEF nextID
    <2>2. \A q \in Tasks : q \in Born <=> child'[q].run # "none"
      BY <1>0, <1>3 DEF Numbered
    <2>3. R1 \cup {p} \in SUBSET Born
      BY <1>6, <2>2 DEF Counted
    <2>4. Cardinality(R1 \cup {p}) = nproc
      BY <1>1, <1>6, <1>8 DEF Counted
    <2>5. Cardinality(R1 \cup {p}) <= Cardinality(Born)
      BY <2>1, <2>3, FS_Subset
    <2>6. Cardinality(Born) = Cardinality(R1 \cup {p})
      BY <1>7, <2>1, <2>4, <2>5, ShellAssumption DEF nproc
    <2>7. Born = R1 \cup {p}
      BY <2>1, <2>3, <2>6, FS_Subset
    <2> QED BY <1>6, <2>2, <2>7 DEF Counted
  <1>9. R1 \cup {p} \in SUBSET Tasks
    OBVIOUS
  <1>10. nextID' <= nproc - todo'
    BY <1>0, <1>7 DEF RunInv, requestvars
  <1>11. pc' \in {"ready", "install"} /\ loop' = "tasks"
    BY <1>0, <1>1 DEF requestvars
  <1> QED BY <1>0, <1>3, <1>6, <1>8, <1>9, <1>10, <1>11 DEF RunInv

\* The children move by themselves towards a stop or the end.
LEMMA KernelRuns ==
    ASSUME ShellInv, RunInv, Kernel \/ \E p \in Tasks : TaskExits(p) PROVE RunInv'
  <1> USE DEF ShellInv
  <1>1. /\ R!Up /\ UNCHANGED <<procs, pc, cnt, arg, handler, got, ids, loop, todo>>
        /\ ~armed => UNCHANGED <<sigalrm, armed>>
        /\ \/ sigchld' = sigchld
           \/ R!Catching /\ \E p \in Tasks : child[p].run = "running" \/ child[p].kill
        /\ \A p \in Tasks :
              \/ child'[p] = child[p]
              \/ CanRaise(child[p]) /\ child'[p] = Raise(child[p])
              \/ CanTakeStop(child[p]) /\ child'[p] = TakeStop(child[p])
              \/ (CanExit(child[p]) \/ CanTakeKill(child[p])) /\ child'[p] = Die(child[p])
    BY KernelSteps DEF sched, requestvars
  <1>2. \A p \in Tasks : child[p] \in Child /\ Honest(child[p])
    BY Typed DEF RunInv
  <1>3. \A p \in Tasks : Honest(child'[p])
    BY <1>1, <1>2, HonestFacts
  <1>4. \A p \in Tasks : /\ child'[p].run = "running" => child'[p] = child[p]
                         /\ Fresh(child[p]) => Fresh(child'[p])
                         /\ Fresh(child[p]) /\ child[p].run # "running" => child'[p] = child[p]
    <2> SUFFICES ASSUME NEW p \in Tasks
                 PROVE  /\ child'[p].run = "running" => child'[p] = child[p]
                        /\ Fresh(child[p]) => Fresh(child'[p])
                        /\ Fresh(child[p]) /\ child[p].run # "running" => child'[p] = child[p]
      OBVIOUS
    <2>1. /\ Raise(child[p]).run = "stopped" /\ TakeStop(child[p]).run = "stopped"
          /\ Die(child[p]).run = "zombie"
      BY <1>2 DEF Raise, TakeStop, Die, Child
    <2>2. CanRaise(child[p]) \/ CanTakeStop(child[p]) => child[p].run = "running"
      BY DEF CanRaise, CanTakeStop
    <2> QED BY <1>1, <1>2, <2>1, <2>2, FreshFacts
  <1>5. pc # "pause" => /\ handler' = "none" /\ ~sigalrm' /\ ~armed' /\ ~sigchld'
                        /\ \A p \in Tasks : Fresh(child'[p])
    <2> SUFFICES ASSUME pc # "pause"
                 PROVE  /\ handler' = "none" /\ ~sigalrm' /\ ~armed' /\ ~sigchld'
                        /\ \A p \in Tasks : Fresh(child'[p])
      OBVIOUS
    <2>1. /\ handler = "none" /\ ~sigchld /\ ~sigalrm /\ ~armed
          /\ \A p \in Tasks : Fresh(child[p])
      BY <1>1 DEF RunInv
    <2>2. R!Catching => ~\E p \in Tasks : child[p].run = "running" \/ child[p].kill
      BY <2>1 DEF R!Catching, RunInv, Fresh
    <2> QED BY <1>1, <1>4, <2>1, <2>2
  <1>6. pc = "ready" => \E R1 \in SUBSET Tasks : Counted(R1)'
    <2> SUFFICES ASSUME pc = "ready" PROVE \E R1 \in SUBSET Tasks : Counted(R1)'
      OBVIOUS
    <2>1. \A p \in Tasks : Fresh(child[p])
      BY <1>1 DEF RunInv
    <2>2. PICK R1 \in SUBSET Tasks : Counted(R1)
      BY DEF RunInv
    <2>3. Counted(R1)'
      BY <1>1, <1>4, <2>1, <2>2 DEF Counted
    <2> QED BY <2>3
  <1>7. pc \in {"install", "load", "kill"} => \A p \in Tasks : child'[p].run \in {"none", "stopped"}
    <2> SUFFICES ASSUME pc \in {"install", "load", "kill"}
                 PROVE  \A p \in Tasks : child'[p] = child[p] /\ child[p].run \in {"none", "stopped"}
      OBVIOUS
    <2> QED BY <1>1, <1>4 DEF RunInv
  <1>8. pc = "pause" => \A p \in Tasks : Runs(child'[p]) => p = Head(procs)
    BY <1>4 DEF RunInv, Runs
  <1>9. handler = "react" /\ got.event = "stopped" => child'[got.pid].run # "running"
    BY <1>4 DEF RunInv, Listed, RR!HandlerInv
  <1>10. nextID' = nextID
    BY <1>1 DEF nextID
  <1> QED BY <1>1, <1>3, <1>5, <1>6, <1>7, <1>8, <1>9, <1>10 DEF RunInv

\* kill(p, SIGCONT): only p can be running after it that did not run before.
LEMMA StartIs ==
    ASSUME TypeOK, NEW p \in Tasks, NEW where, R!Start(p, where),
           \A q \in Tasks : Honest(child[q])
    PROVE  /\ pc' \in {where, "failed"}
           /\ \A q \in Tasks : Honest(child'[q])
           /\ \A q \in Tasks \ {p} : child'[q] = child[q]
  <1>1. child' \in {child, [child EXCEPT ![p] = SendCont(child[p])]}
    BY DEF R!Start, R!SendCont, SendCont
  <1>2. child \in [Tasks -> Child] /\ \A q \in Tasks : child[q] \in Child
    BY Typed
  <1>3. \A q \in Tasks : Honest(child'[q])
    BY <1>1, <1>2, HonestFacts
  <1> QED BY <1>1, <1>2, <1>3 DEF R!Start

LEMMA StartUpRuns ==
    ASSUME ShellInv, RunInv, StartUp PROVE RunInv'
  <1> USE DEF ShellInv
  <1>1. CASE R!InstallHandlers \/ R!LoadFirst
    <2>1. /\ UNCHANGED <<child, procs, cnt, handler, got, sigchld, sigalrm, armed>>
          /\ pc \in {"install", "load"} /\ pc' \in {"load", "kill"}
          /\ pc' = "kill" => arg' = Head(procs)
      BY <1>1 DEF R!InstallHandlers, R!LoadFirst
    <2> QED BY <2>1 DEF RunInv, R!Up, Counted
  <1>2. CASE R!StartFirst
    <2>1. /\ UNCHANGED <<procs, handler, got>> /\ handler = "none" /\ pc = "kill"
          /\ R!Start(arg, "pause") /\ arg = Head(procs) /\ arg \in Tasks
          /\ \A p \in Tasks : child[p].run \in {"none", "stopped"} /\ Honest(child[p])
      BY <1>2 DEF R!StartFirst, RunInv, Listed
    <2>2. /\ pc' \in {"pause", "failed"}
          /\ \A q \in Tasks : Honest(child'[q])
          /\ \A q \in Tasks \ {arg} : child'[q] = child[q]
      BY <2>1, StartIs
    <2> QED BY <2>1, <2>2 DEF RunInv, R!Up, Runs
  <1> QED BY <1>1, <1>2 DEF StartUp

\* What has to be shown of a step of a handler or of a request.
LEMMA StillOne ==
    ASSUME pc = "pause", pc' \in {"pause", "done", "failed"},
           \A p \in Tasks : Honest(child'[p]),
           pc' = "pause" => \A p \in Tasks : Runs(child'[p]) => p = Head(procs'),
           handler' = "react" /\ got'.event = "stopped" => child'[got'.pid].run # "running"
    PROVE  RunInv'
  BY DEF RunInv, R!Up

LEMMA HandlersRun ==
    ASSUME ShellInv, RunInv, Handlers PROVE RunInv'
  <1> USE DEF ShellInv
  <1>0. /\ R!Handlers /\ UNCHANGED requestvars
        /\ pc = "pause" /\ R!Up /\ loop # "shell" /\ Newcomer = {}
    BY DEF Handlers, R!Handlers, R!HandleAlarm, R!EnterChild, R!ChildLoop, R!React,
           R!WaitReportsNothing, R!WaitReports, R!ReactContinued, R!ReactDied,
           R!ReactStopped, R!Catching, R!Up, RunInv, Phases, Newcomer, Masked
  <1>1. /\ \A p \in Tasks : child[p] \in Child /\ Honest(child[p])
        /\ \A p \in Tasks : Runs(child[p]) => p = Head(procs)
        /\ child \in [Tasks -> Child] /\ procs \in Seq(Tasks)
    BY <1>0, Typed DEF RunInv
  <1>2. /\ procs # << >> /\ Head(procs) \in Tasks /\ IsInjective(procs)
        /\ Range(procs) = {p \in Tasks : HasPid(child[p]) \/ got = [pid |-> p, event |-> "exited"]}
    BY <1>0, <1>1, HeadFacts DEF Listed
  <1>3. ASSUME NEW p \in Tasks, child' = [child EXCEPT ![p] = SendStop(child[p])]
        PROVE  \A q \in Tasks : Honest(child'[q]) /\ (Runs(child'[q]) <=> Runs(child[q]))
    BY <1>1, <1>3, SignalFacts, HonestFacts DEF Runs
  <1>4. CASE R!HandleAlarm
    <2>1. /\ UNCHANGED <<procs, handler, got>> /\ handler = "none" /\ pc' \in {pc, "failed"}
          /\ child' \in {child, [child EXCEPT ![Head(procs)] = SendStop(child[Head(procs)])]}
      BY <1>4 DEF R!HandleAlarm, R!SendStop, SendStop
    <2> QED BY <2>1, <1>0, <1>1, <1>2, <1>3, StillOne
  <1>5. CASE R!EnterChild \/ R!WaitReportsNothing
    <2>1. UNCHANGED <<child, procs>> /\ handler' # "react" /\ pc' \in {pc, "failed"}
      BY <1>5 DEF R!EnterChild, R!WaitReportsNothing
    <2> QED BY <2>1, <1>0, <1>1, StillOne
  <1>6. ASSUME NEW p \in Tasks, R!WaitReports(p) PROVE RunInv'
    <2>1. /\ UNCHANGED <<procs, pc>> /\ got' = [pid |-> p, event |-> child[p].event]
          /\ child' = [child EXCEPT ![p] = Reported(child[p])] /\ HasPid(child[p])
      BY <1>6 DEF R!WaitReports, R!Reported, Reported, R!Reportable, R!HasPid, HasPid
    <2>2. \A q \in Tasks : Honest(child'[q]) /\ (Runs(child'[q]) => Runs(child[q]))
      <3>1. Honest(Reported(child[p])) /\ (Runs(Reported(child[p])) => Runs(child[p]))
        BY <1>1, HonestFacts DEF Reported, Runs, Child
      <3> QED BY <1>1, <2>1, <3>1
    <2>3. child[p].event = "stopped" => child'[p].run = "stopped"
      BY <1>1, <2>1, ReportFacts DEF Honest
    <2> QED BY <2>1, <2>2, <2>3, <1>0, <1>1, StillOne
  <1>7. CASE R!ReactContinued
    <2>1. /\ UNCHANGED procs /\ handler' = "wait" /\ pc' \in {pc, "failed"} /\ got.pid \in Tasks
          /\ child' \in {child, [child EXCEPT ![got.pid] = SendStop(child[got.pid])]}
      BY <1>7 DEF R!ReactContinued, R!SendStop, SendStop, R!NextTurn, Listed, RR!HandlerInv
    <2> QED BY <2>1, <1>0, <1>1, <1>3, StillOne
  <1>8. CASE R!ReactDied
    <2>1. /\ handler' = "wait" /\ procs' = DeleteFromList(procs, got.pid)
          /\ got.event = "exited" /\ got.pid \in Tasks /\ ~HasPid(child[got.pid])
      BY <1>8 DEF R!ReactDied, R!NextTurn, Listed, RR!HandlerInv, RR!HasPid, HasPid,
            R!DeleteFromList, DeleteFromList, R!Range, Range, R!RemoveAt, RemoveAt, R!Position, Position
    <2>2. got.pid \in Range(procs)
      BY <1>2, <2>1, Typed
    <2>3. /\ procs' \in Seq(Tasks)
          /\ got.pid # Head(procs) => procs' # << >> /\ Head(procs') = Head(procs)
      BY <1>1, <1>2, <2>1, <2>2, DeleteFacts
    <2>4. ~Runs(child[got.pid])
      BY <2>1 DEF Runs, HasPid
    <2>5. CASE procs' = << >>
      <3>1. child' = child /\ pc' = "done"
        BY <1>8, <2>5 DEF R!ReactDied
      <3> QED BY <3>1, <2>1, <1>0, <1>1, StillOne
    <2>6. CASE procs' # << >> /\ got.pid = Head(procs)
      <3>1. R!Start(Head(procs'), pc) /\ Head(procs') \in Tasks
        BY <1>8, <2>3, <2>6, HeadFacts DEF R!ReactDied
      <3>2. /\ pc' \in {"pause", "failed"}
            /\ \A q \in Tasks : Honest(child'[q])
            /\ \A q \in Tasks \ {Head(procs')} : child'[q] = child[q]
        BY <3>1, <1>0, <1>1, StartIs
      <3> QED BY <3>2, <2>1, <2>4, <2>6, <1>0, <1>1, StillOne
    <2>7. CASE procs' # << >> /\ got.pid # Head(procs)
      <3>1. child' = child /\ pc' = pc
        BY <1>8, <2>7 DEF R!ReactDied
      <3> QED BY <3>1, <2>1, <2>3, <2>7, <1>0, <1>1, StillOne
    <2> QED BY <2>5, <2>6, <2>7
  <1>9. CASE R!ReactStopped
    <2>1. /\ handler = "react" /\ handler' = "wait" /\ got.event = "stopped" /\ got.pid \in Tasks
          /\ child[got.pid].run # "running"
      BY <1>9 DEF R!ReactStopped, R!NextTurn, Listed, RR!HandlerInv, RunInv
    <2>2. CASE got.pid = Head(procs)
      <3>1. R!Start(Head(procs'), pc) /\ procs' = Advance(procs)
        BY <1>9, <2>2 DEF R!ReactStopped, R!Advance, Advance
      <3>2. Head(procs') \in Tasks
        BY <3>1, <1>1, <1>2, AdvanceFacts, HeadFacts
      <3>3. /\ pc' \in {"pause", "failed"}
            /\ \A q \in Tasks : Honest(child'[q])
            /\ \A q \in Tasks \ {Head(procs')} : child'[q] = child[q]
        BY <3>1, <3>2, <1>0, <1>1, StartIs
      <3>4. \A q \in Tasks : ~Runs(child[q])
        BY <1>1, <2>1, <2>2 DEF Runs
      <3> QED BY <3>3, <3>4, <2>1, <1>0, StillOne
    <2>3. CASE got.pid # Head(procs)
      <3>1. UNCHANGED <<child, procs, pc>>
        BY <1>9, <2>3 DEF R!ReactStopped
      <3> QED BY <3>1, <2>1, <1>0, <1>1, StillOne
    <2> QED BY <2>2, <2>3
  <1> QED BY <1>0, <1>4, <1>5, <1>6, <1>7, <1>8, <1>9 DEF R!Handlers, R!ChildLoop, R!React

LEMMA RequestsRun ==
    ASSUME ShellInv, RunInv, RequestLoop \/ ShellSteps PROVE RunInv'
  <1> USE DEF ShellInv
  <1>1. CASE ReadRequest \/ Answer \/ ShellSteps
    <2>1. /\ UNCHANGED <<kernel, sched, ids, todo>> /\ (pc # "pause" => UNCHANGED loop)
      BY <1>1 DEF ReadRequest, Answer, ShellSteps, IssueRequest, ReceiveReply, Looping
    <2>2. nextID' = nextID
      BY <2>1 DEF nextID
    <2> QED BY <2>1, <2>2 DEF RunInv, R!Up, Counted, kernel, sched
  <1>2. CASE BeginRequest
    <2>1. /\ UNCHANGED <<procs, pc, handler, got>> /\ handler = "none" /\ pc = "pause"
          /\ \A p \in Tasks : child'[p] \in {child[p], Forked}
      BY <1>2, Typed DEF BeginRequest, BeginKill, BeginExec, PrintTasks, Return, Fork, Looping, sched
    <2>2. \A p \in Tasks : Honest(child'[p]) /\ (Runs(child'[p]) => p = Head(procs))
      BY <2>1, ForkFacts, HonestFacts DEF RunInv, Runs
    <2> QED BY <2>1, <2>2, StillOne
  <1>3. CASE EndRequest
    <2>1. /\ UNCHANGED <<handler, got>> /\ handler = "none" /\ pc = "pause" /\ pc' = "pause"
          /\ target \in Tasks /\ procs # << >> /\ procs \in Seq(Tasks)
          /\ \A p \in Tasks : child[p] \in Child /\ Honest(child[p])
          /\ \A p \in Tasks : Runs(child[p]) => p = Head(procs)
      BY <1>3, Quiet, EndKeeps, Typed DEF EndRequest, Looping, Masked, Requesting, RunInv
    <2>2. \A p \in Tasks : Honest(child'[p]) /\ (Runs(child'[p]) => Runs(child[p]))
      <3>1. \A p \in Tasks : child'[p] \in {child[p], SendKill(child[p])}
        BY <1>3, Typed DEF EndRequest
      <3>2. \A p \in Tasks : Runs(SendKill(child[p])) => Runs(child[p])
        BY <2>1 DEF SendKill, Runs, Child
      <3> QED BY <2>1, <3>1, <3>2, HonestFacts
    <2>3. Head(procs') = Head(procs)
      <3>1. procs' \in {procs, AppendToList(procs, target)}
        BY <1>3 DEF EndRequest, Enlist
      <3>2. procs' # procs => target \notin Range(procs)
        BY <1>3, Quiet DEF EndRequest, Enlist, Newcomer, Looping, Masked
      <3> QED BY <2>1, <3>1, <3>2, Quiet, AppendFacts, <1>3 DEF EndRequest, Looping, Masked
    <2> QED BY <2>1, <2>2, <2>3, StillOne
  <1> QED BY <1>1, <1>2, <1>3 DEF RequestLoop

LEMMA RunStep == ShellInv /\ RunInv /\ [Next]_vars => RunInv'
  <1> SUFFICES ASSUME ShellInv, RunInv, [Next]_vars PROVE RunInv'
    OBVIOUS
  <1>1. CASE Exited \/ UNCHANGED vars
    <2>1. UNCHANGED vars
      BY <1>1 DEF Exited, R!Exited, R!vars, vars, kernel, sched
    <2>2. nextID' = nextID
      BY <2>1 DEF nextID, vars, requestvars
    <2> QED BY <2>1, <2>2 DEF RunInv, R!Up, Counted, vars, kernel, sched, requestvars
  <1> QED BY <1>1, ForksRun, CollectRuns, StartUpRuns, HandlersRun, RequestsRun, KernelRuns
          DEF Next, Main, Start

LEMMA RunInvariance == Spec => [](ShellInv /\ RunInv)
  <1>1. Init => ShellInv /\ RunInv
    BY ShellAtFirst, RunAtFirst
  <1>2. ShellInv /\ RunInv /\ [Next]_vars => ShellInv' /\ RunInv'
    BY ShellStep, RunStep
  <1> QED BY <1>1, <1>2, PTL DEF Spec

----------------------------------------------------------------------------
(* The scheduler implements the abstract dispatcher. *)

\* With one runner the processor is free or held by the head of the list.
LEMMA ProcessorFacts ==
    ASSUME RunInv
    PROVE  /\ OnProcessor = IF pc = "pause" THEN {p \in Tasks : Runs(child[p])} ELSE {}
           /\ OnProcessor \in {{}, {Head(procs)}}
  <1>1. CASE pc = "pause"
    BY <1>1 DEF RunInv, OnProcessor, R!Catching, Runs
  <1>2. CASE pc # "pause"
    BY <1>2 DEF RunInv, OnProcessor, R!Catching
  <1> QED BY <1>1, <1>2

LEMMA DispatcherAtFirst == Init => D!DInit
  BY DEF Init, R!Init, D!DInit, OnProcessor, R!Catching

\* A step that does not touch the list either leaves the processor alone, takes the
\* current task off it, or gives it to the head.
LEMMA SameQueue ==
    ASSUME RunInv, RunInv', ShellInv', UNCHANGED procs PROVE [D!DNext]_(D!dvars)
  <1>1. /\ OnProcessor \in {{}, {Head(procs)}} /\ OnProcessor' \in {{}, {Head(procs')}}
        /\ OnProcessor' # {} => pc' = "pause"
    <2>1. OnProcessor' \in {{}, {Head(procs')}}
      BY DEF RunInv, OnProcessor, R!Catching, Runs
    <2>2. OnProcessor' # {} => pc' = "pause"
      BY DEF RunInv, OnProcessor, R!Catching
    <2> QED BY <2>1, <2>2, ProcessorFacts
  <1>2. CASE OnProcessor' = OnProcessor
    BY <1>2 DEF D!dvars
  <1>3. CASE OnProcessor' = {} /\ OnProcessor # {}
    BY <1>3 DEF D!DNext, D!Release
  <1>4. CASE OnProcessor' # {} /\ OnProcessor = {}
    <2>1. procs # << >>
      BY <1>1, <1>4 DEF ShellInv, Listed, Phases, R!Up
    <2> QED BY <1>1, <1>4, <2>1 DEF D!DNext, D!Grant
  <1> QED BY <1>1, <1>2, <1>3, <1>4

\* append_to_list, of a fork of main's start or at the end of an exec.
LEMMA Admission ==
    ASSUME ShellInv, RunInv, RunInv', NEW p \in Tasks, Enlist(p), pc # "failed",
           pc' # "failed", ids[p] = NoId,
           (pc # "pause" /\ pc' # "pause") \/ UNCHANGED <<child, pc>>,
           p \notin Range(procs)
    PROVE  [D!DNext]_(D!dvars)
  <1>1. OnProcessor' = OnProcessor
    <2>1. CASE UNCHANGED <<child, pc>>
      BY <2>1 DEF OnProcessor, R!Catching
    <2>2. CASE pc # "pause" /\ pc' # "pause"
      BY <2>2 DEF RunInv, OnProcessor, R!Catching
    <2> QED BY <2>1, <2>2
  <1>2. procs' = Append(procs, p)
    BY DEF Enlist, AppendToList
  <1>3. D!Admit(p)
    BY <1>1, <1>2 DEF D!Admit, D!Range, Range
  <1> QED BY <1>3 DEF D!DNext

LEMMA ForksAdmit ==
    ASSUME ShellInv, RunInv, ShellInv', RunInv', ForkShell \/ ForkTask PROVE [D!DNext]_(D!dvars)
  <1>1. CASE UNCHANGED procs
    BY <1>1, SameQueue
  <1>2. CASE \E p \in Tasks : Fork(p) /\ Enlist(p) /\ pc = "fork" /\ pc' \in {"fork", "ready"}
    <2>1. PICK p \in Tasks : Fork(p) /\ Enlist(p) /\ pc = "fork" /\ pc' \in {"fork", "ready"}
      BY <1>2
    <2>2. p \notin Range(procs) /\ ids[p] = NoId
      BY <2>1 DEF Fork, ShellInv, Listed, Numbered, Phases, Masked, Newcomer, HasPid, R!Up, RR!HandlerInv
    <2> QED BY <2>1, <2>2, Admission
  <1> QED BY <1>1, <1>2, ShellAssumption DEF ForkShell, ForkTask

LEMMA RequestsAdmit ==
    ASSUME ShellInv, RunInv, ShellInv', RunInv', RequestLoop PROVE [D!DNext]_(D!dvars)
  <1>1. CASE UNCHANGED procs
    BY <1>1, SameQueue
  <1>2. CASE procs' # procs
    <2>1. /\ rq.op = "exec" /\ Enlist(target) /\ UNCHANGED <<child, pc>> /\ loop = "acting"
          /\ pc = "pause"
      BY <1>2 DEF RequestLoop, ReadRequest, BeginRequest, EndRequest, Answer, Looping, sched
    <2>2. target \in Tasks /\ target \notin Range(procs) /\ ids[target] = NoId
      BY <2>1, Quiet DEF ShellInv, Requesting, Numbered, Newcomer, Masked
    <2> QED BY <2>1, <2>2, Admission
  <1> QED BY <1>1, <1>2

LEMMA HandlersDispatch ==
    ASSUME ShellInv, RunInv, ShellInv', RunInv', Handlers, pc' # "failed"
    PROVE  [D!DNext]_(D!dvars)
  <1> USE DEF ShellInv
  <1>0. /\ R!Handlers /\ UNCHANGED requestvars
        /\ pc = "pause" /\ R!Up /\ loop # "shell" /\ Newcomer = {}
    BY DEF Handlers, R!Handlers, R!HandleAlarm, R!EnterChild, R!ChildLoop, R!React,
           R!WaitReportsNothing, R!WaitReports, R!ReactContinued, R!ReactDied,
           R!ReactStopped, R!Catching, R!Up, RunInv, Phases, Newcomer, Masked
  <1>1. procs \in Seq(Tasks) /\ procs' \in Seq(Tasks) /\ got = [pid |-> got.pid, event |-> got.event]
    BY Typed DEF TypeOK, R!TypeOK
  <1>2. /\ procs # << >> /\ IsInjective(procs)
        /\ Range(procs) = {p \in Tasks : HasPid(child[p]) \/ got = [pid |-> p, event |-> "exited"]}
    BY <1>0 DEF Listed
  <1>now. /\ OnProcessor = {p \in Tasks : Runs(child[p])}
          /\ OnProcessor \in {{}, {Head(procs)}}
    BY <1>0, ProcessorFacts
  <1>next. /\ OnProcessor' \in {{}, {Head(procs')}}
           /\ pc' # "pause" => OnProcessor' = {}
    <2>1. OnProcessor' \in {{}, {Head(procs')}}
      BY DEF RunInv, OnProcessor, R!Catching, Runs
    <2>2. pc' # "pause" => OnProcessor' = {}
      BY DEF RunInv, OnProcessor, R!Catching
    <2> QED BY <2>1, <2>2
  <1>3. CASE UNCHANGED procs
    BY <1>3, SameQueue
  <1>4. CASE R!ReactStopped /\ procs' # procs
    <2>1. /\ got.pid = Head(procs) /\ procs' = Advance(procs) /\ got.pid \in Tasks
          /\ child[got.pid].run # "running"
      BY <1>4 DEF R!ReactStopped, R!Advance, Advance, Listed, RR!HandlerInv, RunInv
    <2>2. OnProcessor = {}
      BY <2>1, <1>now DEF Runs
    <2>3. D!HandOver
      BY <2>1, <2>2, <1>2, <1>next DEF D!HandOver, D!Dispatch, Advance
    <2> QED BY <2>3 DEF D!DNext
  <1>5. CASE R!ReactDied
    <2>1. /\ procs' = DeleteFromList(procs, got.pid)
          /\ got.event = "exited" /\ got.pid \in Tasks /\ ~HasPid(child[got.pid])
      BY <1>5 DEF R!ReactDied, Listed, RR!HandlerInv, RR!HasPid, HasPid,
            R!DeleteFromList, DeleteFromList, R!Range, Range, R!RemoveAt, RemoveAt, R!Position, Position
    <2>2. got.pid \in Range(procs)
      BY <1>1, <1>2, <2>1
    <2> DEFINE i == Position(procs, got.pid)
    <2>3. i \in 1 .. Len(procs) /\ procs[i] = got.pid /\ i \in DOMAIN procs
      BY <2>2, <1>1, PositionFacts, LenProperties
    <2>4. procs' = RemoveAt(procs, i)
      BY <2>1, <2>2 DEF DeleteFromList
    <2>5. got.pid \notin OnProcessor
      BY <2>1, <1>now DEF Runs, HasPid
    <2>6. i = 1 <=> got.pid = Head(procs)
      <3>1. Head(procs) = procs[1] /\ Len(procs) \in Nat \ {0}
        BY <1>1, <1>2, HeadFacts
      <3>2. Position(procs, procs[1]) = 1
        BY <3>1, <1>1, <1>2, PositionIs
      <3> QED BY <3>1, <3>2, <2>3
    <2>7. CASE got.pid = Head(procs) /\ procs' # << >>
      <3>1. D!Bury(i)
        BY <2>3, <2>4, <2>5, <2>6, <2>7, <1>next DEF D!Bury, D!Dispatch, D!RemoveAt, RemoveAt
      <3> QED BY <3>1, <2>3 DEF D!DNext
    <2>8. CASE procs' = << >>
      <3>1. OnProcessor' = {}
        BY <1>5, <2>8, <1>next DEF R!ReactDied
      <3>2. got.pid = Head(procs)
        BY <2>1, <2>2, <2>8, <1>1, <1>2, DeleteFacts
      <3>3. OnProcessor = {}
        BY <2>5, <3>2, <1>now
      <3>4. D!Bury(i)
        BY <2>3, <2>4, <2>5, <2>8, <3>1, <3>3 DEF D!Bury, D!RemoveAt, RemoveAt
      <3> QED BY <3>4, <2>3 DEF D!DNext
    <2>9. CASE got.pid # Head(procs) /\ procs' # << >>
      <3>1. UNCHANGED <<child, pc>>
        BY <1>5, <2>9 DEF R!ReactDied
      <3>2. OnProcessor' = OnProcessor
        BY <3>1 DEF OnProcessor, R!Catching
      <3>3. D!Bury(i)
        BY <2>3, <2>4, <2>5, <2>6, <2>9, <3>2 DEF D!Bury, D!RemoveAt, RemoveAt
      <3> QED BY <3>3, <2>3 DEF D!DNext
    <2> QED BY <2>7, <2>8, <2>9
  <1> QED BY <1>0, <1>3, <1>4, <1>5
          DEF R!Handlers, R!ChildLoop, R!React, R!HandleAlarm, R!EnterChild, R!WaitReports,
              R!WaitReportsNothing, R!ReactContinued

LEMMA DispatcherStep ==
    ASSUME ShellInv, RunInv, ShellInv', RunInv', [Next]_vars PROVE [D!DNext]_(D!dvars)
  <1>1. CASE StopShell \/ StartUp \/ ShellSteps \/ UNCHANGED vars
    <2>1. UNCHANGED procs
      BY <1>1 DEF StopShell, StartUp, R!InstallHandlers, R!LoadFirst, R!StartFirst, ShellSteps,
                  IssueRequest, ReceiveReply, vars, sched
    <2> QED BY <2>1, SameQueue
  <1>2. ASSUME NEW p \in Tasks, CollectReady(p) PROVE [D!DNext]_(D!dvars)
    BY <1>2, SameQueue DEF CollectReady
  <1>3. CASE Kernel \/ \E p \in Tasks : TaskExits(p)
    <2>1. UNCHANGED procs
      BY <1>3, KernelSteps DEF ShellInv, sched
    <2> QED BY <2>1, SameQueue
  <1>4. CASE Handlers
    <2>1. pc' # "failed"
      <3>1. R!Handlers /\ pc = "pause"
        BY <1>4 DEF Handlers, R!Handlers, R!HandleAlarm, R!EnterChild, R!ChildLoop, R!React,
             R!WaitReportsNothing, R!WaitReports, R!ReactContinued, R!ReactDied,
             R!ReactStopped, R!Catching, R!Up, RunInv
      <3> QED BY <3>1, StepFailsNot
    <2> QED BY <1>4, <2>1, HandlersDispatch
  <1>5. CASE Exited
    BY <1>5, <1>1 DEF Exited, R!Exited, R!vars, vars, kernel, sched
  <1> QED BY <1>1, <1>2, <1>3, <1>4, <1>5, ForksAdmit, RequestsAdmit DEF Next, Main, Start

\* The scheduler with its shell is still a round-robin dispatcher: a request may put
\* a task at the end of the queue or doom one, but it never changes whose turn it is.
THEOREM Implementation == Spec => ImplementsDispatcher
  <1>1. (ShellInv /\ RunInv) /\ (ShellInv /\ RunInv)' /\ [Next]_vars => [D!DNext]_(D!dvars)
    BY DispatcherStep
  <1> QED
    BY <1>1, DispatcherAtFirst, RunInvariance, PTL DEF Spec, ImplementsDispatcher, D!DSpec
=============================================================================
