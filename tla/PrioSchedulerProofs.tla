------------------------- MODULE PrioSchedulerProofs -------------------------
(***************************************************************************)
(* Proofs about PrioScheduler, for every set of tasks, every number of     *)
(* programs on the command line and every id a user may type.  What        *)
(* handlers and requests make of two lists and of current_pid is proved    *)
(* first.  Until main has started its first task this is ShellScheduler    *)
(* with low_procs for its list, and the theorems about that module apply.  *)
(***************************************************************************)
EXTENDS PrioScheduler, SharedLemmas, FiniteSetTheorems

----------------------------------------------------------------------------
(* The inductive invariant, once main loops. *)

\* The task of an exec between its fork and its append_to_list.
Newcomer == IF loop = "acting" /\ rq.op = "exec" THEN {target} ELSE {}

\* The two lists share the children the kernel knows, except the newcomer, and the
\* one whose death is being handled.  current_pid is one of them: no request takes it
\* away, and the handler of its death chooses another.
Shared ==
    /\ IsInjective(high) /\ IsInjective(low)
    /\ Range(high) \cap Range(low) = {}
    /\ Queued = {p \in Tasks \ Newcomer :
                    HasPid(child[p]) \/ got = [pid |-> p, event |-> "exited"]}
    /\ current \in Queued

\* A child that runs the program it was forked for.
Runs(c) == c.run = "running" /\ c.raised

\* The one that runs is current_pid; what a handler has been told of a stop is still
\* so when it reacts.
Turn ==
    /\ \A p \in Tasks : Honest(child[p]) /\ (Runs(child[p]) => p = current)
    /\ handler = "react" <=> got.event # "none"
    /\ handler = "react" => got.pid \in Tasks
    /\ got.event \in {"stopped", "continued"} => HasPid(child[got.pid])
    /\ got.event = "exited" => ~HasPid(child[got.pid])
    /\ got.event = "stopped" => child[got.pid].run # "running"

\* One request at a time; while it is executed no handler runs.
Talk ==
    /\ shellAt = "prompt" => rq = S!NoRequest /\ reply = "none"
    /\ rq # S!NoRequest => reply = "none"
    /\ loop \in {"read", "masked", "acting", "answer", "left"}
    /\ loop \in {"masked", "acting", "answer"} => rq # S!NoRequest
    /\ loop \in {"masked", "acting"} => handler = "none"
    /\ loop = "acting" =>
          target \in Tasks /\ HasPid(child[target]) /\ rq.op \in {"exec", "kill"}

\* An id belongs to one task for ever, and every task that was put into a list has one.
Numbered ==
    /\ \A p \in Tasks : ids[p] < S!nextID
    /\ \A p, q \in Tasks : ids[p] = ids[q] /\ ids[p] # S!NoId => p = q
    /\ \A p \in Tasks : ids[p] = S!NoId <=> child[p].run = "none" \/ p \in Newcomer

LoopInv ==
    /\ TypeOK
    /\ pc \in {"pause", "done", "failed"}
    /\ pc = "pause" => Shared /\ Turn /\ Talk /\ Numbered

----------------------------------------------------------------------------
(* Small steps of the argument. *)

LEMMA Typed ==
    ASSUME TypeOK
    PROVE  /\ child \in [Tasks -> Child] /\ \A p \in Tasks : child[p] \in Child
           /\ low \in Seq(Tasks) /\ high \in Seq(Tasks)
           /\ sigchld \in BOOLEAN /\ sigalrm \in BOOLEAN /\ armed \in BOOLEAN
           /\ got.pid \in Tasks \cup {R!NoPid} /\ got \in R!Got
           /\ got = [pid |-> got.pid, event |-> got.event]
           /\ handler \in {"none", "wait", "react"}
  BY DEF TypeOK, S!TypeOK, S!R!TypeOK, S!R!Child, Child, S!R!Got, R!Got, S!R!NoPid, R!NoPid

\* The steps of the children, of the timer and of the handlers.
LEMMA StillTyped ==
    ASSUME TypeOK, child' \in [Tasks -> Child], low' \in Seq(Tasks), high' \in Seq(Tasks),
           current' \in Tasks \cup {R!NoPid}, pc' \in {pc, "pause", "done", "failed"},
           handler' \in {"none", "wait", "react"}, got' \in R!Got, sigchld' \in BOOLEAN,
           sigalrm' \in BOOLEAN, armed' \in BOOLEAN, UNCHANGED <<cnt, arg, requestvars>>
    PROVE  TypeOK'
  BY DEF TypeOK, S!TypeOK, S!R!TypeOK, S!R!Child, Child, S!R!Got, R!Got, S!R!NoPid, R!NoPid,
         requestvars

LEMMA NumbersKept ==
    ASSUME Numbered, UNCHANGED ids, Newcomer' = Newcomer,
           \A p \in Tasks : child'[p].run = "none" <=> child[p].run = "none"
    PROVE  Numbered'
  BY DEF Numbered, S!nextID

\* What has to be shown of a step.
LEMMA StillLooping ==
    ASSUME TypeOK', pc' \in {"pause", "done", "failed"},
           pc' = "pause" => Shared' /\ Turn' /\ Talk' /\ Numbered'
    PROVE  LoopInv'
  BY DEF LoopInv

\* kill(p, SIGCONT), for a p that exists: nobody but p is touched.
LEMMA StartIs ==
    ASSUME TypeOK, NEW p \in Tasks, NEW where, R!Start(p, where), HasPid(child[p]),
           \A q \in Tasks : Honest(child[q])
    PROVE  /\ pc' = where /\ child' \in [Tasks -> Child]
           /\ sigchld' \in BOOLEAN /\ armed' \in BOOLEAN
           /\ \A q \in Tasks : /\ Honest(child'[q])
                               /\ HasPid(child'[q]) <=> HasPid(child[q])
                               /\ child'[q].run = "none" <=> child[q].run = "none"
                               /\ q # p => child'[q] = child[q]
  <1>1. /\ pc' = where /\ child' = [child EXCEPT ![p] = SendCont(child[p])]
        /\ sigchld' = (sigchld \/ R!ContNotifies(child[p])) /\ armed' = TRUE
    BY DEF R!Start, R!SendCont, SendCont, R!HasPid, HasPid
  <1>2. child \in [Tasks -> Child] /\ child[p] \in Child
    BY Typed
  <1>3. /\ SendCont(child[p]) \in Child /\ Honest(SendCont(child[p]))
        /\ HasPid(SendCont(child[p])) <=> HasPid(child[p])
    BY <1>2, SignalFacts, HonestFacts
  <1>4. child' \in [Tasks -> Child] /\ \A q \in Tasks : q # p => child'[q] = child[q]
    BY <1>1, <1>2, <1>3
  <1>5. child'[p] = SendCont(child[p]) /\ child'[p].run # "none" /\ child[p].run # "none"
    BY <1>1, <1>2, <1>3 DEF HasPid
  <1>6. sigchld' \in BOOLEAN
    BY <1>1, Typed DEF R!ContNotifies
  <1> QED BY <1>1, <1>3, <1>4, <1>5, <1>6

\* The lists of one after the other.
LEMMA JoinFacts ==
    ASSUME NEW S1, NEW a \in Seq(S1), NEW b \in Seq(S1), IsInjective(a), IsInjective(b),
           Range(a) \cap Range(b) = {}
    PROVE  IsInjective(a \o b)
  <1>1. /\ a \o b \in Seq(S1) /\ Len(a \o b) = Len(a) + Len(b)
        /\ \A i \in 1 .. Len(a) + Len(b) : (a \o b)[i] = IF i <= Len(a) THEN a[i] ELSE b[i - Len(a)]
    BY ConcatProperties
  <1>2. /\ DOMAIN a = 1 .. Len(a) /\ DOMAIN b = 1 .. Len(b) /\ DOMAIN (a \o b) = 1 .. Len(a) + Len(b)
        /\ Len(a) \in Nat /\ Len(b) \in Nat
    BY <1>1, LenProperties
  <1>3. \A i \in 1 .. Len(a), j \in 1 .. Len(b) : a[i] # b[j]
    BY <1>2 DEF Range
  <1>4. /\ \A i, j \in 1 .. Len(a) : a[i] = a[j] => i = j
        /\ \A i, j \in 1 .. Len(b) : b[i] = b[j] => i = j
    BY <1>2 DEF IsInjective
  <1> SUFFICES ASSUME NEW i \in 1 .. Len(a) + Len(b), NEW j \in 1 .. Len(a) + Len(b),
                      (a \o b)[i] = (a \o b)[j]
               PROVE  i = j
    BY <1>2 DEF IsInjective
  <1>5. CASE i <= Len(a) /\ j <= Len(a)
    BY <1>1, <1>2, <1>4, <1>5
  <1>6. CASE i > Len(a) /\ j > Len(a)
    <2>1. /\ i - Len(a) \in 1 .. Len(b) /\ j - Len(a) \in 1 .. Len(b)
          /\ b[i - Len(a)] = b[j - Len(a)]
      BY <1>1, <1>2, <1>6
    <2>2. i - Len(a) = j - Len(a)
      BY <2>1, <1>4
    <2> QED BY <2>2, <1>2
  <1>7. CASE i <= Len(a) /\ j > Len(a)
    BY <1>1, <1>2, <1>3, <1>7
  <1>8. CASE i > Len(a) /\ j <= Len(a)
    BY <1>1, <1>2, <1>3, <1>8
  <1> QED BY <1>2, <1>5, <1>6, <1>7, <1>8

----------------------------------------------------------------------------
(* While main loops: the requests. *)

\* main reads and answers, the shell asks and reads.
LEMMA TalkingKeeps ==
    ASSUME LoopInv, pc = "pause", S!ReadRequest \/ S!Answer \/ S!ShellSteps,
           UNCHANGED <<high, current>>
    PROVE  LoopInv'
  <1>0. TypeOK /\ Shared /\ Turn /\ Talk /\ Numbered
    BY DEF LoopInv
  <1>1. /\ UNCHANGED <<child, sigchld, sigalrm, armed, low, pc, cnt, arg, handler, got>>
        /\ UNCHANGED <<ids, todo, target, ret>>
        /\ loop # "acting" /\ loop' # "acting"
    BY <1>0 DEF S!ReadRequest, S!Answer, S!Looping, S!ShellSteps, S!IssueRequest,
           S!ReceiveReply, S!kernel, S!sched, S!ShellRuns, Talk
  <1>2. TypeOK'
    <2>1. /\ loop' \in {"shell", "stop", "tasks", "read", "masked", "acting", "answer", "left"}
          /\ shellAt' \in {"prompt", "waiting"} /\ rq' \in S!Requests \cup {S!NoRequest}
          /\ reply' \in {"none", "ok", "error"}
      BY <1>0 DEF TypeOK, S!TypeOK, S!ReadRequest, S!Answer, S!ShellSteps, S!IssueRequest,
             S!ReceiveReply, S!NoRequest, S!Requests
    <2> QED BY <1>0, <1>1, <2>1 DEF TypeOK, S!TypeOK, S!R!TypeOK, S!R!Got, S!R!NoPid, S!NoRequest
  <1>3. Newcomer' = {} /\ Newcomer = {}
    BY <1>1 DEF Newcomer
  <1>4. Numbered'
    BY <1>0, <1>1, <1>3, NumbersKept
  <1>5. Shared' /\ Turn'
    BY <1>0, <1>1, <1>3 DEF Shared, Queued, Turn
  <1>6. Talk'
    BY <1>0, <1>1 DEF Talk, S!ReadRequest, S!Answer, S!Looping, S!ShellSteps, S!IssueRequest,
          S!ReceiveReply, S!NoRequest, S!Requests
  <1> QED BY <1>1, <1>2, <1>4, <1>5, <1>6, StillLooping

\* A task that moves from one list to the other.
LEMMA MoveFacts ==
    ASSUME NEW a \in Seq(Tasks), NEW b \in Seq(Tasks), IsInjective(a), IsInjective(b),
           Range(a) \cap Range(b) = {}, NEW p \in Range(a)
    PROVE  LET a2 == DeleteFromList(a, p)
               b2 == AppendToList(b, p)
           IN /\ a2 \in Seq(Tasks) /\ b2 \in Seq(Tasks) /\ IsInjective(a2) /\ IsInjective(b2)
              /\ Range(a2) \cap Range(b2) = {}
              /\ Range(a2) \cup Range(b2) = Range(a) \cup Range(b)
  <1>1. p \in Tasks /\ p \notin Range(b)
    BY LenProperties DEF Range
  <1>2. /\ DeleteFromList(a, p) \in Seq(Tasks) /\ IsInjective(DeleteFromList(a, p))
        /\ Range(DeleteFromList(a, p)) = Range(a) \ {p}
    BY DeleteFacts
  <1>3. /\ AppendToList(b, p) \in Seq(Tasks) /\ IsInjective(AppendToList(b, p))
        /\ Range(AppendToList(b, p)) = Range(b) \cup {p}
    BY <1>1, AppendFacts
  <1> QED BY <1>1, <1>2, <1>3

\* The requests h and l.
LEMMA PriorityKeeps ==
    ASSUME LoopInv, SetPriority PROVE LoopInv'
  <1>0. /\ pc = "pause" /\ loop = "masked" /\ handler = "none"
        /\ loop' = "answer" /\ ret' \in {"ok", "error"} /\ UNCHANGED <<child, target>>
        /\ UNCHANGED <<place, sigchld, sigalrm, armed, ids, todo, shellAt, rq, reply, current>>
    BY DEF SetPriority, S!Looping, S!Return
  <1>1. /\ TypeOK /\ Shared /\ Turn /\ Talk /\ Numbered
        /\ low \in Seq(Tasks) /\ high \in Seq(Tasks)
    BY <1>0, Typed DEF LoopInv
  <1>2. /\ high' \in Seq(Tasks) /\ low' \in Seq(Tasks) /\ IsInjective(high') /\ IsInjective(low')
        /\ Range(high') \cap Range(low') = {}
        /\ Range(high') \cup Range(low') = Range(high) \cup Range(low)
    <2>1. CASE UNCHANGED lists
      BY <1>1, <2>1 DEF Shared, lists
    <2>2. ASSUME NEW p \in S!PidFromId(low), MoveTask(low, high, p)
          PROVE  p \in Range(low) /\ high' = AppendToList(high, p) /\ low' = DeleteFromList(low, p)
      BY <2>2 DEF S!PidFromId, S!Range, Range, MoveTask
    <2>3. ASSUME NEW p \in S!PidFromId(high), MoveTask(high, low, p)
          PROVE  p \in Range(high) /\ low' = AppendToList(low, p) /\ high' = DeleteFromList(high, p)
      BY <2>3 DEF S!PidFromId, S!Range, Range, MoveTask
    <2>4. /\ IsInjective(low) /\ IsInjective(high) /\ Range(low) \cap Range(high) = {}
          /\ Range(high) \cap Range(low) = {}
      BY <1>1 DEF Shared
    <2>5. CASE \E p \in S!PidFromId(low) : MoveTask(low, high, p)
      <3>1. PICK p \in S!PidFromId(low) : MoveTask(low, high, p)
        BY <2>5
      <3>2. p \in Range(low) /\ high' = AppendToList(high, p) /\ low' = DeleteFromList(low, p)
        BY <2>2, <3>1
      <3> QED BY <1>1, <2>4, <3>2, MoveFacts
    <2>6. CASE \E p \in S!PidFromId(high) : MoveTask(high, low, p)
      <3>1. PICK p \in S!PidFromId(high) : MoveTask(high, low, p)
        BY <2>6
      <3>2. p \in Range(high) /\ low' = AppendToList(low, p) /\ high' = DeleteFromList(high, p)
        BY <2>3, <3>1
      <3> QED BY <1>1, <2>4, <3>2, MoveFacts
    <2> QED BY <2>1, <2>5, <2>6 DEF SetPriority
  <1>3. TypeOK'
    BY <1>0, <1>1, <1>2 DEF TypeOK, S!TypeOK, S!R!TypeOK, S!R!Got, S!R!NoPid, S!NoRequest, place
  <1>4. Newcomer' = {} /\ Newcomer = {}
    BY <1>0 DEF Newcomer
  <1>5. Numbered'
    BY <1>0, <1>1, <1>4, NumbersKept
  <1>6. Shared' /\ Turn' /\ Talk'
    BY <1>0, <1>1, <1>2, <1>4 DEF Shared, Queued, Turn, Talk, place, S!NoRequest
  <1> QED BY <1>0, <1>3, <1>5, <1>6, StillLooping DEF place

\* The look-up of a kill, the fork of an exec, and printing.
LEMMA BeginKeeps ==
    ASSUME LoopInv, BeginRequest PROVE LoopInv'
  <1>0. /\ pc = "pause" /\ loop = "masked" /\ handler = "none"
        /\ UNCHANGED <<place, sigchld, sigalrm, armed, ids, todo, shellAt, rq, reply, lists, current>>
    BY DEF BeginRequest, S!Looping
  <1>1. /\ TypeOK /\ Shared /\ Turn /\ Talk /\ Numbered /\ rq # S!NoRequest
        /\ \A p \in Tasks : child[p] \in Child
    BY <1>0, Typed DEF LoopInv, Talk
  <1>2. /\ got.event = "none" /\ Newcomer = {} /\ Queued = {p \in Tasks : HasPid(child[p])}
    <2>1. got.event = "none" /\ Newcomer = {}
      BY <1>0, <1>1 DEF Turn, Newcomer
    <2> QED BY <1>1, <2>1 DEF Shared
  <1>3. CASE rq.op = "exec" /\ loop' = "acting"
    <2>1. PICK p \in Tasks : S!Fork(p) /\ target' = p /\ UNCHANGED ret
      BY <1>3 DEF BeginRequest, S!BeginKill, S!BeginExec, S!PrintTasks, S!Return
    <2>2. /\ child' \in [Tasks -> Child]
          /\ child[p].run = "none" /\ child'[p] = Forked /\ HasPid(child'[p])
          /\ ~Runs(child'[p]) /\ Honest(child'[p])
          /\ \A q \in Tasks \ {p} : child'[q] = child[q]
      BY <1>1, <2>1, Typed, ForkFacts, HonestFacts
         DEF S!Fork, S!Forked, Forked, S!Unborn, Unborn, Runs
    <2>3. Newcomer' = {p}
      BY <1>0, <1>3, <2>1 DEF Newcomer
    <2>4. TypeOK'
      BY <1>0, <1>1, <1>3, <2>1, <2>2
         DEF TypeOK, S!TypeOK, S!R!TypeOK, S!R!Child, Child, S!R!Got, S!R!NoPid, S!NoRequest, place, lists
    <2>5. Shared'
      <3>1. Queued' = Queued /\ p \notin Queued
        BY <1>0, <1>2, <2>2 DEF Queued, lists, HasPid
      <3>2. \A q \in Tasks \ {p} : HasPid(child'[q]) <=> HasPid(child[q])
        BY <2>2
      <3>3. got' = got
        BY <1>0 DEF place
      <3>4. Queued' = {q \in Tasks \ Newcomer' :
                          HasPid(child'[q]) \/ got' = [pid |-> q, event |-> "exited"]}
        BY <1>2, <2>3, <3>1, <3>2, <3>3
      <3> QED BY <1>0, <1>1, <3>1, <3>4 DEF Shared, lists
    <2>6. Turn'
      BY <1>0, <1>1, <1>2, <2>2 DEF Turn, place
    <2>7. Talk'
      BY <1>0, <1>1, <1>3, <2>1, <2>2 DEF Talk, place, S!NoRequest
    <2>8. Numbered'
      BY <1>0, <1>1, <1>2, <2>2, <2>3, ForkFacts DEF Numbered, S!nextID
    <2> QED BY <1>0, <2>4, <2>5, <2>6, <2>7, <2>8, StillLooping DEF place
  <1>4. CASE rq.op # "exec" \/ loop' # "acting"
    <2>1. /\ UNCHANGED child /\ loop' \in {"acting", "answer"} /\ ret' \in {"ok", "error"}
          /\ target' \in Tasks \cup {S!R!NoPid}
          /\ loop' = "acting" => rq.op = "kill" /\ target' \in Queued
      BY <1>0, <1>1, <1>2, <1>4 DEF BeginRequest, S!BeginKill, S!BeginExec, S!PrintTasks, S!Return,
             S!PidFromId, S!Range, Range, Queued, TypeOK, S!TypeOK
    <2>2. TypeOK'
      BY <1>0, <1>1, <2>1
         DEF TypeOK, S!TypeOK, S!R!TypeOK, S!R!Got, S!R!NoPid, S!NoRequest, place, lists
    <2>3. Newcomer' = {}
      BY <1>0, <2>1 DEF Newcomer
    <2>4. Numbered'
      BY <1>0, <1>1, <1>2, <2>1, <2>3, NumbersKept
    <2>5. Shared' /\ Turn'
      BY <1>0, <1>1, <1>2, <2>1, <2>3 DEF Shared, Queued, Turn, place, lists
    <2>6. Talk'
      BY <1>0, <1>1, <1>2, <2>1 DEF Talk, place, S!NoRequest
    <2> QED BY <1>0, <2>2, <2>4, <2>5, <2>6, StillLooping DEF place
  <1> QED BY <1>3, <1>4


----------------------------------------------------------------------------
(* While main loops: the handlers. *)

\* What every step of a handler starts from.
LEMMA Handled ==
    ASSUME LoopInv, pc = "pause", ~S!Masked
    PROVE  /\ TypeOK /\ Shared /\ Turn /\ Talk /\ Numbered
           /\ Newcomer = {} /\ current \in Tasks /\ current \in Queued
           /\ Queued = {p \in Tasks : HasPid(child[p]) \/ got = [pid |-> p, event |-> "exited"]}
           /\ child \in [Tasks -> Child] /\ \A p \in Tasks : child[p] \in Child
           /\ low \in Seq(Tasks) /\ high \in Seq(Tasks)
           /\ got = [pid |-> got.pid, event |-> got.event] /\ got \in R!Got
           /\ sigchld \in BOOLEAN /\ sigalrm \in BOOLEAN /\ armed \in BOOLEAN
  <1>1. TypeOK /\ Shared /\ Turn /\ Talk /\ Numbered
    BY DEF LoopInv
  <1>2. Newcomer = {}
    BY DEF Newcomer, S!Masked
  <1>3. /\ current \in Queued
        /\ Queued = {p \in Tasks : HasPid(child[p]) \/ got = [pid |-> p, event |-> "exited"]}
    BY <1>1, <1>2 DEF Shared
  <1> QED BY <1>1, <1>2, <1>3, Typed

\* And what is left to show: the requests and the numbers do not change, and whoever
\* had a pid that was not waited for still has one.
LEMMA StillHandling ==
    ASSUME LoopInv, pc = "pause", ~S!Masked, UNCHANGED requestvars, TypeOK',
           pc' \in {"pause", "done", "failed"},
           \A p \in Tasks : child'[p].run = "none" <=> child[p].run = "none",
           pc' = "pause" => Turn' /\ (Newcomer = {} /\ Newcomer' = {} => Shared')
    PROVE  LoopInv'
  <1>1. Talk /\ Numbered /\ Newcomer = {}
    BY Handled
  <1>2. Newcomer' = {}
    BY <1>1 DEF Newcomer, S!Masked, requestvars
  <1>3. Numbered'
    BY <1>1, <1>2, NumbersKept DEF requestvars
  <1>4. Talk'
    BY <1>1 DEF Talk, S!Masked, S!NoRequest, requestvars
  <1> QED BY <1>1, <1>2, <1>3, <1>4, StillLooping

\* A handler that stops the child q.
LEMMA StopIs ==
    ASSUME TypeOK, Turn, NEW q \in Tasks, child' = [child EXCEPT ![q] = SendStop(child[q])]
    PROVE  /\ child' \in [Tasks -> Child]
           /\ \A p \in Tasks : /\ Honest(child'[p])
                               /\ HasPid(child'[p]) <=> HasPid(child[p])
                               /\ child'[p].run = child[p].run
                               /\ Runs(child'[p]) <=> Runs(child[p])
  <1>1. /\ child \in [Tasks -> Child] /\ \A p \in Tasks : child[p] \in Child
        /\ \A p \in Tasks : Honest(child[p])
    BY Typed DEF Turn
  <1>2. /\ SendStop(child[q]) \in Child /\ Honest(SendStop(child[q]))
        /\ HasPid(SendStop(child[q])) <=> HasPid(child[q])
        /\ SendStop(child[q]).run = child[q].run /\ SendStop(child[q]).raised = child[q].raised
    BY <1>1, SignalFacts, HonestFacts
  <1> QED BY <1>1, <1>2 DEF Runs

LEMMA AlarmKeeps ==
    ASSUME LoopInv, HandleAlarm PROVE LoopInv' /\ pc' = "pause"
  <1>0. /\ pc = "pause" /\ ~S!Masked /\ handler = "none"
        /\ UNCHANGED <<cnt, arg, handler, got, sigchld, requestvars, lists, current>>
        /\ sigalrm' = FALSE
    BY DEF HandleAlarm, Handling
  <1>1. /\ TypeOK /\ Shared /\ Turn /\ current \in Tasks /\ HasPid(child[current])
        /\ low \in Seq(Tasks) /\ high \in Seq(Tasks) /\ got \in R!Got /\ sigchld \in BOOLEAN
    BY <1>0, Handled DEF Turn
  <1>2. /\ child' = [child EXCEPT ![current] = SendStop(child[current])] /\ armed' = TRUE
        /\ pc' = "pause"
    BY <1>0, <1>1 DEF HandleAlarm
  <1>3. /\ child' \in [Tasks -> Child]
        /\ \A p \in Tasks : /\ Honest(child'[p])
                            /\ HasPid(child'[p]) <=> HasPid(child[p])
                            /\ child'[p].run = child[p].run
                            /\ Runs(child'[p]) <=> Runs(child[p])
    BY <1>1, <1>2, StopIs
  <1>4. TypeOK'
    BY <1>0, <1>1, <1>2, <1>3, StillTyped DEF lists
  <1>5. Turn'
    BY <1>0, <1>1, <1>3 DEF Turn
  <1>6. Newcomer = {} /\ Newcomer' = {} => Shared'
    BY <1>0, <1>1, <1>3 DEF Shared, Queued, lists
  <1> QED BY <1>0, <1>2, <1>3, <1>4, <1>5, <1>6, StillHandling

LEMMA WaitsKeep ==
    ASSUME LoopInv, pc = "pause", EnterChild \/ WaitForChild PROVE LoopInv' /\ pc' = "pause"
  <1>0. /\ ~S!Masked /\ UNCHANGED <<requestvars, high, current, low, cnt, arg, sigalrm, armed>>
        /\ handler \in {"none", "wait"}
    BY DEF EnterChild, WaitForChild, R!EnterChild, R!WaitReportsNothing, R!WaitReports
  <1>1. /\ TypeOK /\ Shared /\ Turn /\ current \in Tasks /\ HasPid(child[current])
        /\ low \in Seq(Tasks) /\ high \in Seq(Tasks) /\ got \in R!Got /\ got.event = "none"
        /\ sigchld \in BOOLEAN /\ sigalrm \in BOOLEAN /\ armed \in BOOLEAN
        /\ child \in [Tasks -> Child] /\ \A p \in Tasks : child[p] \in Child
        /\ Queued = {p \in Tasks : HasPid(child[p])}
    BY <1>0, Handled DEF Turn
  <1>2. CASE UNCHANGED child
    <2>1. /\ handler' \in {"none", "wait"} /\ UNCHANGED got /\ sigchld' \in BOOLEAN /\ pc' = "pause"
      <3>1. CASE EnterChild
        BY <3>1 DEF EnterChild, R!EnterChild
      <3>2. CASE R!WaitReportsNothing
        <4>1. /\ handler' = "none" /\ UNCHANGED <<got, sigchld>>
              /\ pc' = IF \E p \in Tasks : HasPid(child[p]) THEN pc ELSE "failed"
          BY <3>2 DEF R!WaitReportsNothing, R!HasPid, HasPid
        <4> QED BY <4>1, <1>1
      <3>3. ASSUME NEW p \in Tasks, R!WaitReports(p) PROVE FALSE
        <4>1. child'[p] = Reported(child[p]) /\ child[p].event \in {"stopped", "continued", "exited"}
              /\ HasPid(child[p])
          BY <1>1, <3>3 DEF R!WaitReports, R!Reported, Reported, R!Reportable, R!AnyEvent, R!HasPid, HasPid
        <4> QED BY <1>1, <1>2, <4>1, ReportFacts
      <3> QED BY <3>1, <3>2, <3>3 DEF WaitForChild
    <2>2. TypeOK'
      BY <1>0, <1>1, <1>2, <2>1, StillTyped DEF TypeOK
    <2>3. Turn'
      BY <1>1, <1>0, <1>2, <2>1 DEF Turn
    <2>4. Newcomer = {} /\ Newcomer' = {} => Shared'
      BY <1>0, <1>1, <1>2, <2>1 DEF Shared, Queued
    <2> QED BY <1>0, <1>2, <2>1, <2>2, <2>3, <2>4, StillHandling
  <1>3. ASSUME NEW p \in Tasks, R!WaitReports(p) PROVE LoopInv' /\ pc' = "pause"
    <2>1. /\ HasPid(child[p]) /\ child[p].event \in {"stopped", "continued", "exited"}
          /\ got' = [pid |-> p, event |-> child[p].event] /\ handler' = "react"
          /\ child' = [child EXCEPT ![p] = Reported(child[p])] /\ UNCHANGED <<pc, sigchld>>
      BY <1>3 DEF R!WaitReports, R!Reported, Reported, R!Reportable, R!AnyEvent, R!HasPid, HasPid
    <2>2. /\ Reported(child[p]) \in Child /\ Honest(Reported(child[p]))
          /\ HasPid(Reported(child[p])) <=> child[p].event # "exited"
          /\ Reported(child[p]).run \in {child[p].run, "reaped"}
          /\ Runs(Reported(child[p])) => Runs(child[p])
          /\ child[p].event = "stopped" => Reported(child[p]).run = "stopped"
      <3>1. child[p] \in Child /\ Honest(child[p])
        BY <1>1 DEF Turn
      <3>2. Runs(Reported(child[p])) => Runs(child[p])
        BY <3>1 DEF Runs, Reported, Child
      <3>3. Reported(child[p]).run \in {child[p].run, "reaped"}
        BY <3>1 DEF Reported, Child
      <3> QED BY <2>1, <3>1, <3>2, <3>3, ReportFacts, HonestFacts DEF Honest
    <2>3. /\ child' \in [Tasks -> Child] /\ child'[p] = Reported(child[p])
          /\ \A q \in Tasks \ {p} : child'[q] = child[q]
      BY <1>1, <2>1, <2>2
    <2>4. \A q \in Tasks : child'[q].run = "none" <=> child[q].run = "none"
      BY <2>1, <2>2, <2>3 DEF HasPid
    <2>5. TypeOK'
      <3>1. got' \in R!Got
        BY <2>1 DEF R!Got
      <3> QED BY <1>0, <1>1, <2>1, <2>3, <3>1, StillTyped DEF TypeOK
    <2>6. Turn'
      BY <1>0, <1>1, <2>1, <2>2, <2>3 DEF Turn
    <2>7. Newcomer = {} /\ Newcomer' = {} => Shared'
      <3>1. Queued' = {q \in Tasks : HasPid(child'[q]) \/ got' = [pid |-> q, event |-> "exited"]}
        <4>1. Queued' = Queued
          BY <1>0 DEF Queued
        <4>2. \A q \in Tasks : q \in Queued <=> HasPid(child'[q]) \/ got' = [pid |-> q, event |-> "exited"]
          BY <1>1, <2>1, <2>2, <2>3
        <4>3. Queued \subseteq Tasks
          BY <1>1
        <4> QED BY <4>1, <4>2, <4>3
      <3> QED BY <1>0, <1>1, <3>1 DEF Shared, Queued
    <2> QED BY <1>0, <2>1, <2>4, <2>5, <2>6, <2>7, StillHandling
  <1> QED BY <1>2, <1>3 DEF EnterChild, R!EnterChild, WaitForChild, R!WaitReportsNothing

LEMMA ContinuedKeeps ==
    ASSUME LoopInv, pc = "pause", ReactContinued PROVE LoopInv' /\ pc' = "pause"
  <1>0. /\ ~S!Masked /\ handler = "react" /\ got.event = "continued"
        /\ handler' = "wait" /\ got' = R!Nothing
        /\ UNCHANGED <<cnt, arg, sigchld, sigalrm, armed, requestvars, lists, current>>
    BY DEF ReactContinued, Handling, R!NextTurn
  <1>1. /\ TypeOK /\ Shared /\ Turn /\ got.pid \in Tasks /\ HasPid(child[got.pid])
        /\ low \in Seq(Tasks) /\ high \in Seq(Tasks) /\ child \in [Tasks -> Child]
        /\ sigchld \in BOOLEAN /\ sigalrm \in BOOLEAN /\ armed \in BOOLEAN
    BY <1>0, Handled DEF Turn
  <1>2. /\ pc' = "pause"
        /\ child' \in {child, [child EXCEPT ![got.pid] = SendStop(child[got.pid])]}
    BY <1>1 DEF ReactContinued
  <1>3. /\ child' \in [Tasks -> Child]
        /\ \A p \in Tasks : /\ Honest(child'[p])
                            /\ HasPid(child'[p]) <=> HasPid(child[p])
                            /\ child'[p].run = child[p].run
                            /\ Runs(child'[p]) <=> Runs(child[p])
    BY <1>1, <1>2, StopIs DEF Turn
  <1>4. got' \in R!Got /\ got'.event = "none"
    BY <1>0 DEF R!Got, R!Nothing
  <1>5. TypeOK'
    BY <1>0, <1>1, <1>2, <1>3, <1>4, StillTyped DEF lists, TypeOK
  <1>6. Turn'
    BY <1>0, <1>1, <1>3, <1>4 DEF Turn
  <1>7. Newcomer = {} /\ Newcomer' = {} => Shared'
    BY <1>0, <1>1, <1>3, <1>4 DEF Shared, Queued, lists
  <1> QED BY <1>0, <1>2, <1>3, <1>5, <1>6, <1>7, StillHandling

\* start_next_process chooses somebody who is in a list.
LEMMA NextIsQueued ==
    ASSUME NEW h \in Seq(Tasks), NEW l \in Seq(Tasks), h # << >> \/ l # << >>
    PROVE  /\ NextTask(h, l) \in Range(h) \cup Range(l) /\ NextTask(h, l) \in Tasks
           /\ h # << >> => NextTask(h, l) \in Range(h)
  BY HeadFacts DEF NextTask

\* A handler that gives the turn away: the lists are what they are after it, whoever had
\* the turn does not run, and everybody in the lists has a pid.
LEMMA NextKeeps ==
    ASSUME LoopInv, pc = "pause", ~S!Masked, StartNext,
           handler' = "wait", got' = R!Nothing,
           UNCHANGED <<cnt, arg, sigalrm, requestvars>>,
           high' \in Seq(Tasks), low' \in Seq(Tasks), IsInjective(high'), IsInjective(low'),
           Range(high') \cap Range(low') = {}, high' # << >> \/ low' # << >>,
           Range(high') \cup Range(low') = {p \in Tasks : HasPid(child[p])},
           ~Runs(child[current])
    PROVE  LoopInv' /\ pc' = "pause"
  <1>1. /\ TypeOK /\ Shared /\ Turn /\ \A p \in Tasks : child[p] \in Child
        /\ sigalrm \in BOOLEAN
    BY Handled
  <1>2. current' \in Range(high') \cup Range(low') /\ current' \in Tasks /\ HasPid(child[current'])
    BY NextIsQueued DEF StartNext
  <1>3. R!Start(current', pc)
    BY DEF StartNext
  <1>4. /\ pc' = "pause" /\ child' \in [Tasks -> Child]
        /\ sigchld' \in BOOLEAN /\ armed' \in BOOLEAN
        /\ \A q \in Tasks : /\ Honest(child'[q])
                            /\ HasPid(child'[q]) <=> HasPid(child[q])
                            /\ child'[q].run = "none" <=> child[q].run = "none"
                            /\ q # current' => child'[q] = child[q]
    BY <1>1, <1>2, <1>3, StartIs DEF Turn
  <1>5. got' \in R!Got /\ got'.event = "none"
    BY DEF R!Got, R!Nothing
  <1>6. TypeOK'
    BY <1>1, <1>2, <1>4, <1>5, StillTyped
  <1>7. Turn'
    BY <1>1, <1>4, <1>5 DEF Turn
  <1>8. Newcomer' = {} => Shared'
    <2> SUFFICES ASSUME Newcomer' = {} PROVE Shared'
      OBVIOUS
    <2>1. Queued' = {p \in Tasks \ Newcomer' :
                        HasPid(child'[p]) \/ got' = [pid |-> p, event |-> "exited"]}
      BY <1>4, <1>5 DEF Queued
    <2> QED BY <2>1, <1>2 DEF Shared, Queued
  <1> QED BY <1>4, <1>6, <1>7, <1>8, StillHandling

\* The current task has stopped: its list is rotated and the next one starts.
LEMMA StoppedKeeps ==
    ASSUME LoopInv, pc = "pause", ReactStopped PROVE LoopInv' /\ pc' = "pause"
  <1>0. /\ ~S!Masked /\ handler = "react" /\ got.event = "stopped"
        /\ handler' = "wait" /\ got' = R!Nothing /\ UNCHANGED <<cnt, arg, sigalrm, requestvars>>
    BY DEF ReactStopped, Handling, R!NextTurn
  <1>1. /\ TypeOK /\ Shared /\ Turn /\ Talk /\ got.pid \in Tasks /\ current \in Queued
        /\ child[got.pid].run # "running" /\ got # [pid |-> got.pid, event |-> "exited"]
        /\ low \in Seq(Tasks) /\ high \in Seq(Tasks) /\ child \in [Tasks -> Child]
        /\ sigchld \in BOOLEAN /\ sigalrm \in BOOLEAN /\ armed \in BOOLEAN
    BY <1>0, Handled DEF Turn
  <1>2. Queued = {p \in Tasks : HasPid(child[p])}
    BY <1>0, Handled
  <1>3. CASE got.pid = current
    <2>1. Rotate /\ StartNext
      BY <1>3 DEF ReactStopped
    <2>2. /\ IsInjective(high) /\ IsInjective(low) /\ Range(high) \cap Range(low) = {}
          /\ Range(<< >>) = {}
      BY <1>1, EmptySeq, LenProperties DEF Shared, Range
    <2>3. /\ high' \in Seq(Tasks) /\ low' \in Seq(Tasks) /\ IsInjective(high') /\ IsInjective(low')
          /\ Range(high') = Range(high) /\ Range(low') = Range(low)
          /\ high' # << >> \/ low' # << >>
      <3>1. CASE high # << >>
        BY <1>1, <2>1, <2>2, <3>1, AdvanceFacts DEF Rotate
      <3>2. CASE high = << >>
        <4>1. low # << >>
          BY <1>1, <2>2, <3>2 DEF Queued
        <4> QED BY <1>1, <2>1, <2>2, <3>2, <4>1, AdvanceFacts DEF Rotate
      <3> QED BY <3>1, <3>2
    <2>4. ~Runs(child[current])
      BY <1>1, <1>3 DEF Runs
    <2>5. Range(high') \cup Range(low') = {p \in Tasks : HasPid(child[p])}
      BY <1>2, <2>3 DEF Queued
    <2>6. Range(high') \cap Range(low') = {}
      BY <2>2, <2>3
    <2> QED BY <1>0, <2>1, <2>3, <2>4, <2>5, <2>6, NextKeeps
  <1>4. CASE got.pid # current
    <2>1. UNCHANGED <<child, sigchld, armed, pc, lists, current>>
      BY <1>4 DEF ReactStopped
    <2>2. got' \in R!Got /\ got'.event = "none"
      BY <1>0 DEF R!Got, R!Nothing
    <2>3. TypeOK'
      BY <1>0, <1>1, <2>1, <2>2, StillTyped DEF lists, TypeOK
    <2>4. Turn'
      BY <1>0, <1>1, <2>1, <2>2 DEF Turn
    <2>5. Newcomer = {} /\ Newcomer' = {} => Shared'
      BY <1>0, <1>1, <2>1, <2>2 DEF Shared, Queued, lists
    <2> QED BY <1>0, <2>1, <2>3, <2>4, <2>5, StillHandling
  <1> QED BY <1>3, <1>4

\* delete_from_list, of a pid that is in the list or not.
LEMMA BuryFacts ==
    ASSUME NEW a \in Seq(Tasks), IsInjective(a), NEW p \in Tasks
    PROVE  /\ DeleteFromList(a, p) \in Seq(Tasks) /\ IsInjective(DeleteFromList(a, p))
           /\ Range(DeleteFromList(a, p)) = Range(a) \ {p}
  <1>1. CASE p \in Range(a)
    BY <1>1, DeleteFacts
  <1>2. CASE p \notin Range(a)
    BY <1>2 DEF DeleteFromList
  <1> QED BY <1>1, <1>2

\* A task has died: it leaves the list it is in, and if it had the turn the next one
\* gets it.
LEMMA DiedKeeps ==
    ASSUME LoopInv, pc = "pause", ReactDied PROVE LoopInv' /\ pc' \in {"pause", "done"}
  <1>0. /\ ~S!Masked /\ handler = "react" /\ got.event = "exited"
        /\ handler' = "wait" /\ got' = R!Nothing /\ UNCHANGED <<cnt, arg, sigalrm, requestvars>>
        /\ high' = DeleteFromList(high, got.pid) /\ low' = DeleteFromList(low, got.pid)
    BY DEF ReactDied, Handling, R!NextTurn, Bury
  <1>1. /\ TypeOK /\ Shared /\ Turn /\ Talk /\ got.pid \in Tasks /\ ~HasPid(child[got.pid])
        /\ low \in Seq(Tasks) /\ high \in Seq(Tasks) /\ child \in [Tasks -> Child]
        /\ sigchld \in BOOLEAN /\ sigalrm \in BOOLEAN /\ armed \in BOOLEAN
        /\ current \in Queued /\ current \in Tasks
        /\ Queued = {p \in Tasks : HasPid(child[p]) \/ p = got.pid}
    BY <1>0, Handled DEF Turn
  <1>2. IsInjective(high) /\ IsInjective(low) /\ Range(high) \cap Range(low) = {}
    BY <1>1 DEF Shared
  <1>3. /\ high' \in Seq(Tasks) /\ low' \in Seq(Tasks) /\ IsInjective(high') /\ IsInjective(low')
        /\ Range(high') = Range(high) \ {got.pid} /\ Range(low') = Range(low) \ {got.pid}
    BY <1>0, <1>1, <1>2, BuryFacts
  <1>4. /\ Range(high') \cap Range(low') = {}
        /\ Range(high') \cup Range(low') = {p \in Tasks : HasPid(child[p])}
    BY <1>1, <1>2, <1>3 DEF Queued
  <1>5. got' \in R!Got /\ got'.event = "none"
    BY <1>0 DEF R!Got, R!Nothing
  <1>6. CASE high' = << >> /\ low' = << >>
    <2>1. pc' = "done" /\ UNCHANGED <<child, sigchld, armed, current>>
      BY <1>6 DEF ReactDied
    <2>2. TypeOK'
      BY <1>0, <1>1, <1>3, <1>5, <2>1, StillTyped DEF TypeOK
    <2> QED BY <2>1, <2>2, StillLooping
  <1>7. CASE (high' # << >> \/ low' # << >>) /\ got.pid = current
    <2>1. StartNext
      BY <1>7 DEF ReactDied
    <2>2. ~Runs(child[current])
      BY <1>1, <1>7 DEF Runs, HasPid
    <2> QED BY <1>0, <1>3, <1>4, <1>7, <2>1, <2>2, NextKeeps
  <1>8. CASE (high' # << >> \/ low' # << >>) /\ got.pid # current
    <2>1. UNCHANGED <<child, sigchld, armed, pc, current>>
      BY <1>8 DEF ReactDied
    <2>2. TypeOK'
      BY <1>0, <1>1, <1>3, <1>5, <2>1, StillTyped DEF TypeOK
    <2>3. Turn'
      BY <1>0, <1>1, <1>5, <2>1 DEF Turn
    <2>4. Newcomer = {} /\ Newcomer' = {} => Shared'
      <3>1. current' \in Queued'
        BY <1>1, <1>3, <1>8, <2>1 DEF Queued
      <3> QED BY <3>1, <1>3, <1>4, <1>5, <2>1 DEF Shared, Queued
    <2> QED BY <1>0, <2>1, <2>2, <2>3, <2>4, StillHandling
  <1> QED BY <1>6, <1>7, <1>8

----------------------------------------------------------------------------
(* What is ShellScheduler's. *)

SS == INSTANCE ShellSchedulerProofs WITH procs <- low

LEMMA SameNumbers ==
    /\ \A X : S!Cardinality(X) = SS!Cardinality(X)
    /\ \A X : S!Cardinality(X) = Cardinality(X)
  <1>1. ASSUME NEW X PROVE S!Cardinality(X) = SS!Cardinality(X)
    BY Zenon DEF S!Cardinality, SS!Cardinality
  <1>2. ASSUME NEW X PROVE S!Cardinality(X) = Cardinality(X)
    BY Zenon DEF S!Cardinality, Cardinality
  <1> QED BY <1>1, <1>2

LEMMA SameNextId ==
    /\ S!nextID = SS!nextID
    /\ \A p \in Tasks : (S!Fork(p) <=> SS!Fork(p)) /\ (S!Enlist(p) <=> SS!Enlist(p))
  <1>1. S!nextID = SS!nextID
    BY SameNumbers DEF S!nextID, SS!nextID, S!NoId, SS!NoId
  <1>2. ASSUME NEW p \in Tasks PROVE S!Fork(p) <=> SS!Fork(p)
    BY DEF S!Fork, SS!Fork, S!Forked, SS!Forked, S!Unborn, SS!Unborn
  <1>3. ASSUME NEW p \in Tasks PROVE S!Enlist(p) <=> SS!Enlist(p)
    BY <1>1 DEF S!Enlist, SS!Enlist, S!AppendToList, SS!AppendToList
  <1> QED BY <1>1, <1>2, <1>3

LEMMA ShellAssumptionHolds == SS!ShellAssumption
  BY PrioAssumption, SameNumbers DEF S!ShellAssumption, SS!ShellAssumption, S!IsFiniteSet, SS!IsFiniteSet,
     IsFiniteSet

LEMMA SameTypes == S!TypeOK <=> SS!TypeOK
  BY SameNumbers DEF S!TypeOK, SS!TypeOK, S!R!TypeOK, SS!R!TypeOK, S!R!Child, SS!R!Child, S!R!Got,
         SS!R!Got, S!R!NoPid, SS!R!NoPid, S!NoId, SS!NoId, S!Requests, SS!Requests,
         S!NoRequest, SS!NoRequest

\* What main does before it starts the first task.
LEMMA StartsAreShells ==
    ASSUME Start, pc # "load" PROVE SS!Start /\ UNCHANGED <<high, current>>
  <1>1. R!InstallHandlers /\ UNCHANGED requestvars => SS!StartUp
    BY DEF R!InstallHandlers, SS!StartUp, SS!R!InstallHandlers, requestvars, SS!requestvars
  <1>2. S!ForkShell => SS!ForkShell
    BY SameNextId, ShellAssumptionHolds DEF S!ForkShell, SS!ForkShell, SS!ShellAssumption
  <1>3. S!StopShell => SS!StopShell
    BY DEF S!StopShell, SS!StopShell, S!SendStop, SS!SendStop
  <1>4. S!ForkTask => SS!ForkTask
    BY SameNextId DEF S!ForkTask, SS!ForkTask
  <1>5. ASSUME NEW p \in Tasks, S!CollectReady(p) PROVE SS!CollectReady(p)
    BY <1>5 DEF S!CollectReady, SS!CollectReady, S!Reportable, SS!Reportable, S!Reported,
           SS!Reported, S!HasPid, SS!HasPid, S!nproc, SS!nproc, S!requestvars, SS!requestvars
  <1>6. Start => /\ (R!InstallHandlers /\ UNCHANGED requestvars) \/ pc = "load" \/ S!ForkShell
                    \/ S!StopShell \/ S!ForkTask \/ \E p \in Tasks : S!CollectReady(p)
                 /\ pc = "load" \/ UNCHANGED <<high, current>>
    BY DEF Start, StartUp
  <1> QED BY <1>1, <1>2, <1>3, <1>4, <1>5, <1>6 DEF SS!Start

\* What the children do, and the shell.
LEMMA SameKernel ==
    S!Kernel \/ (\E p \in Tasks : S!TaskExits(p)) => SS!Kernel \/ \E p \in Tasks : SS!TaskExits(p)
  <1>1. ASSUME NEW p \in Tasks
        PROVE  /\ S!R!TaskRaises(p) => SS!R!TaskRaises(p)
               /\ S!R!TaskStops(p) => SS!R!TaskStops(p)
               /\ S!R!TaskKilled(p) => SS!R!TaskKilled(p)
               /\ S!R!TaskExits(p) => SS!R!TaskExits(p)
    <2> USE DEF S!R!Becomes, SS!R!Becomes, S!R!Up, SS!R!Up, S!R!Catching, SS!R!Catching,
                S!R!sched, SS!R!sched
    <2>1. S!R!TaskRaises(p) => SS!R!TaskRaises(p)
      BY DEF S!R!TaskRaises, SS!R!TaskRaises, S!R!CanRaise, SS!R!CanRaise, S!R!Raise, SS!R!Raise
    <2>2. S!R!TaskStops(p) => SS!R!TaskStops(p)
      BY DEF S!R!TaskStops, SS!R!TaskStops, S!R!CanTakeStop, SS!R!CanTakeStop, S!R!TakeStop,
             SS!R!TakeStop
    <2>3. S!R!TaskKilled(p) => SS!R!TaskKilled(p)
      BY DEF S!R!TaskKilled, SS!R!TaskKilled, S!R!CanTakeKill, SS!R!CanTakeKill, S!R!Die, SS!R!Die,
             S!R!Alive, SS!R!Alive
    <2>4. S!R!TaskExits(p) => SS!R!TaskExits(p)
      BY DEF S!R!TaskExits, SS!R!TaskExits, S!R!CanExit, SS!R!CanExit, S!R!Die, SS!R!Die
    <2> QED BY <2>1, <2>2, <2>3, <2>4
  <1>2. S!R!TimerExpires => SS!R!TimerExpires
    BY DEF S!R!TimerExpires, SS!R!TimerExpires, S!R!Up, SS!R!Up, S!R!sched, SS!R!sched
  <1>3. S!Kernel => SS!Kernel
    BY <1>1, <1>2 DEF S!Kernel, SS!Kernel, S!requestvars, SS!requestvars
  <1>4. ASSUME NEW p \in Tasks, S!TaskExits(p) PROVE SS!TaskExits(p)
    BY <1>1, <1>4 DEF S!TaskExits, SS!TaskExits, S!requestvars, SS!requestvars
  <1> QED BY <1>3, <1>4

LEMMA SameEnvironment ==
    ASSUME Environment
    PROVE  /\ SS!ShellSteps \/ SS!Kernel \/ \E p \in Tasks : SS!TaskExits(p)
           /\ UNCHANGED <<high, current>>
  <1>1. S!ShellSteps => SS!ShellSteps
    BY DEF S!ShellSteps, SS!ShellSteps, S!IssueRequest, SS!IssueRequest, S!ReceiveReply,
           SS!ReceiveReply, S!ShellRuns, SS!ShellRuns, S!R!Up, SS!R!Up, S!CanExit, SS!CanExit,
           S!Requests, SS!Requests, S!kernel, SS!kernel, S!sched, SS!sched
  <1> QED BY <1>1, SameKernel DEF Environment

----------------------------------------------------------------------------
(* Until main has started the first task. *)

\* ShellScheduler's invariants hold of its variables and of low_procs; there is no HIGH
\* task yet.
StartInv == TypeOK /\ R!Up /\ pc # "pause" /\ high = << >> /\ SS!ShellInv /\ SS!RunInv

PrioInv == StartInv \/ LoopInv

LEMMA PrioAtFirst == Init => StartInv
  <1> SUFFICES ASSUME Init PROVE StartInv
    OBVIOUS
  <1>1. SS!Init
    BY DEF Init, S!Init, SS!Init, S!R!Init, SS!R!Init, S!R!Unborn, SS!R!Unborn, S!R!NoPid,
           SS!R!NoPid, S!R!Nothing, SS!R!Nothing, S!NoId, SS!NoId, S!NoRequest, SS!NoRequest
  <1>2. SS!ShellInv /\ SS!RunInv
    BY <1>1, ShellAssumptionHolds, SS!ShellAtFirst, SS!RunAtFirst
  <1>3. S!TypeOK
    BY <1>2, SameTypes DEF SS!ShellInv
  <1>4. high = << >> /\ current = R!NoPid /\ pc # "pause" /\ R!Up
    BY DEF Init, S!Init, S!R!Init, R!Up
  <1> QED BY <1>2, <1>3, <1>4, EmptySeq DEF StartInv, TypeOK

\* Forks, waits and what the children do meanwhile are ShellScheduler's steps.
LEMMA ShellsSteps ==
    ASSUME StartInv, pc' # "pause", UNCHANGED <<high, current>>,
           \/ SS!Start \/ SS!ShellSteps \/ SS!Kernel \/ \E p \in Tasks : SS!TaskExits(p)
           \/ UNCHANGED SS!vars
    PROVE  PrioInv'
  <1>1. SS!ShellInv /\ SS!RunInv /\ high = << >> /\ TypeOK
    BY DEF StartInv
  <1>2. [SS!Next]_SS!vars
    BY DEF SS!Next, SS!Main
  <1>3. SS!ShellInv' /\ SS!RunInv'
    BY <1>1, <1>2, ShellAssumptionHolds, SS!ShellStep, SS!RunStep
  <1>4. SS!TypeOK'
    BY <1>3 DEF SS!ShellInv
  <1>5. S!TypeOK'
    BY <1>4, SameNumbers DEF S!TypeOK, SS!TypeOK, S!R!TypeOK, SS!R!TypeOK, S!R!Child, SS!R!Child, S!R!Got,
         SS!R!Got, S!R!NoPid, SS!R!NoPid, S!NoId, SS!NoId, S!Requests, SS!Requests,
         S!NoRequest, SS!NoRequest
  <1>6. TypeOK' /\ high' = << >>
    BY <1>1, <1>5 DEF TypeOK
  <1>7. CASE R!Up'
    BY <1>3, <1>6, <1>7 DEF PrioInv, StartInv
  <1>8. CASE ~R!Up'
    BY <1>6, <1>8 DEF PrioInv, LoopInv, R!Up
  <1> QED BY <1>7, <1>8

\* What ShellScheduler's invariants say until then.
LEMMA BeforeTheFirst ==
    ASSUME StartInv
    PROVE  /\ high = << >> /\ handler = "none" /\ got.event = "none" /\ ~sigchld /\ ~sigalrm
           /\ IsInjective(low) /\ Newcomer = {} /\ Range(low) = {p \in Tasks : HasPid(child[p])}
           /\ \A p \in Tasks : Honest(child[p])
           /\ loop \in {"shell", "stop", "tasks"} /\ Numbered
           /\ pc \in {"load", "kill"} => low # << >>
           /\ pc \in {"load", "kill"} => \A p \in Tasks : child[p].run \in {"none", "stopped"}
           /\ shellAt = "prompt" => rq = S!NoRequest /\ reply = "none"
           /\ rq # S!NoRequest => reply = "none"
  <1>1. /\ SS!TypeOK /\ SS!Listed /\ SS!Phases /\ SS!Requesting /\ SS!Numbered /\ SS!RunInv
        /\ high = << >> /\ pc # "pause" /\ R!Up /\ SS!R!Up /\ TypeOK
    BY DEF StartInv, SS!ShellInv, R!Up, SS!R!Up
  <1>2. pc \in {"fork", "ready", "install", "load", "kill"}
    BY <1>1 DEF SS!TypeOK, SS!R!TypeOK, R!Up
  <1>3. /\ loop \in {"shell", "stop", "tasks"} /\ SS!Newcomer = {}
        /\ loop \in {"shell", "stop"} => pc = "fork"
    BY <1>1, <1>2 DEF SS!Phases, SS!Newcomer
  <1>4. /\ handler = "none" /\ ~sigchld /\ ~sigalrm /\ \A p \in Tasks : Honest(child[p])
        /\ pc \in {"load", "kill"} => \A p \in Tasks : child[p].run \in {"none", "stopped"}
    BY <1>1 DEF SS!RunInv, SS!Honest, Honest
  <1>5. got.event = "none"
    BY <1>1, <1>4 DEF SS!Listed, SS!RR!HandlerInv
  <1>6. IsInjective(low) /\ Range(low) = {p \in Tasks : HasPid(child[p])}
    BY <1>1, <1>3, <1>5 DEF SS!Listed, SS!IsInjective, IsInjective, SS!Range, Range, SS!HasPid, HasPid
  <1>7. loop # "shell" => low # << >>
    BY <1>1 DEF SS!Listed
  <1>8. /\ shellAt = "prompt" => rq = S!NoRequest /\ reply = "none"
        /\ rq # S!NoRequest => reply = "none"
    BY <1>1 DEF SS!Requesting, SS!NoRequest, S!NoRequest
  <1>9. Newcomer = {} /\ Numbered
    BY <1>1, <1>3, SameNextId DEF Newcomer, SS!Newcomer, Numbered, SS!Numbered, S!NoId, SS!NoId
  <1> QED BY <1>1, <1>2, <1>3, <1>4, <1>5, <1>6, <1>7, <1>8, <1>9

\* main's start_next_process.
LEMMA FirstTurn ==
    ASSUME StartInv, StartUp, pc = "load" PROVE LoopInv'
  <1>1. /\ current' = NextTask(high, low) /\ R!Start(current', "pause") /\ loop' = "read"
        /\ UNCHANGED <<cnt, arg, handler, got, sigalrm, lists,
                       ids, todo, shellAt, rq, target, ret, reply>>
    BY DEF StartUp, R!InstallHandlers
  <1>2. /\ high = << >> /\ low # << >> /\ handler = "none" /\ got.event = "none"
        /\ IsInjective(low) /\ Newcomer = {} /\ Range(low) = {p \in Tasks : HasPid(child[p])}
        /\ \A p \in Tasks : Honest(child[p]) /\ child[p].run \in {"none", "stopped"}
        /\ Numbered /\ TypeOK
        /\ shellAt = "prompt" => rq = S!NoRequest /\ reply = "none"
        /\ rq # S!NoRequest => reply = "none"
    BY BeforeTheFirst DEF StartInv
  <1>3. current' = Head(low) /\ current' \in Tasks /\ current' \in Range(low) /\ HasPid(child[current'])
    BY <1>1, <1>2, HeadFacts, Typed DEF NextTask
  <1>4. /\ pc' = "pause" /\ child' \in [Tasks -> Child]
        /\ sigchld' \in BOOLEAN /\ armed' \in BOOLEAN
        /\ \A q \in Tasks : /\ Honest(child'[q])
                            /\ HasPid(child'[q]) <=> HasPid(child[q])
                            /\ child'[q].run = "none" <=> child[q].run = "none"
                            /\ q # current' => child'[q] = child[q]
    BY <1>1, <1>2, <1>3, StartIs
  <1>5. TypeOK'
    BY <1>1, <1>2, <1>3, <1>4, EmptySeq
       DEF TypeOK, S!TypeOK, S!R!TypeOK, S!R!Child, Child, S!R!Got, lists
  <1>6. Newcomer' = {} /\ Newcomer = {}
    BY <1>1, <1>2 DEF Newcomer
  <1>7. Numbered'
    BY <1>1, <1>2, <1>4, <1>6, NumbersKept
  <1>8. Range(<< >>) = {} /\ IsInjective(<< >>)
    BY EmptySeq, LenProperties DEF Range, IsInjective
  <1>9. Shared'
    <2>1. high' = << >> /\ low' = low /\ got'.event = "none"
      BY <1>1, <1>2 DEF lists
    <2>2. Range(high') \cup Range(low') = {p \in Tasks : HasPid(child'[p])}
      BY <2>1, <1>2, <1>4, <1>8
    <2> QED BY <2>1, <2>2, <1>2, <1>3, <1>6, <1>8 DEF Shared, Queued
  <1>10. Turn'
    BY <1>1, <1>2, <1>4 DEF Turn, Runs
  <1>11. Talk'
    BY <1>1, <1>2 DEF Talk, S!NoRequest
  <1> QED BY <1>4, <1>5, <1>7, <1>9, <1>10, <1>11, StillLooping

----------------------------------------------------------------------------
(* While main loops: what the children do, and the end of an exec. *)

LEMMA KernelKeeps ==
    ASSUME LoopInv, pc = "pause", SS!Kernel \/ \E p \in Tasks : SS!TaskExits(p),
           UNCHANGED <<high, current>>
    PROVE  LoopInv'
  <1>0. TypeOK /\ Shared /\ Turn /\ Talk /\ Numbered
    BY DEF LoopInv
  <1>1. /\ UNCHANGED <<low, pc, cnt, arg, handler, got, requestvars>>
        /\ child' \in [Tasks -> Child]
        /\ sigchld' \in BOOLEAN /\ sigalrm' \in BOOLEAN /\ armed' \in BOOLEAN
        /\ \A p \in Tasks :
              \/ child'[p] = child[p]
              \/ CanRaise(child[p]) /\ child'[p] = Raise(child[p])
              \/ CanTakeStop(child[p]) /\ child'[p] = TakeStop(child[p])
              \/ (CanExit(child[p]) \/ CanTakeKill(child[p])) /\ child'[p] = Die(child[p])
    BY <1>0, SameTypes, ShellAssumptionHolds, SS!KernelSteps
       DEF TypeOK, SS!sched, SS!requestvars, requestvars, SS!Child, Child, SS!CanRaise, CanRaise, SS!Raise,
           Raise, SS!CanTakeStop, CanTakeStop, SS!TakeStop, TakeStop, SS!CanExit, CanExit,
           SS!CanTakeKill, CanTakeKill, SS!Alive, Alive, SS!Die, Die
  <1>2. \A p \in Tasks : /\ Honest(child'[p])
                         /\ HasPid(child'[p]) <=> HasPid(child[p])
                         /\ child'[p].run = "none" <=> child[p].run = "none"
                         /\ child'[p].run = "running" => child'[p] = child[p]
    <2> SUFFICES ASSUME NEW p \in Tasks
                 PROVE  /\ Honest(child'[p])
                        /\ HasPid(child'[p]) <=> HasPid(child[p])
                        /\ child'[p].run = "none" <=> child[p].run = "none"
                        /\ child'[p].run = "running" => child'[p] = child[p]
      OBVIOUS
    <2>1. child[p] \in Child /\ Honest(child[p])
      BY <1>0, Typed DEF Turn
    <2>2. /\ Raise(child[p]).run = "stopped" /\ TakeStop(child[p]).run = "stopped"
          /\ Die(child[p]).run = "zombie"
      BY <2>1 DEF Raise, TakeStop, Die, Child
    <2>3. /\ HasPid(child'[p]) <=> HasPid(child[p])
          /\ Honest(child'[p])
      BY <1>1, <2>1, ChildFacts, HonestFacts
    <2>4. child'[p] # child[p] => HasPid(child[p])
      BY <1>1, <2>1, ChildFacts
    <2> QED BY <1>1, <2>2, <2>3, <2>4 DEF HasPid
  <1>3. TypeOK'
    BY <1>0, <1>1, Typed, StillTyped DEF TypeOK
  <1>4. Newcomer' = Newcomer
    BY <1>1 DEF Newcomer, requestvars
  <1>5. Numbered'
    BY <1>0, <1>1, <1>2, <1>4, NumbersKept DEF requestvars
  <1>6. Shared'
    BY <1>0, <1>1, <1>2, <1>4 DEF Shared, Queued
  <1>7. Turn'
    BY <1>0, <1>1, <1>2 DEF Turn, Runs
  <1>8. Talk'
    BY <1>0, <1>1, <1>2 DEF Talk, S!NoRequest, requestvars
  <1> QED BY <1>1, <1>3, <1>5, <1>6, <1>7, <1>8, StillLooping
\* The kill, or the append_to_list of an exec: to the LOW list.
LEMMA EndKeeps ==
    ASSUME LoopInv, S!EndRequest, UNCHANGED <<high, current>> PROVE LoopInv' /\ pc' = "pause"
  <1>0. /\ pc = "pause" /\ loop = "acting" /\ handler = "none"
        /\ UNCHANGED <<cnt, arg, handler, got, sigchld, sigalrm, armed, todo, shellAt, rq, reply>>
        /\ ret' = "ok" /\ loop' = "answer" /\ target' = S!R!NoPid
    BY DEF S!EndRequest, S!Looping
  <1>1. /\ TypeOK /\ Shared /\ Turn /\ Talk /\ Numbered
        /\ rq # S!NoRequest /\ target \in Tasks /\ HasPid(child[target])
    BY <1>0 DEF LoopInv, Talk
  <1>2. /\ got.event = "none" /\ Newcomer' = {}
        /\ Newcomer = IF rq.op = "exec" THEN {target} ELSE {}
        /\ Queued = {p \in Tasks \ Newcomer : HasPid(child[p])}
    <2>1. got.event = "none" /\ Newcomer' = {}
      BY <1>0, <1>1 DEF Turn, Newcomer
    <2> QED BY <1>0, <1>1, <2>1 DEF Shared, Newcomer
  <1>3. CASE rq.op = "kill"
    <2>1. child' = [child EXCEPT ![target] = SendKill(child[target])] /\ UNCHANGED <<pc, low, ids>>
      BY <1>1, <1>3 DEF S!EndRequest, S!HasPid, HasPid, S!SendKill, SendKill, S!Alive, Alive
    <2>2. /\ child' \in [Tasks -> Child]
          /\ \A q \in Tasks : /\ Honest(child'[q])
                              /\ HasPid(child'[q]) <=> HasPid(child[q])
                              /\ child'[q].run = child[q].run
                              /\ Runs(child'[q]) => Runs(child[q])
      <3>1. child[target] \in Child /\ child \in [Tasks -> Child] /\ \A q \in Tasks : Honest(child[q])
        BY <1>1, Typed DEF Turn
      <3>2. /\ SendKill(child[target]) \in Child /\ Honest(SendKill(child[target]))
            /\ HasPid(SendKill(child[target])) <=> HasPid(child[target])
            /\ SendKill(child[target]).run = child[target].run
        BY <1>1, <3>1, SignalFacts, HonestFacts
      <3>3. Runs(SendKill(child[target])) => Runs(child[target])
        BY <3>1 DEF Runs, SendKill, Child
      <3> QED BY <1>1, <2>1, <3>1, <3>2, <3>3
    <2>3. TypeOK'
      BY <1>0, <1>1, <2>1, <2>2
         DEF TypeOK, S!TypeOK, S!R!TypeOK, S!R!Child, Child, S!R!Got, S!R!NoPid, S!NoRequest
    <2>4. Numbered'
      BY <1>0, <1>1, <1>2, <1>3, <2>1, <2>2, NumbersKept
    <2>5. Shared'
      BY <1>0, <1>1, <1>2, <1>3, <2>1, <2>2 DEF Shared, Queued
    <2>6. Turn' /\ Talk'
      BY <1>0, <1>1, <1>2, <2>1, <2>2 DEF Turn, Talk, S!NoRequest
    <2> QED BY <1>0, <2>1, <2>3, <2>4, <2>5, <2>6, StillLooping
  <1>4. CASE rq.op # "kill"
    <2>1. rq.op = "exec" /\ SS!Enlist(target) /\ UNCHANGED <<child, pc>>
      BY <1>1, <1>4, SameNextId DEF S!EndRequest
    <2>2. target \notin Queued /\ ids[target] = SS!NoId
      BY <1>1, <1>2, <2>1 DEF Numbered, S!NoId, SS!NoId
    <2>3. /\ SS!TypeOK /\ target \notin SS!Range(low) /\ SS!IsInjective(low)
          /\ \A q \in Tasks : ids[q] < SS!nextID
          /\ \A q, r \in Tasks : ids[q] = ids[r] /\ ids[q] # SS!NoId => q = r
      BY <1>1, <2>2, Typed, SameTypes, SameNextId
         DEF TypeOK, Queued, Shared, SS!Range, Range, SS!IsInjective, IsInjective, Numbered, S!NoId, SS!NoId
    <2>4. /\ low' \in Seq(Tasks) /\ SS!IsInjective(low')
          /\ SS!Range(low') = SS!Range(low) \cup {target}
          /\ ids' \in [Tasks -> SS!NoId .. SS!Cardinality(Tasks) - 1]
          /\ \A q \in Tasks : ids'[q] < SS!nextID'
          /\ \A q, r \in Tasks : ids'[q] = ids'[r] /\ ids'[q] # SS!NoId => q = r
          /\ \A q \in Tasks : ids'[q] = SS!NoId <=> ids[q] = SS!NoId /\ q # target
      BY <1>1, <2>1, <2>2, <2>3, ShellAssumptionHolds, SS!EnlistFacts
    <2>5. IsInjective(low') /\ Range(low') = Range(low) \cup {target}
      BY <2>4 DEF SS!IsInjective, IsInjective, SS!Range, Range
    <2>6. TypeOK'
      <3>1. ids' \in [Tasks -> S!NoId .. S!Cardinality(Tasks) - 1]
        BY <2>4, SameNumbers DEF S!NoId, SS!NoId
      <3>2. /\ low' \in Seq(Tasks) /\ pc' = pc /\ child' = child
            /\ loop' = "answer" /\ target' = S!R!NoPid /\ ret' = "ok"
        BY <1>0, <2>1, <2>4
      <3> QED BY <1>0, <1>1, <3>1, <3>2
           DEF TypeOK, S!TypeOK, S!R!TypeOK, S!R!Got, S!R!NoPid, S!NoRequest
    <2>7. Numbered'
      <3>1. S!nextID' = SS!nextID'
        BY SameNumbers DEF S!nextID, SS!nextID, S!NoId, SS!NoId
      <3> QED BY <1>1, <1>2, <2>1, <2>4, <3>1 DEF Numbered, HasPid, S!NoId, SS!NoId
    <2>8. Shared'
      <3>1. Queued' = Queued \cup {target} /\ current' \in Queued'
        BY <1>1, <2>5 DEF Queued, Shared
      <3>2. Queued' = {q \in Tasks \ Newcomer' :
                          HasPid(child'[q]) \/ got' = [pid |-> q, event |-> "exited"]}
        BY <1>0, <1>1, <1>2, <2>1, <3>1
      <3>3. IsInjective(high') /\ Range(high') \cap Range(low') = {}
        BY <1>1, <2>2, <2>5 DEF Queued, Shared
      <3> QED BY <2>5, <3>1, <3>2, <3>3 DEF Shared
    <2>9. Turn' /\ Talk'
      BY <1>0, <1>1, <1>2, <2>1 DEF Turn, Talk, S!NoRequest
    <2> QED BY <1>0, <2>1, <2>6, <2>7, <2>8, <2>9, StillLooping
  <1> QED BY <1>3, <1>4

----------------------------------------------------------------------------
(* The invariant is kept. *)

\* Until main has started the first task nobody is HIGH.
LEMMA StartStep ==
    ASSUME StartInv, [Next]_vars PROVE PrioInv' /\ high' = << >>
  <1>0. /\ handler = "none" /\ ~sigchld /\ ~sigalrm /\ pc # "pause" /\ R!Up /\ TypeOK
        /\ high = << >>
        /\ loop \in {"shell", "stop", "tasks"}
    BY BeforeTheFirst DEF StartInv
  <1>1. CASE Start /\ pc # "load"
    <2>1. pc' # "pause"
      BY <1>0, <1>1 DEF Start, StartUp, R!InstallHandlers, S!ForkShell, S!StopShell, S!ForkTask,
             S!CollectReady
    <2> QED BY <1>0, <1>1, <2>1, StartsAreShells, ShellsSteps
  <1>2. CASE Start /\ pc = "load"
    <2>1. StartUp
      BY <1>2 DEF Start, S!ForkShell, S!StopShell, S!ForkTask, S!CollectReady
    <2>2. high' = high
      BY <1>2, <2>1 DEF StartUp, R!InstallHandlers, lists
    <2> QED BY <1>0, <1>2, <2>1, <2>2, FirstTurn DEF PrioInv
  <1>3. CASE Environment
    <2>1. /\ SS!ShellSteps \/ SS!Kernel \/ \E p \in Tasks : SS!TaskExits(p)
          /\ UNCHANGED <<high, current>>
      BY <1>3, SameEnvironment
    <2>2. pc' = pc
      <3>1. CASE SS!ShellSteps
        BY <3>1 DEF SS!ShellSteps, SS!IssueRequest, SS!ReceiveReply, SS!sched
      <3>2. CASE SS!Kernel \/ \E p \in Tasks : SS!TaskExits(p)
        BY <1>0, <3>2, SameTypes, ShellAssumptionHolds, SS!KernelSteps DEF TypeOK, SS!sched
      <3> QED BY <2>1, <3>1, <3>2
    <2> QED BY <1>0, <2>1, <2>2, ShellsSteps
  <1>4. CASE RequestLoop
    BY <1>0, <1>4 DEF RequestLoop, SetPriority, BeginRequest, S!ReadRequest, S!EndRequest, S!Answer,
           S!Looping
  <1>5. CASE HandleAlarm \/ EnterChild \/ ChildLoop
    BY <1>0, <1>5 DEF HandleAlarm, EnterChild, R!EnterChild, ChildLoop, WaitForChild,
           R!WaitReportsNothing, R!WaitReports, ReactContinued, ReactDied, ReactStopped, Handling
  <1>6. CASE UNCHANGED vars
    <2>1. UNCHANGED <<SS!vars, high, current>>
      BY <1>6 DEF vars, kernel, place, requestvars, lists, SS!vars, SS!kernel, SS!sched, SS!requestvars
    <2>2. pc' = pc
      BY <1>6 DEF vars, place
    <2> QED BY <1>0, <2>1, <2>2, ShellsSteps
  <1> QED BY <1>0, <1>1, <1>2, <1>3, <1>4, <1>5, <1>6 DEF Next, Main, Exited

\* And no system call of a handler or of a request fails.
LEMMA LoopStep ==
    ASSUME LoopInv, [Next]_vars PROVE LoopInv' /\ (pc = "pause" => pc' # "failed")
  <1>1. CASE UNCHANGED vars
    BY <1>1 DEF vars, kernel, place, requestvars, lists, LoopInv, TypeOK, S!TypeOK, S!R!TypeOK,
           Shared, Queued, Turn, Talk, Numbered, S!nextID, Newcomer
  <1>2. CASE pc # "pause"
    <2>1. pc \in {"done", "failed"}
      BY <1>2 DEF LoopInv
    <2>2. ~(Start \/ RequestLoop)
      BY <2>1 DEF Start, StartUp, R!InstallHandlers, S!ForkShell, S!StopShell, S!ForkTask,
             S!CollectReady, RequestLoop, SetPriority, BeginRequest, S!ReadRequest, S!EndRequest,
             S!Answer, S!Looping
    <2>3. ~(HandleAlarm \/ EnterChild \/ ChildLoop)
      BY <2>1 DEF HandleAlarm, EnterChild, R!EnterChild, ChildLoop, WaitForChild,
             R!WaitReportsNothing, R!WaitReports, ReactContinued, ReactDied, ReactStopped, Handling,
             R!Catching
    <2>4. ~Environment
      <3>1. ~(SS!Kernel \/ \E p \in Tasks : SS!TaskExits(p))
        BY <2>1, SameTypes, ShellAssumptionHolds, SS!KernelSteps DEF LoopInv, TypeOK, SS!R!Up
      <3>2. ~SS!ShellSteps
        BY <2>1 DEF SS!ShellSteps, SS!IssueRequest, SS!ReceiveReply, SS!ShellRuns, SS!R!Up
      <3> QED BY <3>1, <3>2, SameEnvironment
    <2> QED BY <1>1, <1>2, <2>2, <2>3, <2>4 DEF Next, Main, Exited
  <1>3. CASE pc = "pause"
    <2>1. CASE Start
      BY <1>3, <2>1 DEF Start, StartUp, R!InstallHandlers, S!ForkShell, S!StopShell, S!ForkTask,
             S!CollectReady
    <2>2. CASE SetPriority \/ BeginRequest
      <3>1. pc' = pc
        BY <2>2 DEF SetPriority, BeginRequest, place
      <3> QED BY <1>3, <2>2, <3>1, PriorityKeeps, BeginKeeps
    <2>3. CASE (S!ReadRequest \/ S!Answer) /\ UNCHANGED <<high, current>>
      <3>1. pc' = pc
        BY <2>3 DEF S!ReadRequest, S!Answer, S!sched
      <3> QED BY <1>3, <2>3, <3>1, TalkingKeeps
    <2>4. CASE S!EndRequest /\ UNCHANGED <<high, current>>
      BY <1>3, <2>4, EndKeeps
    <2>5. CASE HandleAlarm \/ EnterChild \/ ChildLoop
      BY <1>3, <2>5, AlarmKeeps, WaitsKeep, ContinuedKeeps, StoppedKeeps, DiedKeeps DEF ChildLoop
    <2>6. CASE Environment
      <3>1. CASE S!ShellSteps
        <4>1. pc' = pc /\ UNCHANGED <<high, current>>
          BY <2>6, <3>1 DEF S!ShellSteps, S!IssueRequest, S!ReceiveReply, S!sched, Environment
        <4> QED BY <1>3, <3>1, <4>1, TalkingKeeps
      <3>2. CASE SS!Kernel \/ \E p \in Tasks : SS!TaskExits(p)
        <4>1. pc' = pc /\ UNCHANGED <<high, current>>
          BY <2>6, <3>2, SameTypes, ShellAssumptionHolds, SS!KernelSteps
             DEF LoopInv, TypeOK, SS!sched, Environment
        <4> QED BY <1>3, <3>2, <4>1, KernelKeeps
      <3> QED BY <2>6, <3>1, <3>2, SameKernel DEF Environment
    <2> QED BY <1>1, <1>3, <2>1, <2>2, <2>3, <2>4, <2>5, <2>6 DEF Next, Main, RequestLoop, Exited, R!Up
  <1> QED BY <1>2, <1>3

LEMMA PrioInvariance == Spec => []PrioInv
  <1>1. Init => PrioInv
    BY PrioAtFirst DEF PrioInv
  <1>2. PrioInv /\ [Next]_vars => PrioInv'
    BY StartStep, LoopStep DEF PrioInv
  <1> QED BY <1>1, <1>2, PTL DEF Spec

----------------------------------------------------------------------------
(* The theorems. *)

\* The variables of exer4/prio/scheduler-shell.c have their types in every behaviour.
THEOREM TypeCorrect == Spec => []TypeOK
  <1>1. PrioInv => TypeOK
    BY DEF PrioInv, StartInv, LoopInv
  <1> QED BY <1>1, PrioInvariance, PTL

\* At most one program runs, and it is that of current_pid, whatever requests have moved
\* it to the other list meanwhile.
THEOREM SingleRunner == Spec => []OneRunner
  <1>1. PrioInv => OneRunner
    <2> SUFFICES ASSUME PrioInv, R!Catching, NEW p \in Tasks,
                        child[p].run = "running", child[p].raised
                 PROVE  p = current
      BY DEF OneRunner
    <2>1. CASE StartInv
      <3>1. pc \in {"load", "kill"}
        BY <2>1 DEF StartInv, R!Catching
      <3> QED BY <2>1, <3>1, BeforeTheFirst
    <2>2. CASE LoopInv
      <3>1. pc = "pause"
        BY <2>2 DEF LoopInv, R!Catching
      <3> QED BY <2>2, <3>1 DEF LoopInv, Turn, Runs
    <2> QED BY <2>1, <2>2 DEF PrioInv
  <1> QED BY <1>1, PrioInvariance, PTL

\* append_to_list_with_id and delete_from_list never lose a child, nor put it in both
\* lists, or twice in one.
THEOREM ListsCorrect == Spec => []InOneList
  <1>1. PrioInv => InOneList
    <2> SUFFICES ASSUME PrioInv, R!Up, loop # "acting"
                 PROVE  /\ Queued = {p \in Tasks : \/ HasPid(child[p])
                                                   \/ got = [pid |-> p, event |-> "exited"]}
                        /\ IsInjective(high \o low)
      BY DEF InOneList
    <2>1. Range(<< >>) = {} /\ IsInjective(<< >>)
      BY EmptySeq, LenProperties DEF Range, IsInjective
    <2>2. high \in Seq(Tasks) /\ low \in Seq(Tasks)
      BY Typed DEF PrioInv, StartInv, LoopInv
    <2>3. /\ IsInjective(high) /\ IsInjective(low) /\ Range(high) \cap Range(low) = {}
          /\ Queued = {p \in Tasks : HasPid(child[p]) \/ got = [pid |-> p, event |-> "exited"]}
      <3>1. CASE StartInv
        <4>1. /\ high = << >> /\ got.event = "none" /\ IsInjective(low)
              /\ Range(low) = {p \in Tasks : HasPid(child[p])}
          BY <3>1, BeforeTheFirst
        <4> QED BY <2>1, <4>1 DEF Queued
      <3>2. CASE LoopInv
        <4>1. pc = "pause"
          BY <3>2 DEF LoopInv, R!Up
        <4>2. Newcomer = {}
          BY DEF Newcomer
        <4> QED BY <3>2, <4>1, <4>2 DEF LoopInv, Shared
      <3> QED BY <3>1, <3>2 DEF PrioInv
    <2> QED BY <2>2, <2>3, JoinFacts
  <1> QED BY <1>1, PrioInvariance, PTL

\* Nobody gets up but whom a handler's start_next_process has chosen.
LEMMA OnlyTurnsWake ==
    ASSUME LoopInv, [Next]_vars, NEW p \in Tasks, Parked(child[p]), ~Parked(child'[p])
    PROVE  pc = "pause" /\ StartNext
  <1>0. TypeOK /\ child \in [Tasks -> Child] /\ child[p] \in Child
    BY Typed DEF LoopInv
  <1>1. child'[p] # child[p]
    OBVIOUS
  <1>2. child[p].run # "running" /\ child[p].run # "none"
    BY DEF Parked
  <1>3. ~UNCHANGED child
    BY <1>1
  <1>4. pc \in {"pause", "done", "failed"}
    BY DEF LoopInv
  <1>5. CASE Start
    BY <1>4, <1>5, <1>3 DEF Start, StartUp, R!InstallHandlers, S!ForkShell, S!StopShell, S!ForkTask,
           S!CollectReady
  <1>6. CASE RequestLoop
    <2>1. SetPriority \/ S!ReadRequest \/ S!Answer => UNCHANGED child
      BY DEF SetPriority, S!Return, S!ReadRequest, S!Answer, S!kernel
    <2>2. S!EndRequest => UNCHANGED child \/ child' = [child EXCEPT ![target] = S!SendKill(child[target])]
      BY DEF S!EndRequest
    <2>3. BeginRequest => UNCHANGED child \/ \E q \in Tasks : S!Fork(q)
      BY DEF BeginRequest, S!BeginKill, S!BeginExec, S!PrintTasks, S!Return
    <2>4. S!SendKill(child[p]).run = child[p].run
      BY <1>0 DEF S!SendKill, Child
    <2>5. S!EndRequest => child'[p].run = child[p].run
      BY <1>0, <2>2, <2>4
    <2>6. BeginRequest => child'[p] = child[p]
      BY <1>0, <1>2, <2>3 DEF S!Fork
    <2> QED BY <1>1, <1>3, <1>6, <2>1, <2>5, <2>6 DEF RequestLoop, Parked
  <1>7. CASE HandleAlarm
    <2>1. UNCHANGED child \/ child' = [child EXCEPT ![current] = SendStop(child[current])]
      BY <1>7 DEF HandleAlarm
    <2> QED BY <1>0, <1>3, <2>1, SignalFacts DEF Parked
  <1>8. CASE EnterChild
    BY <1>3, <1>8 DEF EnterChild, R!EnterChild
  <1>9. CASE ChildLoop
    <2>1. CASE WaitForChild
      <3>1. ~R!WaitReportsNothing
        BY <1>3 DEF R!WaitReportsNothing
      <3>2. PICK q \in Tasks : child' = [child EXCEPT ![q] = Reported(child[q])]
        BY <2>1, <3>1 DEF WaitForChild, R!WaitReports, R!Reported, Reported
      <3>3. child'[p] = Reported(child[p])
        BY <1>0, <1>1, <3>2
      <3>4. Reported(child[p]).run \in {child[p].run, "reaped"}
        BY <1>0 DEF Reported, Child
      <3> QED BY <3>3, <3>4 DEF Parked
    <2>2. CASE ReactContinued
      <3>1. UNCHANGED child \/ child' = [child EXCEPT ![got.pid] = SendStop(child[got.pid])]
        BY <2>2 DEF ReactContinued
      <3> QED BY <1>0, <1>3, <3>1, SignalFacts DEF Parked
    <2>3. CASE ReactDied \/ ReactStopped
      BY <1>3, <2>3 DEF ReactDied, ReactStopped, Handling
    <2> QED BY <1>9, <2>1, <2>2, <2>3 DEF ChildLoop
  <1>10. CASE Environment
    <2>1. CASE SS!ShellSteps
      BY <1>3, <2>1 DEF SS!ShellSteps, SS!IssueRequest, SS!ReceiveReply, SS!kernel
    <2>2. CASE SS!Kernel \/ \E q \in Tasks : SS!TaskExits(q)
      <3>1. \/ child'[p] = child[p]
            \/ SS!CanRaise(child[p]) \/ SS!CanTakeStop(child[p])
            \/ child'[p] = SS!Die(child[p])
        BY <1>0, <2>2, SameTypes, ShellAssumptionHolds, SS!KernelSteps DEF TypeOK
      <3>2. child'[p] = Die(child[p]) /\ Die(child[p]).run = "zombie"
        BY <1>0, <1>1, <1>2, <3>1 DEF SS!CanRaise, SS!CanTakeStop, SS!Die, Die, Child
      <3> QED BY <3>2 DEF Parked
    <2> QED BY <1>10, <2>1, <2>2, SameEnvironment
  <1>11. CASE Exited \/ UNCHANGED vars
    BY <1>3, <1>11 DEF Exited, vars, kernel
  <1> QED BY <1>5, <1>6, <1>7, <1>8, <1>9, <1>10, <1>11 DEF Next, Main

\* While a HIGH task is left, start_next_process gives no LOW task a turn.
THEOREM HighGoesFirst == Spec => HighFirst
  <1>1. ASSUME PrioInv, [Next]_vars, NEW p \in Tasks, Parked(child[p]), ~Parked(child'[p]),
               p \in Range(low'), high' # << >>
        PROVE  FALSE
    <2>1. LoopInv
      BY <1>1, StartStep DEF PrioInv
    <2>2. pc = "pause" /\ StartNext /\ LoopInv' /\ pc' # "failed"
      BY <1>1, <2>1, OnlyTurnsWake, LoopStep
    <2>3. TypeOK /\ child \in [Tasks -> Child] /\ high' \in Seq(Tasks) /\ low' \in Seq(Tasks)
      BY <2>1, <2>2, Typed DEF LoopInv, TypeOK, S!TypeOK, S!R!TypeOK
    <2>4. current' = NextTask(high', low') /\ R!Start(current', pc)
      BY <2>2 DEF StartNext
    <2>5. /\ pc' = "pause" /\ child' = [child EXCEPT ![current'] = R!SendCont(child[current'])]
      BY <2>2, <2>4 DEF R!Start
    <2>6. p = current'
      BY <1>1, <2>3, <2>5
    <2>7. current' \in Range(high')
      BY <1>1, <2>3, <2>4, NextIsQueued
    <2>8. Range(high') \cap Range(low') = {}
      BY <2>2, <2>5 DEF LoopInv, Shared
    <2> QED BY <1>1, <2>6, <2>7, <2>8
  <1>2. PrioInv /\ [Next]_vars =>
            [\A p \in Tasks : Parked(child[p]) /\ ~Parked(child'[p]) /\ p \in Range(low')
                => high' = << >>]_vars
    BY <1>1
  <1> QED BY <1>2, PrioInvariance, PTL DEF Spec, HighFirst

\* Once main loops, no kill of a handler or of a request meets a pid that is gone, and no
\* wait a scheduler without children: its exit(1)s are not reached.
THEOREM NoSystemCallFails == Spec => [][pc = "pause" => pc' # "failed"]_vars
  <1>1. PrioInv /\ [Next]_vars => [pc = "pause" => pc' # "failed"]_vars
    <2>1. StartInv => pc # "pause"
      BY DEF StartInv
    <2> QED BY <2>1, LoopStep DEF PrioInv
  <1> QED BY <1>1, PrioInvariance, PTL DEF Spec
=============================================================================
