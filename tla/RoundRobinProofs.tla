-------------------------- MODULE RoundRobinProofs --------------------------
(***************************************************************************)
(* Invariance proofs for RoundRobin, for every finite set of tasks.        *)
(***************************************************************************)
EXTENDS RoundRobin, SharedLemmas, FiniteSetTheorems

----------------------------------------------------------------------------
(* The list, the handler's got, and the children agree. *)

HandlerInv ==
    /\ handler # "none" => pc \notin {"fork", "ready", "install"}
    /\ handler = "react" <=> got.event # "none"
    /\ handler = "react" => got.pid \in Tasks
    /\ got.event \in {"stopped", "continued"} => HasPid(child[got.pid])
    /\ got.event = "exited" => ~HasPid(child[got.pid])

ListInv ==
    /\ TypeOK
    /\ ListIsUnreaped
    /\ HandlerInv
    /\ Up /\ pc # "fork" => procs # << >>
    /\ pc = "kill" => arg \in Tasks

\* A step that leaves the list alone, and changes neither who has a pid nor
\* whose death is being handled, keeps the list right.
LEMMA SameList ==
    ASSUME ListIsUnreaped, Up' => Up, procs' = procs,
           \A p \in Tasks : HasPid(child'[p]) <=> HasPid(child[p]),
           \A p \in Tasks : got' = [pid |-> p, event |-> "exited"]
                            <=> got = [pid |-> p, event |-> "exited"]
    PROVE  ListIsUnreaped'
PROOF
  BY DEF ListIsUnreaped

\* The current process is a task the kernel still knows, unless its death is the
\* one being handled.
LEMMA HeadIsKnown ==
    ASSUME ListInv, Up, pc # "fork"
    PROVE  /\ Head(procs) \in Tasks
           /\ got.event # "exited" => HasPid(child[Head(procs)])
PROOF
  <1>1. procs \in Seq(Tasks) /\ procs # << >>
    BY DEF ListInv, TypeOK
  <1>2. Head(procs) \in Tasks /\ Head(procs) \in Range(procs)
    BY <1>1, HeadFacts
  <1> QED BY <1>2 DEF ListInv, ListIsUnreaped

THEOREM ListInit == Init => ListInv
PROOF
  <1> SUFFICES ASSUME Init PROVE ListInv
    OBVIOUS
  <1> USE DEF Init
  <1>1. TypeOK
    BY ForkFacts, EmptySeq DEF TypeOK, Got, Nothing
  <1>2. Range(<< >>) = {} /\ IsInjective(<< >>)
    BY EmptySeq, LenProperties DEF Range, IsInjective
  <1>3. ListIsUnreaped
    BY <1>2, ForkFacts DEF ListIsUnreaped, Nothing
  <1> QED BY <1>1, <1>3 DEF ListInv, HandlerInv, Up, Nothing

\* A step of which only the children and the signals know anything.
LEMMA EnvironmentKeepsList ==
    ASSUME ListInv, UNCHANGED sched, child' \in [Tasks -> Child],
           \A p \in Tasks : HasPid(child'[p]) <=> HasPid(child[p]),
           sigchld' \in BOOLEAN, sigalrm' \in BOOLEAN, armed' \in BOOLEAN
    PROVE  ListInv'
PROOF
  <1> USE DEF sched
  <1>1. TypeOK'
    BY DEF ListInv, TypeOK
  <1>2. ListIsUnreaped'
    BY SameList DEF ListInv, Up
  <1>3. HandlerInv'
    BY DEF ListInv, HandlerInv
  <1> QED BY <1>1, <1>2, <1>3 DEF ListInv, Up

\* start_next_process, wherever it is called: a signal to one task, the timer,
\* or the end.
LEMMA StartFacts ==
    ASSUME TypeOK, NEW p \in Tasks, NEW where, Start(p, where)
    PROVE  /\ child' \in [Tasks -> Child] /\ sigchld' \in BOOLEAN /\ armed' \in BOOLEAN
           /\ pc' \in {where, "failed"}
           /\ HasPid(child[p]) => pc' = where
           /\ \A q \in Tasks : HasPid(child'[q]) <=> HasPid(child[q])
           /\ \A q \in Tasks \ {p} : child'[q] = child[q]
PROOF
  <1>1. \A q \in Tasks : child[q] \in Child
    BY DEF TypeOK
  <1>2. CASE ~HasPid(child[p])
    BY <1>2 DEF Start, TypeOK
  <1>3. CASE HasPid(child[p])
    <2>1. child' = [child EXCEPT ![p] = SendCont(child[p])]
      BY <1>3 DEF Start
    <2>2. SendCont(child[p]) \in Child /\ HasPid(SendCont(child[p]))
      BY <1>1, <1>3, SignalFacts
    <2>3. child' \in [Tasks -> Child] /\ \A q \in Tasks \ {p} : child'[q] = child[q]
      BY <2>1, <2>2 DEF TypeOK
    <2>4. \A q \in Tasks : HasPid(child'[q]) <=> HasPid(child[q])
      BY <2>1, <2>2, <1>3 DEF TypeOK
    <2>5. sigchld' \in BOOLEAN /\ armed' \in BOOLEAN /\ pc' = where
      BY <1>3 DEF Start, TypeOK, ContNotifies
    <2> QED BY <2>3, <2>4, <2>5
  <1> QED BY <1>2, <1>3

THEOREM ListStep == ListInv /\ [Next]_vars => ListInv'
PROOF
  <1> SUFFICES ASSUME ListInv, [Next]_vars PROVE ListInv'
    OBVIOUS
  <1>0. TypeOK /\ ListIsUnreaped /\ HandlerInv
    BY DEF ListInv
  <1>typed. \A p \in Tasks : child[p] \in Child
    BY <1>0 DEF TypeOK
  <1>1. ASSUME NEW p \in Tasks, ForkTask(p) PROVE ListInv'
    <2> USE <1>1 DEF ForkTask
    <2>1. Up /\ p \notin Range(procs) /\ IsInjective(procs) /\ procs \in Seq(Tasks)
      BY <1>0 DEF Up, ListIsUnreaped, HandlerInv, HasPid, TypeOK
    <2>2. /\ procs' \in Seq(Tasks) /\ procs' # << >>
          /\ Range(procs') = Range(procs) \cup {p}
          /\ IsInjective(procs')
      BY <2>1, AppendFacts
    <2>3. TypeOK'
      BY <1>0, <2>2, ForkFacts DEF TypeOK
    <2>4. ListIsUnreaped'
      <3>1. \A q \in Tasks : HasPid(child'[q]) <=> (HasPid(child[q]) \/ q = p)
        BY <1>0, ForkFacts DEF TypeOK
      <3> QED BY <1>0, <2>1, <2>2, <3>1 DEF ListIsUnreaped
    <2>5. HandlerInv'
      BY <1>0 DEF HandlerInv
    <2> QED BY <2>2, <2>3, <2>4, <2>5 DEF ListInv
  <1>2. ASSUME ForkFails PROVE ListInv'
    BY <1>2, <1>0 DEF ForkFails, ListInv, TypeOK, ListIsUnreaped, HandlerInv, Up
  <1>3. ASSUME NEW p \in Tasks, CollectReady(p) PROVE ListInv'
    <2> USE <1>3 DEF CollectReady
    <2>0. /\ HasPid(child[p]) /\ Reported(child[p]) \in Child
          /\ HasPid(Reported(child[p])) <=> child[p].event # "exited"
      BY <1>typed, ReportFacts DEF Reportable
    <2>1. TypeOK'
      BY <1>0, <2>0 DEF TypeOK
    <2>2. ListIsUnreaped'
      <3>1. CASE child[p].event = "stopped"
        <4>1. \A q \in Tasks : HasPid(child'[q]) <=> HasPid(child[q])
          BY <1>0, <2>0, <3>1 DEF TypeOK
        <4> QED BY <1>0, <4>1, SameList DEF Up
      <3>2. CASE child[p].event # "stopped"
        BY <3>2 DEF ListIsUnreaped, Up
      <3> QED BY <3>1, <3>2
    <2>3. HandlerInv'
      BY <1>0 DEF HandlerInv
    <2> QED BY <2>1, <2>2, <2>3 DEF ListInv, Up
  <1>4. ASSUME InstallHandlers \/ LoadFirst PROVE ListInv'
    <2> USE <1>4 DEF InstallHandlers, LoadFirst
    <2>1. Head(procs) \in Tasks
      BY HeadIsKnown DEF Up
    <2>2. TypeOK'
      BY <1>0, <2>1 DEF TypeOK
    <2>3. ListIsUnreaped'
      BY <1>0, SameList DEF Up
    <2>4. HandlerInv'
      BY <1>0 DEF HandlerInv
    <2> QED BY <2>1, <2>2, <2>3, <2>4 DEF ListInv, Up
  <1>5. ASSUME StartFirst PROVE ListInv'
    <2> USE <1>5 DEF StartFirst, Start
    <2>1. arg \in Tasks
      BY DEF ListInv
    <2>2. TypeOK'
      BY <1>0, <2>1, <1>typed, SignalFacts DEF TypeOK
    <2>3. \A q \in Tasks : HasPid(child'[q]) <=> HasPid(child[q])
      BY <1>0, <2>1, <1>typed, SignalFacts DEF TypeOK
    <2>4. ListIsUnreaped'
      BY <1>0, <2>3, SameList DEF Up
    <2>5. HandlerInv'
      BY <1>0, <2>3 DEF HandlerInv
    <2> QED BY <2>2, <2>4, <2>5 DEF ListInv, Up
  <1>6. ASSUME HandleAlarm PROVE ListInv'
    <2> USE <1>6 DEF HandleAlarm, Catching
    <2>1. Head(procs) \in Tasks
      BY HeadIsKnown DEF Up
    <2>2. TypeOK'
      BY <1>0, <2>1, <1>typed, SignalFacts DEF TypeOK
    <2>3. \A q \in Tasks : HasPid(child'[q]) <=> HasPid(child[q])
      BY <1>0, <2>1, <1>typed, SignalFacts DEF TypeOK
    <2>4. ListIsUnreaped'
      BY <1>0, <2>3, SameList DEF Up
    <2>5. HandlerInv'
      BY <1>0, <2>3 DEF HandlerInv
    <2> QED BY <2>2, <2>4, <2>5 DEF ListInv, Up
  <1>7. ASSUME EnterChild \/ WaitReportsNothing PROVE ListInv'
    <2> USE <1>7 DEF EnterChild, WaitReportsNothing, Catching
    <2>1. TypeOK'
      BY <1>0 DEF TypeOK
    <2>2. ListIsUnreaped'
      BY <1>0, SameList DEF Up
    <2>3. HandlerInv'
      BY <1>0 DEF HandlerInv
    <2> QED BY <2>1, <2>2, <2>3 DEF ListInv, Up
  <1>8. ASSUME NEW p \in Tasks, WaitReports(p) PROVE ListInv'
    <2> USE <1>8 DEF WaitReports, Catching
    <2>0. /\ HasPid(child[p]) /\ Reported(child[p]) \in Child
          /\ HasPid(Reported(child[p])) <=> child[p].event # "exited"
          /\ child[p].event \in {"stopped", "continued", "exited"}
      BY <1>typed, ReportFacts DEF Reportable, AnyEvent
    <2>1. TypeOK'
      BY <1>0, <2>0 DEF TypeOK, Got
    <2>2. \A q \in Tasks : child'[q] = IF q = p THEN Reported(child[p]) ELSE child[q]
      BY <1>0 DEF TypeOK
    <2>3. \A q \in Tasks : got # [pid |-> q, event |-> "exited"]
      BY <1>0 DEF HandlerInv
    <2>4. ListIsUnreaped'
      <3>1. \A q \in Tasks : \/ HasPid(child'[q]) \/ got' = [pid |-> q, event |-> "exited"]
                             <=> HasPid(child[q])
        BY <2>0, <2>2
      <3> QED BY <1>0, <2>3, <3>1 DEF ListIsUnreaped, Up
    <2>5. HandlerInv'
      BY <1>0, <2>0, <2>2 DEF HandlerInv
    <2> QED BY <2>1, <2>4, <2>5 DEF ListInv, Up
  <1>9. ASSUME ReactContinued PROVE ListInv'
    <2> USE <1>9 DEF ReactContinued, Catching, NextTurn
    <2>1. got.pid \in Tasks
      BY <1>0 DEF HandlerInv
    <2>2. TypeOK'
      BY <1>0, <2>1, <1>typed, SignalFacts DEF TypeOK, Got, Nothing
    <2>3. \A q \in Tasks : HasPid(child'[q]) <=> HasPid(child[q])
      BY <1>0, <2>1, <1>typed, SignalFacts DEF TypeOK
    <2>4. ListIsUnreaped'
      BY <1>0, <2>3, SameList DEF Up, Nothing
    <2>5. HandlerInv'
      BY <1>0 DEF HandlerInv, Nothing
    <2> QED BY <2>2, <2>4, <2>5 DEF ListInv, Up
  <1>10. ASSUME ReactDied PROVE ListInv'
    <2> USE <1>10 DEF ReactDied, Catching, NextTurn, Start
    <2>1. /\ got.pid \in Tasks /\ got.pid \in Range(procs)
          /\ procs \in Seq(Tasks) /\ IsInjective(procs) /\ Up
          /\ ~HasPid(child[got.pid])
          /\ Range(procs) = {p \in Tasks : HasPid(child[p])} \cup {got.pid}
      <3>1. got \in Got /\ got.pid \in Tasks /\ got.event = "exited" /\ Up
            /\ ~HasPid(child[got.pid]) /\ procs \in Seq(Tasks)
        BY <1>0 DEF HandlerInv, Up, TypeOK
      <3>2. \A p \in Tasks : got = [pid |-> p, event |-> "exited"] <=> p = got.pid
        BY <3>1 DEF Got
      <3> QED BY <1>0, <3>1, <3>2 DEF ListIsUnreaped
    <2>2. /\ procs' \in Seq(Tasks) /\ IsInjective(procs')
          /\ Range(procs') = {p \in Tasks : HasPid(child[p])}
      BY <2>1, DeleteFacts
    <2>3. procs' # << >> => Head(procs') \in Tasks
      BY <2>2, HeadFacts
    <2>4. /\ child' \in [Tasks -> Child] /\ sigchld' \in BOOLEAN /\ armed' \in BOOLEAN
          /\ pc' \in {pc, "done", "failed"}
          /\ \A q \in Tasks : HasPid(child'[q]) <=> HasPid(child[q])
      <3>1. CASE procs' = << >>
        BY <3>1, <1>0 DEF TypeOK
      <3>2. CASE procs' # << >> /\ got.pid = Head(procs)
        <4> HIDE DEF Start
        <4>1. Start(Head(procs'), pc) /\ Head(procs') \in Tasks
          BY <3>2, <2>3
        <4> QED BY <4>1, <1>0, StartFacts
      <3>3. CASE procs' # << >> /\ got.pid # Head(procs)
        BY <3>3, <1>0 DEF TypeOK
      <3> QED BY <3>1, <3>2, <3>3
    <2>5. TypeOK'
      BY <1>0, <2>2, <2>4 DEF TypeOK, Got, Nothing
    <2>6. ListIsUnreaped'
      BY <2>2, <2>4 DEF ListIsUnreaped, Nothing
    <2>7. HandlerInv'
      BY <1>0 DEF HandlerInv, Nothing
    <2> QED BY <2>4, <2>5, <2>6, <2>7 DEF ListInv, Up
  <1>11. ASSUME ReactStopped PROVE ListInv'
    <2> USE <1>11 DEF ReactStopped, Catching, NextTurn, Start
    <2>1. /\ procs \in Seq(Tasks) /\ IsInjective(procs) /\ Up /\ procs # << >>
          /\ Range(procs) = {p \in Tasks : HasPid(child[p])}
      <3>1. Up /\ procs \in Seq(Tasks) /\ procs # << >>
        BY <1>0 DEF Up, TypeOK, ListInv
      <3>2. \A p \in Tasks : got # [pid |-> p, event |-> "exited"]
        OBVIOUS
      <3> QED BY <1>0, <3>1, <3>2 DEF ListIsUnreaped
    <2>2. /\ procs' \in Seq(Tasks) /\ IsInjective(procs') /\ procs' # << >>
          /\ Range(procs') = Range(procs)
      BY <2>1, AdvanceFacts
    <2>3. Head(procs') \in Tasks
      BY <2>2, HeadFacts
    <2>4. TypeOK'
      BY <1>0, <2>2, <2>3, <1>typed, SignalFacts DEF TypeOK, Got, Nothing
    <2>5. \A q \in Tasks : HasPid(child'[q]) <=> HasPid(child[q])
      BY <1>0, <2>3, <1>typed, SignalFacts DEF TypeOK
    <2>6. ListIsUnreaped'
      BY <2>1, <2>2, <2>5 DEF ListIsUnreaped, Nothing
    <2>7. HandlerInv'
      BY <1>0 DEF HandlerInv, Nothing
    <2> QED BY <2>2, <2>4, <2>6, <2>7 DEF ListInv, Up
  <1>12. ASSUME NEW p \in Tasks, TaskRaises(p) \/ TaskStops(p) \/ TaskKilled(p) \/ TaskExits(p)
         PROVE  ListInv'
    <2> USE <1>12 DEF TaskRaises, TaskStops, TaskKilled, TaskExits, Becomes
    <2>1. \E c \in Child : /\ child' = [child EXCEPT ![p] = c]
                          /\ HasPid(child[p]) /\ HasPid(c)
      BY <1>typed, ChildFacts
    <2>2. child' \in [Tasks -> Child] /\ \A q \in Tasks : HasPid(child'[q]) <=> HasPid(child[q])
      BY <2>1, <1>0 DEF TypeOK
    <2> QED BY <2>2, <1>0, EnvironmentKeepsList DEF TypeOK, Catching
  <1>13. ASSUME TimerExpires PROVE ListInv'
    BY <1>13, <1>0, EnvironmentKeepsList DEF TimerExpires, TypeOK
  <1>14. ASSUME NEW p \in Tasks, NEW sig \in Early \cup Outside, OutsideSignal(p, sig)
         PROVE  ListInv'
    <2> USE <1>14 DEF OutsideSignal
    <2>1. sig \in {"KILL", "STOP", "CONT"}
      BY OutsideAssumption
    <2>2. Send(sig, child[p]) \in Child /\ (HasPid(Send(sig, child[p])) <=> HasPid(child[p]))
      BY <2>1, <1>typed, SignalFacts DEF Send
    <2>3. child' \in [Tasks -> Child] /\ \A q \in Tasks : HasPid(child'[q]) <=> HasPid(child[q])
      BY <2>2, <1>0 DEF TypeOK
    <2> QED BY <2>3, <1>0, EnvironmentKeepsList DEF TypeOK, Catching
  <1>15. ASSUME Exited \/ UNCHANGED vars PROVE ListInv'
    <2>1. UNCHANGED vars
      BY <1>15 DEF Exited
    <2> QED BY <2>1, <1>0, EnvironmentKeepsList DEF vars, sched, TypeOK
  <1> QED
    BY <1>1, <1>2, <1>3, <1>4, <1>5, <1>6, <1>7, <1>8, <1>9, <1>10, <1>11, <1>12,
       <1>13, <1>14, <1>15
    DEF Next, Main, Handlers, ChildLoop, React, Environment

THEOREM ListInvariance == Spec => []ListInv
PROOF
  BY ListInit, ListStep, PTL DEF Spec

\* The variables keep their types in every run of scheduler.c.
THEOREM TypeCorrect == Spec => []TypeOK
PROOF
  <1>1. ListInv => TypeOK
    BY DEF ListInv
  <1> QED BY <1>1, ListInvariance, PTL

\* The list and the kernel agree on which children are left.
THEOREM ListCorrect == Spec => []ListIsUnreaped
PROOF
  <1>1. ListInv => ListIsUnreaped
    BY DEF ListInv
  <1> QED BY <1>1, ListInvariance, PTL

\* The current process and the one a wait has just reported still have a pid when
\* a handler signals them.
LEMMA HandlerNeverFails ==
    ASSUME ListInv, [Next]_vars, pc = "pause" PROVE pc' # "failed"
PROOF
  <1>0. /\ TypeOK /\ HandlerInv /\ ListIsUnreaped /\ Up /\ procs # << >>
        /\ procs \in Seq(Tasks)
    BY DEF ListInv, Up, TypeOK
  <1>1. /\ Head(procs) \in Tasks
        /\ got.event # "exited" => HasPid(child[Head(procs)])
    BY <1>0, HeadIsKnown
  <1>2. CASE HandleAlarm
    BY <1>0, <1>1, <1>2 DEF HandleAlarm, HandlerInv
  <1>3. CASE WaitReportsNothing
    BY <1>0, <1>1, <1>3 DEF WaitReportsNothing, HandlerInv
  <1>4. CASE ReactContinued
    BY <1>0, <1>4 DEF ReactContinued, HandlerInv
  <1>5. CASE ReactDied
    <2> USE <1>5 DEF ReactDied
    <2>1. got.pid \in Range(procs) /\ IsInjective(procs)
      BY <1>0 DEF ListIsUnreaped, HandlerInv, TypeOK, Got
    <2>2. procs' \in Seq(Tasks) /\ Range(procs') = Range(procs) \ {got.pid}
      BY <1>0, <2>1, DeleteFacts
    <2>3. CASE procs' # << >>
      <3>1. Head(procs') \in Range(procs) \ {got.pid} /\ Head(procs') \in Tasks
        BY <2>2, <2>3, HeadFacts
      <3>2. HasPid(child[Head(procs')])
        BY <1>0, <3>1 DEF ListIsUnreaped
      <3> QED BY <2>3, <3>1, <3>2, <1>0, StartFacts
    <2> QED BY <2>3
  <1>6. CASE ReactStopped
    <2> USE <1>6 DEF ReactStopped
    <2>1. IsInjective(procs)
      BY <1>0 DEF ListIsUnreaped
    <2>2. Head(Advance(procs)) \in Range(procs) /\ Head(Advance(procs)) \in Tasks
      BY <1>0, <2>1, AdvanceFacts, HeadFacts
    <2>3. HasPid(child[Head(Advance(procs))])
      BY <1>0, <2>2 DEF ListIsUnreaped
    <2> QED BY <2>2, <2>3, <1>0, StartFacts
  <1> QED
    BY <1>2, <1>3, <1>4, <1>5, <1>6
    DEF Next, Main, Handlers, ChildLoop, React, Environment, ForkTask, ForkFails,
        CollectReady, InstallHandlers, LoadFirst, StartFirst, EnterChild,
        WaitReports, TaskRaises, TaskStops, TaskKilled, TaskExits, Becomes,
        TimerExpires, OutsideSignal, Exited, sched, vars

\* Once main pauses, no handler meets a failing system call, whatever signals the
\* tasks are sent by others.
THEOREM NoHandlerFails == Spec => HandlersNeverFail
PROOF
  <1> QED BY HandlerNeverFails, ListInvariance, PTL DEF Spec, HandlersNeverFail

\* All a handler does to the children: it stops, continues or waits for them.
LEMMA HandlerSignals ==
    ASSUME ListInv, Handlers
    PROVE  \A p \in Tasks :
             \/ child'[p] \in {child[p], SendStop(child[p]), SendCont(child[p])}
             \/ HasPid(child[p]) /\ child'[p] = Reported(child[p])
PROOF
  <1>0. TypeOK /\ HandlerInv /\ Up
    BY DEF ListInv, Handlers, HandleAlarm, EnterChild, ChildLoop, WaitReportsNothing,
           React, ReactContinued, ReactDied, ReactStopped, WaitReports, Catching, Up
  <1>1. ASSUME NEW q, Start(q, pc)
        PROVE  \A p \in Tasks : child'[p] \in {child[p], SendCont(child[p])}
    BY <1>1, <1>0 DEF Start, TypeOK
  <1>2. CASE React
    <2>1. CASE ReactContinued
      BY <1>0, <2>1 DEF ReactContinued, TypeOK
    <2>2. CASE ReactDied
      BY <1>1, <2>2 DEF ReactDied
    <2>3. CASE ReactStopped
      BY <1>1, <2>3 DEF ReactStopped
    <2> QED BY <1>2, <2>1, <2>2, <2>3 DEF React
  <1>3. ASSUME NEW q \in Tasks, WaitReports(q)
        PROVE  \A p \in Tasks :
                 \/ child'[p] = child[p]
                 \/ HasPid(child[p]) /\ child'[p] = Reported(child[p])
    BY <1>0, <1>3 DEF WaitReports, Reportable, TypeOK
  <1>4. CASE HandleAlarm
    BY <1>0, <1>4 DEF HandleAlarm, TypeOK
  <1>5. CASE EnterChild \/ WaitReportsNothing
    BY <1>5 DEF EnterChild, WaitReportsNothing
  <1> QED BY <1>2, <1>3, <1>4, <1>5 DEF Handlers, ChildLoop

\* A waiting task is never overtaken: the list changes only by appending, by
\* taking out a dead task, and by sending the head to the end.
THEOREM NeverOvertaken == Spec => NoOvertaking
PROOF
  <1>1. ASSUME ListInv, [Next]_vars
        PROVE  [\A p \in Range(procs) \cap Range(procs') :
                  p # Head(procs) => Position(procs', p) <= Position(procs, p)]_procs
    <2> SUFFICES ASSUME procs' # procs,
                        NEW p \in Range(procs), p \in Range(procs'), p # Head(procs)
                 PROVE  Position(procs', p) <= Position(procs, p)
      OBVIOUS
    <2>0. TypeOK /\ HandlerInv /\ ListIsUnreaped /\ procs \in Seq(Tasks)
      BY <1>1 DEF ListInv, TypeOK
    <2>1. CASE \E q \in Tasks : ForkTask(q)
      <3> PICK q \in Tasks : ForkTask(q)
        BY <2>1
      <3>1. IsInjective(procs) /\ q \notin Range(procs) /\ procs' = Append(procs, q)
        BY <2>0 DEF ForkTask, ListIsUnreaped, Up, HandlerInv, HasPid, AppendToList
      <3>2. IsInjective(procs') /\ procs' \in Seq(Tasks)
        BY <2>0, <3>1, AppendFacts DEF AppendToList
      <3>3. Position(procs, p) \in 1 .. Len(procs) /\ procs[Position(procs, p)] = p
        BY <2>0, PositionFacts
      <3>4. Len(procs) \in Nat
        BY <2>0, LenProperties
      <3>5. /\ Position(procs, p) \in 1 .. Len(procs')
            /\ procs'[Position(procs, p)] = p
        BY <2>0, <3>1, <3>3, <3>4, AppendProperties
      <3>6. Position(procs', p) = Position(procs, p)
        BY <3>2, <3>5, PositionIs
      <3> QED BY <3>3, <3>4, <3>6
    <2>2. CASE ReactDied
      <3>1. Up /\ got \in Got /\ got.pid \in Tasks /\ got.event = "exited"
        BY <2>0, <2>2 DEF ReactDied, HandlerInv, Up, Catching, TypeOK
      <3>2. got.pid \in Range(procs) /\ IsInjective(procs)
        BY <2>0, <3>1 DEF ListIsUnreaped, Got
      <3> QED BY <2>0, <2>2, <3>2, DeleteFacts DEF ReactDied
    <2>3. CASE ReactStopped
      <3>1. procs # << >> /\ IsInjective(procs)
        BY <1>1, <2>3 DEF ReactStopped, ListInv, ListIsUnreaped, Up, Catching
      <3> QED BY <2>0, <2>3, <3>1, AdvanceFacts DEF ReactStopped
    <2> QED
      BY <1>1, <2>1, <2>2, <2>3
      DEF Next, Main, Handlers, ChildLoop, React, Environment, ForkFails,
          CollectReady, InstallHandlers, LoadFirst, StartFirst, EnterChild, HandleAlarm,
          WaitReports, WaitReportsNothing, ReactContinued, TaskRaises, TaskStops,
          TaskKilled, TaskExits, Becomes, TimerExpires, OutsideSignal, Exited, sched, vars
  <1> QED BY <1>1, ListInvariance, PTL DEF Spec, NoOvertaking

----------------------------------------------------------------------------
(* One task at a time.  This is so only as long as nobody else sends        *)
(* SIGCONT, and nobody kills a task before main has started the first: main *)
(* reads procs->pid with the handlers enabled (scheduler.c:207).            *)

Undisturbed == Early \subseteq {"STOP"} /\ "CONT" \notin Outside

\* The children wait_for_ready_children has counted so far.
Counted(R) == /\ Cardinality(R) = cnt
              /\ \A p \in R : child[p].run = "stopped" /\ child[p].event # "stopped"

RunInv ==
    /\ Up /\ pc # "pause" =>
          /\ handler = "none" /\ ~sigchld /\ ~sigalrm /\ ~armed
          /\ \A p \in Tasks : Fresh(child[p])
    /\ \A p \in Tasks : Honest(child[p])
    /\ pc = "fork" => cnt = 0
    /\ Up /\ pc # "fork" => \A p \in Tasks : child[p].run # "none"
    /\ pc = "ready" => \E R \in SUBSET Tasks : Counted(R)
    /\ pc \in {"install", "load", "kill"} => \A p \in Tasks : child[p].run = "stopped"
    /\ pc = "kill" => arg = Head(procs)
    /\ OneRunner
    /\ handler = "react" /\ got.event = "stopped" => child[got.pid].run # "running"

\* A list in which every task occurs once is as long as there are tasks.
LEMMA FullListLength ==
    ASSUME NEW list \in Seq(Tasks), IsInjective(list), Range(list) = Tasks
    PROVE  Len(list) = Cardinality(Tasks)
PROOF
  <1>1. Len(list) \in Nat /\ list \in [1 .. Len(list) -> Tasks] /\ DOMAIN list = 1 .. Len(list)
    BY LenProperties
  <1>2. list \in Bijection(1 .. Len(list), Tasks)
    BY <1>1 DEF Bijection, Injection, Surjection, IsInjective, Range
  <1>3. ExistsBijection(1 .. Len(list), Tasks)
    BY <1>2 DEF ExistsBijection
  <1>4. IsFiniteSet(1 .. Len(list)) /\ Cardinality(1 .. Len(list)) = Len(list)
    BY <1>1, FS_Interval
  <1> QED BY <1>3, <1>4, FS_Bijection

THEOREM RunInit == Init => RunInv
PROOF
  BY FreshFacts, HonestFacts DEF Init, RunInv, OneRunner, Catching, Up, Nothing

LEMMA StartHonest ==
    ASSUME TypeOK, NEW p \in Tasks, NEW where, Start(p, where),
           \A q \in Tasks : Honest(child[q])
    PROVE  \A q \in Tasks : Honest(child'[q])
PROOF
  BY HonestFacts DEF Start, TypeOK

LEMMA StartRuns ==
    ASSUME TypeOK, NEW p \in Tasks, NEW where, Start(p, where),
           \A q \in Tasks : child[q].run # "none"
    PROVE  \A q \in Tasks : child'[q].run # "none"
PROOF
  BY DEF Start, TypeOK, SendCont, Child

\* In the handlers: the one task that may run afterwards is the current one.
LEMMA StillOneRunner ==
    ASSUME ListInv, RunInv, pc = "pause", pc' \in {"pause", "done", "failed"},
           \A p \in Tasks : child'[p].run = "running" => p = Head(procs'),
           \A p \in Tasks : child'[p].run # "none" /\ Honest(child'[p]),
           handler' = "react" /\ got'.event = "stopped" => child'[got'.pid].run # "running"
    PROVE  RunInv'
PROOF
  BY DEF RunInv, OneRunner, Up

THEOREM RunStep ==
    ASSUME Undisturbed, ListInv, RunInv, [Next]_vars
    PROVE  RunInv'
PROOF
  <1>0. TypeOK /\ ListIsUnreaped /\ HandlerInv /\ procs \in Seq(Tasks)
    BY DEF ListInv, TypeOK
  <1>typed. \A p \in Tasks : child[p] \in Child
    BY <1>0 DEF TypeOK
  <1>pause. Catching /\ (handler # "none" \/ sigchld \/ sigalrm \/ armed) =>
               /\ pc = "pause"
               /\ Head(procs) \in Tasks
               /\ \A p \in Tasks : child[p].run = "running" => p = Head(procs)
               /\ \A p \in Tasks : child[p].run # "none"
    BY <1>0, HeadIsKnown DEF RunInv, Catching, OneRunner, Up
  <1>honest. \A p \in Tasks : Honest(child[p])
    BY DEF RunInv
  <1>1. ASSUME NEW p \in Tasks, ForkTask(p) PROVE RunInv'
    <2> USE <1>1 DEF ForkTask
    <2>1. cnt' = 0 /\ Counted({})'
      BY FS_EmptySet DEF RunInv, Counted
    <2>2. \A q \in Tasks : Fresh(child'[q]) /\ Honest(child'[q])
      BY <1>0, <1>honest, FreshFacts, HonestFacts DEF RunInv, TypeOK, Up
    <2>3. pc' # "fork" => \A q \in Tasks : child'[q].run # "none"
      BY <1>0, ForkFacts DEF TypeOK
    <2> QED BY <2>1, <2>2, <2>3, <1>0 DEF RunInv, OneRunner, Catching, Up, HandlerInv
  <1>2. ASSUME ForkFails PROVE RunInv'
    BY <1>2, <1>0 DEF ForkFails, RunInv, OneRunner, Catching, Up, HandlerInv
  <1>3. ASSUME NEW p \in Tasks, CollectReady(p) PROVE RunInv'
    <2> USE <1>3 DEF CollectReady
    <2>1. /\ \A q \in Tasks : Fresh(child[q])
          /\ HasPid(child[p]) /\ child[p].event = "stopped"
      BY DEF RunInv, Up, Reportable, Fresh
    <2>2. /\ \A q \in Tasks : Fresh(child'[q]) /\ Honest(child'[q])
          /\ \A q \in Tasks : child[q].run = "stopped" => child'[q].run = "stopped"
          /\ \A q \in Tasks : child'[q].run # "none"
          /\ child'[p].run = "stopped" /\ child'[p].event = "none"
          /\ \A q \in Tasks \ {p} : child'[q] = child[q]
      BY <2>1, <1>0, <1>typed, <1>honest, FreshFacts, HonestFacts, ReportFacts DEF TypeOK, RunInv, Up
    <2>3. PICK R \in SUBSET Tasks : Counted(R)
      BY DEF RunInv
    <2>4. IsFiniteSet(R) /\ p \notin R
      BY <2>1, <2>3, TasksAssumption, FS_Subset DEF Counted
    <2>5. Counted(R \cup {p})'
      BY <2>1, <2>2, <2>3, <2>4, FS_AddElement DEF Counted
    <2>6. ASSUME pc' = "install" PROVE \A q \in Tasks : child'[q].run = "stopped"
      <3>1. Range(procs) = Tasks /\ IsInjective(procs)
        BY <1>0 DEF ListIsUnreaped, Up, HandlerInv, RunInv, HasPid, Fresh
      <3>2. cnt' = Cardinality(Tasks)
        BY <2>1, <2>6, <3>1, <1>0, FullListLength DEF nproc
      <3>3. R \cup {p} = Tasks
        BY <2>5, <3>2, TasksAssumption, FS_Subset DEF Counted
      <3> QED BY <3>3, <2>5 DEF Counted
    <2>7. pc' \in {"ready", "install"} /\ UNCHANGED <<handler, sigchld, sigalrm, armed, got>>
      BY <2>1
    <2>8. R \cup {p} \in SUBSET Tasks
      OBVIOUS
    <2> HIDE DEF CollectReady
    <2> HIDE <1>3
    <2>9. pc = "ready"
      BY <1>3 DEF CollectReady
    <2> QED
      BY <2>2, <2>5, <2>6, <2>7, <2>8, <2>9, <1>0 DEF RunInv, OneRunner, Catching, Up, HandlerInv
  <1>4. ASSUME InstallHandlers \/ LoadFirst PROVE RunInv'
    BY <1>4, <1>0 DEF InstallHandlers, LoadFirst, RunInv, OneRunner, Catching, Up,
          HandlerInv
  <1>5. ASSUME StartFirst PROVE RunInv'
    <2> USE <1>5 DEF StartFirst
    <2>1. /\ arg = Head(procs) /\ arg \in Tasks
          /\ \A q \in Tasks : child[q].run = "stopped"
      BY DEF RunInv, ListInv
    <2>2. /\ pc' \in {"pause", "failed"}
          /\ \A q \in Tasks \ {arg} : child'[q] = child[q]
          /\ \A q \in Tasks : HasPid(child'[q])
      BY <2>1, <1>0, StartFacts DEF HasPid
    <2>3. handler = "none" /\ \A q \in Tasks : Honest(child'[q])
      BY <2>1, <1>0, <1>honest, StartHonest
    <2> QED BY <2>1, <2>2, <2>3 DEF RunInv, OneRunner, Catching, Up, HasPid
  <1>6. ASSUME HandleAlarm PROVE RunInv'
    <2> USE <1>6 DEF HandleAlarm
    <2>1. pc = "pause" /\ Head(procs) \in Tasks
      BY <1>pause
    <2>2. \A q \in Tasks : child'[q].run = child[q].run /\ Honest(child'[q])
      BY <2>1, <1>0, <1>typed, <1>honest, SignalFacts, HonestFacts DEF TypeOK
    <2> QED BY <2>1, <2>2, <1>pause, StillOneRunner
  <1>7. ASSUME EnterChild \/ WaitReportsNothing PROVE RunInv'
    BY <1>7, <1>pause, <1>honest, StillOneRunner DEF EnterChild, WaitReportsNothing
  <1>8. ASSUME NEW p \in Tasks, WaitReports(p) PROVE RunInv'
    <2> USE <1>8 DEF WaitReports
    <2>1. pc = "pause"
      BY <1>pause
    <2>2. \A q \in Tasks : \/ child'[q] = child[q]
                          \/ /\ child'[q].run = child[q].run \/ child'[q].run = "reaped"
                             /\ Honest(child'[q])
      BY <1>0, <1>typed, HonestFacts DEF TypeOK, Reported, Child
    <2>3. child[p].event = "stopped" => child'[p].run = "stopped"
      BY <1>0, <1>typed, <1>honest, ReportFacts DEF Honest, TypeOK, Reportable
    <2> QED BY <2>1, <2>2, <2>3, <1>pause, <1>honest, StillOneRunner
  <1>9. ASSUME ReactContinued PROVE RunInv'
    <2> USE <1>9 DEF ReactContinued, NextTurn
    <2>1. pc = "pause" /\ got.pid \in Tasks
      BY <1>pause, <1>0 DEF HandlerInv
    <2>2. \A q \in Tasks : child'[q].run = child[q].run /\ Honest(child'[q])
      BY <2>1, <1>0, <1>typed, <1>honest, SignalFacts, HonestFacts DEF TypeOK
    <2> QED BY <2>1, <2>2, <1>pause, StillOneRunner
  <1>10. ASSUME ReactDied PROVE RunInv'
    <2> USE <1>10 DEF ReactDied, NextTurn
    <2>1. pc = "pause" /\ got.pid \in Tasks /\ child[got.pid].run # "running"
      BY <1>pause, <1>0 DEF HandlerInv, HasPid
    <2>2. got.pid \in Range(procs) /\ IsInjective(procs)
      BY <2>1, <1>0 DEF ListIsUnreaped, Up, TypeOK, Got
    <2>3. /\ procs' \in Seq(Tasks)
          /\ got.pid # Head(procs) => procs' # << >> /\ Head(procs') = Head(procs)
      BY <2>2, <1>0, DeleteFacts
    <2>4. CASE procs' = << >>
      <3>1. got.pid = Head(procs) /\ child' = child /\ pc' = "done"
        BY <2>3, <2>4
      <3> QED BY <3>1, <2>1, <1>pause, <1>honest, StillOneRunner
    <2>5. CASE procs' # << >> /\ got.pid = Head(procs)
      <3>1. Start(Head(procs'), pc) /\ Head(procs') \in Tasks
        BY <2>3, <2>5, HeadFacts
      <3>2. /\ pc' \in {"pause", "failed"}
            /\ \A q \in Tasks \ {Head(procs')} : child'[q] = child[q]
            /\ \A q \in Tasks : HasPid(child'[q]) <=> HasPid(child[q])
            /\ \A q \in Tasks : Honest(child'[q])
        BY <3>1, <2>1, <1>0, <1>honest, StartFacts, StartHonest
      <3>3. \A q \in Tasks : child'[q].run # "none"
        BY <3>1, <1>0, <1>typed, <1>pause, StartRuns
      <3> QED BY <3>1, <3>2, <3>3, <2>1, <2>5, <1>pause, StillOneRunner
    <2>6. CASE procs' # << >> /\ got.pid # Head(procs)
      BY <2>6, <2>3, <2>1, <1>pause, <1>honest, StillOneRunner
    <2> QED BY <2>4, <2>5, <2>6
  <1>11. ASSUME ReactStopped PROVE RunInv'
    <2> USE <1>11 DEF ReactStopped, NextTurn
    <2>1. /\ pc = "pause" /\ got.pid \in Tasks /\ child[got.pid].run # "running"
          /\ procs # << >> /\ IsInjective(procs)
      BY <1>pause, <1>0 DEF HandlerInv, RunInv, ListInv, ListIsUnreaped, Up
    <2>2. CASE got.pid # Head(procs)
      BY <2>2, <2>1, <1>pause, <1>honest, StillOneRunner
    <2>3. CASE got.pid = Head(procs)
      <3>1. Start(Head(procs'), pc) /\ Head(procs') \in Tasks
        BY <2>1, <2>3, <1>0, AdvanceFacts, HeadFacts
      <3>2. /\ pc' \in {"pause", "failed"}
            /\ \A q \in Tasks \ {Head(procs')} : child'[q] = child[q]
            /\ \A q \in Tasks : Honest(child'[q])
        BY <3>1, <2>1, <1>0, <1>honest, StartFacts, StartHonest
      <3>3. \A q \in Tasks : child'[q].run # "none"
        BY <3>1, <1>0, <1>typed, <1>pause, StartRuns
      <3> QED BY <3>1, <3>2, <3>3, <2>1, <2>3, <1>pause, StillOneRunner
    <2> QED BY <2>2, <2>3
  <1>12. ASSUME NEW p \in Tasks, TaskRaises(p) \/ TaskStops(p) PROVE RunInv'
    <2> USE <1>12 DEF TaskRaises, TaskStops, Becomes
    <2>1. PICK c \in {Raise(child[p]), TakeStop(child[p])} : child' = [child EXCEPT ![p] = c]
      OBVIOUS
    <2>2. c.run = "stopped" /\ Honest(c) /\ child[p].run = "running"
      <3>1. child[p].run = "running"
        BY DEF CanRaise, CanTakeStop
      <3>2. Raise(child[p]).run = "stopped" /\ TakeStop(child[p]).run = "stopped"
        BY <1>typed DEF Child, Raise, TakeStop
      <3> HIDE <1>12 DEF TaskRaises, TaskStops, Becomes
      <3> QED BY <3>1, <3>2, <1>typed, HonestFacts
    <2>3. \A q \in Tasks : child'[q] = IF q = p THEN c ELSE child[q]
      BY <2>1, <1>0 DEF TypeOK
    <2> HIDE DEF TaskRaises, TaskStops
    <2>4. UNCHANGED <<procs, pc, cnt, arg, handler, got>> /\ Up
      BY DEF TaskRaises, TaskStops, sched
    <2>5. CASE pc = "pause"
      <3>1. handler = "react" /\ got.event = "stopped" =>
               got.pid \in Tasks /\ child[got.pid].run # "running"
        BY <1>0 DEF HandlerInv, RunInv
      <3>2. \A q \in Tasks : child[q].run # "none" /\ (child[q].run = "running" => q = Head(procs))
        BY <2>4, <2>5 DEF RunInv, OneRunner, Catching
      <3> HIDE <1>12 DEF TaskRaises, TaskStops, Becomes
      <3> QED BY <2>2, <2>3, <2>4, <2>5, <3>1, <3>2, <1>honest, StillOneRunner
    <2>6. CASE pc # "pause"
      <3>1. \A q \in Tasks : Fresh(child[q])
        BY <2>4, <2>6 DEF RunInv
      <3>2. Fresh(c)
        BY <2>1, <3>1, <1>typed, FreshFacts
      <3>3. pc \in {"fork", "ready"} /\ UNCHANGED <<sigchld, sigalrm, armed>>
        BY <2>2, <2>4, <2>6, <1>0 DEF RunInv, Up, TypeOK, TaskRaises, TaskStops, Catching
      <3>4. \A R \in SUBSET Tasks : Counted(R) => Counted(R)'
        BY <2>2, <2>3, <2>4 DEF Counted
      <3> QED
        BY <2>2, <2>3, <2>4, <3>1, <3>2, <3>3, <3>4, <1>honest
        DEF RunInv, OneRunner, Catching, Up
    <2> QED BY <2>5, <2>6
  <1>13. ASSUME NEW p \in Tasks, TaskKilled(p) \/ TaskExits(p) PROVE RunInv'
    <2> USE <1>13 DEF TaskKilled, TaskExits, Becomes
    <2>1. pc = "pause"
      BY <1>typed, FreshFacts DEF RunInv, Up
    <2>2. Die(child[p]).run = "zombie" /\ Honest(Die(child[p]))
      BY <1>typed, HonestFacts DEF Child, Die
    <2>3. \A q \in Tasks : child'[q] = IF q = p THEN Die(child[p]) ELSE child[q]
      BY <1>0 DEF TypeOK
    <2>4. handler = "react" /\ got.event = "stopped" =>
             got.pid \in Tasks /\ child[got.pid].run # "running"
      BY <1>0 DEF HandlerInv, RunInv
    <2>5. \A q \in Tasks : child[q].run # "none" /\ (child[q].run = "running" => q = Head(procs))
      BY <2>1 DEF RunInv, OneRunner, Catching, Up
    <2>6. UNCHANGED <<procs, pc, handler, got>>
      BY DEF sched
    <2> HIDE <1>13 DEF TaskKilled, TaskExits, Becomes
    <2> QED BY <2>1, <2>2, <2>3, <2>4, <2>5, <2>6, <1>honest, StillOneRunner
  <1>14. ASSUME TimerExpires PROVE RunInv'
    BY <1>14, <1>honest, StillOneRunner DEF TimerExpires, sched, RunInv, OneRunner, Catching, Up
  <1>15. ASSUME NEW p \in Tasks, NEW sig \in Early \cup Outside, OutsideSignal(p, sig)
         PROVE  RunInv'
    <2> USE <1>15 DEF OutsideSignal, sched
    <2>1. sig = "STOP" \/ (sig = "KILL" /\ pc = "pause")
      BY OutsideAssumption DEF Undisturbed
    <2> DEFINE c == Send(sig, child[p])
    <2>2. c = SendStop(child[p]) \/ (c = SendKill(child[p]) /\ pc = "pause")
      BY <2>1 DEF Send
    <2>3. c.run = child[p].run /\ c.event = child[p].event /\ Honest(c)
      BY <2>2, <1>typed, <1>honest, SignalFacts, HonestFacts
    <2>4. \A q \in Tasks : child'[q] = IF q = p THEN c ELSE child[q]
      BY <1>0 DEF TypeOK
    <2>5. UNCHANGED <<procs, pc, cnt, arg, handler, got, sigalrm, armed>> /\ sigchld' = sigchld /\ Up
      BY <2>1, <1>0 DEF TypeOK
    <2>6. \A R \in SUBSET Tasks : Counted(R) => Counted(R)'
      BY <2>3, <2>4, <2>5 DEF Counted
    <2>7. pc # "pause" => Fresh(c)
      BY <2>2, <2>5, <1>typed, FreshFacts DEF RunInv
    <2>8. handler = "react" /\ got.event = "stopped" => got.pid \in Tasks
      BY <1>0 DEF HandlerInv
    <2> HIDE <1>15 DEF OutsideSignal, c
    <2>9. \A q \in Tasks : child'[q].run = child[q].run /\ Honest(child'[q])
      BY <2>3, <2>4, <1>honest
    <2>10. OneRunner'
      BY <2>5, <2>9 DEF RunInv, OneRunner, Catching
    <2>11. pc = "ready" => \E R \in SUBSET Tasks : Counted(R)'
      BY <2>6 DEF RunInv
    <2>12. Up /\ pc # "pause" => \A q \in Tasks : Fresh(child'[q])
      BY <2>4, <2>7 DEF RunInv
    <2> QED
      BY <2>5, <2>8, <2>9, <2>10, <2>11, <2>12 DEF RunInv, Up
  <1>16. ASSUME Exited \/ UNCHANGED vars PROVE RunInv'
    <2>1. UNCHANGED vars
      BY <1>16 DEF Exited
    <2> QED BY <2>1 DEF vars, RunInv, OneRunner, Catching, Up, Counted
  <1> QED
    BY <1>1, <1>2, <1>3, <1>4, <1>5, <1>6, <1>7, <1>8, <1>9, <1>10, <1>11, <1>12,
       <1>13, <1>14, <1>15, <1>16
    DEF Next, Main, Handlers, ChildLoop, React, Environment

\* Every run of an undisturbed scheduler keeps the two invariants.
THEOREM RunInvariance == ASSUME Undisturbed PROVE Spec => [](ListInv /\ RunInv)
PROOF
  <1>1. Init => ListInv /\ RunInv
    BY ListInit, RunInit
  <1>2. ListInv /\ RunInv /\ [Next]_vars => ListInv' /\ RunInv'
    BY ListStep, RunStep
  <1> QED BY <1>1, <1>2, PTL DEF Spec

\* At most one task runs, and it is the one procs points to, however many tasks
\* there are and whenever they finish, are stopped or are killed.
THEOREM SingleRunner == ASSUME Undisturbed PROVE Spec => []OneRunner
PROOF
  <1>1. RunInv => OneRunner
    BY DEF RunInv
  <1> QED BY <1>1, RunInvariance, PTL

\* When wait_for_ready_children has counted as many waits as there are tasks, it
\* has counted every task.
THEOREM ReadyCountIsRight == ASSUME Undisturbed PROVE Spec => []AllParkedAtStart
PROOF
  <1>1. RunInv => AllParkedAtStart
    BY DEF RunInv, AllParkedAtStart, Parked
  <1> QED BY <1>1, RunInvariance, PTL

----------------------------------------------------------------------------
(* The scheduler implements the abstract dispatcher. *)

\* With one runner the processor is free or held by the head of the list.
LEMMA ProcessorFacts ==
    ASSUME ListInv, RunInv
    PROVE  /\ OnProcessor \in {{}, {Head(procs)}}
           /\ pc # "pause" => OnProcessor = {}
           /\ Head(procs) \in Tasks /\ child[Head(procs)].run # "running" => OnProcessor = {}
PROOF
  <1>1. CASE pc = "pause"
    BY <1>1 DEF RunInv, OneRunner, OnProcessor, Catching
  <1>2. CASE pc # "pause"
    BY <1>2 DEF RunInv, OnProcessor, Catching
  <1> QED BY <1>1, <1>2

THEOREM DispatcherInit == Init => D!DInit
PROOF
  BY DEF Init, D!DInit, OnProcessor, Catching

\* One step of the scheduler, seen by the dispatcher.
THEOREM DispatcherStep ==
    ASSUME Undisturbed, ListInv, RunInv, ListInv', RunInv', [Next]_vars,
           pc = "pause" => pc' # "failed"
    PROVE  [D!DNext]_(D!dvars)
PROOF
  <1>0. /\ TypeOK /\ ListIsUnreaped /\ HandlerInv /\ procs \in Seq(Tasks)
        /\ procs' \in Seq(Tasks) /\ ListIsUnreaped'
    BY DEF ListInv, TypeOK
  <1>now. /\ OnProcessor \in {{}, {Head(procs)}}
          /\ pc # "pause" => OnProcessor = {}
    BY ProcessorFacts
  <1>next. /\ OnProcessor' \in {{}, {Head(procs')}}
           /\ pc' # "pause" => OnProcessor' = {}
    <2>1. OnProcessor' \in {{}, {Head(procs')}}
      BY DEF RunInv, OneRunner, OnProcessor, Catching
    <2>2. pc' # "pause" => OnProcessor' = {}
      BY DEF RunInv, OnProcessor, Catching
    <2> QED BY <2>1, <2>2
  \* A step that does not touch the list either leaves the processor alone, takes
  \* the current task off it, or gives it to the head.
  <1>1. ASSUME procs' = procs PROVE [D!DNext]_(D!dvars)
    <2>1. CASE OnProcessor' = OnProcessor
      BY <1>1, <2>1 DEF D!dvars
    <2>2. CASE OnProcessor' = {} /\ OnProcessor # {}
      BY <1>1, <2>2 DEF D!DNext, D!Release
    <2>3. CASE OnProcessor' # {} /\ OnProcessor = {}
      <3>1. procs # << >>
        BY <1>1, <2>3, <1>next DEF ListInv, Up
      <3> QED BY <1>1, <2>3, <3>1, <1>next DEF D!DNext, D!Grant
    <2> QED BY <1>1, <2>1, <2>2, <2>3, <1>now, <1>next
  <1>2. ASSUME NEW p \in Tasks, ForkTask(p) PROVE [D!DNext]_(D!dvars)
    <2>1. p \notin Range(procs)
      BY <1>2, <1>0 DEF ForkTask, ListIsUnreaped, Up, HandlerInv, HasPid
    <2>2. pc # "pause" /\ pc' # "pause" /\ procs' = Append(procs, p)
      BY <1>2 DEF ForkTask, AppendToList
    <2>3. D!Admit(p)
      BY <2>1, <2>2, <1>now, <1>next DEF D!Admit, D!Range, Range
    <2> QED BY <2>3 DEF D!DNext
  <1>3. ASSUME ReactStopped, procs' # procs PROVE [D!DNext]_(D!dvars)
    <2>1. /\ got.pid = Head(procs) /\ procs' = Advance(procs) /\ procs # << >>
          /\ got.pid \in Tasks /\ child[got.pid].run # "running"
      BY <1>3, <1>0 DEF ReactStopped, ListInv, Up, Catching, HandlerInv, RunInv
    <2>2. OnProcessor = {}
      BY <2>1, ProcessorFacts
    <2>3. D!HandOver
      BY <2>1, <2>2, <1>next DEF D!HandOver, D!Dispatch, Advance
    <2> QED BY <2>3 DEF D!DNext
  <1>4. ASSUME ReactDied PROVE [D!DNext]_(D!dvars)
    <2>1. /\ got.pid \in Tasks /\ got.event = "exited" /\ Up /\ got \in Got
          /\ ~HasPid(child[got.pid]) /\ procs # << >>
      BY <1>4, <1>0 DEF ReactDied, ListInv, Up, Catching, HandlerInv, TypeOK
    <2>2. got.pid \in Range(procs) /\ IsInjective(procs)
      BY <2>1, <1>0 DEF ListIsUnreaped, Got
    <2> DEFINE i == Position(procs, got.pid)
    <2>3. i \in 1 .. Len(procs) /\ procs[i] = got.pid /\ i \in DOMAIN procs
      BY <2>2, <1>0, PositionFacts, LenProperties
    <2>4. procs' = RemoveAt(procs, i)
      BY <1>4, <2>2 DEF ReactDied, DeleteFromList
    <2>5. got.pid \notin OnProcessor
      BY <2>1 DEF OnProcessor, HasPid
    <2>6. i = 1 <=> got.pid = Head(procs)
      <3>1. Head(procs) = procs[1] /\ Len(procs) \in Nat \ {0}
        BY <2>1, <1>0, HeadFacts
      <3>2. Position(procs, procs[1]) = 1
        BY <3>1, <2>2, <1>0, PositionIs
      <3> QED BY <3>1, <3>2, <2>3
    <2>7. CASE got.pid = Head(procs) /\ procs' # << >>
      <3>1. D!Bury(i)
        BY <2>3, <2>4, <2>5, <2>6, <2>7, <1>next DEF D!Bury, D!Dispatch, D!RemoveAt, RemoveAt
      <3> QED BY <3>1, <2>3 DEF D!DNext
    <2>8. CASE procs' = << >>
      <3>1. OnProcessor' = {}
        BY <1>4, <2>8, <1>next DEF ReactDied
      <3>2. got.pid = Head(procs)
        BY <2>2, <2>8, <1>0, DeleteFacts, <1>4 DEF ReactDied
      <3>3. OnProcessor = {}
        BY <2>1, <3>2, ProcessorFacts DEF HasPid
      <3>4. D!Bury(i)
        BY <2>3, <2>4, <2>5, <2>8, <3>1, <3>3 DEF D!Bury, D!RemoveAt, RemoveAt
      <3> QED BY <3>4, <2>3 DEF D!DNext
    <2>9. CASE got.pid # Head(procs) /\ procs' # << >>
      <3>1. UNCHANGED <<child, pc>>
        BY <1>4, <2>9 DEF ReactDied
      <3>2. OnProcessor' = OnProcessor
        BY <3>1 DEF OnProcessor, Catching
      <3>3. D!Bury(i)
        BY <2>3, <2>4, <2>5, <2>6, <2>9, <3>2 DEF D!Bury, D!RemoveAt, RemoveAt
      <3> QED BY <3>3, <2>3 DEF D!DNext
    <2> QED BY <2>7, <2>8, <2>9
  <1> QED
    BY <1>1, <1>2, <1>3, <1>4
    DEF Next, Main, Handlers, ChildLoop, React, Environment, ForkFails, CollectReady,
        InstallHandlers, LoadFirst, StartFirst, HandleAlarm, EnterChild, WaitReports,
        WaitReportsNothing, ReactContinued, TaskRaises, TaskStops, TaskKilled,
        TaskExits, Becomes, TimerExpires, OutsideSignal, Exited, sched, vars

\* Every run of an undisturbed scheduler is a run of the dispatcher.
THEOREM Implementation == ASSUME Undisturbed PROVE Spec => ImplementsDispatcher
PROOF
  <1>1. ListInv /\ RunInv /\ ListInv' /\ RunInv' /\ [Next]_vars /\ [pc = "pause" => pc' # "failed"]_vars
        => [D!DNext]_(D!dvars)
    <2>1. UNCHANGED vars /\ pc = "pause" => pc' # "failed"
      BY DEF vars
    <2> QED BY <2>1, DispatcherStep
  <1>2. Spec => [][pc = "pause" => pc' # "failed"]_vars
    BY NoHandlerFails DEF HandlersNeverFail
  <1> QED
    BY <1>1, <1>2, DispatcherInit, RunInvariance, PTL DEF Spec, ImplementsDispatcher, D!DSpec
=============================================================================
