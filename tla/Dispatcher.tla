----------------------------- MODULE Dispatcher -----------------------------
(***************************************************************************)
(* What a round-robin scheduler promises, without signals, waits and       *)
(* handlers: a queue of processes, at most one of them on the processor,   *)
(* and that one is always the first of the queue.  A process is taken off  *)
(* the processor before it loses its place; the one that loses it goes to  *)
(* the end of the queue; the ones behind keep their order.  RoundRobin     *)
(* (exer4/sched/scheduler.c) implements it.                                *)
(***************************************************************************)
EXTENDS SequencesExt

CONSTANT Process

VARIABLES queue, running

dvars == <<queue, running>>

\* The processor may be handed to the new first of the queue in the same step,
\* and is not when that one is dead already.
Dispatch == running' \in {{}, {Head(queue')}}

DInit == queue = << >> /\ running = {}

Admit(p) ==
    /\ p \notin Range(queue)
    /\ queue' = Append(queue, p)
    /\ UNCHANGED running

Grant ==
    /\ queue # << >> /\ running = {}
    /\ running' = {Head(queue)}
    /\ UNCHANGED queue

\* The current process stops or dies: the processor is free.
Release ==
    /\ running # {}
    /\ running' = {}
    /\ UNCHANGED queue

HandOver ==
    /\ queue # << >> /\ running = {}
    /\ queue' = Append(Tail(queue), Head(queue))
    /\ Dispatch

\* A dead process leaves the queue; if it was the current one the next starts.
Bury(i) ==
    /\ queue[i] \notin running
    /\ queue' = RemoveAt(queue, i)
    /\ IF i = 1 /\ queue' # << >> THEN Dispatch ELSE UNCHANGED running

DNext == \/ \E p \in Process : Admit(p)
         \/ \E i \in DOMAIN queue : Bury(i)
         \/ Grant \/ Release \/ HandOver

DSpec == DInit /\ [][DNext]_dvars
=============================================================================
