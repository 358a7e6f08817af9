----------------------------- MODULE Processes -----------------------------
(***************************************************************************)
(* What the kernel does to one child of a process that schedules its       *)
(* children with SIGSTOP and SIGCONT.  None of this is code of the         *)
(* repository: it is the behaviour of fork(2), kill(2), raise(3) and       *)
(* waitpid(2) on Linux that exer4/*/ and exer2/*/ rely on.                 *)
(*                                                                         *)
(* A child is a record                                                     *)
(*   run     "none" before fork, then "running", "stopped", "zombie" and   *)
(*           "reaped" once a wait has returned its death;                  *)
(*   raised  it has executed the raise(SIGSTOP) that precedes execve;      *)
(*   stop    a SIGSTOP was sent to it and it has not acted on it yet;      *)
(*   kill    the same for SIGKILL;                                         *)
(*   event   the one state change a wait can still report.  A later change *)
(*           overwrites an earlier one nobody has waited for.              *)
(***************************************************************************)
EXTENDS Naturals

Child == [run    : {"none", "running", "stopped", "zombie", "reaped"},
          raised : BOOLEAN,
          stop   : BOOLEAN,
          kill   : BOOLEAN,
          event  : {"none", "stopped", "continued", "exited"}]

Unborn == [run |-> "none", raised |-> FALSE, stop |-> FALSE, kill |-> FALSE,
           event |-> "none"]

Forked == [Unborn EXCEPT !.run = "running"]

\* kill(2) finds the pid: a zombie still has one, a reaped child has not.
HasPid(c) == c.run \notin {"none", "reaped"}

Alive(c) == c.run \in {"running", "stopped"}

\* Neither running now nor able to run before somebody sends SIGCONT.
Parked(c) == c.run \in {"stopped", "zombie", "reaped"}

----------------------------------------------------------------------------
(* Sending a signal. *)

\* SIGSTOP stays pending until the child acts on it; it means nothing to a
\* child that is stopped already or dead.
SendStop(c) == [c EXCEPT !.stop = (c.run = "running")]

\* SIGCONT discards a pending SIGSTOP at once, resumes a stopped child, and
\* only then is there a continuation to report: it replaces a stop nobody has
\* waited for.
SendCont(c) ==
    IF c.run = "stopped"
    THEN [c EXCEPT !.run = "running", !.stop = FALSE, !.event = "continued"]
    ELSE [c EXCEPT !.stop = FALSE]

\* The parent gets SIGCHLD for a continuation exactly when it can be reported.
ContNotifies(c) == c.run = "stopped"

SendKill(c) == [c EXCEPT !.kill = Alive(c)]

Send(sig, c) ==
    CASE sig = "STOP" -> SendStop(c)
      [] sig = "CONT" -> SendCont(c)
      [] sig = "KILL" -> SendKill(c)

----------------------------------------------------------------------------
(* What the child does next.  SIGKILL goes before everything else. *)

CanRaise(c) == c.run = "running" /\ ~c.kill /\ ~c.raised
Raise(c) == [c EXCEPT !.run = "stopped", !.raised = TRUE, !.stop = FALSE,
                      !.event = "stopped"]

CanTakeStop(c) == c.run = "running" /\ ~c.kill /\ c.stop
TakeStop(c) == [c EXCEPT !.run = "stopped", !.stop = FALSE, !.event = "stopped"]

CanExit(c) == c.run = "running" /\ ~c.kill /\ c.raised
CanTakeKill(c) == Alive(c) /\ c.kill
Die(c) == [c EXCEPT !.run = "zombie", !.stop = FALSE, !.kill = FALSE,
                    !.event = "exited"]

----------------------------------------------------------------------------
(* waitpid(2). *)

Reportable(c, events) == HasPid(c) /\ c.event \in events

\* A state change is reported once; reporting the death frees the pid.
Reported(c) ==
    [c EXCEPT !.event = "none",
              !.run = IF c.event = "exited" THEN "reaped" ELSE c.run]
============================================================================
