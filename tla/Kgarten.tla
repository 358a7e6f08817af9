------------------------------- MODULE Kgarten -------------------------------
(***************************************************************************)
(* The kindergarten of exer3/kgarten/kgarten.c: threads that are children  *)
(* or teachers enter and leave for ever, under one mutex and one condition *)
(* variable, so that there are never more than ratio children per teacher. *)
(*                                                                         *)
(* Every access to vt and vc is inside a critical section of kg->mutex     *)
(* that blocks nowhere but in pthread_cond_wait, which releases the mutex: *)
(* a critical section, up to its unlock or its wait, is one step.  The     *)
(* pthread_cond_signal that follows an unlock is a step of its own.        *)
(***************************************************************************)
EXTENDS Integers, FiniteSets

CONSTANTS Children,   \* threads with is_child
          Teachers,   \* the other threads
          Ratio       \* c_t_ratio, the most children a teacher can look after

ASSUME ThreadsAssumption ==
    /\ IsFiniteSet(Children) /\ IsFiniteSet(Teachers)
    /\ Children \cap Teachers = {}
    /\ Children \cup Teachers # {}
ASSUME RatioAssumption == Ratio \in Nat \ {0}

\* The threads.
People == Children \cup Teachers

VARIABLES vt, vc,     \* teachers and children that are inside
          where,      \* the place of each thread
          asleep,     \* the threads blocked in pthread_cond_wait
          ended       \* what made the program exit(1), if anything

kvars == <<vt, vc, where, asleep, ended>>

(* A thread is created at "enter".  "signal_in" and "signal_out" are the     *)
(* calls of pthread_cond_signal, "verify_in" and "verify_out" the two calls  *)
(* of verify, "inside" the sleep between them.  A thread in asleep is at     *)
(* "enter" or "inside"; woken, it evaluates its condition again.             *)
Place == {"unborn", "enter", "signal_in", "verify_in", "inside", "signal_out",
          "verify_out"}

KTypeOK ==
    /\ vt \in 0 .. Cardinality(Teachers) /\ vc \in 0 .. Cardinality(Children)
    /\ where \in [People -> Place]
    /\ asleep \subseteq People
    /\ ended \in {"no", "verify", "create"}

KInit ==
    /\ vt = 0 /\ vc = 0
    /\ where = [t \in People |-> "unborn"]
    /\ asleep = {}
    /\ ended = "no"

----------------------------------------------------------------------------
Moves(t, to) == where' = [where EXCEPT ![t] = to]

\* main creates the child threads first: is_child = (i < chldcnt).
Create(t) ==
    /\ ended = "no"
    /\ where[t] = "unborn"
    /\ t \in Teachers => \A c \in Children : where[c] # "unborn"
    /\ Moves(t, "enter")
    /\ UNCHANGED <<vt, vc, asleep, ended>>

CreateFails ==
    /\ ended = "no"
    /\ \E t \in People : where[t] = "unborn"
    /\ ended' = "create"
    /\ UNCHANGED <<vt, vc, where, asleep>>

\* t can run and is at the given place.
Runs(t, place) == ended = "no" /\ t \notin asleep /\ where[t] = place

\* The loop around pthread_cond_wait: blocked, or through to the update.
Wait(t) ==
    /\ asleep' = asleep \cup {t}
    /\ UNCHANGED <<vt, vc, where, ended>>

\* FAULT: tests vc instead of vc + 1.
NoRoomOneOff == vc > Ratio * vt

NoRoom == vc + 1 > Ratio * vt

\* FAULT: counts the child before the loop, and again when it gets in.
ChildEnterEager(t) ==
    /\ t \in Children /\ Runs(t, "enter")
    /\ vc' = vc + 1
    /\ IF NoRoom
       THEN asleep' = asleep \cup {t} /\ UNCHANGED <<vt, where, ended>>
       ELSE Moves(t, "signal_in") /\ UNCHANGED <<vt, asleep, ended>>

ChildEnter(t) ==
    /\ t \in Children /\ Runs(t, "enter")
    /\ IF NoRoom
       THEN Wait(t)
       ELSE /\ vc' = vc + 1
            /\ Moves(t, "signal_in")
            /\ UNCHANGED <<vt, asleep, ended>>

ChildExit(t) ==
    /\ t \in Children /\ Runs(t, "inside")
    /\ vc' = vc - 1
    /\ Moves(t, "verify_out")
    /\ UNCHANGED <<vt, asleep, ended>>

TeacherEnter(t) ==
    /\ t \in Teachers /\ Runs(t, "enter")
    /\ vt' = vt + 1
    /\ Moves(t, "verify_in")
    /\ UNCHANGED <<vc, asleep, ended>>

\* FAULT: < instead of >.
NeededSwapped == vc < Ratio * (vt - 1)

Needed == vc > Ratio * (vt - 1)

\* FAULT: if instead of while; a woken teacher does not look again.
TeacherExitOnce(t) ==
    /\ t \in Teachers /\ Runs(t, "inside")
    /\ \/ Needed /\ Wait(t)
       \/ /\ vt' = vt - 1
          /\ Moves(t, "signal_out")
          /\ UNCHANGED <<vc, asleep, ended>>

TeacherExit(t) ==
    /\ t \in Teachers /\ Runs(t, "inside")
    /\ IF Needed
       THEN Wait(t)
       ELSE /\ vt' = vt - 1
            /\ Moves(t, "signal_out")
            /\ UNCHANGED <<vc, asleep, ended>>

\* pthread_cond_signal wakes one sleeper, if there is one.
Signal(t) ==
    /\ \/ Runs(t, "signal_in")  /\ Moves(t, "verify_in")
       \/ Runs(t, "signal_out") /\ Moves(t, "verify_out")
    /\ IF asleep = {}
       THEN UNCHANGED asleep
       ELSE \E w \in asleep : asleep' = asleep \ {w}
    /\ UNCHANGED <<vt, vc, ended>>

\* POSIX lets pthread_cond_wait return without a signal.
SpuriousWakeup(t) ==
    /\ ended = "no" /\ t \in asleep
    /\ asleep' = asleep \ {t}
    /\ UNCHANGED <<vt, vc, where, ended>>

Verify(t) ==
    /\ \/ Runs(t, "verify_in")  /\ Moves(t, "inside")
       \/ Runs(t, "verify_out") /\ Moves(t, "enter")
    /\ ended' = IF vc > vt * Ratio THEN "verify" ELSE ended
    /\ UNCHANGED <<vt, vc, asleep>>

KExited == ended # "no" /\ UNCHANGED kvars

----------------------------------------------------------------------------
PersonStep(t) == \/ ChildEnter(t) \/ ChildExit(t) \/ TeacherEnter(t) \/ TeacherExit(t)
           \/ Signal(t) \/ Verify(t)

KNext == \/ \E t \in People : Create(t) \/ PersonStep(t) \/ SpuriousWakeup(t)
        \/ CreateFails \/ KExited

KSpec == KInit /\ [][KNext]_kvars

\* People that can run do run, and main creates them all.  Nobody is promised a
\* spurious wakeup, nor to be the one a signal wakes.
Fairness == \A t \in People : WF_kvars(Create(t)) /\ WF_kvars(PersonStep(t))

KFairSpec == KSpec /\ Fairness

\* Nobody is merely unlucky with the mutex: a thread that is awake again and again
\* while its condition is true does at some time find it true.
LuckySpec ==
    /\ KFairSpec
    /\ \A t \in People : /\ SF_kvars(ChildEnter(t) /\ vc' > vc)
                          /\ SF_kvars(TeacherExit(t) /\ vt' < vt)

----------------------------------------------------------------------------
(* Properties. *)

ChildrenIn == {c \in Children : where[c] \in {"signal_in", "verify_in", "inside"}}
TeachersIn == {t \in Teachers : where[t] \in {"verify_in", "inside"}}

\* The counters count the threads that are inside.  In particular they never go
\* below zero: the two FIXME comments (lines 183 and 199) need no check.
CountersAreRight == vc = Cardinality(ChildrenIn) /\ vt = Cardinality(TeachersIn)

\* Never more children than the teachers inside can look after, at any moment and
\* not only when some thread calls verify.
EnoughTeachers == vc <= Ratio * vt

\* verify never finds the kindergarten in a bad state.
NoBadThing == ended # "verify"

\* However the signals are lost, once a teacher exists not all threads sleep in
\* pthread_cond_wait: the last one awake finds its condition true.
NotAllAsleep == Teachers # {} => asleep # People

\* Some thread gets in again and again: the kindergarten never comes to a halt.
KeepsMoving ==
    Teachers # {} =>
      []<>(ended # "no" \/ \E t \in People : where[t] \in {"signal_in", "verify_in"})

\* "teachers and students randomly arriving/leaving" (README.md:24): whoever has left
\* the kindergarten, and sleeps "for a while before re-entering" (kgarten.c:289), is
\* in it again some time.
EveryoneReenters ==
    \A t \in People : where[t] = "verify_out"
        ~> (where[t] \in {"signal_in", "verify_in", "inside"} \/ ended # "no")
=============================================================================
