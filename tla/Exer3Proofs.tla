----------------------------- MODULE Exer3Proofs -----------------------------
(***************************************************************************)
(* The two programs of exercise 3 that synchronise threads.                *)
(*                                                                         *)
(* Kgarten: the safety of the kindergarten, for every finite set of        *)
(* children and of teachers and every ratio.                               *)
(*                                                                         *)
(* Mandel, for every number of threads and of lines: the types, the ring   *)
(* of semaphores (the turn is always at exactly one thread), the picture   *)
(* that is complete when main returns, and the refinement of Plotter.      *)
(***************************************************************************)
EXTENDS Kgarten, Mandel, FiniteSetTheorems, TLAPS

----------------------------------------------------------------------------
(* The kindergarten: the inductive invariant. *)

Types ==
    /\ vt \in Int /\ vc \in Int
    /\ where \in [People -> Place]
    /\ asleep \subseteq People
    /\ ended \in {"no", "verify", "create"}

\* A child sleeps because it may not enter, a teacher because she may not leave.
Sleepers == \A t \in asleep : where[t] = IF t \in Children THEN "enter" ELSE "inside"

\* Only a child signals on its way in.
Doors == \A t \in Teachers : where[t] # "signal_in"

KInv == /\ Types /\ CountersAreRight /\ EnoughTeachers /\ NoBadThing
        /\ Sleepers /\ Doors /\ NotAllAsleep

----------------------------------------------------------------------------
(* The two sets that the counters count. *)

\* Both sets are finite, so that adding or removing a thread changes their
\* cardinality by one.
LEMMA InsideIsFinite ==
    /\ IsFiniteSet(ChildrenIn) /\ IsFiniteSet(TeachersIn)
    /\ Cardinality(ChildrenIn) \in 0 .. Cardinality(Children)
    /\ Cardinality(TeachersIn) \in 0 .. Cardinality(Teachers)
PROOF
  <1>1. ChildrenIn \subseteq Children /\ TeachersIn \subseteq Teachers
    BY DEF ChildrenIn, TeachersIn
  <1>2. IsFiniteSet(Children) /\ IsFiniteSet(Teachers)
    BY ThreadsAssumption
  <1>3. /\ IsFiniteSet(ChildrenIn)
        /\ Cardinality(ChildrenIn) <= Cardinality(Children)
    BY <1>1, <1>2, FS_Subset
  <1>4. /\ IsFiniteSet(TeachersIn)
        /\ Cardinality(TeachersIn) <= Cardinality(Teachers)
    BY <1>1, <1>2, FS_Subset
  <1>5. /\ Cardinality(ChildrenIn) \in Nat /\ Cardinality(TeachersIn) \in Nat
        /\ Cardinality(Children) \in Nat /\ Cardinality(Teachers) \in Nat
    BY <1>2, <1>3, <1>4, FS_CardinalityType
  <1> QED BY <1>3, <1>4, <1>5

\* A thread that moves without crossing the door leaves both sets as they were.
LEMMA SameInside ==
    ASSUME Types, NEW t \in People, NEW to \in Place, Moves(t, to),
           t \in Children => (where[t] \in {"signal_in", "verify_in", "inside"}
                              <=> to \in {"signal_in", "verify_in", "inside"}),
           t \in Teachers => (where[t] \in {"verify_in", "inside"}
                              <=> to \in {"verify_in", "inside"})
    PROVE  ChildrenIn' = ChildrenIn /\ TeachersIn' = TeachersIn
PROOF
  <1>1. \A u \in People : where'[u] = IF u = t THEN to ELSE where[u]
    BY DEF Types, Moves
  <1> QED BY <1>1 DEF ChildrenIn, TeachersIn, People

\* The counters stay right when neither they nor the two sets change.
LEMMA SameCounters ==
    ASSUME CountersAreRight, UNCHANGED <<vt, vc>>,
           ChildrenIn' = ChildrenIn, TeachersIn' = TeachersIn
    PROVE  CountersAreRight'
PROOF
  BY DEF CountersAreRight

\* When only one thread is awake and it is about to sleep, no child is inside and
\* every teacher is: the counters say so.
LEMMA LastAwake ==
    ASSUME Types, CountersAreRight, Sleepers, Teachers # {},
           NEW t \in People, asleep \cup {t} = People,
           where[t] = IF t \in Children THEN "enter" ELSE "inside"
    PROVE  vc = 0 /\ vt >= 1 /\ Ratio * vt >= 1 /\ Ratio * (vt - 1) >= 0
PROOF
  <1>1. \A u \in People : where[u] = IF u \in Children THEN "enter" ELSE "inside"
    BY DEF Sleepers
  <1>2. ChildrenIn = {} /\ TeachersIn = Teachers
    BY <1>1, ThreadsAssumption DEF ChildrenIn, TeachersIn, People
  <1>3. vc = 0 /\ vt = Cardinality(Teachers)
    BY <1>2, FS_EmptySet DEF CountersAreRight
  <1>4. Cardinality(Teachers) \in Nat /\ Cardinality(Teachers) # 0
    BY ThreadsAssumption, FS_CardinalityType, FS_EmptySet
  <1>5. vt \in Nat /\ vt >= 1 /\ Ratio \in Nat /\ Ratio >= 1
    BY <1>3, <1>4, RatioAssumption
  <1>6. Ratio * vt >= 1 /\ Ratio * (vt - 1) >= 0
    BY <1>5
  <1> QED BY <1>3, <1>5, <1>6

----------------------------------------------------------------------------
\* No thread exists yet.
LEMMA KAtFirst == KInit => KInv
PROOF
  <1> SUFFICES ASSUME KInit PROVE KInv
    OBVIOUS
  <1> USE DEF KInit
  <1>1. Types
    BY DEF Types, Place
  <1>2. ChildrenIn = {} /\ TeachersIn = {}
    BY DEF ChildrenIn, TeachersIn, People
  <1>3. CountersAreRight
    BY <1>2, FS_EmptySet DEF CountersAreRight
  <1>4. EnoughTeachers
    BY RatioAssumption DEF EnoughTeachers
  <1>5. NoBadThing /\ Sleepers
    BY DEF NoBadThing, Sleepers
  <1>7. Doors
    BY ThreadsAssumption DEF Doors, People
  <1>6. NotAllAsleep
    BY ThreadsAssumption DEF NotAllAsleep, People
  <1> QED BY <1>1, <1>3, <1>4, <1>5, <1>6, <1>7 DEF KInv

\* One step per action; the counters are the heart of each.
LEMMA KGoesOn == KInv /\ [KNext]_kvars => KInv'
PROOF
  <1> SUFFICES ASSUME KInv, [KNext]_kvars PROVE KInv'
    OBVIOUS
  <1> USE DEF KInv
  <1>0. People = Children \cup Teachers /\ Children \cap Teachers = {}
    BY ThreadsAssumption DEF People
  <1>r. Ratio \in Nat /\ Ratio >= 1 /\ vt \in Int /\ vc \in Int
    BY RatioAssumption DEF Types
  <1>1. ASSUME NEW t \in People, Create(t) PROVE KInv'
    <2>1. where[t] = "unborn" /\ Moves(t, "enter") /\ UNCHANGED <<vt, vc, asleep, ended>>
      BY <1>1 DEF Create
    <2>2. Types'
      BY <2>1 DEF Types, Moves, Place
    <2>3. CountersAreRight'
      BY <2>1, SameInside, SameCounters DEF Place
    <2>4. Sleepers' /\ Doors'
      BY <2>1 DEF Sleepers, Doors, Types, Moves
    <2> QED BY <2>1, <2>2, <2>3, <2>4 DEF EnoughTeachers, NoBadThing, NotAllAsleep
  <1>2. ASSUME CreateFails PROVE KInv'
    BY <1>2, SameCounters DEF CreateFails, Types, EnoughTeachers, NoBadThing,
       Sleepers, Doors, NotAllAsleep, ChildrenIn, TeachersIn
  <1>w. ASSUME NEW t \in People, Wait(t),
               where[t] = IF t \in Children THEN "enter" ELSE "inside",
               asleep \cup {t} = People /\ Teachers # {} => FALSE
        PROVE  KInv'
    <2>1. asleep' = asleep \cup {t} /\ UNCHANGED <<vt, vc, where, ended>>
      BY <1>w DEF Wait
    <2>2. Types'
      BY <2>1 DEF Types
    <2>3. CountersAreRight'
      BY <2>1, SameCounters DEF ChildrenIn, TeachersIn
    <2>4. Sleepers' /\ Doors'
      BY <2>1, <1>w DEF Sleepers, Doors
    <2>5. NotAllAsleep'
      BY <2>1, <1>w DEF NotAllAsleep
    <2> QED BY <2>1, <2>2, <2>3, <2>4, <2>5 DEF EnoughTeachers, NoBadThing
  <1>3. ASSUME NEW t \in People, ChildEnter(t) PROVE KInv'
    <2>1. t \in Children /\ t \notin Teachers /\ t \notin asleep /\ where[t] = "enter"
      BY <1>3, <1>0 DEF ChildEnter, Runs
    <2>2. CASE NoRoom
      <3>1. Wait(t)
        BY <1>3, <2>2 DEF ChildEnter
      <3>2. asleep \cup {t} = People /\ Teachers # {} => FALSE
        BY <2>1, <2>2, <1>r, LastAwake DEF NoRoom
      <3> QED BY <3>1, <3>2, <2>1, <1>w
    <2>3. CASE ~NoRoom
      <3>1. vc' = vc + 1 /\ Moves(t, "signal_in") /\ UNCHANGED <<vt, asleep, ended>>
        BY <1>3, <2>3 DEF ChildEnter
      <3>2. Types'
        BY <3>1 DEF Types, Moves, Place
      <3>3. ChildrenIn' = ChildrenIn \cup {t} /\ TeachersIn' = TeachersIn /\ t \notin ChildrenIn
        BY <3>1, <2>1, <1>0 DEF ChildrenIn, TeachersIn, Types, Moves
      <3>4. CountersAreRight'
        BY <3>1, <3>3, InsideIsFinite, FS_AddElement DEF CountersAreRight
      <3>5. EnoughTeachers'
        <4>1. vc + 1 <= Ratio * vt
          BY <2>3, <1>r DEF NoRoom
        <4> QED BY <3>1, <4>1 DEF EnoughTeachers
      <3>6. Sleepers' /\ Doors'
        BY <3>1, <2>1 DEF Sleepers, Doors, Types, Moves
      <3> QED BY <3>1, <3>2, <3>4, <3>5, <3>6 DEF NoBadThing, NotAllAsleep
    <2> QED BY <2>2, <2>3
  <1>4. ASSUME NEW t \in People, ChildExit(t) PROVE KInv'
    <2>1. /\ t \in Children /\ t \notin Teachers /\ t \notin asleep /\ where[t] = "inside"
          /\ vc' = vc - 1 /\ Moves(t, "verify_out") /\ UNCHANGED <<vt, asleep, ended>>
      BY <1>4, <1>0 DEF ChildExit, Runs
    <2>2. Types'
      BY <2>1 DEF Types, Moves, Place
    <2>3. ChildrenIn' = ChildrenIn \ {t} /\ TeachersIn' = TeachersIn /\ t \in ChildrenIn
      BY <2>1, <1>0 DEF ChildrenIn, TeachersIn, Types, Moves
    <2>4. CountersAreRight'
      BY <2>1, <2>3, InsideIsFinite, FS_RemoveElement DEF CountersAreRight
    <2>5. EnoughTeachers'
      <3>1. Ratio * vt \in Int
        BY <1>r
      <3> QED BY <2>1, <1>r, <3>1 DEF EnoughTeachers
    <2>6. Sleepers' /\ Doors'
      BY <2>1 DEF Sleepers, Doors, Types, Moves
    <2> QED BY <2>1, <2>2, <2>4, <2>5, <2>6 DEF NoBadThing, NotAllAsleep
  <1>5. ASSUME NEW t \in People, TeacherEnter(t) PROVE KInv'
    <2>1. /\ t \in Teachers /\ t \notin Children /\ t \notin asleep /\ where[t] = "enter"
          /\ vt' = vt + 1 /\ Moves(t, "verify_in") /\ UNCHANGED <<vc, asleep, ended>>
      BY <1>5, <1>0 DEF TeacherEnter, Runs
    <2>2. Types'
      BY <2>1 DEF Types, Moves, Place
    <2>3. ChildrenIn' = ChildrenIn /\ TeachersIn' = TeachersIn \cup {t} /\ t \notin TeachersIn
      BY <2>1, <1>0 DEF ChildrenIn, TeachersIn, Types, Moves
    <2>4. CountersAreRight'
      BY <2>1, <2>3, InsideIsFinite, FS_AddElement DEF CountersAreRight
    <2>5. EnoughTeachers'
      <3>1. Ratio * (vt + 1) = Ratio * vt + Ratio /\ Ratio * vt \in Int
        BY <1>r
      <3> QED BY <2>1, <1>r, <3>1 DEF EnoughTeachers
    <2>6. Sleepers' /\ Doors'
      BY <2>1 DEF Sleepers, Doors, Types, Moves
    <2> QED BY <2>1, <2>2, <2>4, <2>5, <2>6 DEF NoBadThing, NotAllAsleep
  <1>6. ASSUME NEW t \in People, TeacherExit(t) PROVE KInv'
    <2>1. t \in Teachers /\ t \notin Children /\ t \notin asleep /\ where[t] = "inside"
      BY <1>6, <1>0 DEF TeacherExit, Runs
    <2>2. CASE Needed
      <3>1. Wait(t)
        BY <1>6, <2>2 DEF TeacherExit
      <3>2. asleep \cup {t} = People /\ Teachers # {} => FALSE
        BY <2>1, <2>2, <1>r, LastAwake DEF Needed
      <3> QED BY <3>1, <3>2, <2>1, <1>w
    <2>3. CASE ~Needed
      <3>1. vt' = vt - 1 /\ Moves(t, "signal_out") /\ UNCHANGED <<vc, asleep, ended>>
        BY <1>6, <2>3 DEF TeacherExit
      <3>2. Types'
        BY <3>1 DEF Types, Moves, Place
      <3>3. ChildrenIn' = ChildrenIn /\ TeachersIn' = TeachersIn \ {t} /\ t \in TeachersIn
        BY <3>1, <2>1, <1>0 DEF ChildrenIn, TeachersIn, Types, Moves
      <3>4. CountersAreRight'
        BY <3>1, <3>3, InsideIsFinite, FS_RemoveElement DEF CountersAreRight
      <3>5. EnoughTeachers'
        <4>1. vc <= Ratio * (vt - 1)
          BY <2>3, <1>r DEF Needed
        <4> QED BY <3>1, <4>1 DEF EnoughTeachers
      <3>6. Sleepers' /\ Doors'
        BY <3>1, <2>1 DEF Sleepers, Doors, Types, Moves
      <3> QED BY <3>1, <3>2, <3>4, <3>5, <3>6 DEF NoBadThing, NotAllAsleep
    <2> QED BY <2>2, <2>3
  <1>7. ASSUME NEW t \in People, Signal(t) PROVE KInv'
    <2>1. /\ t \notin asleep /\ UNCHANGED <<vt, vc, ended>>
          /\ \/ where[t] = "signal_in"  /\ Moves(t, "verify_in")
             \/ where[t] = "signal_out" /\ Moves(t, "verify_out")
      BY <1>7 DEF Signal, Runs
    <2>2. asleep' \subseteq asleep
      BY <1>7 DEF Signal
    <2>3. Types'
      BY <2>1, <2>2 DEF Types, Moves, Place
    <2>4. CountersAreRight'
      BY <2>1, SameInside, SameCounters DEF Doors, Place
    <2>m. \A u \in People : u # t => where'[u] = where[u]
      BY <2>1 DEF Types, Moves
    <2>n. where'[t] # "signal_in"
      BY <2>1 DEF Types, Moves
    <2>5. Sleepers' /\ Doors'
      BY <2>1, <2>2, <2>m, <2>n, <1>0 DEF Sleepers, Doors, Types
    <2>6. NotAllAsleep'
      BY <2>2 DEF NotAllAsleep, Types
    <2> QED BY <2>1, <2>3, <2>4, <2>5, <2>6 DEF EnoughTeachers, NoBadThing
  <1>8. ASSUME NEW t \in People, SpuriousWakeup(t) PROVE KInv'
    <2>1. asleep' \subseteq asleep /\ UNCHANGED <<vt, vc, where, ended>>
      BY <1>8 DEF SpuriousWakeup
    <2>2. CountersAreRight'
      BY <2>1, SameCounters DEF ChildrenIn, TeachersIn
    <2> QED BY <2>1, <2>2 DEF Types, EnoughTeachers, NoBadThing, Sleepers, Doors, NotAllAsleep
  <1>9. ASSUME NEW t \in People, Verify(t) PROVE KInv'
    <2>1. /\ t \notin asleep /\ UNCHANGED <<vt, vc, asleep>>
          /\ \/ where[t] = "verify_in"  /\ Moves(t, "inside")
             \/ where[t] = "verify_out" /\ Moves(t, "enter")
      BY <1>9 DEF Verify, Runs
    <2>2. UNCHANGED ended
      <3>1. vt * Ratio = Ratio * vt /\ Ratio * vt \in Int
        BY <1>r
      <3>2. ~(vc > vt * Ratio)
        BY <3>1, <1>r DEF EnoughTeachers
      <3> QED BY <1>9, <3>2 DEF Verify
    <2>3. Types'
      BY <2>1, <2>2 DEF Types, Moves, Place
    <2>4. CountersAreRight'
      BY <2>1, SameInside, SameCounters DEF Place
    <2>m. \A u \in People : u # t => where'[u] = where[u]
      BY <2>1 DEF Types, Moves
    <2>n. where'[t] # "signal_in"
      BY <2>1 DEF Types, Moves
    <2>5. Sleepers' /\ Doors'
      BY <2>1, <2>m, <2>n, <1>0 DEF Sleepers, Doors, Types
    <2> QED BY <2>1, <2>2, <2>3, <2>4, <2>5 DEF EnoughTeachers, NoBadThing, NotAllAsleep
  <1>10. ASSUME UNCHANGED kvars PROVE KInv'
    BY <1>10, SameCounters DEF kvars, Types, EnoughTeachers, NoBadThing, Sleepers, Doors,
       NotAllAsleep, ChildrenIn, TeachersIn
  <1> QED BY <1>1, <1>2, <1>3, <1>4, <1>5, <1>6, <1>7, <1>8, <1>9, <1>10
          DEF KNext, PersonStep, KExited

\* The invariant holds throughout.
THEOREM KInvariance == KSpec => []KInv
PROOF
  BY KAtFirst, KGoesOn, PTL DEF KSpec

----------------------------------------------------------------------------
\* The counters keep within the number of threads there are of each kind.
THEOREM KTypeCorrect == KSpec => []KTypeOK
PROOF
  <1>1. KInv => KTypeOK
    BY InsideIsFinite DEF KInv, Types, CountersAreRight, KTypeOK
  <1> QED BY <1>1, KInvariance, PTL

\* vt and vc count the threads inside: they never go below zero.
THEOREM CountersCorrect == KSpec => []CountersAreRight
PROOF
  <1>1. KInv => CountersAreRight
    BY DEF KInv
  <1> QED BY <1>1, KInvariance, PTL

\* Never more than Ratio children per teacher.
THEOREM Supervised == KSpec => []EnoughTeachers
PROOF
  <1>1. KInv => EnoughTeachers
    BY DEF KInv
  <1> QED BY <1>1, KInvariance, PTL

\* verify never ends the program.
THEOREM VerifyHolds == KSpec => []NoBadThing
PROOF
  <1>1. KInv => NoBadThing
    BY DEF KInv
  <1> QED BY <1>1, KInvariance, PTL

\* Where there is a teacher, some thread is always awake.
THEOREM SomeoneIsAwake == KSpec => []NotAllAsleep
PROOF
  <1>1. KInv => NotAllAsleep
    BY DEF KInv
  <1> QED BY <1>1, KInvariance, PTL

----------------------------------------------------------------------------
(* The Mandelbrot programs. *)

\* The loop counter of main is the index of a thread while main uses it as one.
Index == pc \in {"create", "init", "join"} => i < N

TInv == TypeOK /\ Index

LEMMA LineIsNatural ==
    ASSUME NEW a \in Nat, NEW b \in Nat, NEW c \in Nat PROVE a + b * c \in Nat
  <1>1. b * c \in Nat
    OBVIOUS
  <1> QED BY <1>1

LEMMA TypesAtFirst == Init => TInv
  BY NAssumption DEF Init, TInv, TypeOK, Index, Threads

LEMMA TypesOfMain == TInv /\ Main => TInv'
  <1> SUFFICES ASSUME TInv, Main PROVE TInv'
    OBVIOUS
  <1> USE NAssumption DEF TInv, TypeOK, Index, Threads
  <1>1. CASE CreateThread
    <2> PICK to \in {"loop", "missing"} : at' = [at EXCEPT ![i] = to]
      BY <1>1 DEF CreateThread
    <2> QED BY <1>1 DEF CreateThread
  <1>2. CASE InitSem
    BY <1>2 DEF InitSem
  <1>3. CASE Begin
    BY <1>3 DEF Begin, PostFirst
  <1>4. CASE Join
    <2>1. i \in 0 .. N - 1
      BY <1>4 DEF Join
    <2>2. CASE i' = i + 1 /\ pc' = IF i' = N THEN "done" ELSE "join"
      BY <1>4, <2>1, <2>2 DEF Join
    <2>3. CASE pc' = "crashed" /\ UNCHANGED i
      BY <1>4, <2>3 DEF Join
    <2> QED BY <1>4, <2>2, <2>3 DEF Join, LastJoined
  <1> QED BY <1>1, <1>2, <1>3, <1>4 DEF Main

LEMMA TypesOfThread ==
    ASSUME NEW t \in Threads, TInv, Step(t) PROVE TInv'
  <1> USE NAssumption DEF TInv, TypeOK, Index, mainvars, Goes
  <1>1. CASE LoopHead(t)
    BY <1>1 DEF LoopHead
  <1>2. CASE SemWait(t)
    BY <1>2 DEF SemWait
  <1>3. CASE RawWait(t)
    BY <1>3 DEF RawWait
  <1>4. CASE Draw(t)
    <2>1. turn[t] \in Nat /\ t \in Nat
      BY DEF Threads
    <2>2. Line(t) \in Nat
      BY <2>1, LineIsNatural, N \in Nat, Zenon DEF Line
    <2> QED BY <1>4, <2>2 DEF Draw
  <1>5. CASE Post(t)
    <2>1. Successor(t) \in Threads
      BY DEF Successor, Threads
    <2> QED BY <1>5, <2>1 DEF Post
  <1> QED BY <1>1, <1>2, <1>3, <1>4, <1>5 DEF Step

LEMMA TypesKept == TInv /\ [Next]_vars => TInv'
  <1> SUFFICES ASSUME TInv, [Next]_vars PROVE TInv'
    OBVIOUS
  <1>1. CASE Main
    BY <1>1, TypesOfMain
  <1>2. CASE Exited \/ UNCHANGED vars
    BY <1>2 DEF Exited, vars, TInv, TypeOK, Index
  <1>3. ASSUME NEW t \in Threads, Step(t) PROVE TInv'
    BY <1>3, TypesOfThread
  <1>4. ASSUME NEW t \in Threads, DrawFails(t) PROVE TInv'
    BY <1>4 DEF DrawFails, TInv, TypeOK, Index
  <1> QED BY <1>1, <1>2, <1>3, <1>4 DEF Next

\* The variables of the two programs keep their types, and main never uses a
\* counter that is beyond the threads it was asked for.
THEOREM TypeCorrect == Spec => []TypeOK
  <1>1. TInv => TypeOK
    BY DEF TInv
  <1> QED BY <1>1, TypesAtFirst, TypesKept, PTL DEF Spec
----------------------------------------------------------------------------
(* The ring. *)

AtScreen(t) == at[t] \in {"draw", "post"}

\* What thread t has put on the screen and not yet passed on.
Unpassed(t) == IF at[t] = "post" THEN 1 ELSE 0

\* The turn is at thread h: it alone is at the screen or may go there, its next
\* line is the lowest of all threads and the others are less than a round ahead.
TurnAt(h) ==
    /\ sem[h] = IF AtScreen(h) THEN 0 ELSE 1
    /\ \A t \in Threads \ {h} : sem[t] = 0 /\ ~AtScreen(t)
    /\ \A t \in Threads : Line(h) <= Line(t) /\ Line(t) < Line(h) + N
    /\ Line(h) <= Height
    /\ screen = [n \in 1 .. Line(h) + Unpassed(h) |-> n - 1]

Ring ==
    IF pc \in {"create", "init", "begin"}
    THEN /\ screen = << >>
         /\ \A t \in Threads : sem[t] = 0 /\ turn[t] = 0 /\ ~AtScreen(t)
    ELSE \E h \in Threads : TurnAt(h)

\* A thread is in a turn it has and leaves when it has no more, and main has seen
\* the end of the threads before i.
Turns ==
    /\ \A t \in Threads : at[t] \in {"wait", "lost", "draw", "post"} => More(t, turn[t])
    /\ \A t \in Threads : at[t] = "done" => ~More(t, turn[t])

Joined ==
    /\ pc = "join" => \A t \in 0 .. i - 1 : at[t] \in {"done", "missing"}
    /\ pc = "done" => \A t \in Threads : at[t] \in {"done", "missing"}

RingInv == TInv /\ Ring /\ Turns /\ Joined

(* Arithmetic. *)

LEMMA OneMore == ASSUME NEW a \in Int, NEW m \in Int PROVE (a + 1) * m = a * m + m
  OBVIOUS

LEMMA SmallerRow ==
    ASSUME NEW a \in Int, NEW b \in Int, NEW m \in Nat \ {0}, a < b
    PROVE  (a + 1) * m <= b * m
  OBVIOUS

LEMMA SameRow ==
    ASSUME NEW a \in Int, NEW b \in Int, NEW m \in Nat \ {0},
           a * m - b * m < m, b * m - a * m < m
    PROVE  a = b
  OBVIOUS

LEMMA Division ==
    ASSUME NEW n \in Nat, NEW m \in Nat \ {0}
    PROVE  /\ n \div m \in Nat
           /\ n % m \in 0 .. m - 1
           /\ n = (n % m) + ((n \div m) * m)
  <1>1. n \div m \in Nat /\ n % m \in 0 .. m - 1
    OBVIOUS
  <1>2. n = (n % m) + ((n \div m) * m)
    OBVIOUS
  <1> QED BY <1>1, <1>2

\* Two threads never have the same line, nor one thread the same line twice.
LEMMA LinesDiffer ==
    ASSUME NEW h \in Threads, NEW t \in Threads, NEW a \in Nat, NEW b \in Nat,
           h + a * N = t + b * N
    PROVE  h = t /\ a = b
  <1> DEFINE x == a * N
             y == b * N
  <1>1. x \in Int /\ y \in Int /\ N \in Nat \ {0}
    BY NAssumption
  <1>2. h \in 0 .. N - 1 /\ t \in 0 .. N - 1 /\ h + x = t + y
    BY DEF Threads
  <1> HIDE DEF x, y
  <1>3. x - y < N /\ y - x < N
    BY <1>1, <1>2
  <1>4. a = b
    BY <1>1, <1>3, SameRow DEF x, y
  <1>5. x = y
    BY <1>4 DEF x, y
  <1> QED BY <1>1, <1>2, <1>4, <1>5

LEMMA MoreMeans ==
    ASSUME NEW t \in Threads, NEW k \in Nat, ahead \in BOOLEAN
    PROVE  More(t, k) <=> t + k * N < Height
  <1>1. CASE ~ahead
    BY <1>1 DEF More, Height
  <1>2. CASE ahead
    <2> DEFINE x == k * N
               y == sz * N
    <2>1. N \in Nat \ {0} /\ YChars \in Nat /\ YChars + N - 1 \in Nat
      BY NAssumption
    <2>2. sz \in Nat
      BY <2>1, Division DEF sz
    <2>3. x \in Int /\ y \in Int /\ t \in 0 .. N - 1
      BY <2>1, <2>2 DEF Threads
    <2>4. k < sz => x + N <= y
      <3>1. k < sz => (k + 1) * N <= sz * N
        BY <2>1, <2>2, SmallerRow
      <3>2. (k + 1) * N = k * N + N
        BY <2>1, OneMore
      <3> QED BY <3>1, <3>2
    <2>5. ~(k < sz) => y <= x
      <3>1. CASE k = sz
        BY <3>1, <2>3
      <3>2. CASE sz < k
        <4>1. (sz + 1) * N <= k * N
          BY <3>2, <2>1, <2>2, SmallerRow
        <4>2. (sz + 1) * N = sz * N + N
          BY <2>1, <2>2, OneMore
        <4> HIDE DEF sz
        <4> QED BY <4>1, <4>2, <2>1, <2>3
      <3> QED BY <3>1, <3>2, <2>2
    <2>6. k < sz <=> t + x < y
      <3> HIDE DEF x, y
      <3> QED BY <2>1, <2>2, <2>3, <2>4, <2>5
    <2> QED BY <1>2, <2>6 DEF More, Height
  <1> QED BY <1>1, <1>2

LEMMA LinesOfThread == sz \in Nat /\ sz <= YChars /\ (ahead \in BOOLEAN => Height \in Nat)
  <1>1. N \in Nat \ {0} /\ YChars \in Nat /\ YChars + N - 1 \in Nat
    BY NAssumption
  <1>2. sz \in Nat /\ YChars + N - 1 = ((YChars + N - 1) % N) + sz * N
    BY <1>1, Division DEF sz
  <1>3. sz <= YChars
    <2> HIDE DEF sz
    <2> SUFFICES ASSUME YChars < sz PROVE FALSE
      BY <1>1, <1>2
    <2>1. (YChars + 1) * N <= sz * N
      BY <1>1, <1>2, SmallerRow
    <2>2. (YChars + 1) * N = YChars * N + N
      BY <1>1, OneMore
    <2>3. YChars <= YChars * N
      BY <1>1
    <2>4. (YChars + N - 1) % N >= 0
      BY <1>1, Division
    <2> DEFINE x == sz * N
               y == YChars * N
               r == (YChars + N - 1) % N
    <2>5. x \in Nat /\ y \in Nat /\ r \in Nat
      BY <1>1, <1>2, Division
    <2>6. y + N <= x /\ YChars <= y /\ YChars + N - 1 = r + x
      BY <1>2, <2>1, <2>2, <2>3
    <2> HIDE DEF x, y, r
    <2> QED BY <1>1, <2>5, <2>6
  <1>4. ahead \in BOOLEAN => Height \in Nat
    <2> HIDE DEF sz
    <2>1. sz * N \in Nat
      BY <1>1, <1>2
    <2> QED BY <1>1, <2>1 DEF Height
  <1> QED BY <1>2, <1>3, <1>4

\* The threads of mandel have y_chars lines between them, those of mandel2 less than
\* a round more.
LEMMA HeightIsRight == ahead \in BOOLEAN => Height \in Heights
  <1>1. N \in Nat \ {0} /\ YChars \in Nat /\ YChars + N - 1 \in Nat
    BY NAssumption
  <1>2. /\ sz \in Nat /\ YChars + N - 1 = ((YChars + N - 1) % N) + sz * N
        /\ (YChars + N - 1) % N \in 0 .. N - 1
    BY <1>1, Division DEF sz
  <1>3. CASE ahead
    <2> DEFINE x == sz * N
               r == (YChars + N - 1) % N
    <2>1. x \in Int /\ r \in 0 .. N - 1 /\ YChars + N - 1 = r + x
      <3> HIDE DEF sz
      <3> QED BY <1>1, <1>2
    <2>2. x \in YChars .. YChars + N - 1
      <3> HIDE DEF x, r
      <3> QED BY <1>1, <2>1
    <2> QED BY <1>3, <2>2 DEF Height, Heights
  <1>4. CASE ~ahead
    BY <1>4 DEF Height, Heights
  <1> QED BY <1>3, <1>4

----------------------------------------------------------------------------
(* The ring is kept. *)

USE DEF AtScreen, Unpassed

LEMMA LineIsTyped == ASSUME TInv, NEW t \in Threads PROVE Line(t) \in Nat /\ Line(t) = t + turn[t] * N
  <1>1. t \in Nat /\ turn[t] \in Nat /\ N \in Nat
    BY NAssumption DEF TInv, TypeOK, Threads
  <1> QED BY <1>1, LineIsNatural, Zenon DEF Line

\* What depends on the turns alone is as it was when they are.
LEMMA SameTurns ==
    ASSUME NEW t \in Threads, turn'[t] = turn[t], UNCHANGED ahead
    PROVE  /\ Line(t)' = Line(t)
           /\ More(t, turn[t])' = More(t, turn[t])
           /\ Height' = Height
  BY DEF Line, More, Height

LEMMA RingAtFirst == Init => RingInv
  <1>1. Init => TInv
    BY TypesAtFirst
  <1> QED BY <1>1 DEF RingInv, Init, Ring, Turns, Joined

\* After the last line of h comes the line of its successor.
LEMMA NextLine ==
    ASSUME TInv, NEW h \in Threads, NEW s \in Threads, s = Successor(h), s # h,
           Line(h) <= Line(s), Line(s) < Line(h) + N
    PROVE  Line(s) = Line(h) + 1
  <1> DEFINE a == turn[h]
             b == turn[s]
             x == a * N
             y == b * N
  <1>1. /\ a \in Nat /\ b \in Nat /\ x \in Nat /\ y \in Nat /\ N \in Nat \ {0}
        /\ h \in 0 .. N - 1
    BY NAssumption DEF TInv, TypeOK, Threads
  <1>2. Line(h) = h + x /\ Line(s) = s + y
    BY LineIsTyped
  <1>3. h + x <= s + y /\ s + y < h + x + N
    BY <1>2
  <1>4. CASE h + 1 < N
    <2>1. s = h + 1
      BY <1>1, <1>4 DEF Successor
    <2>2. x - y < N /\ y - x < N
      <3> HIDE DEF x, y
      <3> QED BY <1>1, <1>3, <1>4, <2>1, s # h
    <2>3. a = b
      <3> HIDE DEF a, b
      <3> QED BY <1>1, <2>2, SameRow
    <2>4. x = y
      BY <2>3
    <2> HIDE DEF x, y
    <2> QED BY <1>1, <1>2, <2>1, <2>4
  <1>5. CASE h = N - 1
    <2>1. s = 0
      BY <1>1, <1>5 DEF Successor
    <2>2. (a + 1) * N = x + N
      <3> HIDE DEF a
      <3> QED BY <1>1, OneMore
    <2>3. (x + N) - y < N /\ y - (x + N) < N
      <3> HIDE DEF x, y
      <3> QED BY <1>1, <1>3, <1>5, <2>1, s # h
    <2>4. a + 1 = b
      <3>1. (a + 1) * N - b * N < N /\ b * N - (a + 1) * N < N
        BY <2>2, <2>3
      <3> HIDE DEF a, b
      <3> QED BY <3>1, <1>1, SameRow
    <2>5. y = x + N
      BY <2>2, <2>4
    <2> HIDE DEF x, y
    <2> QED BY <1>1, <1>2, <1>5, <2>1, <2>5
  <1> QED BY <1>1, <1>4, <1>5

LEMMA RingOfMain == RingInv /\ Main => RingInv'
  <1> SUFFICES ASSUME RingInv, Main PROVE RingInv'
    OBVIOUS
  <1>1. TInv /\ TInv'
    BY TypesOfMain DEF RingInv
  <1>2. UNCHANGED <<ahead, turn, screen>>
    BY DEF Main, CreateThread, InitSem, Begin, Join
  <1>3. \A t \in Threads : /\ Line(t)' = Line(t)
                           /\ More(t, turn[t])' = More(t, turn[t])
                           /\ Height' = Height
    BY <1>2, SameTurns
  <1>4. Ring'
    <2>1. CASE CreateThread
      <3>1. \A t \in Threads : ~AtScreen(t)'
        BY <1>1, <2>1 DEF CreateThread, RingInv, Ring, TInv, TypeOK
      <3> QED BY <2>1, <3>1 DEF CreateThread, RingInv, Ring
    <2>2. CASE InitSem
      BY <1>1, <2>2 DEF InitSem, RingInv, Ring, TInv, TypeOK
    <2>3. CASE Begin
      <3>1. 0 \in Threads /\ N \in Nat \ {0}
        BY NAssumption DEF Threads
      <3>2. \A t \in Threads : Line(t)' = t
        <4> SUFFICES ASSUME NEW t \in Threads PROVE Line(t)' = t
          OBVIOUS
        <4>1. turn'[t] = 0 /\ t \in Nat
          BY <1>2, <2>3 DEF Begin, RingInv, Ring, Threads
        <4> QED BY <3>1, <4>1 DEF Line
      <3>3. Height' \in Nat
        BY <1>1, <1>2, <1>3, <3>1, LinesOfThread DEF TInv, TypeOK
      <3>4. \A t \in Threads : sem'[t] = (IF t = 0 THEN 1 ELSE 0) /\ ~AtScreen(t)'
        BY <1>1, <2>3 DEF Begin, PostFirst, RingInv, Ring, TInv, TypeOK
      <3>5. Line(0)' + Unpassed(0)' = 0
        BY <3>1, <3>2, <3>4
      <3>6. screen' = [n \in 1 .. Line(0)' + Unpassed(0)' |-> n - 1]
        BY <3>5, <1>2, <2>3 DEF Begin, RingInv, Ring
      <3>7. \A t \in Threads : Line(0)' <= Line(t)' /\ Line(t)' < Line(0)' + N
        BY <3>1, <3>2 DEF Threads
      <3>8. TurnAt(0)'
        BY <3>1, <3>2, <3>3, <3>4, <3>6, <3>7 DEF TurnAt
      <3> QED BY <3>1, <3>8, <2>3 DEF Begin, Ring
    <2>4. CASE Join
      <3>1. pc = "join" /\ pc' \in {"join", "done", "crashed"} /\ UNCHANGED <<sem, at, screen>>
        BY <2>4 DEF Join
      <3>2. PICK h \in Threads : TurnAt(h)
        BY <3>1 DEF RingInv, Ring
      <3>3. TurnAt(h)'
        BY <1>3, <3>1, <3>2 DEF TurnAt
      <3> QED BY <3>1, <3>3 DEF Ring
    <2> QED BY <2>1, <2>2, <2>3, <2>4 DEF Main
  <1>5. Turns'
    <2>1. ASSUME NEW t \in Threads PROVE at'[t] = at[t] \/ at'[t] \in {"loop", "missing"}
      BY <1>1 DEF Main, CreateThread, InitSem, Begin, Join, TInv, TypeOK
    <2> QED BY <1>3, <2>1 DEF RingInv, Turns
  <1>6. Joined'
    <2>1. CASE CreateThread \/ InitSem
      BY <2>1 DEF CreateThread, InitSem, Joined
    <2>2. CASE Begin
      BY <2>2 DEF Begin, Joined
    <2>3. CASE Join
      <3>1. /\ i \in Nat /\ pc = "join" /\ UNCHANGED at
            /\ pc' \in {"join", "done"} => /\ at[i] \in {"done", "missing"} /\ i' = i + 1
                                           /\ pc' = IF i' = N THEN "done" ELSE "join"
        BY <1>1, <2>3 DEF Join, LastJoined, TInv, TypeOK
      <3>2. \A t \in 0 .. i - 1 : at[t] \in {"done", "missing"}
        BY <3>1 DEF RingInv, Joined
      <3>3. pc' \in {"join", "done"} => \A t \in 0 .. i' - 1 : at'[t] \in {"done", "missing"}
        BY <3>1, <3>2
      <3> QED BY <3>1, <3>3 DEF Joined, Threads
    <2> QED BY <2>1, <2>2, <2>3 DEF Main
  <1> QED BY <1>1, <1>4, <1>5, <1>6 DEF RingInv

\* Before main begins nobody is at the screen; from then on it is the turn's.
LEMMA AtTheScreen ==
    ASSUME RingInv, NEW t \in Threads, AtScreen(t) \/ sem[t] > 0
    PROVE  /\ pc \notin {"create", "init", "begin"}
           /\ TurnAt(t)
           /\ sem[t] = IF AtScreen(t) THEN 0 ELSE 1
  <1>1. pc \notin {"create", "init", "begin"}
    BY DEF RingInv, Ring
  <1>2. PICK h \in Threads : TurnAt(h)
    BY <1>1 DEF RingInv, Ring
  <1>3. h = t
    BY <1>2 DEF TurnAt
  <1> QED BY <1>1, <1>2, <1>3 DEF TurnAt

\* A step that leaves the screen and the turns alone.
LEMMA RingUntouched ==
    ASSUME RingInv, TInv', UNCHANGED <<mainvars, sem, turn, screen>>,
           NEW t \in Threads, NEW to, at' = [at EXCEPT ![t] = to],
           ~AtScreen(t), to \notin {"draw", "post"}
    PROVE  Ring'
  <1>1. \A u \in Threads : AtScreen(u)' = AtScreen(u) /\ Unpassed(u)' = Unpassed(u)
    BY DEF RingInv, TInv, TypeOK
  <1>2. \A u \in Threads : Line(u)' = Line(u) /\ Height' = Height
    BY SameTurns DEF mainvars
  <1>3. CASE pc \in {"create", "init", "begin"}
    BY <1>1, <1>3 DEF RingInv, Ring, mainvars
  <1>4. CASE pc \notin {"create", "init", "begin"}
    <2>1. PICK h \in Threads : TurnAt(h)
      BY <1>4 DEF RingInv, Ring
    <2>2. TurnAt(h)'
      BY <1>1, <1>2, <2>1 DEF TurnAt
    <2> QED BY <1>4, <2>2 DEF Ring, mainvars
  <1> QED BY <1>3, <1>4

LEMMA RingOfThread ==
    ASSUME RingInv, NEW t \in Threads, Step(t) PROVE RingInv'
  <1>1. TInv /\ TInv'
    BY TypesOfThread DEF RingInv
  <1>2. /\ UNCHANGED mainvars /\ Up
        /\ \E from, to \in {"loop", "wait", "lost", "draw", "post", "done"} :
             Goes(t, from, to)
    BY DEF Step, LoopHead, SemWait, RawWait, Draw, Post, Goes
  <1>3. /\ at[t] \notin {"done", "missing"}
        /\ \A u \in Threads \ {t} : at'[u] = at[u]
        /\ at' \in [Threads -> {"unborn", "missing", "loop", "wait", "lost",
                                "draw", "post", "done"}]
    BY <1>1, Zenon DEF Step, LoopHead, SemWait, RawWait, Draw, Post, Goes, TInv, TypeOK
  <1>4. Joined'
    <2>1. \A u \in Threads : at[u] \in {"done", "missing"} => at'[u] = at[u]
      BY <1>3
    <2>2. i \in 0 .. N /\ N \in Nat
      BY <1>1, NAssumption DEF TInv, TypeOK
    <2>3. pc = "join" => \A u \in 0 .. i - 1 : u \in Threads
      BY <2>2 DEF Threads
    <2> QED BY <1>2, <2>1, <2>3 DEF RingInv, Joined, mainvars
  <1>5. CASE LoopHead(t)
    <2>1. \A u \in Threads : More(u, turn[u])' = More(u, turn[u])
      BY <1>5, SameTurns DEF LoopHead, mainvars
    <2>2. at[t] = "loop" /\ at' = [at EXCEPT ![t] = IF More(t, turn[t]) THEN "wait" ELSE "done"]
      BY <1>5 DEF LoopHead, Goes
    <2>3. Turns'
      BY <1>1, <2>1, <2>2 DEF RingInv, Turns, TInv, TypeOK
    <2>4. Ring'
      BY <1>1, <1>5, <2>2, RingUntouched DEF LoopHead
    <2> QED BY <1>1, <1>4, <2>3, <2>4 DEF RingInv
  <1>6. CASE RawWait(t)
    <2>1. \A u \in Threads : More(u, turn[u])' = More(u, turn[u])
      BY <1>6, SameTurns DEF RawWait, mainvars
    <2>2. at[t] = "wait" /\ at' = [at EXCEPT ![t] = "lost"]
      BY <1>6 DEF RawWait, Goes
    <2>3. Turns'
      BY <1>1, <2>1, <2>2 DEF RingInv, Turns, TInv, TypeOK
    <2>4. Ring'
      BY <1>1, <1>6, <2>2, RingUntouched DEF RawWait
    <2> QED BY <1>1, <1>4, <2>3, <2>4 DEF RingInv
  <1>7. CASE SemWait(t)
    <2>1. \A u \in Threads : /\ More(u, turn[u])' = More(u, turn[u])
                             /\ Line(u)' = Line(u) /\ Height' = Height
      BY <1>7, SameTurns DEF SemWait, mainvars
    <2>2. /\ at[t] = "wait" /\ at' = [at EXCEPT ![t] = "draw"]
          /\ sem[t] > 0 /\ sem' = [sem EXCEPT ![t] = @ - 1] /\ UNCHANGED screen
      BY <1>7 DEF SemWait, Goes
    <2>3. Turns'
      BY <1>1, <2>1, <2>2 DEF RingInv, Turns, TInv, TypeOK
    <2>4. pc \notin {"create", "init", "begin"} /\ TurnAt(t) /\ sem[t] = 1
      BY <2>2, AtTheScreen
    <2>5. TurnAt(t)'
      <3>1. sem'[t] = 0 /\ at'[t] = "draw"
        BY <1>1, <2>2, <2>4 DEF TInv, TypeOK
      <3>2. \A u \in Threads \ {t} : sem'[u] = 0 /\ ~AtScreen(u)'
        BY <1>1, <2>2, <2>4 DEF TInv, TypeOK, TurnAt
      <3>3. screen' = [n \in 1 .. Line(t)' + Unpassed(t)' |-> n - 1]
        BY <2>1, <2>2, <2>4, <3>1 DEF TurnAt
      <3> QED BY <2>1, <2>4, <3>1, <3>2, <3>3 DEF TurnAt
    <2> QED BY <1>1, <1>2, <1>4, <2>3, <2>4, <2>5 DEF RingInv, Ring, mainvars
  <1>8. CASE Draw(t)
    <2>1. \A u \in Threads : /\ More(u, turn[u])' = More(u, turn[u])
                             /\ Line(u)' = Line(u) /\ Height' = Height
      BY <1>8, SameTurns DEF Draw, mainvars
    <2>2. /\ at[t] = "draw" /\ at' = [at EXCEPT ![t] = "post"]
          /\ screen' = Append(screen, Line(t)) /\ UNCHANGED sem
      BY <1>8 DEF Draw, Goes
    <2>3. Turns'
      BY <1>1, <2>1, <2>2 DEF RingInv, Turns, TInv, TypeOK
    <2>4. pc \notin {"create", "init", "begin"} /\ TurnAt(t)
      BY <2>2, AtTheScreen
    <2>5. TurnAt(t)'
      <3>1. sem'[t] = 0 /\ at'[t] = "post"
        BY <1>1, <2>2, <2>4 DEF TInv, TypeOK, TurnAt
      <3>2. \A u \in Threads \ {t} : sem'[u] = 0 /\ ~AtScreen(u)'
        BY <1>1, <2>2, <2>4 DEF TInv, TypeOK, TurnAt
      <3>3. screen = [n \in 1 .. Line(t) |-> n - 1] /\ Line(t) \in Nat
        BY <1>1, <2>2, <2>4, LineIsTyped DEF TurnAt
      <3>4. screen' = [n \in 1 .. Line(t) + 1 |-> n - 1]
        BY <2>2, <3>3
      <3> QED BY <2>1, <2>4, <3>1, <3>2, <3>4 DEF TurnAt
    <2> QED BY <1>1, <1>2, <1>4, <2>3, <2>4, <2>5 DEF RingInv, Ring, mainvars
  <1>9. CASE Post(t)
    <2> DEFINE s == Successor(t)
    <2>1. /\ at[t] = "post" /\ at' = [at EXCEPT ![t] = "loop"]
          /\ sem' = [sem EXCEPT ![s] = @ + 1]
          /\ turn' = [turn EXCEPT ![t] = @ + 1] /\ UNCHANGED <<ahead, screen>>
      BY <1>9 DEF Post, Goes, mainvars
    <2>2. s \in Threads /\ N \in Nat \ {0} /\ (s = t => N = 1)
      BY NAssumption DEF Successor, Threads
    <2> HIDE DEF s
    <2>3. \A u \in Threads \ {t} : turn'[u] = turn[u]
      BY <1>1, <2>1 DEF TInv, TypeOK
    <2>4. /\ \A u \in Threads \ {t} : Line(u)' = Line(u) /\ More(u, turn[u])' = More(u, turn[u])
          /\ Height' = Height
      BY <2>1, <2>3, SameTurns DEF Height
    <2>5. Line(t)' = Line(t) + N
      <3>1. turn'[t] = turn[t] + 1 /\ turn[t] \in Int /\ t \in Int /\ N \in Int
        BY <1>1, <2>1, <2>2 DEF TInv, TypeOK, Threads
      <3>2. (turn[t] + 1) * N = turn[t] * N + N
        BY <3>1, OneMore
      <3>3. turn[t] * N \in Int
        BY <3>1
      <3> DEFINE x == turn[t] * N
      <3>4. Line(t) = t + x /\ Line(t)' = t + (x + N) /\ x \in Int
        BY <3>1, <3>2, <3>3 DEF Line
      <3> HIDE DEF x
      <3> QED BY <3>1, <3>4
    <2>6. Turns'
      BY <1>1, <2>1, <2>4 DEF RingInv, Turns, TInv, TypeOK
    <2>7. pc \notin {"create", "init", "begin"} /\ TurnAt(t) /\ sem[t] = 0
      BY <2>1, AtTheScreen
    <2>8. \A u \in Threads : Line(u) \in Nat
      BY <1>1, LineIsTyped
    <2>9. Line(s)' = Line(t) + 1
      <3>1. CASE s = t
        BY <2>2, <2>5, <3>1
      <3>2. CASE s # t
        BY <1>1, <2>2, <2>4, <2>7, <3>2, NextLine DEF TurnAt, s
      <3> QED BY <3>1, <3>2
    <2>10. \A u \in Threads \ {t} : Line(t) < Line(u)
      <3> SUFFICES ASSUME NEW u \in Threads \ {t} PROVE Line(t) < Line(u)
        OBVIOUS
      <3>1. Line(t) # Line(u)
        <4>1. turn[t] \in Nat /\ turn[u] \in Nat
          BY <1>1 DEF TInv, TypeOK
        <4>2. Line(t) = t + turn[t] * N /\ Line(u) = u + turn[u] * N
          BY <1>1, LineIsTyped
        <4> QED BY <4>1, <4>2, LinesDiffer
      <3> QED BY <2>7, <2>8, <3>1 DEF TurnAt
    <2>11. TurnAt(s)'
      <3>1. sem'[s] = 1 /\ ~AtScreen(s)' /\ Unpassed(s)' = 0
        BY <1>1, <2>1, <2>2, <2>7 DEF TInv, TypeOK, TurnAt
      <3>2. \A u \in Threads \ {s} : sem'[u] = 0 /\ ~AtScreen(u)'
        BY <1>1, <2>1, <2>7 DEF TInv, TypeOK, TurnAt
      <3>3. ASSUME NEW u \in Threads
            PROVE  Line(s)' <= Line(u)' /\ Line(u)' < Line(s)' + N
        <4>1. CASE u = t
          BY <4>1, <2>2, <2>5, <2>8, <2>9
        <4>2. CASE u # t
          <5>1. Line(u) < Line(t) + N
            BY <2>7 DEF TurnAt
          <5> QED BY <4>2, <5>1, <2>2, <2>4, <2>8, <2>9, <2>10
        <4> QED BY <4>1, <4>2
      <3>4. Line(s)' <= Height'
        <4>1. More(t, turn[t]) /\ turn[t] \in Nat /\ ahead \in BOOLEAN
          BY <1>1, <2>1 DEF RingInv, Turns, TInv, TypeOK
        <4>2. Line(t) < Height /\ Height \in Nat
          BY <1>1, <4>1, LineIsTyped, MoreMeans, LinesOfThread
        <4> QED BY <2>4, <2>8, <2>9, <4>2
      <3>5. screen' = [n \in 1 .. Line(s)' + Unpassed(s)' |-> n - 1]
        <4>1. screen = [n \in 1 .. Line(t) + 1 |-> n - 1]
          BY <2>1, <2>7 DEF TurnAt
        <4>2. Line(s)' + Unpassed(s)' = Line(t) + 1
          BY <2>8, <2>9, <3>1
        <4> QED BY <2>1, <4>1, <4>2
      <3> QED BY <3>1, <3>2, <3>3, <3>4, <3>5 DEF TurnAt
    <2> QED BY <1>1, <1>2, <1>4, <2>2, <2>6, <2>7, <2>11 DEF RingInv, Ring, mainvars
  <1> QED BY <1>5, <1>6, <1>7, <1>8, <1>9 DEF Step

LEMMA RingKept == RingInv /\ [Next]_vars => RingInv'
  <1> SUFFICES ASSUME RingInv, [Next]_vars PROVE RingInv'
    OBVIOUS
  <1>1. CASE Main
    BY <1>1, RingOfMain
  <1>2. ASSUME NEW t \in Threads, Step(t) PROVE RingInv'
    BY <1>2, RingOfThread
  <1>3. CASE Exited \/ UNCHANGED vars \/ \E t \in Threads : DrawFails(t)
    <2>1. /\ UNCHANGED <<ahead, i, sem, at, turn, screen>>
          /\ \/ UNCHANGED pc
             \/ (\E t \in Threads : at[t] = "draw") /\ pc' = "failed"
      BY <1>3 DEF Exited, vars, DrawFails
    <2>2. TInv'
      BY <1>3, TypesKept DEF RingInv, Next
    <2>3. \A t \in Threads : /\ Line(t)' = Line(t) /\ Height' = Height
                             /\ More(t, turn[t])' = More(t, turn[t])
      BY <2>1, SameTurns
    <2>4. Ring'
      <3>1. CASE UNCHANGED pc /\ pc \in {"create", "init", "begin"}
        BY <2>1, <3>1 DEF RingInv, Ring
      <3>2. CASE pc' \notin {"create", "init", "begin"}
        <4>1. PICK h \in Threads : TurnAt(h)
          BY <2>1, <3>2 DEF RingInv, Ring
        <4>2. TurnAt(h)'
          BY <2>1, <2>3, <4>1 DEF TurnAt
        <4> QED BY <3>2, <4>2 DEF Ring
      <3> QED BY <2>1, <3>1, <3>2
    <2>5. Turns' /\ Joined'
      BY <2>1, <2>3 DEF RingInv, Turns, Joined
    <2> QED BY <2>2, <2>4, <2>5 DEF RingInv
  <1> QED BY <1>1, <1>2, <1>3 DEF Next

\* A thread that could not be created never has a turn.
NoTurns == \A t \in Threads : at[t] = "missing" => turn[t] = 0

LEMMA NoTurnsKept == RingInv /\ NoTurns /\ [Next]_vars => NoTurns'
  <1> SUFFICES ASSUME RingInv, NoTurns, [Next]_vars, NEW u \in Threads, at'[u] = "missing"
               PROVE  turn'[u] = 0
    BY DEF NoTurns
  <1> USE DEF RingInv, TInv, TypeOK
  <1>1. CASE CreateThread
    BY <1>1 DEF CreateThread, Ring
  <1>2. CASE InitSem \/ Begin \/ Join
    BY <1>2 DEF InitSem, Begin, Join, NoTurns
  <1>3. CASE Exited \/ UNCHANGED vars \/ \E t \in Threads : DrawFails(t)
    BY <1>3 DEF Exited, vars, DrawFails, NoTurns
  <1>4. ASSUME NEW t \in Threads, Step(t) PROVE turn'[u] = 0
    <2>1. CASE u = t
      BY <1>4, <2>1 DEF Step, LoopHead, SemWait, RawWait, Draw, Post, Goes
    <2>2. CASE u # t
      BY <1>4, <2>2 DEF Step, LoopHead, SemWait, RawWait, Draw, Post, Goes, NoTurns
    <2> QED BY <2>1, <2>2
  <1> QED BY <1>1, <1>2, <1>3, <1>4 DEF Next, Main

\* The picture: the turn never gets past a missing thread, whose first line is not
\* drawn; at the end it is at a thread that is missing or has no more lines, so that
\* the next line, the lowest that is not drawn, is that thread's or beyond the last.
THEOREM PictureTheorem == Spec => []PictureIsRight
  <1>1. RingInv /\ NoTurns => PictureIsRight
    <2> SUFFICES ASSUME RingInv, NoTurns PROVE PictureIsRight
      OBVIOUS
    <2>1. TInv /\ ahead \in BOOLEAN /\ Height \in Nat /\ Height \in Heights
      BY LinesOfThread, HeightIsRight DEF RingInv, TInv, TypeOK
    <2>2. CASE pc \in {"create", "init", "begin"}
      <3>1. screen = << >> /\ Len(screen) = 0
        BY <2>2 DEF RingInv, Ring
      <3>2. \A m \in Missing : 0 <= m
        BY NAssumption DEF Missing, Threads
      <3> QED BY <2>1, <2>2, <3>1, <3>2 DEF PictureIsRight
    <2>3. CASE pc \notin {"create", "init", "begin"}
      <3>1. PICK h \in Threads : TurnAt(h)
        BY <2>3 DEF RingInv, Ring
      <3>2. Line(h) \in Nat /\ Unpassed(h) \in {0, 1} /\ turn[h] \in Nat
        BY <2>1, LineIsTyped DEF TInv, TypeOK
      <3>3. Len(screen) = Line(h) + Unpassed(h) /\ screen = [n \in 1 .. Len(screen) |-> n - 1]
        BY <3>1, <3>2 DEF TurnAt
      <3>4. Len(screen) <= Height
        <4>1. at[h] = "post" => Line(h) < Height
          BY <2>1, <3>2, LineIsTyped, MoreMeans DEF RingInv, Turns
        <4> QED BY <2>1, <3>1, <3>2, <3>3, <4>1 DEF TurnAt
      <3>5. ASSUME NEW m \in Missing
            PROVE  m \in Nat /\ Line(m) = m /\ Len(screen) <= m
        <4>1. m \in Threads /\ m \in Nat /\ at[m] = "missing" /\ turn[m] = 0 /\ N \in Nat
          BY NAssumption DEF Missing, Threads, NoTurns
        <4>2. Line(m) = m
          BY <4>1 DEF Line
        <4>3. Line(h) <= m
          BY <3>1, <4>1, <4>2 DEF TurnAt
        <4>4. at[h] = "post" => Line(h) # m
          <5>1. h # m \/ at[h] # "post"
            BY <4>1
          <5>2. Line(h) = h + turn[h] * N /\ Line(m) = m + turn[m] * N /\ turn[m] \in Nat
            BY <2>1, <4>1, LineIsTyped
          <5>3. h # m => Line(h) # Line(m)
            BY <3>2, <4>1, <5>2, LinesDiffer
          <5> QED BY <4>2, <5>1, <5>3
        <4> QED BY <3>2, <3>3, <4>1, <4>2, <4>3, <4>4
      <3>6. ASSUME pc = "done" PROVE Len(screen) \in {Height} \cup Missing
        <4>1. at[h] \in {"done", "missing"} /\ Len(screen) = Line(h)
          BY <3>2, <3>3, <3>6 DEF RingInv, Joined
        <4>2. CASE at[h] = "missing"
          BY <3>5, <4>1, <4>2 DEF Missing
        <4>3. CASE at[h] = "done"
          <5>1. ~(Line(h) < Height)
            BY <2>1, <3>2, <4>3, LineIsTyped, MoreMeans DEF RingInv, Turns
          <5> QED BY <2>1, <3>2, <3>4, <4>1, <5>1
        <4> QED BY <4>1, <4>2, <4>3
      <3> QED BY <2>1, <3>3, <3>4, <3>5, <3>6 DEF PictureIsRight
    <2> QED BY <2>2, <2>3
  <1>2. Init => NoTurns
    BY DEF Init, NoTurns
  <1> QED BY <1>1, <1>2, RingAtFirst, RingKept, NoTurnsKept, PTL DEF Spec

----------------------------------------------------------------------------
(* The refinement. *)

LinesDrawn == {Line(t) : t \in Drawing}

LEMMA PlotterAtFirst == Init => P!PInit
  <1> SUFFICES ASSUME Init PROVE P!PInit
    OBVIOUS
  <1>1. Height \in Nat
    BY LinesOfThread DEF Init
  <1>2. {Line(t) : t \in Drawing} = {}
    BY DEF Init, Drawing
  <1> QED BY <1>1, <1>2 DEF P!PInit, Init

\* A line is begun when sem_wait returns and is complete in Draw; the other steps
\* leave the plotter as it was.
LEMMA PlotterStep ==
    ASSUME RingInv, [Next]_vars PROVE [P!StartLine \/ P!EndLine]_(P!pvars)
  <1>1. TInv /\ ahead \in BOOLEAN /\ ahead' = ahead
    BY DEF RingInv, TInv, TypeOK, Next, Main, CreateThread, InitSem, Begin, Join,
           Step, LoopHead, SemWait, RawWait, Draw, Post, DrawFails, Exited, vars, mainvars
  <1>2. Height' = Height
    BY <1>1 DEF Height
  <1>3. ASSUME UNCHANGED <<turn, screen>>, \A t \in Threads : at'[t] = "draw" <=> at[t] = "draw"
        PROVE  UNCHANGED P!pvars
    <2>1. \A t \in Threads : Line(t)' = Line(t)
      BY <1>1, <1>3, SameTurns
    <2>2. LinesDrawn' = LinesDrawn
      BY <1>3, <2>1 DEF LinesDrawn, Drawing
    <2> QED BY <1>2, <1>3, <2>2 DEF P!pvars, LinesDrawn
  <1>4. CASE Main
    <2>1. UNCHANGED <<turn, screen>>
      BY <1>4 DEF Main, CreateThread, InitSem, Begin, Join
    <2>2. \A t \in Threads : at'[t] = "draw" <=> at[t] = "draw"
      <3>1. CASE CreateThread
        <4>1. \A t \in Threads : ~AtScreen(t)
          BY <3>1 DEF CreateThread, RingInv, Ring
        <4> QED BY <1>1, <3>1, <4>1 DEF CreateThread, TInv, TypeOK
      <3>2. CASE InitSem \/ Begin \/ Join
        BY <3>2 DEF InitSem, Begin, Join
      <3> QED BY <1>4, <3>1, <3>2 DEF Main
    <2> QED BY <1>3, <2>1, <2>2
  <1>5. CASE Exited \/ UNCHANGED vars \/ \E t \in Threads : DrawFails(t)
    BY <1>3, <1>5 DEF Exited, DrawFails, vars
  <1>6. ASSUME NEW t \in Threads, LoopHead(t) \/ RawWait(t) PROVE UNCHANGED P!pvars
    BY <1>1, <1>3, <1>6 DEF LoopHead, RawWait, Goes, TInv, TypeOK
  <1>7. ASSUME NEW t \in Threads, SemWait(t) PROVE P!StartLine
    <2>1. TurnAt(t) /\ sem[t] = 1
      BY <1>7, AtTheScreen DEF SemWait
    <2>2. at[t] = "wait" /\ at' = [at EXCEPT ![t] = "draw"] /\ UNCHANGED <<turn, screen>>
      BY <1>7 DEF SemWait, Goes
    <2>3. Drawing = {} /\ Drawing' = {t}
      BY <1>1, <2>1, <2>2 DEF Drawing, TurnAt, TInv, TypeOK
    <2>4. Line(t)' = Line(t) /\ Line(t) \in Nat
      BY <1>1, <2>2, SameTurns, LineIsTyped
    <2>5. Len(screen) = Line(t)
      BY <2>1, <2>2, <2>4 DEF TurnAt
    <2>6. Line(t) < Height
      <3>1. More(t, turn[t]) /\ turn[t] \in Nat
        BY <1>1, <2>2 DEF RingInv, Turns, TInv, TypeOK
      <3> QED BY <1>1, <3>1, MoreMeans, LineIsTyped
    <2>7. LinesDrawn = {} /\ LinesDrawn' = {Line(t)}
      BY <2>3, <2>4 DEF LinesDrawn
    <2> QED BY <1>2, <2>2, <2>5, <2>6, <2>7 DEF P!StartLine, LinesDrawn
  <1>8. ASSUME NEW t \in Threads, Draw(t) PROVE P!EndLine
    <2>1. /\ at[t] = "draw" /\ at' = [at EXCEPT ![t] = "post"]
          /\ screen' = Append(screen, Line(t))
      BY <1>8 DEF Draw, Goes
    <2>2. TurnAt(t)
      BY <2>1, AtTheScreen
    <2>3. Drawing = {t} /\ Drawing' = {}
      BY <1>1, <2>1, <2>2 DEF Drawing, TurnAt, TInv, TypeOK
    <2>4. Len(screen) = Line(t)
      BY <1>1, <2>1, <2>2, LineIsTyped DEF TurnAt
    <2>5. LinesDrawn # {} /\ LinesDrawn' = {}
      BY <2>3 DEF LinesDrawn
    <2> QED BY <1>2, <2>1, <2>4, <2>5 DEF P!EndLine, LinesDrawn
  <1>9. ASSUME NEW t \in Threads, Post(t) PROVE UNCHANGED P!pvars
    <2>1. /\ at[t] = "post" /\ at' = [at EXCEPT ![t] = "loop"]
          /\ turn' = [turn EXCEPT ![t] = @ + 1] /\ UNCHANGED screen
      BY <1>9 DEF Post, Goes
    <2>2. Drawing' = Drawing /\ \A u \in Drawing : u \in Threads /\ turn'[u] = turn[u]
      BY <1>1, <2>1 DEF Drawing, TInv, TypeOK
    <2>3. \A u \in Drawing : Line(u)' = Line(u)
      BY <1>1, <2>2, SameTurns
    <2>4. LinesDrawn' = LinesDrawn
      BY <2>2, <2>3 DEF LinesDrawn
    <2> QED BY <1>2, <2>1, <2>4 DEF P!pvars, LinesDrawn
  <1> QED BY <1>4, <1>5, <1>6, <1>7, <1>8, <1>9 DEF Next, Step

\* The threads do to the screen what a single plotter would.
THEOREM PlotterTheorem == Spec => ImplementsPlotter
  <1> QED BY PlotterAtFirst, PlotterStep, RingAtFirst, RingKept, PTL
      DEF Spec, ImplementsPlotter, P!PSpec
==============================================================================
