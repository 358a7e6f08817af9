---------------------------- MODULE SharedLemmas ----------------------------
(***************************************************************************)
(* What several proof modules share: induction over numbers and what it    *)
(* says of recursive definitions; what the operations of plist.c do to a   *)
(* list in which no pid occurs twice; and what the kernel's operations do  *)
(* to a child.                                                             *)
(***************************************************************************)
EXTENDS Processes, ProcessList, SequenceTheorems, WellFoundedInduction, TLAPS

----------------------------------------------------------------------------
(* Numbers. *)

\* Induction, for a set of numbers.
LEMMA SetInduction ==
    ASSUME NEW T, 0 \in T, \A n \in Nat : n \in T => n + 1 \in T
    PROVE  Nat \subseteq T
PROOF
  <1> DEFINE Less == OpToRel(<, Nat)
             Rest == Nat \ T
  <1>1. ASSUME Rest # {} PROVE FALSE
    <2>1. Rest \subseteq Nat
      OBVIOUS
    <2>2. PICK n \in Rest : \A m \in Rest : ~(<<m, n>> \in Less)
      <3> HIDE DEF Less, Rest
      <3> QED BY <1>1, <2>1, NatLessThanWellFounded, WFMin DEF Less
    <2>3. n - 1 \in Rest
      OBVIOUS
    <2>4. <<n - 1, n>> \in Less
      BY <2>3 DEF OpToRel
    <2> QED BY <2>2, <2>3, <2>4
  <1> QED BY <1>1

\* A set of numbers that is not empty has a smallest.
LEMMA MinFacts ==
    ASSUME NEW T, T \subseteq Nat, T # {}
    PROVE  Min(T) \in T /\ \A n \in T : Min(T) <= n
PROOF
  <1> DEFINE Less == OpToRel(<, Nat)
  <1>1. PICK n \in T : \A m \in T : ~(<<m, n>> \in Less)
    <2> HIDE DEF Less
    <2> QED BY NatLessThanWellFounded, WFMin DEF Less
  <1>2. ASSUME NEW m \in T PROVE n <= m
    <2>1. m \in Nat /\ n \in Nat
      OBVIOUS
    <2>2. m < n => <<m, n>> \in Less
      BY <2>1 DEF OpToRel
    <2>3. ~(m < n)
      <3> HIDE DEF Less
      <3> QED BY <1>1, <2>2
    <2> QED BY <2>1, <2>3
  <1> QED BY <1>2 DEF Min

\* How a recursive function of 0 .. N goes from a value in S to the next.
Steps(S, N) == [1 .. N -> [S -> S]]
StepByStep(f, N, base, step) == f[0] = base /\ \A n \in 1 .. N : f[n] = step[n][f[n - 1]]

\* There is a function that is defined step by step.
LEMMA Recursion ==
    ASSUME NEW S, NEW N \in Nat, NEW base \in S, NEW step \in Steps(S, N)
    PROVE  \E f \in [0 .. N -> S] : StepByStep(f, N, base, step)
PROOF
  <1> USE DEF Steps, StepByStep
  <1> DEFINE Upto(m, f) == StepByStep(f, m, base, step)
             T == {m \in Nat : m <= N => \E f \in [0 .. m -> S] : Upto(m, f)}
  <1>1. 0 \in T
    <2> DEFINE f == [n \in 0 .. 0 |-> base]
    <2>1. f \in [0 .. 0 -> S] /\ Upto(0, f)
      OBVIOUS
    <2> QED BY <2>1
  <1>2. ASSUME NEW m \in Nat, m \in T PROVE m + 1 \in T
    <2> SUFFICES ASSUME m + 1 <= N PROVE \E g \in [0 .. m + 1 -> S] : Upto(m + 1, g)
      OBVIOUS
    <2>1. PICK f \in [0 .. m -> S] : Upto(m, f)
      BY <1>2
    <2> DEFINE g == [n \in 0 .. m + 1 |-> IF n = m + 1 THEN step[m + 1][f[m]] ELSE f[n]]
    <2>2. m \in 0 .. m /\ m + 1 \in 1 .. N
      OBVIOUS
    <2>3. f[m] \in S /\ step[m + 1] \in [S -> S]
      BY <2>2
    <2>4. step[m + 1][f[m]] \in S
      BY <2>3
    <2>5. g \in [0 .. m + 1 -> S]
      BY <2>4
    <2>6. g[0] = base
      BY <2>1
    <2>7. ASSUME NEW n \in 1 .. m + 1 PROVE g[n] = step[n][g[n - 1]]
      <3>1. n - 1 \in 0 .. m /\ n \in 0 .. m + 1 /\ g[n - 1] = f[n - 1]
        OBVIOUS
      <3>2. CASE n = m + 1
        BY <3>1, <3>2
      <3>3. CASE n # m + 1
        <4>1. n \in 1 .. m
          BY <3>3
        <4> QED BY <2>1, <3>1, <3>3, <4>1
      <3> QED BY <3>2, <3>3
    <2> QED BY <2>5, <2>6, <2>7
  <1>3. Nat \subseteq T
    <2> HIDE DEF T
    <2> QED BY <1>1, <1>2, SetInduction
  <1> QED BY <1>3

----------------------------------------------------------------------------
(* Lists. *)

\* Appending a new pid keeps the pids distinct and adds that pid only.
LEMMA AppendFacts ==
    ASSUME NEW S, NEW list \in Seq(S), NEW p \in S, p \notin Range(list),
           IsInjective(list)
    PROVE  /\ AppendToList(list, p) \in Seq(S)
           /\ AppendToList(list, p) # << >>
           /\ Range(AppendToList(list, p)) = Range(list) \cup {p}
           /\ IsInjective(AppendToList(list, p))
           /\ list # << >> => Head(AppendToList(list, p)) = Head(list)
PROOF
  <1> DEFINE new == Append(list, p)
  <1>1. /\ new \in Seq(S)
        /\ Len(new) = Len(list) + 1
        /\ \A i \in 1 .. Len(list) : new[i] = list[i]
        /\ new[Len(list) + 1] = p
    BY AppendProperties
  <1>2. DOMAIN new = 1 .. Len(list) + 1 /\ DOMAIN list = 1 .. Len(list)
        /\ Len(list) \in Nat
    BY <1>1, LenProperties
  <1> HIDE DEF new
  <1>3. Range(new) = Range(list) \cup {p}
    BY <1>1, <1>2 DEF Range
  <1>4. IsInjective(new)
    BY <1>1, <1>2 DEF IsInjective, Range
  <1>5. new # << >> /\ (list # << >> => Head(new) = Head(list))
    BY <1>1, <1>2, EmptySeq, HeadTailProperties DEF new
  <1> QED BY <1>1, <1>3, <1>4, <1>5 DEF new, AppendToList

\* The position of a pid that is in the list.
LEMMA PositionFacts ==
    ASSUME NEW S, NEW list \in Seq(S), NEW p \in Range(list)
    PROVE  Position(list, p) \in 1 .. Len(list) /\ list[Position(list, p)] = p
PROOF
  <1>1. \E i \in DOMAIN list : list[i] = p
    BY DEF Range
  <1>2. Position(list, p) \in DOMAIN list /\ list[Position(list, p)] = p
    BY <1>1 DEF Position
  <1> QED BY <1>2, LenProperties

LEMMA RemoveAtFacts ==
    ASSUME NEW S, NEW list \in Seq(S), NEW k \in 1 .. Len(list)
    PROVE  /\ RemoveAt(list, k) \in Seq(S)
           /\ Len(RemoveAt(list, k)) = Len(list) - 1
           /\ \A i \in 1 .. Len(list) - 1 :
                RemoveAt(list, k)[i] = IF i < k THEN list[i] ELSE list[i + 1]
PROOF
  <1> DEFINE left == SubSeq(list, 1, k - 1)
             right == SubSeq(list, k + 1, Len(list))
  <1>0. Len(list) \in Nat /\ k \in Nat /\ k >= 1 /\ k <= Len(list)
    BY LenProperties
  <1>1. /\ left \in Seq(S)
        /\ Len(left) = k - 1
        /\ \A i \in 1 .. k - 1 : left[i] = list[i]
    BY <1>0, SubSeqProperties
  <1>2. /\ right \in Seq(S)
        /\ Len(right) = Len(list) - k
        /\ \A i \in 1 .. Len(list) - k : right[i] = list[k + i]
    BY <1>0, SubSeqProperties
  <1> HIDE DEF left, right
  <1>3. /\ left \o right \in Seq(S)
        /\ Len(left \o right) = Len(left) + Len(right)
        /\ \A i \in 1 .. Len(left) + Len(right) :
              (left \o right)[i] = IF i <= Len(left) THEN left[i]
                                   ELSE right[i - Len(left)]
    BY <1>1, <1>2, ConcatProperties
  <1>4. RemoveAt(list, k) = left \o right
    BY DEF RemoveAt, left, right
  <1> QED BY <1>0, <1>1, <1>2, <1>3, <1>4

\* In a list without repetitions the position is the only index of a pid.
LEMMA PositionIs ==
    ASSUME NEW S, NEW list \in Seq(S), IsInjective(list), NEW i \in 1 .. Len(list)
    PROVE  list[i] \in Range(list) /\ Position(list, list[i]) = i
PROOF
  <1>1. list[i] \in Range(list)
    BY LenProperties DEF Range
  <1>2. /\ Position(list, list[i]) \in 1 .. Len(list)
        /\ list[Position(list, list[i])] = list[i]
    BY <1>1, PositionFacts
  <1> QED BY <1>1, <1>2, LenProperties DEF IsInjective

\* The first element of a list that is not empty.
LEMMA HeadFacts ==
    ASSUME NEW S, NEW list \in Seq(S), list # << >>
    PROVE  /\ Len(list) \in Nat \ {0}
           /\ Head(list) = list[1]
           /\ Head(list) \in Range(list)
           /\ Head(list) \in S
PROOF
  <1>1. Len(list) \in Nat \ {0} /\ DOMAIN list = 1 .. Len(list)
    BY EmptySeq, LenProperties
  <1>2. Head(list) = list[1]
    OBVIOUS
  <1> QED BY <1>1, <1>2, HeadTailProperties DEF Range

\* Deleting a pid takes that pid and nothing else away; whoever stays does not
\* move towards the end, and the head stays unless it is the one deleted.
LEMMA DeleteFacts ==
    ASSUME NEW S, NEW list \in Seq(S), NEW p \in Range(list), IsInjective(list)
    PROVE  /\ DeleteFromList(list, p) \in Seq(S)
           /\ Range(DeleteFromList(list, p)) = Range(list) \ {p}
           /\ IsInjective(DeleteFromList(list, p))
           /\ p # Head(list) => /\ DeleteFromList(list, p) # << >>
                                /\ Head(DeleteFromList(list, p)) = Head(list)
           /\ \A q \in Range(DeleteFromList(list, p)) :
                Position(DeleteFromList(list, p), q) <= Position(list, q)
PROOF
  <1> DEFINE k == Position(list, p)
             new == DeleteFromList(list, p)
  <1>1. /\ k \in 1 .. Len(list)
        /\ list[k] = p
    BY PositionFacts
  <1>2. new = RemoveAt(list, k)
    BY DEF DeleteFromList
  <1>3. /\ new \in Seq(S)
        /\ Len(new) = Len(list) - 1
        /\ \A i \in 1 .. Len(list) - 1 :
              new[i] = IF i < k THEN list[i] ELSE list[i + 1]
    BY <1>1, <1>2, RemoveAtFacts
  <1>4. /\ DOMAIN list = 1 .. Len(list)
        /\ DOMAIN new = 1 .. Len(list) - 1
        /\ Len(list) \in Nat
    BY <1>3, LenProperties
  <1>5. \A i, j \in 1 .. Len(list) : list[i] = list[j] => i = j
    BY <1>4 DEF IsInjective
  <1> HIDE DEF k, new
  <1>6. IsInjective(new)
    <2> SUFFICES ASSUME NEW i \in DOMAIN new, NEW j \in DOMAIN new, new[i] = new[j]
                 PROVE  i = j
      BY DEF IsInjective
    <2> QED BY <1>1, <1>3, <1>4, <1>5
  <1>7. Range(new) = Range(list) \ {p}
    <2>1. ASSUME NEW i \in DOMAIN new
          PROVE  new[i] \in Range(list) \ {p}
      <3>1. CASE i < k
        <4>1. new[i] = list[i] /\ i \in 1 .. Len(list) /\ i # k
          BY <3>1, <1>1, <1>3, <1>4
        <4> QED BY <4>1, <1>1, <1>4, <1>5 DEF Range
      <3>2. CASE ~(i < k)
        <4>1. new[i] = list[i + 1] /\ i + 1 \in 1 .. Len(list) /\ i + 1 # k
          BY <3>2, <1>1, <1>3, <1>4
        <4> QED BY <4>1, <1>1, <1>4, <1>5 DEF Range
      <3> QED BY <3>1, <3>2
    <2>2. ASSUME NEW i \in DOMAIN list, list[i] # p
          PROVE  list[i] \in Range(new)
      <3>1. CASE i < k
        <4>1. i \in DOMAIN new /\ new[i] = list[i]
          BY <3>1, <1>1, <1>3, <1>4
        <4> QED BY <4>1 DEF Range
      <3>2. CASE i > k
        <4>1. i - 1 \in DOMAIN new /\ new[i - 1] = list[i]
          BY <3>2, <1>1, <1>3, <1>4
        <4> QED BY <4>1 DEF Range
      <3> QED BY <2>2, <3>1, <3>2, <1>1, <1>4
    <2> QED BY <2>1, <2>2 DEF Range
  <1>8. ASSUME p # Head(list)
        PROVE  new # << >> /\ Head(new) = Head(list)
    <2>1. list # << >>
      BY <1>1, <1>4
    <2>2. Head(list) = list[1] /\ Len(list) >= 1
      BY <2>1, HeadFacts
    <2>3. k # 1 /\ Len(list) > 1
      BY <2>2, <1>1, <1>4, <1>8
    <2>4. new # << >>
      BY <2>3, <1>3, <1>4, EmptySeq
    <2> QED BY <2>2, <2>3, <2>4, <1>1, <1>3, <1>4, HeadFacts
  <1>9. ASSUME NEW q \in Range(new)
        PROVE  Position(new, q) <= Position(list, q)
    <2> DEFINE i == Position(new, q)
    <2>1. i \in 1 .. Len(list) - 1 /\ new[i] = q
      BY <1>3, <1>9, PositionFacts
    <2>2. Position(list, q) = IF i < k THEN i ELSE i + 1
      <3>1. CASE i < k
        BY <3>1, <2>1, <1>1, <1>3, <1>4, PositionIs
      <3>2. CASE ~(i < k)
        BY <3>2, <2>1, <1>1, <1>3, <1>4, PositionIs
      <3> QED BY <3>1, <3>2
    <2> QED BY <2>1, <2>2, <1>1, <1>4
  <1> QED BY <1>3, <1>6, <1>7, <1>8, <1>9 DEF new

\* procs = procs->next keeps the pids; all but the head move one place forward.
LEMMA AdvanceFacts ==
    ASSUME NEW S, NEW list \in Seq(S), list # << >>, IsInjective(list)
    PROVE  /\ Advance(list) \in Seq(S)
           /\ Advance(list) # << >>
           /\ Range(Advance(list)) = Range(list)
           /\ IsInjective(Advance(list))
           /\ \A q \in Range(list) :
                q # Head(list) => Position(Advance(list), q) <= Position(list, q)
PROOF
  <1> DEFINE new == Advance(list)
             n == Len(list)
  <1>1. /\ n \in Nat \ {0}
        /\ Head(list) = list[1]
        /\ Head(list) \in S
        /\ DOMAIN list = 1 .. n
    BY HeadFacts, LenProperties
  <1>2. /\ Tail(list) \in Seq(S)
        /\ Len(Tail(list)) = n - 1
        /\ \A i \in 1 .. n - 1 : Tail(list)[i] = list[i + 1]
    BY HeadTailProperties
  <1>3. /\ new \in Seq(S)
        /\ Len(new) = n
        /\ \A i \in 1 .. n - 1 : new[i] = list[i + 1]
        /\ new[n] = list[1]
    BY <1>1, <1>2, AppendProperties DEF Advance
  <1>4. DOMAIN new = 1 .. n
    BY <1>3, LenProperties
  <1>5. \A i, j \in 1 .. n : list[i] = list[j] => i = j
    BY <1>1 DEF IsInjective
  <1>6. new # << >>
    BY <1>1, <1>3, EmptySeq
  <1> HIDE DEF new, n
  <1>7. \A i \in 1 .. n : new[i] = IF i = n THEN list[1] ELSE list[i + 1]
    BY <1>1, <1>3
  <1>8. IsInjective(new)
    <2> SUFFICES ASSUME NEW i \in 1 .. n, NEW j \in 1 .. n, new[i] = new[j]
                 PROVE  i = j
      BY <1>4 DEF IsInjective
    <2> QED BY <1>1, <1>5, <1>7
  <1>9. Range(new) = Range(list)
    <2>1. ASSUME NEW i \in 1 .. n
          PROVE  new[i] \in Range(list)
      <3>1. \E j \in 1 .. n : new[i] = list[j]
        BY <1>1, <1>7
      <3> QED BY <3>1, <1>1 DEF Range
    <2>2. ASSUME NEW i \in 1 .. n
          PROVE  list[i] \in Range(new)
      <3>1. CASE i = 1
        BY <3>1, <1>1, <1>3, <1>4 DEF Range
      <3>2. CASE i # 1
        <4>1. i - 1 \in 1 .. n - 1 /\ new[i - 1] = list[i]
          BY <3>2, <1>1, <1>3
        <4> QED BY <4>1, <1>1, <1>4 DEF Range
      <3> QED BY <3>1, <3>2
    <2> QED BY <2>1, <2>2, <1>1, <1>4 DEF Range
  <1>10. ASSUME NEW q \in Range(list), q # Head(list)
         PROVE  Position(new, q) <= Position(list, q)
    <2> DEFINE i == Position(list, q)
    <2>1. i \in 1 .. n /\ list[i] = q
      BY PositionFacts DEF n
    <2>2. i # 1
      BY <2>1, <1>1, <1>10
    <2>3. i - 1 \in 1 .. n - 1 /\ new[i - 1] = q
      BY <2>1, <2>2, <1>1, <1>3
    <2>4. Position(new, q) = i - 1
      BY <2>3, <1>1, <1>3, <1>8, PositionIs
    <2> QED BY <2>1, <2>4, <1>1
  <1> QED BY <1>3, <1>6, <1>8, <1>9, <1>10 DEF new

----------------------------------------------------------------------------
(* What the kernel's operations do to a child. *)

\* A signal changes neither whether kill(2) finds the child nor, unless it is
\* SIGCONT, whether the child runs.
LEMMA SignalFacts ==
    ASSUME NEW c \in Child
    PROVE  /\ SendStop(c) \in Child /\ SendCont(c) \in Child /\ SendKill(c) \in Child
           /\ HasPid(SendStop(c)) <=> HasPid(c)
           /\ HasPid(SendCont(c)) <=> HasPid(c)
           /\ HasPid(SendKill(c)) <=> HasPid(c)
           /\ SendStop(c).run = c.run /\ SendKill(c).run = c.run
           /\ SendStop(c).event = c.event /\ SendKill(c).event = c.event
           /\ SendStop(c).kill = c.kill /\ SendStop(c).raised = c.raised
PROOF
  <1> USE DEF Child
  <1>1. (c.run = "running") \in BOOLEAN /\ Alive(c) \in BOOLEAN
    BY DEF Alive
  <1>2. SendStop(c) \in Child
    BY <1>1 DEF SendStop
  <1>3. SendCont(c) \in Child
    BY DEF SendCont
  <1>4. SendKill(c) \in Child
    BY <1>1 DEF SendKill
  <1>5. /\ SendStop(c).run = c.run /\ SendStop(c).event = c.event
        /\ SendStop(c).kill = c.kill /\ SendStop(c).raised = c.raised
    BY DEF SendStop
  <1>6. SendKill(c).run = c.run /\ SendKill(c).event = c.event
    BY DEF SendKill
  <1>7. HasPid(SendCont(c)) <=> HasPid(c)
    BY DEF SendCont, HasPid
  <1> QED BY <1>2, <1>3, <1>4, <1>5, <1>6, <1>7 DEF HasPid

\* A child only changes its own state while it has a pid, and keeps it.
LEMMA ChildFacts ==
    ASSUME NEW c \in Child
    PROVE  /\ Raise(c) \in Child /\ TakeStop(c) \in Child /\ Die(c) \in Child
           /\ CanRaise(c) => HasPid(c) /\ HasPid(Raise(c))
           /\ CanTakeStop(c) => HasPid(c) /\ HasPid(TakeStop(c))
           /\ CanExit(c) => HasPid(c) /\ HasPid(Die(c))
           /\ CanTakeKill(c) => HasPid(c) /\ HasPid(Die(c))
PROOF
  BY DEF Child, Raise, TakeStop, Die, CanRaise, CanTakeStop, CanExit, CanTakeKill,
         HasPid, Alive

\* A wait frees the pid exactly when it reports the death.
LEMMA ReportFacts ==
    ASSUME NEW c \in Child, HasPid(c)
    PROVE  /\ Reported(c) \in Child
           /\ HasPid(Reported(c)) <=> c.event # "exited"
           /\ Reported(c).event = "none"
           /\ c.event # "exited" => Reported(c).run = c.run
           /\ Reported(c).kill = c.kill /\ Reported(c).raised = c.raised
PROOF
  BY DEF Child, Reported, HasPid

LEMMA ForkFacts ==
    /\ Unborn \in Child /\ ~HasPid(Unborn)
    /\ Forked \in Child /\ HasPid(Forked)
    /\ Forked.run = "running" /\ Forked.raised = FALSE /\ Forked.kill = FALSE
PROOF
  BY DEF Child, Unborn, Forked, HasPid

\* A child before the first SIGCONT: it runs at most up to its own raise.
Fresh(c) == /\ c.run \in {"none", "running", "stopped"} /\ ~c.kill
            /\ c.run = "running" => ~c.raised
            /\ c.event # "none" => c.event = "stopped" /\ c.run = "stopped"

\* A stop that can still be reported has not been undone.
Honest(c) == c.event = "stopped" => c.run = "stopped"

LEMMA FreshFacts ==
    /\ Fresh(Unborn) /\ Fresh(Forked)
    /\ \A c \in Child : Fresh(c) =>
          /\ ~CanExit(c) /\ ~CanTakeKill(c)
          /\ Fresh(Raise(c)) /\ Raise(c).run = "stopped"
          /\ Fresh(TakeStop(c)) /\ TakeStop(c).run = "stopped"
          /\ Fresh(SendStop(c))
          /\ c.event = "stopped" => Fresh(Reported(c)) /\ Reported(c).run = "stopped"
PROOF
  <1>1. Fresh(Unborn) /\ Fresh(Forked)
    BY DEF Fresh, Unborn, Forked
  <1>2. ASSUME NEW c \in Child, Fresh(c)
        PROVE  /\ ~CanExit(c) /\ ~CanTakeKill(c)
               /\ Fresh(Raise(c)) /\ Raise(c).run = "stopped"
               /\ Fresh(TakeStop(c)) /\ TakeStop(c).run = "stopped"
    BY <1>2 DEF Child, Fresh, CanExit, CanTakeKill, Raise, TakeStop
  <1>3. ASSUME NEW c \in Child, Fresh(c)
        PROVE  Fresh(SendStop(c))
    BY <1>3, SignalFacts DEF Fresh
  <1>4. ASSUME NEW c \in Child, Fresh(c), c.event = "stopped"
        PROVE  Fresh(Reported(c)) /\ Reported(c).run = "stopped"
    BY <1>4 DEF Child, Fresh, Reported
  <1> QED BY <1>1, <1>2, <1>3, <1>4

LEMMA HonestFacts ==
    /\ Honest(Unborn) /\ Honest(Forked)
    /\ \A c \in Child : /\ Honest(Raise(c)) /\ Honest(TakeStop(c)) /\ Honest(Die(c))
                        /\ Honest(Reported(c))
                        /\ Honest(c) => /\ Honest(SendStop(c)) /\ Honest(SendKill(c))
                                        /\ Honest(SendCont(c))
PROOF
  <1>1. Honest(Unborn) /\ Honest(Forked)
    BY DEF Honest, Unborn, Forked
  <1>2. ASSUME NEW c \in Child
        PROVE  /\ Honest(Raise(c)) /\ Honest(TakeStop(c)) /\ Honest(Die(c))
               /\ Honest(Reported(c))
    BY DEF Child, Honest, Raise, TakeStop, Die, Reported
  <1>3. ASSUME NEW c \in Child, Honest(c)
        PROVE  Honest(SendStop(c)) /\ Honest(SendKill(c))
    BY <1>3, SignalFacts DEF Honest
  <1>4. ASSUME NEW c \in Child, Honest(c)
        PROVE  Honest(SendCont(c))
    BY <1>4 DEF Child, Honest, SendCont
  <1> QED BY <1>1, <1>2, <1>3, <1>4
=============================================================================
