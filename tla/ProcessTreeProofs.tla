------------------------- MODULE ProcessTreeProofs -------------------------
(***************************************************************************)
(* Proofs about ProcessTree, for every tree: any number of processes, in   *)
(* any shape, under any of the four programs, with forks that fail at any  *)
(* moment.  Every invariant says of a process what is so of all the        *)
(* processes below it, so that no induction over the tree is needed.       *)
(***************************************************************************)
EXTENDS ProcessTree, FiniteSetTheorems, SequenceTheorems, TLAPS

----------------------------------------------------------------------------
(* Paths. *)

Path == Seq(Nat \ {0})

LEMMA PrefixIs ==
    ASSUME NEW p \in Path, NEW q \in Path
    PROVE  /\ IsPrefix(p, q) <=> Len(p) <= Len(q) /\ \A k \in 1 .. Len(p) : p[k] = q[k]
           /\ Len(p) \in Nat /\ DOMAIN p = 1 .. Len(p)
  <1>1. /\ Len(p) \in Nat /\ Len(q) \in Nat /\ DOMAIN p = 1 .. Len(p)
        /\ \A k \in 1 .. Len(p) : p[k] \in Nat \ {0}
        /\ \A k \in 1 .. Len(q) : q[k] \in Nat \ {0}
    BY LenProperties, ElementOfSeq DEF Path
  <1>2. ASSUME Len(p) <= Len(q)
        PROVE  /\ SubSeq(p, 1, Len(p)) \in Path /\ Len(SubSeq(p, 1, Len(p))) = Len(p)
               /\ \A k \in 1 .. Len(p) : SubSeq(p, 1, Len(p))[k] = p[k]
               /\ SubSeq(q, 1, Len(p)) \in Path /\ Len(SubSeq(q, 1, Len(p))) = Len(p)
               /\ \A k \in 1 .. Len(p) : SubSeq(q, 1, Len(p))[k] = q[k]
    <2>1. /\ \A k \in 1 .. Len(p) : p[k] \in Nat \ {0}
          /\ \A k \in 1 .. Len(p) : q[k] \in Nat \ {0}
          /\ 1 \in Int /\ Len(p) \in Int
      BY <1>1, <1>2
    <2>2. /\ SubSeq(p, 1, Len(p)) \in Path
          /\ Len(SubSeq(p, 1, Len(p))) = IF 1 <= Len(p) THEN Len(p) - 1 + 1 ELSE 0
          /\ \A k \in 1 .. Len(p) - 1 + 1 : SubSeq(p, 1, Len(p))[k] = p[1 + k - 1]
      BY <2>1, SubSeqProperties DEF Path
    <2>3. /\ SubSeq(q, 1, Len(p)) \in Path
          /\ Len(SubSeq(q, 1, Len(p))) = IF 1 <= Len(p) THEN Len(p) - 1 + 1 ELSE 0
          /\ \A k \in 1 .. Len(p) - 1 + 1 : SubSeq(q, 1, Len(p))[k] = q[1 + k - 1]
      BY <2>1, SubSeqProperties DEF Path
    <2> QED BY <1>1, <2>2, <2>3
  <1>3. ASSUME Len(p) <= Len(q), \A k \in 1 .. Len(p) : p[k] = q[k]
        PROVE  SubSeq(p, 1, Len(p)) = SubSeq(q, 1, Len(p))
    BY <1>2, <1>3, SeqEqual DEF Path
  <1> QED BY <1>1, <1>2, <1>3 DEF IsPrefix

LEMMA KidPath ==
    ASSUME NEW p \in Path, NEW k \in Nat \ {0}
    PROVE  /\ Append(p, k) \in Path /\ Append(p, k) # << >> /\ Append(p, k) # p
           /\ Len(Append(p, k)) = Len(p) + 1 /\ Append(p, k)[Len(p) + 1] = k
           /\ \A m \in 1 .. Len(p) : Append(p, k)[m] = p[m]
           /\ IsPrefix(p, Append(p, k)) /\ ~IsPrefix(Append(p, k), p)
           /\ \A q \in Path, m \in Nat \ {0} : Append(p, k) = Append(q, m) => p = q /\ k = m
  <1>1. /\ Append(p, k) \in Path /\ Append(p, k) # << >>
        /\ Len(Append(p, k)) = Len(p) + 1 /\ Append(p, k)[Len(p) + 1] = k
        /\ \A m \in 1 .. Len(p) : Append(p, k)[m] = p[m]
        /\ Len(p) \in Nat
    BY AppendProperties, LenProperties DEF Path
  <1>2. IsPrefix(p, Append(p, k)) /\ ~IsPrefix(Append(p, k), p)
    <2> DEFINE c == Append(p, k)
    <2>1. c \in Path /\ Len(c) = Len(p) + 1 /\ \A m \in 1 .. Len(p) : c[m] = p[m]
      BY <1>1
    <2> HIDE DEF c
    <2>2. /\ IsPrefix(p, c) <=> Len(p) <= Len(c) /\ \A m \in 1 .. Len(p) : p[m] = c[m]
          /\ IsPrefix(c, p) => Len(c) <= Len(p)
      BY <2>1, PrefixIs
    <2>3. IsPrefix(p, c) /\ ~IsPrefix(c, p)
      BY <1>1, <2>1, <2>2
    <2> QED BY <2>3 DEF c
  <1>3. \A q \in Path, m \in Nat \ {0} : Append(p, k) = Append(q, m) => p = q /\ k = m
    BY AppendInjective DEF Path
  <1> QED BY <1>1, <1>2, <1>3

\* Below the k-th child of p.
LEMMA UnderKid ==
    ASSUME NEW p \in Path, NEW k \in Nat \ {0}, NEW q \in Path
    PROVE  /\ IsPrefix(Append(p, k), q) <=> IsPrefix(p, q) /\ Len(p) < Len(q) /\ q[Len(p) + 1] = k
           /\ IsPrefix(q, Append(p, k)) <=> q = Append(p, k) \/ IsPrefix(q, p)
  <1> DEFINE c == Append(p, k)
  <1>1. /\ c \in Path /\ Len(c) = Len(p) + 1 /\ c[Len(p) + 1] = k
        /\ \A m \in 1 .. Len(p) : c[m] = p[m]
        /\ Len(p) \in Nat /\ Len(q) \in Nat
    BY KidPath, PrefixIs
  <1> HIDE DEF c
  <1>2. IsPrefix(c, q) <=> Len(p) + 1 <= Len(q) /\ \A m \in 1 .. Len(p) + 1 : c[m] = q[m]
    BY <1>1, PrefixIs
  <1>3. IsPrefix(c, q) <=> IsPrefix(p, q) /\ Len(p) < Len(q) /\ q[Len(p) + 1] = k
    <2>1. IsPrefix(p, q) <=> Len(p) <= Len(q) /\ \A m \in 1 .. Len(p) : p[m] = q[m]
      BY PrefixIs
    <2>2. Len(p) + 1 \in 1 .. Len(p) + 1 /\ \A m \in 1 .. Len(p) : m \in 1 .. Len(p) + 1
      BY <1>1
    <2>3. \A m \in 1 .. Len(p) + 1 : m \in 1 .. Len(p) \/ m = Len(p) + 1
      BY <1>1
    <2>4. IsPrefix(c, q) => IsPrefix(p, q) /\ Len(p) < Len(q) /\ q[Len(p) + 1] = k
      BY <1>1, <1>2, <2>1, <2>2
    <2>5. IsPrefix(p, q) /\ Len(p) < Len(q) /\ q[Len(p) + 1] = k => IsPrefix(c, q)
      BY <1>1, <1>2, <2>1, <2>3
    <2> QED BY <2>4, <2>5
  <1>4. IsPrefix(q, c) => q = c \/ IsPrefix(q, p)
    <2> SUFFICES ASSUME IsPrefix(q, c), ~IsPrefix(q, p) PROVE q = c
      OBVIOUS
    <2>1. Len(q) <= Len(p) + 1 /\ \A m \in 1 .. Len(q) : q[m] = c[m]
      BY <1>1, PrefixIs
    <2>2. Len(q) = Len(p) + 1
      <3>1. ASSUME Len(q) <= Len(p) PROVE FALSE
        <4>1. \A m \in 1 .. Len(q) : q[m] = p[m]
          BY <1>1, <2>1, <3>1
        <4> QED BY <3>1, <4>1, PrefixIs
      <3> QED BY <1>1, <2>1, <3>1
    <2> QED BY <1>1, <2>1, <2>2, SeqEqual DEF Path
  <1>5. q = c \/ IsPrefix(q, p) => IsPrefix(q, c)
    <2>1. IsPrefix(q, p) => Len(q) <= Len(p) /\ \A m \in 1 .. Len(q) : q[m] = p[m]
      BY PrefixIs
    <2>2. IsPrefix(q, p) => Len(q) <= Len(c) /\ \A m \in 1 .. Len(q) : q[m] = c[m]
      BY <1>1, <2>1
    <2>3. q = c => Len(q) <= Len(c) /\ \A m \in 1 .. Len(q) : q[m] = c[m]
      BY <1>1
    <2> QED BY <1>1, <2>2, <2>3, PrefixIs
  <1> QED BY <1>3, <1>4, <1>5 DEF c

LEMMA PrefixOrder ==
    ASSUME NEW p \in Path, NEW q \in Path
    PROVE  /\ IsPrefix(p, p) /\ IsPrefix(<< >>, q) /\ << >> \in Path
           /\ IsPrefix(p, q) /\ IsPrefix(q, p) => p = q
           /\ IsPrefix(p, q) /\ p # q => Len(p) < Len(q)
           /\ \A r \in Path : /\ IsPrefix(p, q) /\ IsPrefix(q, r) => IsPrefix(p, r)
                              /\ IsPrefix(p, r) /\ IsPrefix(q, r) => IsPrefix(p, q) \/ IsPrefix(q, p)
  <1>1. /\ << >> \in Path /\ Len(<< >>) = 0 /\ Len(p) \in Nat /\ Len(q) \in Nat
    BY EmptySeq, PrefixIs DEF Path
  <1>2. IsPrefix(p, p) /\ IsPrefix(<< >>, q)
    BY <1>1, PrefixIs
  <1>3. ASSUME IsPrefix(p, q), Len(q) <= Len(p) PROVE p = q
    <2>1. Len(p) <= Len(q) /\ \A k \in 1 .. Len(p) : p[k] = q[k]
      BY <1>3, PrefixIs
    <2>2. Len(p) = Len(q)
      BY <1>1, <1>3, <2>1
    <2> QED BY <2>1, <2>2, SeqEqual DEF Path
  <1>4. ASSUME NEW r \in Path
        PROVE  /\ IsPrefix(p, q) /\ IsPrefix(q, r) => IsPrefix(p, r)
               /\ IsPrefix(p, r) /\ IsPrefix(q, r) => IsPrefix(p, q) \/ IsPrefix(q, p)
    <2>1. /\ IsPrefix(p, q) <=> Len(p) <= Len(q) /\ \A k \in 1 .. Len(p) : p[k] = q[k]
          /\ IsPrefix(q, p) <=> Len(q) <= Len(p) /\ \A k \in 1 .. Len(q) : q[k] = p[k]
          /\ IsPrefix(q, r) <=> Len(q) <= Len(r) /\ \A k \in 1 .. Len(q) : q[k] = r[k]
          /\ IsPrefix(p, r) <=> Len(p) <= Len(r) /\ \A k \in 1 .. Len(p) : p[k] = r[k]
          /\ Len(r) \in Nat
      BY PrefixIs
    <2>2. IsPrefix(p, q) /\ IsPrefix(q, r) => IsPrefix(p, r)
      BY <1>1, <2>1
    <2>3. CASE Len(p) <= Len(q)
      BY <1>1, <2>1, <2>3
    <2>4. CASE Len(q) <= Len(p)
      BY <1>1, <2>1, <2>4
    <2> QED BY <1>1, <2>2, <2>3, <2>4
  <1>5. IsPrefix(p, q) /\ IsPrefix(q, p) => p = q
    BY <1>3, PrefixIs
  <1>6. IsPrefix(p, q) /\ p # q => Len(p) < Len(q)
    BY <1>1, <1>3
  <1> QED BY <1>1, <1>2, <1>4, <1>5, <1>6
----------------------------------------------------------------------------
(* The inductive invariant. *)

\* main and the nodes of the tree.
Members == Grown \cup {Main}

\* The tree in memory is one that parse_node returns.  Without one, main forks a root
\* that crashes.
Rooted ==
    /\ program \in Programs /\ file \in Files /\ tree = TreeOf(file).tree
    /\ \A p \in Procs \ Members :
          at[p] = "unborn" \/ (tree = << >> /\ at[p] \in {"start", "fail", "crash", "done"})

\* Where a process is and what its parent can see of it.
Seen(p) ==
    /\ at[p] = "unborn" <=> child[p].run = "none"
    /\ at[p] = "done" <=> child[p].run \in {"zombie", "reaped"}
    /\ child[p].run = "stopped" => at[p] = "awake"
    /\ child[p].event = "stopped" => child[p].run = "stopped"
    /\ child[p].event = "exited" => child[p].run = "zombie"
    /\ at[p] \notin {"photo", "failed", "crashed"}

MainSeen == at[Main] \notin {"unborn", "start", "raise", "awake", "write"}

\* A process starts with nothing from an earlier one.
Young == {"unborn", "start", "fork", "ready", "photo", "raise", "awake"}

Fresh(p) ==
    /\ at[p] \in Young => got[p] = << >>
    /\ at[p] \in {"unborn", "start", "photo", "raise", "awake"} => i[p] = 0
    /\ at[p] \in {"unborn", "start", "fork"} =>
          \A k \in i[p] + 1 .. Nr(p) : at[Append(p, k)] = "unborn"

\* The programs take different ways.
Way(p) ==
    /\ at[p] \in {"ready", "raise", "awake", "wake"} => Stops
    /\ at[p] = "collect" => program = "expr"
    /\ at[p] = "write" => program = "expr"
    /\ at[p] = "result" => Stops /\ (p = Main => program # "signals")
    /\ program \in {"expr", "rv"} /\ p # Main /\ at[p] \notin {"unborn", "start", "crash", "fail", "done"}
          => Nr(p) \in {0, 2}

\* How many values a process has.
Valued(p) ==
    /\ at[p] \in {"wake", "wait"} => Len(got[p]) = IF program = "rv" THEN i[p] ELSE 0
    /\ at[p] = "collect" => Len(got[p]) < Nr(p)
    /\ at[p] = "result" /\ program # "signals" => Len(got[p]) = Nr(p)
    /\ at[p] \in {"write", "exit"} /\ program \in {"expr", "rv"} => got[p] # << >>

\* The children whose stop the parent has been told of.
Waited(p) ==
    {k \in 1 .. Nr(p) : LET c == child[Append(p, k)] IN c.run = "stopped" /\ c.event # "stopped"}

\* The children of a process that go on being stopped: all of them from the moment it
\* has counted as many stops as it has children, until it wakes them one by one.
Counted(p) ==
    /\ at[p] = "ready" => Cardinality(Waited(p)) >= i[p]
    /\ at[p] \in {"raise", "awake", "wake"} \/ (at[p] = "photo" /\ Stops) =>
          \A k \in i[p] + 1 .. Nr(p) : child[Append(p, k)].run = "stopped"
    /\ at[p] = "wait" /\ Stops =>
          \A k \in i[p] + 2 .. Nr(p) : child[Append(p, k)].run = "stopped"

Local(p) == Fresh(p) /\ Way(p) /\ Valued(p) /\ Counted(p)

StopInv ==
    /\ TypeOK /\ Rooted /\ MainSeen
    /\ \A p \in Procs \ {Main} : Seen(p)
    /\ \A p \in Members : Local(p)
    /\ ReadyRecursively

\* Everybody below c has been woken, has ended, and has been waited for.
Cleared(c) ==
    \A q \in Grown : IsPrefix(c, q) => child[q].run = "reaped" /\ q \in Range(woken)

\* Who has woken.
Woke(p) ==
    /\ at[p] \in {"wake", "wait", "collect", "result", "write", "exit"} => p \in Range(woken)
    /\ at[p] \in Young \cup {"crash"} => p \notin Range(woken)

\* p has waited for all its children, one after the other.
Finished(p) ==
    IF p = Main THEN at[p] \in {"collect", "result", "exit", "done"}
    ELSE at[p] \in {"collect", "result", "write"}
            \/ (at[p] \in {"exit", "fail", "done"} /\ p \in Range(woken))

Clears(p) ==
    /\ at[p] \in {"wake", "wait"} => \A k \in 1 .. i[p] : Cleared(Append(p, k))
    /\ at[p] = "wait" => LET c == Kid(p)
                         IN  /\ child[c].run \in {"running", "zombie"}
                             /\ at[c] = "awake" \/ c \in Range(woken)
    /\ Finished(p) => \A k \in 1 .. Nr(p) : Cleared(Append(p, k))

\* It runs after its stop.
Risen(p) == child[p].run = "running" /\ (at[p] = "awake" \/ p \in Range(woken))

\* Whoever does has been woken by a parent that waits for it, and so on up to main.
OnTheWay(p) ==
    \A a \in Members : IsPrefix(a, p) /\ a # p =>
        at[a] = "wait" /\ IsPrefix(Append(a, i[a] + 1), p)

WakeInv ==
    Stops =>
        /\ \A p \in Grown : Woke(p) /\ (Risen(p) => OnTheWay(p))
        /\ \A p \in Members : Clears(p)
        /\ Range(woken) \subseteq Grown
        /\ WakesInOrder

\* Nobody wakes who has not been stopped.
AwakeInv == WakeInv /\ (~Stops => woken = << >>)

\* What the way to a node says of the tree.
LEMMA TreeShape ==
    ASSUME Rooted
    PROVE  /\ Grown \subseteq Procs \ {Main} /\ Members \subseteq Procs /\ Procs \subseteq Path
           /\ Main \in Members /\ Main \notin Grown /\ Root \in Procs \ {Main}
           /\ tree = << >> => Grown = {}
           /\ tree # << >> => Root \in Grown
           /\ \A p \in Members : Nr(p) \in Nat
           /\ \A p \in Members : \A k \in 1 .. Nr(p) :
                 /\ k \in Nat \ {0} /\ Append(p, k) \in Procs \ {Main}
                 /\ tree # << >> => Append(p, k) \in Grown
           /\ \A p \in Grown : /\ Front(p) \in Members /\ IsPrefix(Root, p)
                               /\ Atoi[tree[p].name] \in Int
  <1> USE DEF Members
  <1>1. /\ Grown \subseteq Nodes
        /\ tree # << >> => Root \in Grown
        /\ \A p \in Grown : tree[p].nr \in Nat /\ Atoi[tree[p].name] \in Int
        /\ \A p \in Grown : p[1] = 1
        /\ \A p \in Grown : \A k \in 1 .. Len(p) - 1 : SubSeq(p, 1, k) \in Grown
        /\ \A p \in Grown : \A k \in 1 .. tree[p].nr : Append(p, k) \in Grown
    BY TreesAssumption DEF Rooted, Grown
  <1>2. /\ Nodes \subseteq Path \ {Main} /\ Root \in Nodes /\ Main \in Path
    BY NodesAssumption, EmptySeq DEF Path, Main
  <1>3. /\ Grown \subseteq Procs \ {Main} /\ Members \subseteq Procs /\ Procs \subseteq Path
        /\ Main \in Members /\ Main \notin Grown /\ Root \in Procs \ {Main}
    BY <1>1, <1>2 DEF Procs
  <1>4. tree = << >> => Grown = {}
    <2>1. DOMAIN << >> = 1 .. 0
      BY EmptySeq, LenProperties
    <2> QED BY <2>1 DEF Grown
  <1>5. Append(Main, 1) = Root /\ \A k \in 1 .. Nr(Main) : k = 1
    BY DEF Main, Root, Nr
  <1>6. \A p \in Members : Nr(p) \in Nat
    BY <1>1 DEF Nr
  <1>7. ASSUME NEW p \in Members, NEW k \in 1 .. Nr(p)
        PROVE  /\ k \in Nat \ {0} /\ Append(p, k) \in Procs \ {Main}
               /\ tree # << >> => Append(p, k) \in Grown
    <2>1. k \in Nat \ {0}
      BY <1>6
    <2>2. CASE p = Main
      <3>1. Append(p, k) = Root
        BY <1>5, <2>2
      <3> QED BY <1>1, <1>3, <2>1, <3>1
    <2>3. CASE p # Main
      <3>1. Append(p, k) \in Grown
        BY <1>1, <2>3 DEF Nr
      <3> QED BY <1>3, <2>1, <3>1
    <2> QED BY <2>2, <2>3
  <1>8. ASSUME NEW p \in Grown
        PROVE  Front(p) \in Members /\ IsPrefix(Root, p)
    <2>1. p \in Path /\ p # << >> /\ p[1] = 1 /\ Len(p) \in Nat \ {0}
      BY <1>1, <1>2, EmptySeq DEF Path, Main
    <2>2. Len(p) = 1 => Front(p) \in Members
      BY <2>1, SubSeqEmpty DEF Front, Main
    <2>3. Len(p) # 1 => Front(p) \in Members
      <3>1. \A n \in Nat \ {0} : n # 1 => n - 1 \in 1 .. n - 1
        OBVIOUS
      <3> QED BY <1>1, <2>1, <3>1 DEF Front
    <2>4. Root \in Path /\ Len(Root) = 1 /\ Root[1] = 1
      BY DEF Root, Path
    <2>5. IsPrefix(Root, p)
      BY <2>1, <2>4, PrefixIs
    <2> QED BY <2>2, <2>3, <2>5
  <1> QED BY <1>1, <1>3, <1>4, <1>6, <1>7, <1>8

\* Whoever is below a process is below one of its children, or is one.
LEMMA NextOnTheWay ==
    ASSUME Rooted, NEW p \in Members, NEW q \in Grown, IsPrefix(p, q), p # q
    PROVE  \E k \in 1 .. Nr(p) : Append(p, k) \in Grown /\ IsPrefix(Append(p, k), q)
  <1>1. p \in Path /\ q \in Path /\ Len(p) \in Nat /\ Len(q) \in Nat /\ Len(p) < Len(q)
    BY TreeShape, PrefixIs, PrefixOrder
  <1> DEFINE k == q[Len(p) + 1]
  <1>2. tree # << >> /\ k \in 1 .. Nr(p)
    <2>1. /\ tree # << >>
          /\ q[1] = 1
          /\ \A m \in 1 .. Len(q) - 1 : q[m + 1] \in 1 .. tree[SubSeq(q, 1, m)].nr
      BY TreesAssumption, TreeShape DEF Rooted, Grown
    <2>2. CASE p = Main
      <3>1. Len(p) = 0
        BY <2>2, EmptySeq DEF Main
      <3> QED BY <2>1, <2>2, <3>1 DEF Nr
    <2>3. CASE p # Main
      <3>1. SubSeq(q, 1, Len(p)) = p
        BY <1>1, SubSeqFull DEF IsPrefix, Path
      <3>2. Len(p) # 0
        BY <1>1, <2>3, EmptySeq DEF Main, Path
      <3>3. Len(p) \in 1 .. Len(q) - 1
        BY <1>1, <3>2
      <3>4. k \in 1 .. tree[p].nr
        BY <2>1, <3>1, <3>3
      <3> QED BY <2>1, <2>3, <3>4 DEF Nr
    <2> QED BY <2>2, <2>3
  <1>3. Append(p, k) \in Grown /\ k \in Nat \ {0}
    BY <1>2, TreeShape
  <1>4. IsPrefix(Append(p, k), q)
    BY <1>1, <1>3, UnderKid
  <1> QED BY <1>2, <1>3, <1>4

----------------------------------------------------------------------------
(* What every step shares. *)

LEMMA Typed ==
    ASSUME TypeOK
    PROVE  /\ at \in [Procs -> Where] /\ i \in [Procs -> Nat] /\ child \in [Procs -> Child]
           /\ got \in [Procs -> Seq(Int)] /\ pipe \in [Procs -> Seq(Int)]
           /\ \A p \in Procs : /\ child[p] \in Child /\ at[p] \in Where /\ i[p] \in Nat
                               /\ got[p] \in Seq(Int) /\ Len(got[p]) \in Nat
  <1>1. \A p \in Procs : got[p] \in Seq(Int) => Len(got[p]) \in Nat
    BY LenProperties
  <1> QED BY <1>1 DEF TypeOK

\* What is known of a process that takes a step.
LEMMA Acting ==
    ASSUME StopInv, NEW p \in Procs, Runs(p)
    PROVE  /\ at[p] \notin {"start", "fail", "crash"} => p \in Members /\ Local(p)
           /\ at[p] \notin {"unborn", "done"} /\ (at[p] # "photo" => ~Ready(p))
           /\ p # Main => child[p].run = "running" /\ Seen(p)
           /\ at[p] = "photo" => p = Main
           /\ at[p] \in {"start", "raise", "awake", "write"} => p # Main
           /\ TypeOK /\ Rooted /\ ReadyRecursively
           /\ i[p] \in Nat
           /\ at[p] \in {"fork", "ready", "wake", "wait"} => i[p] < Nr(p) /\ i[p] + 1 \in 1 .. Nr(p)
  <1>1. p # Main => child[p].run = "running" /\ Seen(p)
    BY DEF StopInv, Runs
  <1>2. p = Main => at[p] \notin Ended /\ at[p] # "unborn"
    BY DEF StopInv, MainSeen, Runs
  <1>3. at[p] \notin {"unborn", "done"} /\ (at[p] = "photo" => p = Main)
        /\ (at[p] # "photo" => ~Ready(p))
    BY <1>1, <1>2 DEF Seen, Ended, Ready
  <1>4. TypeOK /\ Rooted /\ ReadyRecursively
    BY DEF StopInv
  <1>5. p \notin Members => at[p] \in {"start", "fail", "crash"}
    BY <1>3, <1>4 DEF Rooted
  <1>6. i[p] \in Nat /\ (at[p] \in {"fork", "ready", "wake", "wait"} => i[p] < Nr(p))
    BY <1>4 DEF TypeOK
  <1>7. p \in Members => Nr(p) \in Nat
    BY <1>4, TreeShape
  <1>8. at[p] \in {"fork", "ready", "wake", "wait"} => i[p] + 1 \in 1 .. Nr(p)
    BY <1>5, <1>6, <1>7
  <1> QED BY <1>1, <1>3, <1>4, <1>5, <1>6, <1>8 DEF StopInv, MainSeen

\* The children of a process.
LEMMA Kin ==
    ASSUME Rooted, NEW p \in Members, NEW k \in 1 .. Nr(p)
    PROVE  /\ Append(p, k) \in Procs \ {Main, p} /\ k \in Nat \ {0} /\ Nr(p) \in Nat
           /\ p \in Procs
           /\ \A q \in Members : \A m \in 1 .. Nr(q) : Append(p, k) = Append(q, m) => p = q /\ k = m
           /\ tree # << >> => Append(p, k) \in Grown
           /\ tree = << >> => p = Main
  <1>1. p \in Path /\ k \in Nat \ {0}
    BY TreeShape
  <1>2. \A q \in Members : \A m \in 1 .. Nr(q) : q \in Path /\ m \in Nat \ {0}
    BY TreeShape
  <1>3. \A q \in Members : \A m \in 1 .. Nr(q) : Append(p, k) = Append(q, m) => p = q /\ k = m
    <2> SUFFICES ASSUME NEW q \in Members, NEW m \in 1 .. Nr(q), Append(p, k) = Append(q, m)
                 PROVE  p = q /\ k = m
      OBVIOUS
    <2>1. q \in Path /\ m \in Nat \ {0}
      BY <1>2
    <2> QED BY <1>1, <2>1, AppendInjective DEF Path
  <1>4. Append(p, k) # p
    BY <1>1, KidPath
  <1>5. /\ Append(p, k) \in Procs \ {Main} /\ Nr(p) \in Nat /\ p \in Procs
        /\ tree # << >> => Append(p, k) \in Grown
        /\ tree = << >> => Grown = {}
    BY TreeShape
  <1> QED BY <1>1, <1>3, <1>4, <1>5 DEF Members

\* Whoever does nothing, while its child that runs does something, other than stop in
\* a way that is reported already.
LEMMA Bystander ==
    ASSUME Rooted, NEW q \in Members, Local(q), UNCHANGED <<program, tree>>,
           at'[q] = at[q], i'[q] = i[q], got'[q] = got[q], i[q] \in Nat,
           \A k \in 1 .. Nr(q) :
              LET c == Append(q, k)
              IN  \/ at'[c] = at[c] /\ child'[c] = child[c]
                  \/ /\ at[c] # "unborn" /\ child[c].run = "running"
                     /\ child'[c].run = "stopped" => child'[c].event = "stopped"
    PROVE  Local(q)'
  <1>1. Nr(q)' = Nr(q) /\ Stops' = Stops /\ Nr(q) \in Nat
    BY TreeShape DEF Nr, Stops
  <1>2. Waited(q)' = Waited(q)
    BY <1>1 DEF Waited
  <1>3. \A k \in 1 .. Nr(q) : child[Append(q, k)].run = "stopped"
                                => child'[Append(q, k)].run = "stopped"
    OBVIOUS
  <1>4. \A k \in 1 .. Nr(q) : at[Append(q, k)] = "unborn" => at'[Append(q, k)] = "unborn"
    OBVIOUS
  <1>5. Fresh(q) /\ Way(q) /\ Valued(q) /\ Counted(q)
    BY DEF Local
  <1>6. \A k : k \in i[q] + 1 .. Nr(q) \/ k \in i[q] + 2 .. Nr(q) => k \in 1 .. Nr(q)
    BY <1>1
  <1>7. Fresh(q)'
    BY <1>1, <1>4, <1>5, <1>6 DEF Fresh
  <1>8. Way(q)' /\ Valued(q)'
    BY <1>1, <1>5 DEF Way, Valued
  <1>9. Counted(q)'
    BY <1>1, <1>2, <1>3, <1>5, <1>6 DEF Counted
  <1> QED BY <1>7, <1>8, <1>9 DEF Local

\* Whoever is stopped stays so, but for a child that p, which is not, wakes.
LEMMA StaysReady ==
    ASSUME Rooted, ReadyRecursively, NEW p \in Members, ~Ready(p), UNCHANGED <<program, tree>>,
           \A q \in Grown : child[q].run = "stopped" /\ child'[q].run # "stopped"
                              => \E k \in 1 .. Nr(p) : q = Append(p, k),
           \A m \in Members : Ready(m)' => \/ Ready(m)
                                           \/ \A k \in 1 .. Nr(m) :
                                                 LET c == Append(m, k)
                                                 IN  child[c].run = "stopped" /\ child'[c].run = "stopped"
    PROVE  ReadyRecursively'
  <1>1. Grown' = Grown /\ Members' = Members /\ \A m : Descendants(m)' = Descendants(m)
    BY DEF Grown, Members, Descendants
  <1> SUFFICES ASSUME NEW m \in Members, Ready(m)', NEW q \in Descendants(m)
               PROVE  child'[q].run = "stopped"
    BY <1>1 DEF ReadyRecursively, Members
  <1>2. /\ q \in Grown /\ m # q /\ IsPrefix(m, q) /\ m \in Path /\ q \in Path /\ p \in Path
        /\ Grown \subseteq Members /\ Main \notin Grown
    BY TreeShape DEF Descendants, Members
  <1>3. \A r \in Grown : r \in Descendants(m) /\ Ready(m) => child[r].run = "stopped"
    BY DEF ReadyRecursively, Members
  <1>4. PICK c \in Grown : /\ IsPrefix(c, q) /\ \E k \in 1 .. Nr(m) : c = Append(m, k)
    BY <1>2, NextOnTheWay
  <1>5. ~Ready(m) => child[c].run = "stopped" /\ child'[c].run = "stopped"
    BY <1>4
  <1>6. ~Ready(m) => \A r \in Grown : IsPrefix(c, r) => child[r].run = "stopped"
    BY <1>2, <1>4, <1>5 DEF ReadyRecursively, Descendants, Ready
  <1>7. child[q].run = "stopped"
    BY <1>2, <1>3, <1>4, <1>6
  <1> SUFFICES ASSUME child'[q].run # "stopped" PROVE FALSE
    OBVIOUS
  <1>8. PICK k \in 1 .. Nr(p) : q = Append(p, k)
    BY <1>2, <1>7
  <1>9. k \in Nat \ {0} /\ \A j \in Members : \A n \in 1 .. Nr(j) : q = Append(j, n) => p = j
    BY <1>8, Kin
  <1>10. \A r \in Path : IsPrefix(r, q) => r = q \/ IsPrefix(r, p)
    BY <1>2, <1>8, <1>9, UnderKid
  <1>11. IsPrefix(m, p)
    BY <1>2, <1>10
  <1>12. CASE Ready(m)
    <2>1. m # p
      BY <1>12
    <2>2. p \in Grown
      <3>1. ASSUME p = Main PROVE m = p
        <4>1. IsPrefix(p, m)
          BY <1>2, <3>1, PrefixOrder DEF Main
        <4> QED BY <1>2, <1>11, <4>1, PrefixOrder
      <3> QED BY <2>1, <3>1 DEF Members
    <2>3. p \in Descendants(m)
      BY <1>11, <2>1, <2>2 DEF Descendants
    <2> QED BY <1>2, <1>3, <1>12, <2>2, <2>3 DEF Ready
  <1>13. CASE ~Ready(m)
    <2>1. q # c /\ c \in Path
      BY <1>2, <1>4, <1>5, <1>13, TreeShape
    <2>2. IsPrefix(c, p)
      BY <1>4, <1>10, <2>1
    <2>3. p # Main
      <3>1. ASSUME p = Main PROVE FALSE
        <4>1. IsPrefix(p, c)
          BY <2>1, <3>1, PrefixOrder DEF Main
        <4>2. c = p
          BY <1>2, <2>1, <2>2, <4>1, PrefixOrder
        <4> QED BY <1>2, <1>4, <3>1, <4>2
      <3> QED BY <3>1
    <2>4. child[p].run = "stopped"
      BY <1>6, <1>13, <2>2, <2>3 DEF Members
    <2> QED BY <2>3, <2>4 DEF Ready
  <1> QED BY <1>12, <1>13

\* What is left to show of a step of p, which touches p and perhaps one child of p.
LEMMA StepOf ==
    ASSUME StopInv, NEW p \in Procs, Runs(p), UNCHANGED forking, TypeOK', ReadyRecursively',
           NEW c \in Procs,
           c = p \/ (p \in Members /\ \E k \in 1 .. Nr(p) : c = Append(p, k)),
           \A q \in Procs \ {p} : i'[q] = i[q] /\ got'[q] = got[q],
           \A q \in Procs \ {p, c} : at'[q] = at[q] /\ child'[q] = child[q],
           p # Main => Seen(p)' /\ (child'[p].run = "stopped" => child'[p].event = "stopped"),
           p = Main => MainSeen',
           p \in Members => Local(p)',
           p \notin Members => at'[p] \in {"fail", "crash", "done"},
           c # p => /\ Seen(c)'
                    /\ \/ at'[c] = at[c]
                       \/ /\ c \in Members => Local(c)'
                          /\ c \notin Members => at'[c] \in {"start", "fail", "crash", "done"}
    PROVE  StopInv'
  <1>1. TypeOK /\ Rooted /\ MainSeen /\ (\A q \in Procs \ {Main} : Seen(q)) /\ (\A q \in Members : Local(q))
    BY DEF StopInv
  <1>2. UNCHANGED <<program, tree, file>> /\ Members' = Members /\ Members \subseteq Procs
    BY <1>1, TreeShape DEF forking, Members, Grown
  <1>3. c # p => c # Main
    BY <1>1, Kin
  <1>4. MainSeen'
    BY <1>1, <1>3 DEF MainSeen, Procs
  <1>5. \A q \in Procs \ {Main} : Seen(q)'
    <2> TAKE q \in Procs \ {Main}
    <2>1. CASE q \notin {p, c}
      BY <1>1, <2>1 DEF Seen
    <2> QED BY <2>1
  <1>6. \A q \in Members : Local(q)'
    <2> TAKE q \in Members
    <2>1. CASE q = p \/ (q = c /\ at'[c] # at[c])
      BY <2>1
    <2>2. CASE q # p /\ (q # c \/ at'[c] = at[c])
      <3>1. ASSUME NEW k \in 1 .. Nr(q)
            PROVE  LET r == Append(q, k)
                   IN  \/ at'[r] = at[r] /\ child'[r] = child[r]
                       \/ /\ at[r] # "unborn" /\ child[r].run = "running"
                          /\ child'[r].run = "stopped" => child'[r].event = "stopped"
        <4> DEFINE r == Append(q, k)
        <4>1. r \in Procs \ {Main}
          BY <1>1, Kin
        <4>2. ASSUME r = c, r # p PROVE FALSE
          <5>1. PICK m \in 1 .. Nr(p) : p \in Members /\ c = Append(p, m)
            BY <4>2
          <5>2. \A n \in 1 .. Nr(q) : Append(p, m) = Append(q, n) => p = q
            BY <1>1, <5>1, Kin
          <5> QED BY <2>2, <4>2, <5>1, <5>2
        <4>3. r = p => /\ at[r] # "unborn" /\ child[r].run = "running"
                       /\ child'[r].run = "stopped" => child'[r].event = "stopped"
          BY <4>1, Acting
        <4> QED BY <4>1, <4>2, <4>3
      <3>2. at'[q] = at[q] /\ i'[q] = i[q] /\ got'[q] = got[q] /\ i[q] \in Nat /\ Local(q)
        BY <1>1, <1>2, <2>2, Typed
      <3> QED BY <1>1, <1>2, <3>1, <3>2, Bystander
    <2> QED BY <2>1, <2>2
  <1>7. Rooted'
    <2>1. ASSUME NEW q \in Procs \ Members, at'[q] # "unborn"
          PROVE  tree = << >> /\ at'[q] \in {"start", "fail", "crash", "done"}
      <3>1. at[q] = "unborn" \/ (tree = << >> /\ at[q] \in {"start", "fail", "crash", "done"})
        BY <1>1 DEF Rooted
      <3>2. CASE q \notin {p, c}
        BY <2>1, <3>1, <3>2
      <3>3. CASE q = p
        <4>1. at[p] # "unborn"
          BY Acting
        <4> QED BY <2>1, <3>1, <3>3, <4>1
      <3>4. CASE q = c /\ c # p
        <4>1. tree = << >>
          <5>1. PICK k \in 1 .. Nr(p) : p \in Members /\ c = Append(p, k)
            BY <3>4
          <5> QED BY <1>1, <2>1, <3>4, <5>1, Kin DEF Members
        <4> QED BY <2>1, <3>1, <3>4, <4>1
      <3> QED BY <3>2, <3>3, <3>4
    <2> QED BY <1>1, <1>2, <2>1 DEF Rooted
  <1> QED BY <1>4, <1>5, <1>6, <1>7, <1>2 DEF StopInv

LEMMA Moved ==
    ASSUME TypeOK, NEW p \in Procs, NEW from, NEW to, Moves(p, from, to)
    PROVE  /\ Runs(p) /\ at[p] = from /\ at'[p] = to
           /\ \A q \in Procs \ {p} : at'[q] = at[q]
           /\ to \in Where => at' \in [Procs -> Where]
  BY Typed DEF Moves

LEMMA StillTyped ==
    ASSUME TypeOK, NEW p \in Procs, UNCHANGED <<program, tree>>,
           at' \in [Procs -> Where], i' \in [Procs -> Nat], child' \in [Procs -> Child],
           status' \in [Procs -> 0 .. 255], got' \in [Procs -> Seq(Int)],
           pipe' \in [Procs -> Seq(Int)], woken' \in Seq(Procs), out' \in Seq(Int),
           \A q \in Procs \ {p} : (at'[q] = at[q] \/ at'[q] = "start") /\ i'[q] = i[q],
           at'[p] \in {"fork", "ready", "wake", "wait"} => i'[p] < Nr(p)
    PROVE  TypeOK'
  <1>1. \A q \in Procs : Nr(q)' = Nr(q)
    BY DEF Nr
  <1>2. \A q \in Procs : at'[q] \in {"fork", "ready", "wake", "wait"} => i'[q] < Nr(q)
    BY DEF TypeOK
  <1> QED BY <1>1, <1>2 DEF TypeOK

\* A step that only moves a process.
LEMMA QuietReady ==
    ASSUME ReadyRecursively, UNCHANGED <<program, tree, child>>,
           at'[Main] = "photo" => at[Main] = "photo"
    PROVE  ReadyRecursively'
  <1>1. \A p : Ready(p)' => Ready(p)
    BY DEF Ready, Stops
  <1>2. Grown' = Grown /\ \A p : Descendants(p)' = Descendants(p)
    BY DEF Grown, Descendants
  <1> QED BY <1>1, <1>2 DEF ReadyRecursively

LEMMA StartKeeps ==
    ASSUME StopInv, NEW p \in Procs, Start(p) PROVE StopInv'
  <1>1. /\ Runs(p) /\ at[p] = "start" /\ at'[p] = FirstStep(p)
        /\ \A q \in Procs \ {p} : at'[q] = at[q]
        /\ UNCHANGED <<program, file, tree, i, child, status, got, pipe, woken, out>>
    BY Moved DEF Start, StopInv, forking, values
  <1>2. TypeOK /\ Rooted /\ p # Main /\ Seen(p) /\ child[p].run = "running" /\ ReadyRecursively
    BY <1>1, Acting
  <1>3. at'[p] \in {"fail", "crash", "raise", "exit", "fork"} /\ at' \in [Procs -> Where]
    BY <1>1, <1>2, Moved DEF FirstStep, Start, Where
  <1>4. p \in Members => /\ Nr(p) \in Nat /\ i[p] = 0 /\ Nr(p)' = Nr(p)
                         /\ at'[p] = "fork" => Nr(p) # 0
    BY <1>1, <1>2, TreeShape DEF StopInv, Local, Fresh, Nr, FirstStep
  <1>5. p \notin Members => tree = << >> /\ at'[p] \in {"fail", "crash"}
    BY <1>1, <1>2 DEF Rooted, FirstStep
  <1>6. TypeOK'
    <2>1. at'[p] = "fork" => 0 < Nr(p) /\ i[p] = 0
      BY <1>3, <1>4, <1>5
    <2> QED BY <1>1, <1>2, <1>3, <2>1, StillTyped DEF TypeOK
  <1>7. p \in Members => Local(p)'
    <2> SUFFICES ASSUME p \in Members PROVE Local(p)'
      OBVIOUS
    <2>1. Fresh(p) /\ i[p] = 0 /\ got[p] = << >> /\ Stops' = Stops
      BY <1>1, <1>4 DEF StopInv, Local, Fresh, Young, Stops
    <2>2. Fresh(p)'
      <3>1. \A k \in 1 .. Nr(p) : at[Append(p, k)] = "unborn" /\ Append(p, k) \in Procs \ {p}
        BY <1>1, <1>2, <1>4, <2>1, Kin DEF Fresh
      <3> QED BY <1>1, <1>3, <1>4, <2>1, <3>1 DEF Fresh
    <2>3. Way(p)'
      BY <1>1, <1>2, <1>3, <1>4, <2>1 DEF Way, FirstStep, Stops
    <2>4. Valued(p)'
      BY <1>1, <1>2, <1>3 DEF Valued, FirstStep, Stops
    <2>5. Counted(p)'
      BY <1>1, <1>3, <1>4 DEF Counted, FirstStep
    <2> QED BY <2>2, <2>3, <2>4, <2>5 DEF Local
  <1>8. ReadyRecursively'
    BY <1>1, <1>2, QuietReady DEF Procs
  <1>9. Seen(p)' /\ (child'[p].run = "stopped" => child'[p].event = "stopped")
    BY <1>1, <1>2, <1>3 DEF Seen
  <1> QED BY <1>1, <1>2, <1>5, <1>6, <1>7, <1>8, <1>9, StepOf DEF forking

\* A process goes on to another place, and nobody sees anything of it.
LEMMA GoesOn ==
    ASSUME StopInv, NEW p \in Members, NEW from, NEW to, Moves(p, from, to),
           UNCHANGED <<forking, i, child, status>>,
           to \in {"fail", "result", "collect", "write", "exit", "wake", "wait", "crash",
                   "done", "failed", "crashed"},
           to \in Ended => p = Main, to = "write" => p # Main, to \in {"wake", "wait"} => i[p] < Nr(p),
           got' \in [Procs -> Seq(Int)], pipe' \in [Procs -> Seq(Int)],
           woken' \in Seq(Procs), out' \in Seq(Int),
           \A q \in Procs \ {p} : got'[q] = got[q],
           Way(p)', Valued(p)', Counted(p)'
    PROVE  StopInv'
  <1>0. p \in Procs /\ TypeOK /\ Rooted /\ ReadyRecursively
    BY TreeShape DEF StopInv
  <1>1. /\ Runs(p) /\ at[p] = from /\ at'[p] = to /\ \A q \in Procs \ {p} : at'[q] = at[q]
        /\ UNCHANGED <<program, file, tree>> /\ at' \in [Procs -> Where]
    BY <1>0, Moved DEF forking, Where, Ended
  <1>2. TypeOK'
    BY <1>0, <1>1, StillTyped DEF TypeOK
  <1>3. ReadyRecursively'
    BY <1>0, <1>1, QuietReady DEF Procs
  <1>4. Fresh(p)'
    BY <1>1 DEF Fresh, Young
  <1>5. p # Main => Seen(p)' /\ (child'[p].run = "stopped" => child'[p].event = "stopped")
    BY <1>0, <1>1, Acting DEF Seen, Ended
  <1>6. p = Main => MainSeen'
    BY <1>1 DEF MainSeen
  <1>7. Local(p)'
    BY <1>4 DEF Local
  <1> QED BY <1>0, <1>1, <1>2, <1>3, <1>5, <1>6, <1>7, StepOf DEF forking

LEMMA NoKids ==
    ASSUME UNCHANGED <<program, tree>>
    PROVE  \A p : Nr(p)' = Nr(p) /\ Stops' = Stops
  BY DEF Nr, Stops

LEMMA ForkFailsKeeps ==
    ASSUME StopInv, NEW p \in Procs, ForkFails(p) \/ ReadEnd(p) PROVE StopInv'
  <1>1. PICK from \in {"fork", "collect"} : Moves(p, from, "fail")
    BY DEF ForkFails, ReadEnd
  <1>2. UNCHANGED <<forking, i, child, status, got, pipe, woken, out>> /\ UNCHANGED <<program, tree>>
    BY DEF ForkFails, ReadEnd, values, forking
  <1>3. at'[p] = "fail" /\ at[p] = from /\ Runs(p) /\ TypeOK
    BY <1>1, Moved DEF StopInv
  <1>4. p \in Members
    BY <1>3, Acting
  <1>5. Way(p)' /\ Valued(p)' /\ Counted(p)'
    BY <1>3 DEF Way, Valued, Counted
  <1> QED BY <1>1, <1>2, <1>3, <1>4, <1>5, GoesOn DEF TypeOK, Ended

LEMMA AwakeKeeps ==
    ASSUME StopInv, NEW p \in Procs, Awake(p) PROVE StopInv'
  <1> DEFINE to == IF Nr(p) = 0 THEN "result" ELSE "wake"
  <1>1. /\ Moves(p, "awake", to) /\ woken' = Append(woken, p)
        /\ UNCHANGED <<forking, i, child, status, got, pipe, out>> /\ UNCHANGED <<program, tree>>
    BY DEF Awake, values, forking
  <1>2. at'[p] = to /\ at[p] = "awake" /\ Runs(p) /\ TypeOK
    BY <1>1, Moved DEF StopInv
  <1>3. p \in Members /\ p # Main /\ Local(p) /\ Rooted
    BY <1>2, Acting
  <1>4. /\ Nr(p)' = Nr(p) /\ Stops' = Stops /\ Nr(p) \in Nat /\ Stops /\ i[p] = 0
        /\ got[p] = << >> /\ Len(<< >>) = 0
    BY <1>1, <1>2, <1>3, TreeShape, NoKids, EmptySeq DEF Local, Fresh, Young, Way
  <1>5. woken' \in Seq(Procs)
    BY <1>1, <1>2, AppendProperties DEF TypeOK
  <1>6. Way(p)' /\ Valued(p)' /\ Counted(p)'
    BY <1>1, <1>2, <1>3, <1>4 DEF Local, Way, Valued, Counted
  <1>7. to \in {"result", "wake"} /\ (to = "wake" => i[p] < Nr(p))
    BY <1>4
  <1> QED BY <1>1, <1>2, <1>3, <1>5, <1>6, <1>7, GoesOn DEF TypeOK, Ended

LEMMA ReadPipeKeeps ==
    ASSUME StopInv, NEW p \in Procs, ReadPipe(p) PROVE StopInv'
  <1> DEFINE to == IF Len(got[p]) + 1 = Nr(p) THEN "result" ELSE "collect"
  <1>1. /\ Moves(p, "collect", to) /\ pipe[p] # << >>
        /\ got' = [got EXCEPT ![p] = Append(got[p], Head(pipe[p]))]
        /\ pipe' = [pipe EXCEPT ![p] = Tail(pipe[p])]
        /\ UNCHANGED <<forking, i, child, status, woken, out>> /\ UNCHANGED <<program, tree>>
    BY DEF ReadPipe, forking
  <1>2. at'[p] = to /\ at[p] = "collect" /\ Runs(p) /\ TypeOK
    BY <1>1, Moved DEF StopInv
  <1>3. p \in Members /\ Local(p) /\ Rooted
    BY <1>2, Acting
  <1>4. /\ Head(pipe[p]) \in Int /\ Tail(pipe[p]) \in Seq(Int)
        /\ Append(got[p], Head(pipe[p])) \in Seq(Int)
        /\ Len(Append(got[p], Head(pipe[p]))) = Len(got[p]) + 1
        /\ Len(got[p]) \in Nat /\ got \in [Procs -> Seq(Int)] /\ pipe \in [Procs -> Seq(Int)]
    BY <1>1, <1>2, Typed, HeadTailProperties, AppendProperties
  <1>5. /\ got' \in [Procs -> Seq(Int)] /\ pipe' \in [Procs -> Seq(Int)]
        /\ \A q \in Procs \ {p} : got'[q] = got[q]
        /\ Len(got'[p]) = Len(got[p]) + 1
    BY <1>1, <1>4
  <1>6. /\ Nr(p)' = Nr(p) /\ Stops' = Stops /\ Nr(p) \in Nat
        /\ program = "expr" /\ Stops /\ Len(got[p]) < Nr(p)
    BY <1>1, <1>2, <1>3, TreeShape, NoKids DEF Local, Way, Valued, Stops
  <1>7. Way(p)' /\ Valued(p)' /\ Counted(p)'
    BY <1>1, <1>2, <1>3, <1>4, <1>5, <1>6 DEF Local, Way, Valued, Counted
  <1>8. to \in {"result", "collect"}
    OBVIOUS
  <1> QED BY <1>1, <1>2, <1>3, <1>5, <1>7, <1>8, GoesOn DEF TypeOK, Ended

\* The values a node computes with are there.
LEMMA ComputedIsInt ==
    ASSUME TypeOK, Rooted, NEW p \in Grown, Nr(p) \in {0, 2}, Len(got[p]) = Nr(p)
    PROVE  Computed(p) \in Int
  <1>1. p \in Procs /\ p # Main /\ got[p] \in Seq(Int) /\ Atoi[tree[p].name] \in Int
    BY TreeShape, Typed
  <1>2. Nr(p) # 0 => got[p][1] \in Int /\ got[p][2] \in Int
    BY <1>1, ElementOfSeq
  <1> QED BY <1>1, <1>2 DEF Computed

LEMMA ResultKeeps ==
    ASSUME StopInv, NEW p \in Procs, Result(p) PROVE StopInv'
  <1>1. /\ p # Main /\ Runs(p) /\ at[p] = "result"
        /\ UNCHANGED <<forking, i, child, status, pipe, woken, out>> /\ UNCHANGED <<program, tree>>
    BY DEF Result, forking
  <1>2. TypeOK /\ Rooted /\ p \in Members /\ Local(p) /\ p \in Grown
    BY <1>1, Acting DEF Members
  <1>3. /\ Nr(p)' = Nr(p) /\ Stops' = Stops /\ Stops /\ program \in {"signals", "expr", "rv"}
        /\ program # "signals" => Nr(p) \in {0, 2} /\ Len(got[p]) = Nr(p)
    BY <1>1, <1>2, NoKids, ProgramsAssumption DEF Local, Way, Valued, Stops, TypeOK
  <1>4. CASE got' = got /\ \E to \in {"exit", "fail"} :
                at' = [at EXCEPT ![p] = to] /\ (to = "exit" => program = "signals")
    <2>1. PICK to \in {"exit", "fail"} : Moves(p, "result", to) /\ (to = "exit" => program = "signals")
      BY <1>1, <1>4 DEF Moves
    <2>2. at'[p] = to
      BY <1>2, <2>1, Moved
    <2>3. Way(p)' /\ Valued(p)' /\ Counted(p)'
      BY <1>1, <2>1, <2>2 DEF Way, Valued, Counted
    <2> QED BY <1>1, <1>2, <1>4, <2>1, <2>3, GoesOn DEF TypeOK, Ended
  <1>5. CASE /\ program # "signals" /\ got' = [got EXCEPT ![p] = <<Computed(p)>>]
             /\ \E to \in {"exit", "write"} :
                   at' = [at EXCEPT ![p] = to] /\ (to = "write" => program = "expr")
    <2>1. PICK to \in {"exit", "write"} : Moves(p, "result", to) /\ (to = "write" => program = "expr")
      BY <1>1, <1>5 DEF Moves
    <2>2. at'[p] = to
      BY <1>2, <2>1, Moved
    <2>3. Computed(p) \in Int
      BY <1>2, <1>3, <1>5, ComputedIsInt
    <2>4. /\ got' \in [Procs -> Seq(Int)] /\ got'[p] # << >>
          /\ \A q \in Procs \ {p} : got'[q] = got[q]
      <3>1. <<Computed(p)>> \in Seq(Int) /\ <<Computed(p)>> # << >>
        BY <2>3
      <3> QED BY <1>2, <1>5, <3>1, Typed
    <2>5. Way(p)'
      BY <1>1, <1>3, <1>5, <2>1, <2>2 DEF Way
    <2>6. Valued(p)' /\ Counted(p)'
      BY <1>1, <2>1, <2>2, <2>4 DEF Valued, Counted
    <2> QED BY <1>1, <1>2, <2>1, <2>4, <2>5, <2>6, GoesOn DEF TypeOK, Ended
  <1> QED BY <1>4, <1>5 DEF Result

LEMMA WriteKeeps ==
    ASSUME StopInv, NEW p \in Procs, Write(p) PROVE StopInv'
  <1>1. /\ Moves(p, "write", "exit")
        /\ pipe' = [pipe EXCEPT ![Front(p)] = Append(pipe[Front(p)], got[p][1])]
        /\ UNCHANGED <<forking, i, child, status, got, woken, out>> /\ UNCHANGED <<program, tree>>
    BY DEF Write, forking
  <1>2. at'[p] = "exit" /\ at[p] = "write" /\ Runs(p) /\ TypeOK
    BY <1>1, Moved DEF StopInv
  <1>3. p \in Members /\ p # Main /\ p \in Grown /\ Local(p) /\ Rooted
    BY <1>2, Acting DEF Members
  <1>4. program = "expr" /\ got[p] # << >>
    BY <1>2, <1>3 DEF Local, Way, Valued
  <1>5. pipe' \in [Procs -> Seq(Int)]
    <2>1. Front(p) \in Procs
      BY <1>3, TreeShape
    <2>2. got[p][1] \in Int
      BY <1>2, <1>4, Typed, EmptySeq, ElementOfSeq
    <2>3. Append(pipe[Front(p)], got[p][1]) \in Seq(Int)
      BY <1>2, <2>1, <2>2, Typed, AppendProperties
    <2> QED BY <1>1, <1>2, <2>1, <2>3, Typed
  <1>6. Nr(p)' = Nr(p) /\ Stops' = Stops
    BY <1>1, NoKids
  <1>7. Way(p)' /\ Valued(p)' /\ Counted(p)'
    BY <1>1, <1>2, <1>3, <1>4, <1>6 DEF Local, Way, Valued, Counted
  <1> QED BY <1>1, <1>2, <1>3, <1>5, <1>7, GoesOn DEF TypeOK, Ended

LEMMA PhotoKeeps ==
    ASSUME StopInv, Photo PROVE StopInv'
  <1> DEFINE to == IF Stops THEN "wake" ELSE IF tree = << >> THEN "crash" ELSE "wait"
  <1>1. /\ Moves(Main, "photo", to)
        /\ UNCHANGED <<forking, i, child, status, got, pipe, woken, out>> /\ UNCHANGED <<program, tree>>
    BY DEF Photo, forking, values
  <1>2. Main \in Procs /\ TypeOK /\ Rooted /\ Main \in Members
    BY DEF StopInv, Procs, Members
  <1>3. at'[Main] = to /\ at[Main] = "photo" /\ Runs(Main)
    BY <1>1, <1>2, Moved
  <1>4. /\ Local(Main) /\ i[Main] = 0 /\ got[Main] = << >> /\ Len(<< >>) = 0
        /\ Nr(Main) = 1 /\ Nr(Main)' = Nr(Main) /\ Stops' = Stops
    BY <1>1, <1>2, <1>3, NoKids, EmptySeq DEF StopInv, Local, Fresh, Young, Nr
  <1>5. Way(Main)' /\ Valued(Main)' /\ Counted(Main)'
    BY <1>1, <1>3, <1>4 DEF Local, Way, Valued, Counted, Stops
  <1>6. to \in {"wake", "crash", "wait"} /\ to \notin Ended /\ to # "write"
    BY DEF Ended
  <1>7. /\ got' \in [Procs -> Seq(Int)] /\ pipe' \in [Procs -> Seq(Int)]
        /\ woken' \in Seq(Procs) /\ out' \in Seq(Int)
        /\ \A q \in Procs \ {Main} : got'[q] = got[q]
        /\ UNCHANGED <<forking, i, child, status>> /\ i[Main] < Nr(Main)
    BY <1>1, <1>2, <1>4 DEF TypeOK
  <1> HIDE DEF to
  <1> QED BY <1>1, <1>2, <1>5, <1>6, <1>7, GoesOn

LEMMA MainEndsKeeps ==
    ASSUME StopInv, MainEnds PROVE StopInv'
  <1>1. PICK from, to : /\ Moves(Main, from, to) /\ to \in Ended
                        /\ \/ from = "result" /\ out' = Append(out, got[Main][1])
                           \/ out' = out
    BY DEF MainEnds, Ended
  <1>2. UNCHANGED <<forking, i, child, status, got, pipe, woken>> /\ UNCHANGED <<program, tree>>
    BY DEF MainEnds, forking, values
  <1>3. Main \in Procs /\ TypeOK /\ Rooted /\ Main \in Members /\ Local(Main)
    BY DEF StopInv, Procs, Members
  <1>4. at'[Main] = to /\ at[Main] = from /\ Runs(Main)
    BY <1>1, <1>3, Moved
  <1>5. out' \in Seq(Int)
    <2>1. CASE from = "result"
      <3>1. Len(got[Main]) = 1
        BY <1>3, <1>4, <2>1, ProgramsAssumption DEF Local, Way, Valued, Nr, Stops, TypeOK
      <3>2. got[Main] \in Seq(Int) /\ 1 \in 1 .. Len(got[Main])
        BY <1>3, <3>1, Typed
      <3>3. got[Main][1] \in Int
        BY <3>2, ElementOfSeq
      <3>4. out \in Seq(Int)
        BY <1>3 DEF TypeOK
      <3>5. Append(out, got[Main][1]) \in Seq(Int)
        BY <3>3, <3>4, AppendProperties
      <3>6. out' = Append(out, got[Main][1]) \/ out' = out
        BY <1>1
      <3> QED BY <3>4, <3>5, <3>6
    <2>2. CASE from # "result"
      BY <1>1, <1>3, <2>2 DEF TypeOK
    <2> QED BY <2>1, <2>2
  <1>6. Way(Main)' /\ Valued(Main)' /\ Counted(Main)'
    BY <1>1, <1>4 DEF Way, Valued, Counted, Ended
  <1> QED BY <1>1, <1>2, <1>3, <1>5, <1>6, GoesOn DEF TypeOK, Ended

\* How many stops a parent has been told of.
LEMMA WaitedFinite ==
    ASSUME NEW p, Nr(p) \in Nat
    PROVE  IsFiniteSet(Waited(p)) /\ Cardinality(Waited(p)) \in Nat
  <1>1. IsFiniteSet(1 .. Nr(p)) /\ Waited(p) \subseteq 1 .. Nr(p)
    BY FS_Interval DEF Waited
  <1>2. IsFiniteSet(Waited(p))
    BY <1>1, FS_Subset
  <1> QED BY <1>2, FS_CardinalityType

\* The loop of p goes round.
LEMMA Advanced ==
    ASSUME TypeOK, NEW p \in Members, Nr(p) \in Nat, p \in Procs,
           i[p] + 1 \in 1 .. Nr(p), Advance(p)
    PROVE  /\ i' \in [Procs -> Nat] /\ \A q \in Procs \ {p} : i'[q] = i[q]
           /\ LastKid(p) => i'[p] = 0
           /\ ~LastKid(p) => i'[p] = i[p] + 1
           /\ i'[p] < Nr(p)
  <1>1. i \in [Procs -> Nat] /\ i[p] \in Nat /\ i[p] + 1 <= Nr(p)
    BY Typed
  <1>2. i' = [i EXCEPT ![p] = IF LastKid(p) THEN 0 ELSE i[p] + 1]
    BY DEF Advance
  <1> QED BY <1>1, <1>2 DEF LastKid

\* The child the loop is at.
LEMMA KidOf ==
    ASSUME Rooted, NEW p \in Members, i[p] + 1 \in 1 .. Nr(p)
    PROVE  \E c \in Procs \ {Main, p} :
              /\ c = Kid(p) /\ c = Append(p, i[p] + 1)
              /\ \A m \in 1 .. Nr(p) : Append(p, m) = c => m = i[p] + 1
              /\ tree # << >> => c \in Grown
  <1> DEFINE n == i[p] + 1
  <1>1. n \in 1 .. Nr(p)
    OBVIOUS
  <1> HIDE DEF n
  <1>2. /\ Append(p, n) \in Procs \ {Main, p}
        /\ \A m \in 1 .. Nr(p) : Append(p, n) = Append(p, m) => n = m
        /\ tree # << >> => Append(p, n) \in Grown
    BY <1>1, Kin
  <1>3. \A m \in 1 .. Nr(p) : Append(p, m) = Append(p, n) => m = n
    BY <1>2
  <1> QED BY <1>2, <1>3 DEF Kid, n

LEMMA ForkKeeps ==
    ASSUME StopInv, NEW p \in Procs, Fork(p) PROVE StopInv'
  <1> DEFINE to == IF LastKid(p) THEN AfterForks(p) ELSE "fork"
  <1>1. /\ Runs(p) /\ at[p] = "fork"
        /\ child' = [child EXCEPT ![Kid(p)] = Forked]
        /\ at' = [at EXCEPT ![Kid(p)] = "start", ![p] = to]
        /\ Advance(p)
        /\ UNCHANGED <<forking, status, got, pipe, woken, out>> /\ UNCHANGED <<program, tree, file>>
    BY DEF Fork, forking, values
  <1>2. /\ TypeOK /\ Rooted /\ ReadyRecursively /\ p \in Members /\ Local(p) /\ ~Ready(p)
        /\ i[p] \in Nat /\ i[p] + 1 \in 1 .. Nr(p) /\ Nr(p) \in Nat
        /\ p # Main => child[p].run = "running" /\ Seen(p)
    BY <1>1, Acting, TreeShape
  <1>3. PICK c \in Procs \ {Main, p} :
              /\ c = Kid(p) /\ c = Append(p, i[p] + 1)
              /\ \A m \in 1 .. Nr(p) : Append(p, m) = c => m = i[p] + 1
    BY <1>2, KidOf
  <1>4. at[c] = "unborn" /\ child[c].run = "none" /\ Seen(c)
    <2>1. i[p] + 1 \in i[p] + 1 .. Nr(p)
      BY <1>2
    <2>2. at[c] = "unborn"
      BY <1>1, <1>2, <1>3, <2>1 DEF Local, Fresh
    <2> QED BY <1>3, <2>2 DEF StopInv, Seen
  <1>5. /\ i' \in [Procs -> Nat] /\ \A q \in Procs \ {p} : i'[q] = i[q]
        /\ LastKid(p) => i'[p] = 0
        /\ ~LastKid(p) => i'[p] = i[p] + 1
        /\ i'[p] < Nr(p)
    BY <1>1, <1>2, Advanced
  <1>6. /\ to \in {"fork", "ready", "photo", "wait"} /\ (to = "fork" <=> ~LastKid(p))
        /\ (to = "photo" => p = Main /\ ~Stops) /\ (to = "ready" => Stops) /\ (to = "wait" => ~Stops)
    BY DEF AfterForks
  <1> HIDE DEF to
  <1>7. /\ at' \in [Procs -> Where] /\ at'[c] = "start" /\ at'[p] = to
        /\ \A q \in Procs \ {p, c} : at'[q] = at[q]
    BY <1>1, <1>2, <1>3, <1>6, Typed DEF Where
  <1>8. /\ child' \in [Procs -> Child] /\ child'[c] = Forked
        /\ \A q \in Procs \ {c} : child'[q] = child[q]
        /\ Forked.run = "running" /\ Forked.event = "none"
    BY <1>1, <1>2, <1>3, Typed DEF Child, Forked, Unborn
  <1>9. TypeOK'
    <2>1. \A q \in Procs \ {p} : (at'[q] = at[q] \/ at'[q] = "start") /\ i'[q] = i[q]
      BY <1>5, <1>7
    <2>2. /\ status' \in [Procs -> 0 .. 255] /\ got' \in [Procs -> Seq(Int)]
          /\ pipe' \in [Procs -> Seq(Int)] /\ woken' \in Seq(Procs) /\ out' \in Seq(Int)
      BY <1>1, <1>2 DEF TypeOK
    <2> QED BY <1>1, <1>2, <1>5, <1>7, <1>8, <2>1, <2>2, StillTyped
  <1>10. ReadyRecursively'
    <2>1. \A q \in Grown : child[q].run = "stopped" => child'[q].run = "stopped"
      BY <1>2, <1>4, <1>8, TreeShape
    <2>2. \A m \in Members : Ready(m)' => Ready(m)
      <3>1. Stops' = Stops
        BY <1>1, NoKids
      <3>2. \A m \in Members : m # Main /\ Ready(m)' => Ready(m)
        BY <1>2, <1>8, TreeShape DEF Ready
      <3>3. at'[Main] = "photo" /\ Stops => at[Main] = "photo"
        BY <1>3, <1>6, <1>7 DEF Procs
      <3> QED BY <3>1, <3>2, <3>3 DEF Ready
    <2> QED BY <1>1, <1>2, <2>1, <2>2, StaysReady
  <1>11. /\ Nr(p)' = Nr(p) /\ Nr(c)' = Nr(c) /\ Stops' = Stops /\ Waited(p)' \in SUBSET (1 .. Nr(p))
         /\ Cardinality(Waited(p)') \in Nat
    <2>1. \A q : Nr(q)' = Nr(q) /\ Stops' = Stops
      BY <1>1, NoKids
    <2>2. Waited(p)' \in SUBSET (1 .. Nr(p))
      BY <2>1 DEF Waited
    <2>3. IsFiniteSet(1 .. Nr(p))
      BY <1>2, FS_Interval
    <2>4. \A W \in SUBSET (1 .. Nr(p)) : Cardinality(W) \in Nat
      <3> TAKE W \in SUBSET (1 .. Nr(p))
      <3>1. IsFiniteSet(W)
        BY <2>3, FS_Subset
      <3> QED BY <3>1, FS_CardinalityType
    <2> QED BY <2>1, <2>2, <2>4
  <1>12. Local(p)'
    <2>1. got[p] = << >> /\ \A k \in i[p] + 1 .. Nr(p) : at[Append(p, k)] = "unborn"
      BY <1>1, <1>2 DEF Local, Fresh, Young
    <2>2. \A k \in i[p] + 2 .. Nr(p) : at'[Append(p, k)] = "unborn"
      <3>1. \A k \in i[p] + 2 .. Nr(p) : k \in 1 .. Nr(p) /\ k \in i[p] + 1 .. Nr(p) /\ k # i[p] + 1
        BY <1>2
      <3>2. \A k \in i[p] + 2 .. Nr(p) : Append(p, k) \in Procs \ {p, c}
        BY <1>2, <1>3, <3>1, Kin
      <3> QED BY <1>7, <2>1, <3>1, <3>2
    <2>3. Fresh(p)'
      <3>1. (i[p] + 1) + 1 = i[p] + 2
        BY <1>2
      <3>2. to = "fork" => \A k \in i'[p] + 1 .. Nr(p) : at'[Append(p, k)] = "unborn"
        BY <1>5, <1>6, <2>2, <3>1
      <3>3. to = "photo" => i'[p] = 0
        BY <1>5, <1>6
      <3> QED BY <1>1, <1>6, <1>7, <1>11, <2>1, <3>2, <3>3 DEF Fresh
    <2>4. Way(p)'
      BY <1>1, <1>2, <1>6, <1>7, <1>11 DEF Local, Way
    <2>5. Valued(p)'
      BY <1>1, <1>6, <1>7, <2>1, EmptySeq DEF Valued, Stops
    <2>6. Counted(p)'
      <3>1. to = "ready" => i'[p] = 0
        BY <1>5, <1>6
      <3> QED BY <1>6, <1>7, <1>11, <3>1 DEF Counted
    <2> QED BY <2>3, <2>4, <2>5, <2>6 DEF Local
  <1>13. Seen(c)'
    BY <1>7, <1>8 DEF Seen
  <1>14. c \in Members => Local(c)'
    <2> SUFFICES ASSUME c \in Members PROVE Local(c)'
      OBVIOUS
    <2>1. Fresh(c) /\ i'[c] = i[c] /\ got'[c] = got[c] /\ i[c] = 0 /\ got[c] = << >>
      BY <1>1, <1>3, <1>4, <1>5 DEF StopInv, Local, Fresh, Young
    <2>2. \A k \in 1 .. Nr(c) : at'[Append(c, k)] = "unborn"
      <3>1. \A k \in 1 .. Nr(c) : Append(c, k) \in Procs \ {c}
        BY <1>2, Kin
      <3>2. \A k \in 0 + 1 .. Nr(c) : at[Append(c, k)] = "unborn"
        BY <1>4, <2>1 DEF Fresh
      <3>3. \A k \in 1 .. Nr(c) : at[Append(c, k)] = "unborn"
        BY <3>2
      <3> QED BY <1>1, <1>7, <3>1, <3>3
    <2>3. Fresh(c)'
      BY <1>11, <2>1, <2>2 DEF Fresh
    <2>4. Way(c)' /\ Valued(c)' /\ Counted(c)'
      BY <1>7 DEF Way, Valued, Counted
    <2> QED BY <2>3, <2>4 DEF Local
  <1>15. p # Main => Seen(p)' /\ (child'[p].run = "stopped" => child'[p].event = "stopped")
    <2>1. child'[p] = child[p]
      BY <1>3, <1>8
    <2> QED BY <1>2, <1>6, <1>7, <2>1 DEF Seen
  <1>16. p = Main => MainSeen'
    BY <1>6, <1>7 DEF MainSeen
  <1>17. /\ p \in Members /\ \E k \in 1 .. Nr(p) : c = Append(p, k)
         /\ \A q \in Procs \ {p} : i'[q] = i[q] /\ got'[q] = got[q]
         /\ \A q \in Procs \ {p, c} : at'[q] = at[q] /\ child'[q] = child[q]
         /\ c \notin Members => at'[c] \in {"start", "fail", "crash", "done"}
    BY <1>1, <1>2, <1>3, <1>5, <1>7, <1>8
  <1> QED
    BY <1>1, <1>3, <1>9, <1>10, <1>12, <1>13, <1>14, <1>15, <1>16, <1>17, StepOf DEF forking

LEMMA KernelActs ==
    ASSUME NEW x \in Child
    PROVE  /\ Reported(x) \in Child /\ Reported(x).event = "none"
           /\ Reported(x).run = IF x.event = "exited" THEN "reaped" ELSE x.run
           /\ Raise(x) \in Child /\ Raise(x).event = "stopped" /\ Raise(x).run = "stopped"
           /\ Die(x) \in Child /\ Die(x).event = "exited" /\ Die(x).run = "zombie"
           /\ SendCont(x) \in Child
           /\ x.run = "stopped" => SendCont(x).run = "running" /\ SendCont(x).event = "continued"
           /\ x.run # "stopped" => SendCont(x).run = x.run /\ SendCont(x).event = x.event
  BY DEF Child, Reported, Raise, Die, SendCont

\* One more stop is reported.
LEMMA OneMoreStop ==
    ASSUME NEW p, Nr(p) \in Nat, Nr(p)' = Nr(p), NEW k \in 1 .. Nr(p), k \notin Waited(p),
           k \in Waited(p)',
           \A m \in 1 .. Nr(p) : m # k => (m \in Waited(p)' <=> m \in Waited(p))
    PROVE  /\ Cardinality(Waited(p)') = Cardinality(Waited(p)) + 1
           /\ Cardinality(Waited(p)') >= Nr(p) => Waited(p)' = 1 .. Nr(p)
           /\ Cardinality(Waited(p)) \in Nat
  <1>1. /\ IsFiniteSet(Waited(p)) /\ Cardinality(Waited(p)) \in Nat
        /\ Waited(p) \subseteq 1 .. Nr(p) /\ Waited(p)' \subseteq 1 .. Nr(p)
    BY WaitedFinite DEF Waited
  <1>2. Waited(p)' = Waited(p) \cup {k}
    BY <1>1
  <1>3. Cardinality(Waited(p) \cup {k}) = Cardinality(Waited(p)) + 1
    BY <1>1, FS_AddElement
  <1>4. Cardinality(1 .. Nr(p)) = Nr(p) /\ IsFiniteSet(1 .. Nr(p))
    BY FS_Interval
  <1>5. Cardinality(Waited(p)') >= Nr(p) => Waited(p)' = 1 .. Nr(p)
    <2>1. \A W \in SUBSET (1 .. Nr(p)) :
              /\ Cardinality(W) \in Nat /\ Cardinality(W) <= Nr(p)
              /\ Cardinality(W) = Nr(p) => W = 1 .. Nr(p)
      <3> TAKE W \in SUBSET (1 .. Nr(p))
      <3>1. IsFiniteSet(W) /\ Cardinality(W) <= Nr(p) /\ (Cardinality(W) = Nr(p) => W = 1 .. Nr(p))
        BY <1>4, FS_Subset
      <3> QED BY <3>1, FS_CardinalityType
    <2>2. PICK W \in SUBSET (1 .. Nr(p)) : W = Waited(p)'
      BY <1>1
    <2>3. Cardinality(W) >= Nr(p) => W = 1 .. Nr(p)
      BY <2>1
    <2> QED BY <2>2, <2>3
  <1> QED BY <1>1, <1>2, <1>3, <1>5

LEMMA WaitReadyKeeps ==
    ASSUME StopInv, NEW p \in Procs, WaitReady(p) PROVE StopInv'
  <1>1. /\ Runs(p) /\ at[p] = "ready" /\ Advance(p)
        /\ UNCHANGED <<forking, status, got, pipe, woken, out>> /\ UNCHANGED <<program, tree, file>>
    BY DEF WaitReady, forking, values
  <1>2. /\ TypeOK /\ Rooted /\ ReadyRecursively /\ p \in Members /\ Local(p) /\ ~Ready(p)
        /\ i[p] \in Nat /\ i[p] + 1 \in 1 .. Nr(p) /\ Nr(p) \in Nat
        /\ p # Main => child[p].run = "running" /\ Seen(p)
    BY <1>1, Acting, TreeShape
  <1>3. PICK k \in 1 .. Nr(p) :
              LET c == Append(p, k)
              IN  /\ Reportable(child[c], {"stopped", "exited"})
                  /\ at' = [at EXCEPT ![p] = AfterReady(p, child[c].event)]
                  /\ child' = [child EXCEPT ![c] = Reported(child[c])]
    BY DEF WaitReady, Kids
  <1>4. PICK c \in Procs \ {Main, p} :
              /\ c = Append(p, k)
              /\ \A m \in 1 .. Nr(p) : Append(p, m) = c => m = k
    <2>1. \A m \in 1 .. Nr(p) : Append(p, k) = Append(p, m) => k = m
      BY <1>2, Kin
    <2>2. Append(p, k) \in Procs \ {Main, p}
      BY <1>2, Kin
    <2> QED BY <2>1, <2>2
  <1> DEFINE e == child[c].event
             to == AfterReady(p, e)
  <1>5. /\ e \in {"stopped", "exited"} /\ Seen(c) /\ child[c] \in Child
        /\ at' = [at EXCEPT ![p] = to]
        /\ child' = [child EXCEPT ![c] = Reported(child[c])]
    BY <1>2, <1>3, <1>4, Typed DEF StopInv, Reportable
  <1>6. /\ child[c].run = IF e = "stopped" THEN "stopped" ELSE "zombie"
        /\ at[c] = IF e = "stopped" THEN "awake" ELSE "done"
    BY <1>5 DEF Seen
  <1>7. /\ i' \in [Procs -> Nat] /\ \A q \in Procs \ {p} : i'[q] = i[q]
        /\ LastKid(p) => i'[p] = 0
        /\ ~LastKid(p) => i'[p] = i[p] + 1
        /\ i'[p] < Nr(p)
    BY <1>1, <1>2, Advanced
  <1>8. /\ to \in {"fail", "ready", "photo", "raise"}
        /\ to # "fail" => e = "stopped"
        /\ to = "ready" => ~LastKid(p)
        /\ to = "raise" => LastKid(p) /\ p # Main
        /\ to = "photo" => LastKid(p) /\ p = Main
    BY DEF AfterReady, Stopped
  <1> HIDE DEF to
  <1>9. /\ at' \in [Procs -> Where] /\ at'[p] = to /\ \A q \in Procs \ {p} : at'[q] = at[q]
    BY <1>2, <1>5, <1>8, Typed DEF Where
  <1>10. /\ child' \in [Procs -> Child] /\ \A q \in Procs \ {c} : child'[q] = child[q]
         /\ child'[c].event = "none"
         /\ child'[c].run = IF e = "stopped" THEN "stopped" ELSE "reaped"
    <2>1. child'[c] = Reported(child[c]) /\ Reported(child[c]) \in Child
      BY <1>2, <1>5, KernelActs, Typed
    <2> QED BY <1>2, <1>5, <1>6, <2>1, KernelActs, Typed
  <1> HIDE DEF e
  <1>11. TypeOK'
    <2>1. /\ status' \in [Procs -> 0 .. 255] /\ got' \in [Procs -> Seq(Int)]
          /\ pipe' \in [Procs -> Seq(Int)] /\ woken' \in Seq(Procs) /\ out' \in Seq(Int)
      BY <1>1, <1>2 DEF TypeOK
    <2> QED BY <1>1, <1>2, <1>7, <1>9, <1>10, <2>1, StillTyped
  <1>12. Nr(p)' = Nr(p) /\ Stops' = Stops
    BY <1>1, NoKids
  <1>13. e = "stopped" =>
            /\ Cardinality(Waited(p)') >= i[p] + 1
            /\ LastKid(p) => \A m \in 1 .. Nr(p) : child'[Append(p, m)].run = "stopped"
    <2> SUFFICES ASSUME e = "stopped"
                 PROVE  /\ Cardinality(Waited(p)') >= i[p] + 1
                        /\ LastKid(p) => \A m \in 1 .. Nr(p) : child'[Append(p, m)].run = "stopped"
      OBVIOUS
    <2>1. k \notin Waited(p)
      BY <1>4 DEF Waited, e
    <2>2. k \in Waited(p)'
      BY <1>4, <1>10, <1>12 DEF Waited
    <2>3. \A m \in 1 .. Nr(p) : m # k => child'[Append(p, m)] = child[Append(p, m)]
      <3>1. \A m \in 1 .. Nr(p) : Append(p, m) \in Procs
        BY <1>2, Kin
      <3> QED BY <1>4, <1>10, <3>1
    <2>4. \A m \in 1 .. Nr(p) : m # k => (m \in Waited(p)' <=> m \in Waited(p))
      BY <1>12, <2>3 DEF Waited
    <2>5. /\ Cardinality(Waited(p)') = Cardinality(Waited(p)) + 1
          /\ Cardinality(Waited(p)') >= Nr(p) => Waited(p)' = 1 .. Nr(p)
          /\ Cardinality(Waited(p)) \in Nat
      BY <1>2, <1>12, <2>1, <2>2, <2>4, OneMoreStop
    <2>6. Cardinality(Waited(p)) >= i[p]
      BY <1>1, <1>2 DEF Local, Counted
    <2>7. LastKid(p) => Waited(p)' = 1 .. Nr(p)
      BY <1>2, <2>5, <2>6 DEF LastKid
    <2>8. LastKid(p) => \A m \in 1 .. Nr(p) : child'[Append(p, m)].run = "stopped"
      BY <2>7 DEF Waited
    <2> QED BY <1>2, <2>5, <2>6, <2>8
  <1>14. /\ \A q \in Grown : child[q].run = "stopped" => child'[q].run = "stopped"
         /\ \A q \in Procs : child'[q].run = "stopped" => child[q].run = "stopped"
    <2>1. \A q \in Procs : child'[q].run = "stopped" <=> child[q].run = "stopped"
      BY <1>6, <1>10
    <2> QED BY <1>2, <2>1, TreeShape
  <1>15. ReadyRecursively'
    <2>1. to = "photo" => \A m \in 1 .. Nr(p) : LET r == Append(p, m)
                                IN  child[r].run = "stopped" /\ child'[r].run = "stopped"
      <3>1. \A m \in 1 .. Nr(p) : Append(p, m) \in Procs
        BY <1>2, Kin
      <3> QED BY <1>8, <1>13, <1>14, <3>1
    <2>2. \A m \in Members : m # Main /\ Ready(m)' => Ready(m)
      BY <1>2, <1>14, TreeShape DEF Ready
    <2>3. Ready(Main)' /\ ~Ready(Main) => p = Main /\ to = "photo"
      BY <1>9, <1>12 DEF Ready, Procs
    <2>4. \A m \in Members : Ready(m)' => \/ Ready(m)
                                          \/ \A n \in 1 .. Nr(m) :
                                                LET r == Append(m, n)
                                                IN  child[r].run = "stopped" /\ child'[r].run = "stopped"
      BY <2>1, <2>2, <2>3
    <2> QED BY <1>1, <1>2, <1>14, <2>4, StaysReady
  <1>16. Local(p)'
    <2>1. Fresh(p)'
      <3>1. got'[p] = << >>
        BY <1>1, <1>2 DEF Local, Fresh, Young
      <3> QED BY <1>7, <1>8, <1>9, <3>1 DEF Fresh
    <2>2. Way(p)'
      BY <1>1, <1>2, <1>8, <1>9, <1>12 DEF Local, Way
    <2>3. Valued(p)'
      BY <1>8, <1>9 DEF Valued
    <2>4. Counted(p)'
      <3>1. to = "ready" => Cardinality(Waited(p)') >= i'[p]
        BY <1>7, <1>8, <1>13
      <3>2. to \in {"raise", "photo"} => \A m \in i'[p] + 1 .. Nr(p) : child'[Append(p, m)].run = "stopped"
        <4>1. \A m \in 0 + 1 .. Nr(p) : m \in 1 .. Nr(p)
          OBVIOUS
        <4> QED BY <1>7, <1>8, <1>13, <4>1
      <3> QED BY <1>8, <1>9, <1>12, <3>1, <3>2 DEF Counted
    <2> QED BY <2>1, <2>2, <2>3, <2>4 DEF Local
  <1>17. Seen(c)' /\ at'[c] = at[c]
    BY <1>4, <1>6, <1>9, <1>10 DEF Seen
  <1>18. p # Main => Seen(p)' /\ (child'[p].run = "stopped" => child'[p].event = "stopped")
    BY <1>2, <1>4, <1>8, <1>9, <1>10 DEF Seen
  <1>19. p = Main => MainSeen'
    BY <1>8, <1>9 DEF MainSeen
  <1>20. /\ p \in Members /\ \E m \in 1 .. Nr(p) : c = Append(p, m)
         /\ \A q \in Procs \ {p} : i'[q] = i[q] /\ got'[q] = got[q]
         /\ \A q \in Procs \ {p, c} : at'[q] = at[q] /\ child'[q] = child[q]
    BY <1>1, <1>2, <1>4, <1>7, <1>9, <1>10
  <1> QED
    BY <1>1, <1>4, <1>11, <1>15, <1>16, <1>17, <1>18, <1>19, <1>20, StepOf DEF forking

LEMMA RaiseStopKeeps ==
    ASSUME StopInv, NEW p \in Procs, RaiseStop(p) PROVE StopInv'
  <1>1. /\ Moves(p, "raise", "awake") /\ child' = [child EXCEPT ![p] = Raise(child[p])]
        /\ UNCHANGED <<forking, i, status, got, pipe, woken, out>> /\ UNCHANGED <<program, tree, file>>
    BY DEF RaiseStop, forking, values
  <1>2. /\ Runs(p) /\ at[p] = "raise" /\ at'[p] = "awake" /\ TypeOK
        /\ \A q \in Procs \ {p} : at'[q] = at[q]
        /\ at' \in [Procs -> Where]
    BY <1>1, Moved DEF StopInv, Where
  <1>3. /\ Rooted /\ ReadyRecursively /\ p \in Members /\ p # Main /\ Local(p) /\ ~Ready(p)
        /\ Nr(p) \in Nat /\ i[p] = 0 /\ Nr(p)' = Nr(p) /\ Stops' = Stops
    BY <1>1, <1>2, Acting, TreeShape, NoKids DEF Local, Fresh
  <1>4. /\ child' \in [Procs -> Child] /\ \A q \in Procs \ {p} : child'[q] = child[q]
        /\ child'[p].event = "stopped" /\ child'[p].run = "stopped"
    BY <1>1, <1>2, KernelActs, Typed
  <1>5. TypeOK'
    BY <1>1, <1>2, <1>4, StillTyped DEF TypeOK
  <1>6. \A k \in 1 .. Nr(p) : LET c == Append(p, k)
                              IN  child[c].run = "stopped" /\ child'[c].run = "stopped"
    <2>1. \A k \in 0 + 1 .. Nr(p) : child[Append(p, k)].run = "stopped"
      BY <1>2, <1>3 DEF Local, Counted
    <2>2. \A k \in 1 .. Nr(p) : Append(p, k) \in Procs \ {p}
      BY <1>3, Kin
    <2> QED BY <1>4, <2>1, <2>2
  <1>7. ReadyRecursively'
    <2>1. \A q \in Grown : child[q].run = "stopped" => child'[q].run = "stopped"
      BY <1>3, <1>4, TreeShape
    <2>2. \A m \in Members : m # p /\ Ready(m)' => Ready(m)
      BY <1>2, <1>3, <1>4, TreeShape DEF Ready
    <2> QED BY <1>1, <1>3, <1>6, <2>1, <2>2, StaysReady
  <1>8. Local(p)'
    <2>1. Fresh(p)'
      BY <1>1, <1>2, <1>3 DEF Local, Fresh, Young
    <2>2. Way(p)' /\ Valued(p)'
      BY <1>1, <1>2, <1>3 DEF Local, Way, Valued
    <2>3. Counted(p)'
      <3>1. \A k \in 0 + 1 .. Nr(p) : k \in 1 .. Nr(p)
        OBVIOUS
      <3> QED BY <1>1, <1>2, <1>3, <1>6, <3>1 DEF Counted
    <2> QED BY <2>1, <2>2, <2>3 DEF Local
  <1>9. Seen(p)' /\ child'[p].event = "stopped"
    BY <1>2, <1>4 DEF Seen
  <1> QED BY <1>1, <1>2, <1>3, <1>4, <1>5, <1>7, <1>8, <1>9, StepOf DEF forking

LEMMA WakeKeeps ==
    ASSUME StopInv, NEW p \in Procs, Wake(p) PROVE StopInv'
  <1>1. /\ Moves(p, "wake", "wait") /\ child' = [child EXCEPT ![Kid(p)] = SendCont(child[Kid(p)])]
        /\ UNCHANGED <<forking, i, status, got, pipe, woken, out>> /\ UNCHANGED <<program, tree, file>>
    BY DEF Wake, forking, values
  <1>2. /\ Runs(p) /\ at[p] = "wake" /\ at'[p] = "wait" /\ TypeOK
        /\ \A q \in Procs \ {p} : at'[q] = at[q]
        /\ at' \in [Procs -> Where]
    BY <1>1, Moved DEF StopInv, Where
  <1>3. /\ Rooted /\ ReadyRecursively /\ p \in Members /\ Local(p) /\ ~Ready(p)
        /\ i[p] \in Nat /\ i[p] + 1 \in 1 .. Nr(p) /\ Nr(p) \in Nat /\ i[p] < Nr(p)
        /\ p # Main => child[p].run = "running" /\ Seen(p)
        /\ Nr(p)' = Nr(p) /\ Stops' = Stops
    BY <1>1, <1>2, Acting, TreeShape, NoKids
  <1>4. PICK c \in Procs \ {Main, p} :
              /\ c = Kid(p) /\ c = Append(p, i[p] + 1)
              /\ \A m \in 1 .. Nr(p) : Append(p, m) = c => m = i[p] + 1
    BY <1>3, KidOf
  <1>5. child[c].run = "stopped" /\ Seen(c)
    <2>1. i[p] + 1 \in i[p] + 1 .. Nr(p)
      BY <1>3
    <2>2. child[c].run = "stopped"
      BY <1>2, <1>3, <1>4, <2>1 DEF Local, Counted
    <2> QED BY <1>4, <2>2 DEF StopInv
  <1>6. /\ child' \in [Procs -> Child] /\ \A q \in Procs \ {c} : child'[q] = child[q]
        /\ child'[c].event = "continued" /\ child'[c].run = "running"
    BY <1>1, <1>2, <1>4, <1>5, KernelActs, Typed
  <1>7. TypeOK'
    BY <1>1, <1>2, <1>3, <1>6, StillTyped DEF TypeOK
  <1>8. ReadyRecursively'
    <2>1. \A q \in Grown : child[q].run = "stopped" /\ child'[q].run # "stopped"
                              => \E k \in 1 .. Nr(p) : q = Append(p, k)
      BY <1>3, <1>4, <1>6, TreeShape
    <2>2. \A m \in Members : m # Main /\ Ready(m)' => Ready(m)
      BY <1>3, <1>6, TreeShape DEF Ready
    <2>3. Ready(Main)' => Ready(Main)
      BY <1>2, <1>3 DEF Ready, Procs
    <2> QED BY <1>1, <1>3, <2>1, <2>2, <2>3, StaysReady
  <1>9. Local(p)'
    <2>1. Fresh(p)'
      BY <1>2 DEF Fresh, Young
    <2>2. Way(p)' /\ Valued(p)'
      BY <1>1, <1>2, <1>3 DEF Local, Way, Valued
    <2>3. Counted(p)'
      <3>1. \A k \in i[p] + 2 .. Nr(p) : /\ k \in 1 .. Nr(p) /\ k \in i[p] + 1 .. Nr(p)
                                         /\ k # i[p] + 1
        BY <1>3
      <3>2. \A k \in i[p] + 2 .. Nr(p) : Append(p, k) \in Procs \ {c}
        BY <1>3, <1>4, <3>1, Kin
      <3>3. \A k \in i[p] + 2 .. Nr(p) : child'[Append(p, k)].run = "stopped"
        BY <1>2, <1>3, <1>6, <3>1, <3>2 DEF Local, Counted
      <3> QED BY <1>1, <1>2, <1>3, <3>3 DEF Counted
    <2> QED BY <2>1, <2>2, <2>3 DEF Local
  <1>10. Seen(c)' /\ at'[c] = at[c]
    BY <1>2, <1>4, <1>5, <1>6 DEF Seen
  <1>11. p # Main => Seen(p)' /\ (child'[p].run = "stopped" => child'[p].event = "stopped")
    BY <1>2, <1>3, <1>4, <1>6 DEF Seen
  <1>12. p = Main => MainSeen'
    BY <1>2 DEF MainSeen
  <1>13. /\ p \in Members /\ \E k \in 1 .. Nr(p) : c = Append(p, k)
         /\ \A q \in Procs \ {p} : i'[q] = i[q] /\ got'[q] = got[q]
         /\ \A q \in Procs \ {p, c} : at'[q] = at[q] /\ child'[q] = child[q]
    BY <1>1, <1>2, <1>3, <1>4, <1>6
  <1> QED
    BY <1>1, <1>2, <1>4, <1>7, <1>8, <1>9, <1>10, <1>11, <1>12, <1>13, StepOf DEF forking

LEMMA StatusIsByte ==
    ASSUME TypeOK, NEW p \in Procs, Valued(p), at[p] \in {"exit", "fail", "crash"}
    PROVE  StatusOf(p) \in 0 .. 255
  <1>1. ASSUME program = "rv", at[p] = "exit" PROVE got[p][1] % 256 \in 0 .. 255
    <2>1. got[p] \in Seq(Int) /\ got[p] # << >>
      BY <1>1, Typed DEF Valued
    <2>2. got[p][1] \in Int
      BY <2>1, EmptySeq, ElementOfSeq
    <2>3. \A n \in Int : n % 256 \in 0 .. 255
      OBVIOUS
    <2> QED BY <2>2, <2>3
  <1>2. \/ StatusOf(p) \in {0, 1, 9}
        \/ program = "rv" /\ at[p] = "exit" /\ StatusOf(p) = got[p][1] % 256
    BY DEF StatusOf
  <1>3. \A n \in {0, 1, 9} : n \in 0 .. 255
    OBVIOUS
  <1> QED BY <1>1, <1>2, <1>3

LEMMA ExitKeeps ==
    ASSUME StopInv, NEW p \in Procs, Exit(p) PROVE StopInv'
  <1>1. /\ p # Main /\ Runs(p) /\ at[p] \in {"exit", "fail", "crash"}
        /\ child' = [child EXCEPT ![p] = Die(child[p])]
        /\ status' = [status EXCEPT ![p] = StatusOf(p)]
        /\ at' = [at EXCEPT ![p] = "done"]
        /\ UNCHANGED <<forking, i, got, pipe, woken, out>> /\ UNCHANGED <<program, tree, file>>
    BY DEF Exit, forking
  <1>2. TypeOK /\ Rooted /\ ReadyRecursively /\ (p \in Members => Local(p))
    BY DEF StopInv
  <1>3. /\ at' \in [Procs -> Where] /\ at'[p] = "done" /\ \A q \in Procs \ {p} : at'[q] = at[q]
    BY <1>1, <1>2, Typed DEF Where, Ended
  <1>4. /\ child' \in [Procs -> Child] /\ \A q \in Procs \ {p} : child'[q] = child[q]
        /\ child'[p].event = "exited" /\ child'[p].run = "zombie"
    BY <1>1, <1>2, KernelActs, Typed
  <1>5. StatusOf(p) \in 0 .. 255
    <2>1. CASE p \in Members
      BY <1>1, <1>2, <2>1, StatusIsByte DEF Local
    <2>2. CASE p \notin Members
      <3>1. at[p] \in {"fail", "crash"}
        BY <1>1, <1>2, <2>2 DEF Rooted
      <3>2. StatusOf(p) \in {0, 1}
        BY <3>1 DEF StatusOf
      <3> QED BY <3>2
    <2> QED BY <2>1, <2>2
  <1>6. TypeOK'
    <2>1. status' \in [Procs -> 0 .. 255]
      BY <1>1, <1>2, <1>5 DEF TypeOK
    <2> QED BY <1>1, <1>2, <1>3, <1>4, <2>1, StillTyped DEF TypeOK
  <1>7. ReadyRecursively'
    <2>1. Grown' = Grown /\ Stops' = Stops /\ (\A q : Descendants(q)' = Descendants(q)) /\ Main \in Procs
      BY <1>1, NoKids DEF Grown, Descendants, Procs
    <2>2. Grown \subseteq Procs
      BY <1>2, TreeShape
    <2>3. \A q \in Grown : q # p => child'[q] = child[q]
      BY <1>4, <2>2
    <2>4. \A q \in Grown \cup {Main} : Ready(q)' => Ready(q)
      BY <1>1, <1>3, <1>4, <2>1, <2>2 DEF Ready
    <2>5. child[p].run = "running"
      BY <1>1 DEF Runs
    <2>6. \A q \in Grown : child[q].run = "stopped" => child'[q].run = "stopped"
      BY <2>3, <2>5
    <2>7. \A q : Descendants(q) \subseteq Grown
      BY DEF Descendants
    <2> QED BY <1>2, <2>1, <2>4, <2>6, <2>7 DEF ReadyRecursively
  <1>8. p \in Members => Local(p)'
    BY <1>3 DEF Local, Fresh, Young, Way, Valued, Counted
  <1>9. Seen(p)' /\ child'[p].run # "stopped"
    BY <1>3, <1>4 DEF Seen
  <1> QED BY <1>1, <1>2, <1>3, <1>4, <1>6, <1>7, <1>8, <1>9, StepOf DEF forking

LEMMA WaitKidKeeps ==
    ASSUME StopInv, NEW p \in Procs, WaitKid(p) PROVE StopInv'
  <1> DEFINE to == IF LastKid(p) THEN AfterWaits ELSE IF Stops THEN "wake" ELSE "wait"
  <1>1. /\ Moves(p, "wait", to) /\ Advance(p)
        /\ UNCHANGED <<forking, status, pipe, woken, out>> /\ UNCHANGED <<program, tree, file>>
    BY DEF WaitKid, forking
  <1>2. /\ to \in {"collect", "result", "exit", "wake", "wait"}
        /\ to = "wake" => Stops /\ ~LastKid(p)
        /\ to = "wait" => ~Stops /\ ~LastKid(p)
        /\ to \in {"collect", "result", "exit"} => LastKid(p) /\ to = AfterWaits
    BY DEF AfterWaits
  <1> HIDE DEF to
  <1>3. /\ Runs(p) /\ at[p] = "wait" /\ at'[p] = to /\ TypeOK
        /\ \A q \in Procs \ {p} : at'[q] = at[q]
        /\ at' \in [Procs -> Where]
    BY <1>1, <1>2, Moved DEF StopInv, Where
  <1>4. /\ Rooted /\ ReadyRecursively /\ p \in Members /\ Local(p) /\ ~Ready(p)
        /\ i[p] \in Nat /\ i[p] + 1 \in 1 .. Nr(p) /\ Nr(p) \in Nat
        /\ p # Main => child[p].run = "running" /\ Seen(p)
        /\ Nr(p)' = Nr(p) /\ Stops' = Stops
    BY <1>1, <1>3, Acting, TreeShape, NoKids
  <1>5. PICK k \in 1 .. Nr(p) :
              LET c == Append(p, k)
              IN  /\ Gone(child[c])
                  /\ child' = [child EXCEPT ![c] = Reported(child[c])]
                  /\ got' = IF program = "rv" THEN [got EXCEPT ![p] = Append(got[p], status[c])]
                                              ELSE got
    BY <1>4 DEF WaitKid, WaitsFor, Kids, Kid
  <1>6. PICK c \in Procs \ {Main, p} : c = Append(p, k)
    BY <1>4, Kin
  <1>7. Gone(child[c]) /\ child[c].event = "exited" /\ child[c].run = "zombie" /\ at[c] = "done"
    BY <1>5, <1>6 DEF StopInv, Seen, Gone, Reportable
  <1>8. /\ child' \in [Procs -> Child] /\ \A q \in Procs \ {c} : child'[q] = child[q]
        /\ child'[c].event = "none" /\ child'[c].run = "reaped"
    BY <1>3, <1>5, <1>6, <1>7, KernelActs, Typed
  <1>9. /\ i' \in [Procs -> Nat] /\ \A q \in Procs \ {p} : i'[q] = i[q]
        /\ LastKid(p) => i'[p] = 0
        /\ ~LastKid(p) => i'[p] = i[p] + 1
        /\ i'[p] < Nr(p)
    BY <1>1, <1>3, <1>4, Advanced
  <1>10. /\ got' \in [Procs -> Seq(Int)] /\ \A q \in Procs \ {p} : got'[q] = got[q]
         /\ Len(got'[p]) = IF program = "rv" THEN i[p] + 1 ELSE 0
    <2>1. Len(got[p]) = IF program = "rv" THEN i[p] ELSE 0
      BY <1>3, <1>4 DEF Local, Valued
    <2>2. got \in [Procs -> Seq(Int)] /\ got[p] \in Seq(Int) /\ status[c] \in Int
      <3>1. status \in [Procs -> 0 .. 255]
        BY <1>3 DEF TypeOK
      <3>2. status[c] \in 0 .. 255
        BY <1>6, <3>1
      <3>3. status[c] \in Int
        BY <3>2
      <3> QED BY <1>3, <3>3, Typed
    <2>3. Append(got[p], status[c]) \in Seq(Int) /\ Len(Append(got[p], status[c])) = Len(got[p]) + 1
      BY <2>2, AppendProperties
    <2>4. got' = IF program = "rv" THEN [got EXCEPT ![p] = Append(got[p], status[c])] ELSE got
      BY <1>5, <1>6
    <2> QED BY <2>1, <2>2, <2>3, <2>4
  <1>11. TypeOK'
    <2>1. /\ status' \in [Procs -> 0 .. 255] /\ pipe' \in [Procs -> Seq(Int)]
          /\ woken' \in Seq(Procs) /\ out' \in Seq(Int)
      BY <1>1, <1>3 DEF TypeOK
    <2> QED BY <1>1, <1>3, <1>8, <1>9, <1>10, <2>1, StillTyped
  <1>12. \A q \in Procs : child'[q].run = "stopped" <=> child[q].run = "stopped"
    BY <1>7, <1>8
  <1>13. ReadyRecursively'
    <2>1. \A q \in Grown : child[q].run = "stopped" => child'[q].run = "stopped"
      BY <1>4, <1>12, TreeShape
    <2>2. \A m \in Members : m # Main /\ Ready(m)' => Ready(m)
      BY <1>4, <1>12, TreeShape DEF Ready
    <2>3. Ready(Main)' => Ready(Main)
      BY <1>2, <1>3, <1>4 DEF Ready, Procs
    <2> QED BY <1>1, <1>4, <2>1, <2>2, <2>3, StaysReady
  <1>14. Local(p)'
    <2>1. Fresh(p)'
      BY <1>2, <1>3 DEF Fresh, Young
    <2>2. Way(p)'
      BY <1>1, <1>2, <1>3, <1>4 DEF Local, Way, AfterWaits, Stops
    <2>3. Valued(p)'
      <3>1. to \in {"wake", "wait"} => Len(got'[p]) = IF program = "rv" THEN i'[p] ELSE 0
        BY <1>2, <1>9, <1>10
      <3>2. to = "collect" => Len(got'[p]) < Nr(p)
        BY <1>2, <1>4, <1>10 DEF AfterWaits
      <3>3. to = "result" => Len(got'[p]) = Nr(p)
        BY <1>2, <1>4, <1>10 DEF AfterWaits, LastKid
      <3>4. to = "exit" => program \notin {"expr", "rv"}
        BY <1>2 DEF AfterWaits
      <3> QED BY <1>1, <1>2, <1>3, <1>4, <3>1, <3>2, <3>3, <3>4 DEF Valued
    <2>4. Counted(p)'
      <3>1. Stops => \A m \in i[p] + 2 .. Nr(p) : child[Append(p, m)].run = "stopped"
        BY <1>3, <1>4 DEF Local, Counted
      <3>2. \A m \in i[p] + 2 .. Nr(p) : Append(p, m) \in Procs
        <4>1. \A m \in i[p] + 2 .. Nr(p) : m \in 1 .. Nr(p)
          BY <1>4
        <4> QED BY <1>4, <4>1, Kin
      <3>3. Stops => \A m \in i[p] + 2 .. Nr(p) : child'[Append(p, m)].run = "stopped"
        BY <1>12, <3>1, <3>2
      <3>4. to = "wake" => i'[p] + 1 = i[p] + 2
        BY <1>2, <1>4, <1>9
      <3> QED BY <1>2, <1>3, <1>4, <3>3, <3>4 DEF Counted
    <2> QED BY <2>1, <2>2, <2>3, <2>4 DEF Local
  <1>15. Seen(c)' /\ at'[c] = at[c]
    BY <1>3, <1>6, <1>7, <1>8 DEF Seen
  <1>16. p # Main => Seen(p)' /\ (child'[p].run = "stopped" => child'[p].event = "stopped")
    BY <1>2, <1>3, <1>4, <1>6, <1>8 DEF Seen
  <1>17. p = Main => MainSeen'
    BY <1>2, <1>3 DEF MainSeen
  <1>18. /\ p \in Members /\ \E m \in 1 .. Nr(p) : c = Append(p, m)
         /\ \A q \in Procs \ {p} : i'[q] = i[q] /\ got'[q] = got[q]
         /\ \A q \in Procs \ {p, c} : at'[q] = at[q] /\ child'[q] = child[q]
    BY <1>3, <1>4, <1>6, <1>8, <1>9, <1>10
  <1> QED
    BY <1>1, <1>3, <1>6, <1>11, <1>13, <1>14, <1>15, <1>16, <1>17, <1>18, StepOf DEF forking

LEMMA StutterKeeps == ASSUME StopInv, UNCHANGED vars PROVE StopInv'
  <1>1. /\ UNCHANGED <<program, file, tree, at, i, child, status, got, pipe, woken, out>>
        /\ Grown' = Grown /\ Members' = Members /\ Stops' = Stops /\ Main' = Main
        /\ \A p : Nr(p)' = Nr(p)
    BY NoKids DEF vars, values, Grown, Members
  <1>2. TypeOK' /\ Rooted' /\ MainSeen'
    BY <1>1 DEF StopInv, TypeOK, Rooted, MainSeen
  <1>3. \A p \in Procs \ {Main} : Seen(p)'
    BY <1>1 DEF StopInv, Seen
  <1>4. \A p : Waited(p)' = Waited(p)
    BY <1>1 DEF Waited
  <1>5. ASSUME NEW p \in Members PROVE Local(p)'
    <2>1. Local(p)
      BY DEF StopInv
    <2> QED BY <1>1, <1>4, <2>1 DEF Local, Fresh, Way, Valued, Counted
  <1>6. ReadyRecursively'
    BY <1>1, QuietReady DEF StopInv
  <1> QED BY <1>1, <1>2, <1>3, <1>5, <1>6 DEF StopInv

LEMMA StopInit == Init => StopInv
  <1> SUFFICES ASSUME Init PROVE StopInv
    OBVIOUS
  <1>1. /\ program \in Programs /\ file \in Files /\ tree = TreeOf(file).tree
        /\ at = [p \in Procs |-> IF p # Main THEN "unborn"
                                ELSE IF TreeOf(file).ok THEN "fork" ELSE "fail"]
        /\ i = [p \in Procs |-> 0] /\ child = [p \in Procs |-> Unborn]
        /\ status = [p \in Procs |-> 0] /\ got = [p \in Procs |-> << >>]
        /\ pipe = [p \in Procs |-> << >>] /\ woken = << >> /\ out = << >>
    BY DEF Init
  <1>2. Main \in Procs /\ Nr(Main) = 1
    BY DEF Procs, Nr
  <1>3. /\ \A p \in Procs : /\ at[p] = IF p # Main THEN "unborn"
                                       ELSE IF TreeOf(file).ok THEN "fork" ELSE "fail"
                            /\ i[p] = 0 /\ child[p] = Unborn /\ got[p] = << >>
        /\ at \in [Procs -> Where] /\ i \in [Procs -> Nat]
    BY <1>1 DEF Where
  <1>4. Unborn.run = "none" /\ Unborn.event = "none" /\ Unborn \in Child
    BY DEF Unborn, Child
  <1>5. TypeOK
    <2>1. << >> \in Seq(Int) /\ << >> \in Seq(Procs) /\ 0 \in 0 .. 255
      BY EmptySeq
    <2> QED BY <1>1, <1>2, <1>3, <1>4, <2>1 DEF TypeOK
  <1>6. Rooted
    BY <1>1, <1>3 DEF Rooted, Members
  <1>7. MainSeen
    BY <1>2, <1>3 DEF MainSeen
  <1>8. \A p \in Procs \ {Main} : Seen(p)
    BY <1>3, <1>4 DEF Seen
  <1>9. ASSUME NEW p \in Members PROVE Local(p)
    <2>1. p \in Procs /\ (p = Main => Nr(p) = 1) /\ Nr(p) \in Nat
      BY <1>2, <1>6, TreeShape
    <2>2. Fresh(p)
      <3>1. \A k \in 0 + 1 .. Nr(p) : k \in 1 .. Nr(p)
        OBVIOUS
      <3>2. \A k \in 1 .. Nr(p) : at[Append(p, k)] = "unborn"
        <4>1. \A k \in 1 .. Nr(p) : Append(p, k) \in Procs \ {Main, p}
          BY <1>6, Kin
        <4> QED BY <1>3, <4>1
      <3>3. \A k \in 0 + 1 .. Nr(p) : at[Append(p, k)] = "unborn"
        BY <3>1, <3>2
      <3> QED BY <1>3, <2>1, <3>3 DEF Fresh
    <2>3. Way(p) /\ Valued(p) /\ Counted(p)
      BY <1>3, <2>1 DEF Way, Valued, Counted
    <2> QED BY <2>2, <2>3 DEF Local
  <1>10. ReadyRecursively
    <2>1. \A p \in Grown \cup {Main} : ~Ready(p)
      BY <1>2, <1>3, <1>4, <1>6, TreeShape DEF Ready
    <2> QED BY <2>1 DEF ReadyRecursively
  <1> QED BY <1>5, <1>6, <1>7, <1>8, <1>9, <1>10 DEF StopInv

LEMMA StopStep == StopInv /\ [Next]_vars => StopInv'
  <1> SUFFICES ASSUME StopInv, [Next]_vars PROVE StopInv'
    OBVIOUS
  <1>1. CASE UNCHANGED vars
    BY <1>1, StutterKeeps
  <1>2. ASSUME NEW p \in Procs, Grows(p) PROVE StopInv'
    BY <1>2, StartKeeps, ForkKeeps, ForkFailsKeeps, WaitReadyKeeps, RaiseStopKeeps DEF Grows
  <1>3. ASSUME NEW p \in Procs, Walks(p) PROVE StopInv'
    BY <1>3, AwakeKeeps, WakeKeeps, WaitKidKeeps DEF Walks
  <1>4. ASSUME NEW p \in Procs, Evaluates(p) PROVE StopInv'
    BY <1>4, ReadPipeKeeps, ForkFailsKeeps, ResultKeeps, WriteKeeps, ExitKeeps DEF Evaluates
  <1>5. CASE MainStep
    BY <1>5, PhotoKeeps, MainEndsKeeps DEF MainStep
  <1> QED BY <1>1, <1>2, <1>3, <1>4, <1>5 DEF Next, Step

LEMMA StopAlways == Spec => []StopInv
  <1> QED BY StopInit, StopStep, PTL DEF Spec

----------------------------------------------------------------------------
(* Waking in order. *)

\* Two paths of which neither is on the way to the other part at some place.
LEMMA Parting ==
    ASSUME NEW p \in Path, NEW q \in Path, ~IsPrefix(p, q), ~IsPrefix(q, p)
    PROVE  \E k \in 1 .. Len(p) : /\ k <= Len(q) /\ p[k] # q[k]
                                  /\ \A m \in 1 .. k - 1 : p[m] = q[m]
  <1> DEFINE Differs(k) == k <= Len(q) /\ p[k] # q[k]
             T == {1 .. k : k \in {n \in 1 .. Len(p) : Differs(n)}}
             S == 1 .. Len(p)
  <1>1. Len(p) \in Nat /\ Len(q) \in Nat
    BY PrefixIs
  <1>2. \E k \in 1 .. Len(p) : Differs(k)
    <2> SUFFICES ASSUME \A k \in 1 .. Len(p) : ~Differs(k) PROVE FALSE
      OBVIOUS
    <2>1. CASE Len(p) <= Len(q)
      <3>1. \A k \in 1 .. Len(p) : p[k] = q[k]
        BY <1>1, <2>1
      <3> QED BY <2>1, <3>1, PrefixIs
    <2>2. CASE Len(q) <= Len(p)
      <3>1. \A k \in 1 .. Len(q) : q[k] = p[k]
        BY <1>1, <2>2
      <3> QED BY <2>2, <3>1, PrefixIs
    <2> QED BY <1>1, <2>1, <2>2
  <1>3. T \subseteq FiniteSubsetsOf(S) /\ T # {}
    <2>1. \A k \in 1 .. Len(p) : 1 .. k \subseteq S /\ IsFiniteSet(1 .. k)
      BY <1>1, FS_Interval
    <2> QED BY <1>2, <2>1 DEF FiniteSubsetsOf
  <1>4. PICK x \in T : \A y \in T : ~(<<y, x>> \in StrictSubsetOrdering(S))
    BY <1>3, WFMin, FS_StrictSubsetOrderingWellFounded
  <1>5. PICK k \in 1 .. Len(p) : x = 1 .. k /\ Differs(k)
    BY <1>4
  <1>6. ASSUME NEW m \in 1 .. k - 1, p[m] # q[m] PROVE FALSE
    <2>1. m \in 1 .. Len(p) /\ m < k /\ m <= Len(q)
      BY <1>1, <1>5
    <2>2. 1 .. m \in T
      BY <1>6, <2>1
    <2>3. 1 .. m \subseteq 1 .. k /\ 1 .. m # 1 .. k /\ 1 .. k \subseteq S
      BY <1>1, <2>1
    <2>4. <<1 .. m, 1 .. k>> \in StrictSubsetOrdering(S)
      BY <2>3 DEF StrictSubsetOrdering
    <2> QED BY <1>4, <1>5, <2>2, <2>4
  <1>7. \A m \in 1 .. k - 1 : p[m] = q[m]
    BY <1>6
  <1> QED BY <1>5, <1>7

\* Every place of a path is at a child of the process so far.
LEMMA WayDown ==
    ASSUME Rooted, NEW q \in Grown, NEW k \in 1 .. Len(q)
    PROVE  \E a \in Members : /\ a = SubSeq(q, 1, k - 1) /\ q[k] \in 1 .. Nr(a)
                              /\ IsPrefix(Append(a, q[k]), q)
  <1>1. q \in Path /\ Len(q) \in Nat /\ k \in Nat \ {0} /\ k <= Len(q) /\ q[k] \in Nat \ {0}
        /\ \A m \in 1 .. Len(q) : q[m] \in Nat \ {0}
    <2>1. q \in Path /\ Len(q) \in Nat
      BY TreeShape, PrefixIs
    <2>2. \A m \in 1 .. Len(q) : q[m] \in Nat \ {0}
      BY <2>1, ElementOfSeq DEF Path
    <2> QED BY <2>1, <2>2
  <1> DEFINE b == SubSeq(q, 1, k - 1)
  <1>2. /\ b \in Members /\ q[k] \in 1 .. Nr(b)
    <2>1. q[1] = 1 /\ \A m \in 1 .. Len(q) - 1 : /\ SubSeq(q, 1, m) \in Grown
                                                  /\ q[m + 1] \in 1 .. tree[SubSeq(q, 1, m)].nr
      BY TreesAssumption DEF Rooted, Grown
    <2>2. CASE k = 1
      <3>1. b = Main
        BY <1>1, <2>2, SubSeqEmpty DEF Main
      <3> QED BY <2>1, <2>2, <3>1 DEF Members, Nr
    <2>3. CASE k # 1
      <3>1. k - 1 \in 1 .. Len(q) - 1 /\ (k - 1) + 1 = k
        BY <1>1, <2>3
      <3>2. b \in Grown /\ q[k] \in 1 .. tree[b].nr
        BY <2>1, <3>1
      <3> QED BY <3>2, TreeShape DEF Members, Nr
    <2> QED BY <2>2, <2>3
  <1>3. b \in Path /\ Len(b) = k - 1 /\ \A m \in 1 .. k - 1 : b[m] = q[m]
    <2>1. 1 \in Int /\ k - 1 \in Int /\ \A m \in 1 .. k - 1 : q[m] \in Nat \ {0}
      BY <1>1
    <2>2. /\ b \in Path
          /\ Len(b) = IF 1 <= k - 1 THEN (k - 1) - 1 + 1 ELSE 0
          /\ \A m \in 1 .. (k - 1) - 1 + 1 : b[m] = q[1 + m - 1]
      BY <2>1, SubSeqProperties DEF Path
    <2> QED BY <1>1, <2>2
  <1> HIDE DEF b
  <1>4. IsPrefix(b, q)
    BY <1>1, <1>3, PrefixIs
  <1>5. Len(b) < Len(q) /\ q[Len(b) + 1] = q[k]
    <2>1. Len(b) + 1 = k
      BY <1>1, <1>3
    <2> QED BY <1>1, <2>1
  <1>6. IsPrefix(Append(b, q[k]), q)
    BY <1>1, <1>3, <1>4, <1>5, UnderKid
  <1> QED BY <1>2, <1>6 DEF b

\* What print_tree's order means for two processes: one is above the other, or they are
\* below two children of one process.
Beside(p, q) ==
    \E a \in Members : \E k, l \in 1 .. Nr(a) :
        k < l /\ IsPrefix(Append(a, k), p) /\ IsPrefix(Append(a, l), q)

LEMMA BeforeIs ==
    ASSUME Rooted, NEW p \in Grown, NEW q \in Grown
    PROVE  /\ Before(p, q) <=> (IsPrefix(p, q) /\ p # q) \/ Beside(p, q)
           /\ p = q \/ Before(p, q) \/ Before(q, p)
  <1>1. \A r \in Grown : r \in Path /\ Len(r) \in Nat
    BY TreeShape, PrefixIs
  <1>2. ASSUME NEW r \in Grown, NEW s \in Grown, Beside(r, s)
        PROVE  Before(r, s)
    <2>0. PICK a \in Members : \E k, l \in 1 .. Nr(a) :
              k < l /\ IsPrefix(Append(a, k), r) /\ IsPrefix(Append(a, l), s)
      BY <1>2 DEF Beside
    <2>1. PICK k \in 1 .. Nr(a), l \in 1 .. Nr(a) :
              k < l /\ IsPrefix(Append(a, k), r) /\ IsPrefix(Append(a, l), s)
      BY <2>0
    <2>2. a \in Path /\ Len(a) \in Nat /\ k \in Nat \ {0} /\ l \in Nat \ {0}
      BY TreeShape, PrefixIs
    <2>3. /\ IsPrefix(a, r) /\ Len(a) < Len(r) /\ r[Len(a) + 1] = k
          /\ IsPrefix(a, s) /\ Len(a) < Len(s) /\ s[Len(a) + 1] = l
      BY <1>1, <2>1, <2>2, UnderKid
    <2>4. SubSeq(r, 1, Len(a)) = SubSeq(s, 1, Len(a))
      BY <2>3 DEF IsPrefix
    <2>5. /\ Len(a) + 1 \in 1 .. Len(r) /\ Len(a) + 1 <= Len(s) /\ (Len(a) + 1) - 1 = Len(a)
          /\ r[Len(a) + 1] < s[Len(a) + 1]
      BY <1>1, <2>1, <2>2, <2>3
    <2> QED BY <2>4, <2>5 DEF Before
  <1>3. ASSUME NEW r \in Grown, NEW s \in Grown, NEW k \in 1 .. Len(r), k <= Len(s), r[k] < s[k],
               SubSeq(r, 1, k - 1) = SubSeq(s, 1, k - 1)
        PROVE  Beside(r, s)
    <2>1. k \in 1 .. Len(s)
      BY <1>1, <1>3
    <2>2. PICK a \in Members : /\ a = SubSeq(r, 1, k - 1) /\ r[k] \in 1 .. Nr(a)
                               /\ IsPrefix(Append(a, r[k]), r)
      BY WayDown
    <2>3. PICK b \in Members : /\ b = SubSeq(s, 1, k - 1) /\ s[k] \in 1 .. Nr(b)
                               /\ IsPrefix(Append(b, s[k]), s)
      BY <2>1, WayDown
    <2> QED BY <1>3, <2>2, <2>3 DEF Beside
  <1>4. Before(p, q) => (IsPrefix(p, q) /\ p # q) \/ Beside(p, q)
    BY <1>3 DEF Before, IsStrictPrefix
  <1>5. ASSUME ~IsPrefix(p, q), ~IsPrefix(q, p) PROVE Before(p, q) \/ Before(q, p)
    <2>1. PICK k \in 1 .. Len(p) : /\ k <= Len(q) /\ p[k] # q[k]
                                   /\ \A m \in 1 .. k - 1 : p[m] = q[m]
      BY <1>1, <1>5, Parting
    <2>2. k \in 1 .. Len(q) /\ k \in Int
      BY <1>1, <2>1
    <2>3. PICK a \in Members : /\ a = SubSeq(p, 1, k - 1) /\ p[k] \in 1 .. Nr(a)
                               /\ IsPrefix(Append(a, p[k]), p)
      BY WayDown
    <2>4. PICK b \in Members : /\ b = SubSeq(q, 1, k - 1) /\ q[k] \in 1 .. Nr(b)
                               /\ IsPrefix(Append(b, q[k]), q)
      BY <2>2, WayDown
    <2>5. a = b
      <3>1. /\ \A m \in 1 .. k - 1 : p[m] \in Nat \ {0} /\ q[m] \in Nat \ {0}
            /\ 1 \in Int /\ k - 1 \in Int
        <4>1. \A m \in 1 .. k - 1 : m \in 1 .. Len(p) /\ m \in 1 .. Len(q)
          BY <1>1, <2>1, <2>2
        <4> QED BY <1>1, <2>2, <4>1, ElementOfSeq DEF Path
      <3>2. /\ a \in Path /\ Len(a) = (IF 1 <= k - 1 THEN (k - 1) - 1 + 1 ELSE 0)
            /\ \A m \in 1 .. (k - 1) - 1 + 1 : a[m] = p[1 + m - 1]
        BY <2>3, <3>1, SubSeqProperties DEF Path
      <3>3. /\ b \in Path /\ Len(b) = (IF 1 <= k - 1 THEN (k - 1) - 1 + 1 ELSE 0)
            /\ \A m \in 1 .. (k - 1) - 1 + 1 : b[m] = q[1 + m - 1]
        BY <2>4, <3>1, SubSeqProperties DEF Path
      <3>4. Len(a) = k - 1 /\ Len(b) = k - 1 /\ \A m \in 1 .. k - 1 : a[m] = p[m] /\ b[m] = q[m]
        BY <2>2, <3>2, <3>3
      <3>5. \A m \in 1 .. Len(a) : a[m] = b[m]
        BY <2>1, <3>4
      <3> QED BY <3>2, <3>3, <3>4, <3>5, SeqEqual DEF Path
    <2>6. p[k] < q[k] \/ q[k] < p[k]
      <3>1. p[k] \in Nat /\ q[k] \in Nat
        BY <1>1, <2>2, ElementOfSeq DEF Path
      <3> QED BY <2>1, <3>1
    <2>7. Beside(p, q) \/ Beside(q, p)
      BY <2>3, <2>4, <2>5, <2>6 DEF Beside
    <2> QED BY <1>2, <2>7
  <1>6. IsPrefix(p, q) /\ p # q => Before(p, q)
    BY DEF Before, IsStrictPrefix
  <1>7. IsPrefix(q, p) /\ p # q => Before(q, p)
    BY DEF Before, IsStrictPrefix
  <1> QED BY <1>2, <1>4, <1>5, <1>6, <1>7

\* What is left to show of a step of p, which touches p and perhaps one child of p.
LEMMA WakeOf ==
    ASSUME StopInv, WakeInv, Stops, NEW p \in Procs, UNCHANGED forking, NEW c \in Procs,
           c = p \/ (p \in Members /\ \E k \in 1 .. Nr(p) : c = Append(p, k)),
           \A q \in Procs \ {p} : i'[q] = i[q] /\ (q \in Range(woken)' <=> q \in Range(woken)),
           \A q \in Procs \ {p, c} : at'[q] = at[q] /\ child'[q] = child[q],
           c # p => at'[c] = at[c] \/ (at[c] = "unborn" /\ at'[c] = "start"),
           \A q \in Grown : child[q].run = "reaped" => child'[q].run = "reaped",
           Range(woken)' \subseteq Grown, p \in Range(woken) => p \in Range(woken)',
           WakesInOrder',
           p \in Grown => Woke(p)',
           p \in Members => Clears(p)',
           p # Main /\ child[p].run \in {"running", "zombie"} /\ (at[p] = "awake" \/ p \in Range(woken))
              => child'[p].run \in {"running", "zombie"} /\ (at'[p] = "awake" \/ p \in Range(woken)'),
           \A q \in Grown : Risen(q)' => OnTheWay(q)' \/ (Risen(q) /\ (IsPrefix(p, q) => p = q))
    PROVE  WakeInv'
  <1>1. /\ UNCHANGED <<program, tree>> /\ Grown' = Grown /\ Members' = Members
        /\ Grown \subseteq Members /\ Members \subseteq Procs /\ Grown \subseteq Procs \ {Main}
        /\ TypeOK /\ Rooted
    BY TreeShape DEF StopInv, forking, Grown, Members
  <1>2. Stops' = Stops /\ \A q : Nr(q)' = Nr(q)
    BY <1>1, NoKids
  <1>3. /\ \A q \in Grown : Woke(q) /\ (Risen(q) => OnTheWay(q))
        /\ \A q \in Members : Clears(q)
    BY DEF WakeInv
  <1>4. \A q \in Grown : q \in Range(woken) => q \in Range(woken)'
    BY <1>1
  <1>5. ASSUME NEW x, Cleared(x) PROVE Cleared(x)'
    BY <1>1, <1>4, <1>5 DEF Cleared
  <1>6. ASSUME NEW q \in Grown PROVE Woke(q)'
    <2>1. CASE q = p
      BY <2>1
    <2>2. CASE q # p
      <3>1. (q \in Range(woken)' <=> q \in Range(woken)) /\ Woke(q)
        BY <1>1, <1>3, <2>2
      <3>2. at'[q] = at[q] \/ (at[q] = "unborn" /\ at'[q] = "start")
        BY <1>1, <2>2
      <3> QED BY <3>1, <3>2 DEF Woke, Young
    <2> QED BY <2>1, <2>2
  <1>7. ASSUME NEW m \in Members PROVE Clears(m)'
    <2>1. CASE m = p
      BY <2>1
    <2>2. CASE m # p /\ at'[m] # at[m]
      <3>1. at'[m] = "start"
        BY <1>1, <2>2
      <3> QED BY <3>1 DEF Clears, Finished
    <2>3. CASE m # p /\ at'[m] = at[m]
      <3>1. /\ i'[m] = i[m] /\ (m \in Range(woken)' <=> m \in Range(woken)) /\ Clears(m)
            /\ m \in Procs
        BY <1>1, <1>3, <2>3
      <3>2. Finished(m)' <=> Finished(m)
        BY <2>3, <3>1 DEF Finished
      <3>3. at'[m] \in {"wake", "wait"} => \A k \in 1 .. i'[m] : Cleared(Append(m, k))'
        BY <1>5, <2>3, <3>1 DEF Clears
      <3>4. Finished(m)' => \A k \in 1 .. Nr(m) : Cleared(Append(m, k))'
        BY <1>5, <3>1, <3>2 DEF Clears
      <3>5. ASSUME at[m] = "wait"
            PROVE  /\ child'[Kid(m)].run \in {"running", "zombie"}
                   /\ at'[Kid(m)] = "awake" \/ Kid(m) \in Range(woken)'
        <4>1. i[m] + 1 \in 1 .. Nr(m)
          <5>1. i[m] \in Nat /\ i[m] < Nr(m) /\ Nr(m) \in Nat
            BY <1>1, <3>1, <3>5, TreeShape DEF TypeOK
          <5> QED BY <5>1
        <4>2. PICK d \in Procs \ {Main, m} : d = Kid(m) /\ d = Append(m, i[m] + 1)
          BY <1>1, <4>1, KidOf
        <4>3. /\ child[d].run \in {"running", "zombie"}
              /\ at[d] = "awake" \/ d \in Range(woken)
          BY <3>1, <3>5, <4>2 DEF Clears
        <4>4. d = c => c = p
          <5> SUFFICES ASSUME d = c, c # p PROVE FALSE
            OBVIOUS
          <5>1. PICK k \in 1 .. Nr(p) : p \in Members /\ c = Append(p, k)
            OBVIOUS
          <5>2. \A n \in 1 .. Nr(m) : Append(p, k) = Append(m, n) => p = m
            BY <1>1, <5>1, Kin
          <5> QED BY <2>3, <4>1, <4>2, <5>1, <5>2
        <4>5. CASE d = p
          BY <4>2, <4>3, <4>5
        <4>6. CASE d # p
          <5>1. /\ at'[d] = at[d] /\ child'[d] = child[d] /\ (d \in Range(woken)' <=> d \in Range(woken))
            BY <4>4, <4>6
          <5> QED BY <4>2, <4>3, <5>1
        <4> QED BY <4>5, <4>6
      <3>6. Kid(m)' = Kid(m)
        BY <3>1 DEF Kid
      <3> QED BY <1>2, <2>3, <3>3, <3>4, <3>5, <3>6 DEF Clears
    <2> QED BY <2>1, <2>2, <2>3
  <1>8. ASSUME NEW q \in Grown, Risen(q)' PROVE OnTheWay(q)'
    <2>1. CASE OnTheWay(q)'
      BY <2>1
    <2>2. CASE Risen(q) /\ (IsPrefix(p, q) => p = q)
      <3> SUFFICES ASSUME NEW a \in Members, IsPrefix(a, q), a # q
                   PROVE  at'[a] = "wait" /\ IsPrefix(Append(a, i'[a] + 1), q)
        BY <1>1 DEF OnTheWay
      <3>1. at[a] = "wait" /\ IsPrefix(Append(a, i[a] + 1), q) /\ a # p /\ a \in Procs
        BY <1>1, <1>3, <2>2 DEF OnTheWay
      <3>2. at'[a] = at[a] /\ i'[a] = i[a]
        BY <3>1
      <3> QED BY <3>1, <3>2
    <2> QED BY <1>8, <2>1, <2>2
  <1> QED BY <1>1, <1>6, <1>7, <1>8 DEF WakeInv

\* Nobody runs after its stop below a process that does not wait.
LEMMA NoneBelow ==
    ASSUME WakeInv, Stops, NEW p \in Members, at[p] # "wait", NEW q \in Grown, Risen(q), IsPrefix(p, q)
    PROVE  p = q
  BY DEF WakeInv, OnTheWay

LEMMA SameOrder ==
    ASSUME WakesInOrder, UNCHANGED <<tree, woken>> PROVE WakesInOrder'
  <1>1. Grown' = Grown
    BY DEF Grown
  <1> QED BY <1>1 DEF WakesInOrder

\* A step in which nobody wakes, of a process that does not wait.
LEMMA QuietWake ==
    ASSUME StopInv, WakeInv, Stops, NEW p \in Procs, Runs(p), UNCHANGED forking, NEW c \in Procs,
           c = p \/ (p \in Members /\ \E k \in 1 .. Nr(p) : c = Append(p, k)),
           \A q \in Procs \ {p} : i'[q] = i[q],
           \A q \in Procs \ {p, c} : at'[q] = at[q] /\ child'[q] = child[q],
           c # p => at'[c] = at[c] \/ (at[c] = "unborn" /\ at'[c] = "start"),
           \A q \in Grown : child[q].run = "reaped" => child'[q].run = "reaped",
           UNCHANGED woken, at[p] # "wait",
           p \in Grown => Woke(p)',
           p \in Members => Clears(p)',
           p # Main /\ child[p].run \in {"running", "zombie"} /\ (at[p] = "awake" \/ p \in Range(woken))
              => child'[p].run \in {"running", "zombie"} /\ (at'[p] = "awake" \/ p \in Range(woken)),
           \A q \in Grown : Risen(q)' => Risen(q) \/ OnTheWay(q)'
    PROVE  WakeInv'
  <1>1. WakesInOrder /\ Range(woken) \subseteq Grown
    BY DEF WakeInv
  <1>2. UNCHANGED tree
    BY DEF forking
  <1>3. WakesInOrder' /\ Range(woken)' \subseteq Grown
    BY <1>1, <1>2, SameOrder
  <1>4. \A q \in Grown : Risen(q)' => OnTheWay(q)' \/ (Risen(q) /\ (IsPrefix(p, q) => p = q))
    <2>1. p \in Members \/ Grown = {}
      <3>1. Rooted /\ at[p] # "unborn"
        BY Acting
      <3> QED BY <3>1, TreeShape DEF Rooted
    <2>2. \A q \in Grown : p \in Members /\ Risen(q) => (IsPrefix(p, q) => p = q)
      BY NoneBelow
    <2> QED BY <2>1, <2>2
  <1> QED BY <1>1, <1>3, <1>4, WakeOf

LEMMA SameCleared ==
    ASSUME UNCHANGED <<tree, child, woken>>
    PROVE  \A x : Cleared(x)' = Cleared(x)
  <1>1. Grown' = Grown
    BY DEF Grown
  <1> QED BY <1>1 DEF Cleared

\* A step that leaves the children alone, and who has woken.
LEMMA MovesOn ==
    ASSUME StopInv, WakeInv, Stops, NEW p \in Procs, NEW from, NEW to, Moves(p, from, to),
           from \notin {"wait", "awake"}, to \notin {"wait", "awake"},
           UNCHANGED <<forking, i, child, woken>>,
           to = "wake" => i[p] = 0, Finished(p)' => Finished(p),
           p \in Grown => Woke(p)'
    PROVE  WakeInv'
  <1>1. TypeOK /\ Rooted /\ UNCHANGED <<program, tree>>
    BY DEF StopInv, forking
  <1>2. Runs(p) /\ at[p] = from /\ at'[p] = to /\ \A q \in Procs \ {p} : at'[q] = at[q]
    BY <1>1, Moved
  <1>3. \A q \in Grown : Risen(q)' => Risen(q)
    <2>1. Grown \subseteq Procs
      BY <1>1, TreeShape
    <2>2. \A q \in Grown : at'[q] = "awake" => at[q] = "awake"
      BY <1>2, <2>1
    <2> QED BY <2>2 DEF Risen
  <1>4. p \in Members => Clears(p)'
    <2> SUFFICES ASSUME p \in Members PROVE Clears(p)'
      OBVIOUS
    <2>1. Clears(p)
      BY DEF WakeInv
    <2>2. \A x : Cleared(x)' = Cleared(x)
      BY <1>1, SameCleared
    <2>3. Finished(p)' => \A k \in 1 .. Nr(p)' : Cleared(Append(p, k))'
      BY <1>1, <2>1, <2>2, NoKids DEF Clears
    <2>4. to = "wake" => \A k \in 1 .. i'[p] : Cleared(Append(p, k))'
      OBVIOUS
    <2> QED BY <1>2, <2>3, <2>4 DEF Clears
  <1>5. \A q \in Grown : child[q].run = "reaped" => child'[q].run = "reaped"
    OBVIOUS
  <1> QED BY <1>2, <1>3, <1>4, <1>5, QuietWake

\* What is known of the processes once they wake.
LEMMA Rising ==
    ASSUME StopInv, WakeInv, Stops, NEW p \in Members
    PROVE  /\ p # Main => p \in Grown /\ Woke(p)
           /\ Clears(p) /\ p \in Procs /\ Main \notin Grown
  BY TreeShape DEF StopInv, WakeInv, Members

LEMMA StartWakes ==
    ASSUME StopInv, WakeInv, Stops, NEW p \in Procs, Start(p) PROVE WakeInv'
  <1>1. /\ Moves(p, "start", FirstStep(p)) /\ UNCHANGED <<forking, i, child, woken>>
    BY DEF Start
  <1>2. FirstStep(p) \in {"crash", "raise", "fork"}
    BY DEF FirstStep
  <1>3. at[p] = "start" /\ at'[p] = FirstStep(p) /\ Runs(p) /\ p # Main
    <2>1. at[p] = "start" /\ at'[p] = FirstStep(p) /\ Runs(p)
      BY <1>1, Moved DEF StopInv
    <2> QED BY <2>1, Acting
  <1>4. p \in Grown => Woke(p)'
    BY <1>1, <1>2, <1>3 DEF WakeInv, Woke, Young
  <1>5. ~Finished(p)'
    BY <1>2, <1>3 DEF Finished
  <1> QED BY <1>1, <1>2, <1>4, <1>5, MovesOn

LEMMA ForkFailsWakes ==
    ASSUME StopInv, WakeInv, Stops, NEW p \in Procs, ForkFails(p) \/ ReadEnd(p) PROVE WakeInv'
  <1>1. PICK from \in {"fork", "collect"} : Moves(p, from, "fail")
    BY DEF ForkFails, ReadEnd
  <1>2. UNCHANGED <<forking, i, child, woken>>
    BY DEF ForkFails, ReadEnd
  <1>3. at[p] = from /\ at'[p] = "fail" /\ Runs(p)
    BY <1>1, Moved DEF StopInv
  <1>4. p \in Members
    BY <1>3, Acting
  <1>5. Finished(p)' => Finished(p)
    BY <1>2, <1>3, <1>4, Rising DEF Finished, Woke, Young
  <1>6. Woke(p)'
    BY <1>3 DEF Woke, Young
  <1> QED BY <1>1, <1>2, <1>5, <1>6, MovesOn

LEMMA ReadPipeWakes ==
    ASSUME StopInv, WakeInv, Stops, NEW p \in Procs, ReadPipe(p) PROVE WakeInv'
  <1> DEFINE to == IF Len(got[p]) + 1 = Nr(p) THEN "result" ELSE "collect"
  <1>1. Moves(p, "collect", to) /\ UNCHANGED <<forking, i, child, woken>> /\ to \in {"result", "collect"}
    BY DEF ReadPipe
  <1> HIDE DEF to
  <1>2. at[p] = "collect" /\ at'[p] = to /\ Runs(p)
    BY <1>1, Moved DEF StopInv
  <1>3. p \in Members
    BY <1>2, Acting
  <1>4. Finished(p)
    BY <1>2 DEF Finished
  <1>5. p \in Grown => Woke(p)'
    BY <1>1, <1>2 DEF WakeInv, Woke, Young
  <1> QED BY <1>1, <1>4, <1>5, MovesOn

LEMMA ResultWakes ==
    ASSUME StopInv, WakeInv, Stops, NEW p \in Procs, Result(p) PROVE WakeInv'
  <1>1. PICK to \in {"exit", "fail", "write"} : Moves(p, "result", to)
    BY DEF Result, Moves
  <1>2. p # Main /\ UNCHANGED <<forking, i, child, woken>>
    BY DEF Result
  <1>3. at[p] = "result" /\ at'[p] = to
    BY <1>1, Moved DEF StopInv
  <1>4. Finished(p)
    BY <1>2, <1>3 DEF Finished
  <1>5. p \in Grown => Woke(p)'
    BY <1>2, <1>3 DEF WakeInv, Woke, Young
  <1> QED BY <1>1, <1>2, <1>4, <1>5, MovesOn

LEMMA WriteWakes ==
    ASSUME StopInv, WakeInv, Stops, NEW p \in Procs, Write(p) PROVE WakeInv'
  <1>1. Moves(p, "write", "exit") /\ UNCHANGED <<forking, i, child, woken>>
    BY DEF Write
  <1>2. at[p] = "write" /\ at'[p] = "exit" /\ Runs(p)
    BY <1>1, Moved DEF StopInv
  <1>3. Finished(p)
    <2>1. p # Main
      BY <1>2, Acting
    <2> QED BY <1>2, <2>1 DEF Finished
  <1>4. p \in Grown => Woke(p)'
    BY <1>1, <1>2 DEF WakeInv, Woke, Young
  <1> QED BY <1>1, <1>3, <1>4, MovesOn

LEMMA PhotoWakes ==
    ASSUME StopInv, WakeInv, Stops, Photo PROVE WakeInv'
  <1>1. Moves(Main, "photo", "wake") /\ UNCHANGED <<forking, i, child, woken>>
    BY DEF Photo
  <1>2. Main \in Procs /\ Main \in Members /\ Main \notin Grown
    BY TreeShape DEF StopInv
  <1>3. at[Main] = "photo" /\ at'[Main] = "wake"
    BY <1>1, <1>2, Moved DEF StopInv
  <1>4. i[Main] = 0
    BY <1>2, <1>3 DEF StopInv, Local, Fresh
  <1>5. ~Finished(Main)'
    BY <1>3 DEF Finished
  <1> QED BY <1>1, <1>2, <1>4, <1>5, MovesOn

LEMMA MainEndsWakes ==
    ASSUME StopInv, WakeInv, Stops, MainEnds PROVE WakeInv'
  <1>1. PICK from, to : /\ Moves(Main, from, to)
                        /\ \/ from \in {"result", "exit"} /\ to = "done"
                           \/ from \in {"fail", "crash"} /\ to \in {"failed", "crashed"}
    BY DEF MainEnds
  <1>2. UNCHANGED <<forking, i, child, woken>>
    BY DEF MainEnds
  <1>3. Main \in Procs /\ Main \in Members /\ Main \notin Grown
    BY TreeShape DEF StopInv
  <1>4. at[Main] = from /\ at'[Main] = to
    BY <1>1, <1>3, Moved DEF StopInv
  <1>5. Finished(Main)' => Finished(Main)
    BY <1>1, <1>4 DEF Finished
  <1>6. from \notin {"wait", "awake"} /\ to \notin {"wait", "awake", "wake"}
    BY <1>1
  <1> QED BY <1>1, <1>2, <1>3, <1>5, <1>6, MovesOn

\* Whoever has been waited for stays so, and has been woken.
LEMMA StillCleared ==
    ASSUME UNCHANGED <<tree, woken>>, \A q \in Grown : child[q].run = "reaped" => child'[q].run = "reaped"
    PROVE  \A x : Cleared(x) => Cleared(x)'
  <1>1. Grown' = Grown
    BY DEF Grown
  <1> QED BY <1>1 DEF Cleared

LEMMA ForkWakes ==
    ASSUME StopInv, WakeInv, Stops, NEW p \in Procs, Fork(p) PROVE WakeInv'
  <1> DEFINE to == IF LastKid(p) THEN AfterForks(p) ELSE "fork"
  <1>1. /\ Runs(p) /\ at[p] = "fork"
        /\ child' = [child EXCEPT ![Kid(p)] = Forked]
        /\ at' = [at EXCEPT ![Kid(p)] = "start", ![p] = to]
        /\ Advance(p) /\ UNCHANGED <<forking, woken>>
    BY DEF Fork
  <1>2. /\ TypeOK /\ Rooted /\ p \in Members /\ Local(p)
        /\ i[p] \in Nat /\ i[p] + 1 \in 1 .. Nr(p) /\ Nr(p) \in Nat
    BY <1>1, Acting, TreeShape
  <1>3. PICK c \in Procs \ {Main, p} : c = Kid(p) /\ c = Append(p, i[p] + 1)
    BY <1>2, KidOf
  <1>4. at[c] = "unborn" /\ child[c].run = "none"
    <2>1. i[p] + 1 \in i[p] + 1 .. Nr(p)
      BY <1>2
    <2>2. at[c] = "unborn"
      BY <1>1, <1>2, <1>3, <2>1 DEF Local, Fresh
    <2> QED BY <1>3, <2>2 DEF StopInv, Seen
  <1>5. \A q \in Procs \ {p} : i'[q] = i[q]
    BY <1>1, <1>2, Advanced
  <1>6. to \in {"fork", "ready"}
    BY DEF AfterForks
  <1> HIDE DEF to
  <1>7. /\ at'[c] = "start" /\ at'[p] = to /\ \A q \in Procs \ {p, c} : at'[q] = at[q]
        /\ \A q \in Procs \ {c} : child'[q] = child[q]
    BY <1>1, <1>2, <1>3, Typed
  <1>8. p # Main => p \in Grown /\ p \notin Range(woken)
    BY <1>1, <1>2, Rising DEF Woke, Young
  <1>9. c \in Grown => c \notin Range(woken)
    BY <1>4 DEF WakeInv, Woke, Young
  <1>10. Woke(p)' \/ p \notin Grown
    BY <1>1, <1>2, <1>6, <1>7, <1>8, Rising DEF Woke
  <1>11. Clears(p)'
    BY <1>6, <1>7 DEF Clears, Finished
  <1>12. \A q \in Grown : Risen(q)' => Risen(q)
    <2>1. Grown \subseteq Procs
      BY <1>2, TreeShape
    <2> QED BY <1>1, <1>6, <1>7, <1>9, <2>1 DEF Risen
  <1>13. \A q \in Grown : child[q].run = "reaped" => child'[q].run = "reaped"
    <2>1. Grown \subseteq Procs
      BY <1>2, TreeShape
    <2> QED BY <1>4, <1>7, <2>1
  <1>14. p \in Members /\ \E k \in 1 .. Nr(p) : c = Append(p, k)
    BY <1>2, <1>3
  <1>15. /\ at[p] # "wait" /\ (p # Main => ~(at[p] = "awake" \/ p \in Range(woken)))
         /\ at[c] = "unborn" /\ at'[c] = "start"
         /\ \A q \in Procs \ {p, c} : at'[q] = at[q] /\ child'[q] = child[q]
    BY <1>1, <1>4, <1>7, <1>8
  <1> QED
    BY <1>1, <1>5, <1>10, <1>11, <1>12, <1>13, <1>14, <1>15, QuietWake

LEMMA WaitReadyWakes ==
    ASSUME StopInv, WakeInv, Stops, NEW p \in Procs, WaitReady(p) PROVE WakeInv'
  <1>1. Runs(p) /\ at[p] = "ready" /\ Advance(p) /\ UNCHANGED <<forking, woken>>
    BY DEF WaitReady
  <1>2. /\ TypeOK /\ Rooted /\ p \in Members /\ i[p] + 1 \in 1 .. Nr(p) /\ Nr(p) \in Nat
    BY <1>1, Acting, TreeShape
  <1>3. PICK k \in 1 .. Nr(p) :
              LET c == Append(p, k)
              IN  /\ Reportable(child[c], {"stopped", "exited"})
                  /\ at' = [at EXCEPT ![p] = AfterReady(p, child[c].event)]
                  /\ child' = [child EXCEPT ![c] = Reported(child[c])]
    BY DEF WaitReady, Kids
  <1>4. PICK c \in Procs \ {Main, p} : c = Append(p, k)
    BY <1>2, Kin
  <1>5. child[c].event \in {"stopped", "exited"} /\ child[c].run \in {"stopped", "zombie"}
    BY <1>3, <1>4 DEF Reportable, StopInv, Seen
  <1>6. \A e : AfterReady(p, e) \in {"fail", "ready", "photo", "raise"}
    BY DEF AfterReady
  <1>7. /\ \A q \in Procs \ {p} : at'[q] = at[q]
        /\ at'[p] \in {"fail", "ready", "photo", "raise"}
    BY <1>2, <1>3, <1>6, Typed
  <1>8. /\ \A q \in Procs \ {c} : child'[q] = child[q]
        /\ child'[c].run # "running"
    <2>1. child' = [child EXCEPT ![c] = Reported(child[c])]
      BY <1>3, <1>4
    <2>2. Reported(child[c]).run # "running"
      BY <1>2, <1>5, KernelActs, Typed
    <2> QED BY <1>2, <2>1, <2>2, Typed
  <1>9. \A q \in Procs \ {p} : i'[q] = i[q]
    BY <1>1, <1>2, Advanced
  <1>10. p # Main => p \in Grown /\ p \notin Range(woken)
    BY <1>1, <1>2, Rising DEF Woke, Young
  <1>11. Woke(p)' \/ p \notin Grown
    BY <1>1, <1>2, <1>7, <1>10, Rising DEF Woke
  <1>12. Clears(p)'
    BY <1>1, <1>7, <1>10 DEF Clears, Finished
  <1>13. Grown \subseteq Procs
    BY <1>2, TreeShape
  <1>14. \A q \in Grown : Risen(q)' => Risen(q)
    BY <1>1, <1>7, <1>8, <1>13 DEF Risen
  <1>15. \A q \in Grown : child[q].run = "reaped" => child'[q].run = "reaped"
    BY <1>5, <1>8, <1>13
  <1>16. p \in Members /\ \E m \in 1 .. Nr(p) : c = Append(p, m)
    BY <1>2, <1>4
  <1> QED
    BY <1>1, <1>4, <1>7, <1>8, <1>9, <1>10, <1>11, <1>12, <1>14, <1>15, <1>16, QuietWake

LEMMA RaiseStopWakes ==
    ASSUME StopInv, WakeInv, Stops, NEW p \in Procs, RaiseStop(p) PROVE WakeInv'
  <1>1. /\ Moves(p, "raise", "awake") /\ child' = [child EXCEPT ![p] = Raise(child[p])]
        /\ UNCHANGED <<forking, i, woken>>
    BY DEF RaiseStop
  <1>2. /\ Runs(p) /\ at[p] = "raise" /\ at'[p] = "awake" /\ TypeOK /\ Rooted
        /\ \A q \in Procs \ {p} : at'[q] = at[q]
    BY <1>1, Moved DEF StopInv
  <1>3. p \in Members /\ p # Main /\ child[p].run = "running"
    BY <1>2, Acting
  <1>4. \A q \in Procs \ {p} : child'[q] = child[q]
    BY <1>1, <1>2, Typed
  <1>5. child'[p].run = "stopped"
    BY <1>1, <1>2, KernelActs, Typed
  <1>6. p \in Grown /\ p \notin Range(woken) /\ Grown \subseteq Procs
    BY <1>2, <1>3, Rising, TreeShape DEF Woke, Young
  <1>7. Woke(p)' /\ Clears(p)'
    BY <1>1, <1>2, <1>3, <1>6 DEF Woke, Clears, Finished
  <1>8. \A q \in Grown : Risen(q)' => Risen(q)
    BY <1>1, <1>2, <1>4, <1>5, <1>6 DEF Risen
  <1>9. \A q \in Grown : child[q].run = "reaped" => child'[q].run = "reaped"
    BY <1>3, <1>4, <1>6
  <1> QED BY <1>1, <1>2, <1>4, <1>6, <1>7, <1>8, <1>9, QuietWake

LEMMA ExitWakes ==
    ASSUME StopInv, WakeInv, Stops, NEW p \in Procs, Exit(p) PROVE WakeInv'
  <1>1. /\ p # Main /\ Runs(p) /\ at[p] \in {"exit", "fail", "crash"}
        /\ child' = [child EXCEPT ![p] = Die(child[p])]
        /\ at' = [at EXCEPT ![p] = "done"]
        /\ UNCHANGED <<forking, i, woken>> /\ UNCHANGED <<program, tree>>
    BY DEF Exit, forking
  <1>2. TypeOK /\ Rooted /\ child[p].run = "running" /\ Grown \subseteq Procs
    BY <1>1, TreeShape DEF StopInv, Runs
  <1>3. /\ at'[p] = "done" /\ \A q \in Procs \ {p} : at'[q] = at[q] /\ child'[q] = child[q]
        /\ child'[p].run = "zombie"
    BY <1>1, <1>2, KernelActs, Typed
  <1>4. \A q \in Grown : child[q].run = "reaped" => child'[q].run = "reaped"
    BY <1>2, <1>3
  <1>5. p \in Grown => Woke(p)'
    BY <1>3 DEF Woke, Young
  <1>6. p \in Members => Clears(p)'
    <2> SUFFICES ASSUME p \in Members, p \in Range(woken)
                 PROVE  \A k \in 1 .. Nr(p) : Cleared(Append(p, k))'
      BY <1>1, <1>3, NoKids DEF Clears, Finished
    <2>1. Clears(p) /\ Woke(p)
      BY <1>1, Rising
    <2>2. Finished(p)
      BY <1>1, <2>1 DEF Finished, Woke
    <2>3. \A k \in 1 .. Nr(p) : Cleared(Append(p, k))
      BY <2>1, <2>2 DEF Clears
    <2>4. \A x : Cleared(x) => Cleared(x)'
      BY <1>1, <1>4, StillCleared
    <2> QED BY <2>3, <2>4
  <1>7. \A q \in Grown : Risen(q)' => Risen(q)
    BY <1>1, <1>2, <1>3 DEF Risen
  <1> QED BY <1>1, <1>3, <1>4, <1>5, <1>6, <1>7, QuietWake

LEMMA WakeWakes ==
    ASSUME StopInv, WakeInv, Stops, NEW p \in Procs, Wake(p) PROVE WakeInv'
  <1>1. /\ Moves(p, "wake", "wait") /\ child' = [child EXCEPT ![Kid(p)] = SendCont(child[Kid(p)])]
        /\ UNCHANGED <<forking, i, woken>> /\ UNCHANGED <<program, tree>>
    BY DEF Wake, forking
  <1>2. /\ Runs(p) /\ at[p] = "wake" /\ at'[p] = "wait" /\ TypeOK
        /\ \A q \in Procs \ {p} : at'[q] = at[q]
    BY <1>1, Moved DEF StopInv
  <1>3. /\ Rooted /\ p \in Members /\ Local(p) /\ Grown \subseteq Procs \ {Main}
        /\ i[p] \in Nat /\ i[p] + 1 \in 1 .. Nr(p) /\ Nr(p) \in Nat
        /\ p # Main => child[p].run = "running"
    BY <1>2, Acting, TreeShape
  <1>4. PICK c \in Procs \ {Main, p} : c = Kid(p) /\ c = Append(p, i[p] + 1)
    BY <1>3, KidOf
  <1>5. child[c].run = "stopped" /\ at[c] = "awake"
    <2>1. i[p] + 1 \in i[p] + 1 .. Nr(p)
      BY <1>3
    <2>2. child[c].run = "stopped"
      BY <1>2, <1>3, <1>4, <2>1 DEF Local, Counted
    <2> QED BY <1>4, <2>2 DEF StopInv, Seen
  <1>6. /\ \A q \in Procs \ {c} : child'[q] = child[q]
        /\ child'[c].run = "running"
    BY <1>1, <1>2, <1>4, <1>5, KernelActs, Typed
  <1>7. \A q \in Grown : child[q].run = "reaped" => child'[q].run = "reaped"
    BY <1>3, <1>5, <1>6
  <1>8. p # Main => p \in Grown /\ p \in Range(woken)
    BY <1>2, <1>3, Rising DEF Woke
  <1>9. p \in Grown => Woke(p)'
    BY <1>1, <1>2, <1>3, <1>8 DEF Woke, Young
  <1>10. Clears(p)'
    <2>1. \A k \in 1 .. i[p] : Cleared(Append(p, k))
      BY <1>2, <1>3, Rising DEF Clears
    <2>2. \A k \in 1 .. i[p] : Cleared(Append(p, k))'
      BY <1>1, <1>7, <2>1, StillCleared
    <2>3. Kid(p)' = c /\ at'[c] = "awake"
      BY <1>1, <1>2, <1>4, <1>5 DEF Kid
    <2> QED BY <1>1, <1>2, <1>6, <2>2, <2>3 DEF Clears, Finished
  <1>11. OnTheWay(c)'
    <2>1. Members' = Members /\ Members \subseteq Procs /\ Procs \subseteq Path
      BY <1>1, <1>3, TreeShape DEF Members, Grown
    <2> SUFFICES ASSUME NEW a \in Members, IsPrefix(a, c), a # c
                 PROVE  at'[a] = "wait" /\ IsPrefix(Append(a, i[a] + 1), c)
      BY <1>1, <2>1 DEF OnTheWay
    <2>2. a \in Path /\ p \in Path /\ c \in Path /\ a \in Procs /\ i[p] + 1 \in Nat \ {0}
      BY <1>3, <2>1
    <2>3. IsPrefix(a, p)
      BY <1>4, <2>2, UnderKid
    <2>4. CASE a = p
      <3>1. IsPrefix(c, c)
        BY <2>2, PrefixOrder
      <3> QED BY <1>2, <1>4, <2>4, <3>1
    <2>5. CASE a # p
      <3>1. p # Main
        <4>1. ASSUME p = Main PROVE FALSE
          <5>1. IsPrefix(p, a)
            BY <2>2, <4>1, PrefixOrder DEF Main
          <5> QED BY <2>2, <2>3, <2>5, <5>1, PrefixOrder
        <4> QED BY <4>1
      <3>2. Risen(p) /\ p \in Grown
        BY <1>3, <1>8, <3>1 DEF Risen
      <3>3. at[a] = "wait" /\ IsPrefix(Append(a, i[a] + 1), p)
        BY <2>3, <2>5, <3>2 DEF WakeInv, OnTheWay
      <3>4. i[a] + 1 \in Nat \ {0}
        BY <1>2, <2>2, Typed
      <3>5. PICK b \in Path : b = Append(a, i[a] + 1)
        BY <2>2, <3>4, KidPath
      <3>6. IsPrefix(p, c)
        BY <1>4, <2>2, KidPath
      <3>7. IsPrefix(b, c)
        BY <2>2, <3>3, <3>5, <3>6, PrefixOrder
      <3> QED BY <1>2, <2>2, <2>5, <3>3, <3>5, <3>7
    <2> QED BY <2>4, <2>5
  <1>12. \A q \in Grown : Risen(q)' => Risen(q) \/ OnTheWay(q)'
    BY <1>1, <1>2, <1>3, <1>6, <1>11 DEF Risen
  <1>13. /\ p \in Members /\ \E k \in 1 .. Nr(p) : c = Append(p, k)
         /\ \A q \in Procs \ {p} : i'[q] = i[q]
         /\ \A q \in Procs \ {p, c} : at'[q] = at[q] /\ child'[q] = child[q]
         /\ at'[c] = at[c] /\ child'[p] = child[p] /\ at[p] # "wait" /\ at[p] # "awake"
    BY <1>1, <1>2, <1>3, <1>4, <1>6
  <1> QED BY <1>1, <1>2, <1>7, <1>9, <1>10, <1>12, <1>13, QuietWake

LEMMA WaitKidWakes ==
    ASSUME StopInv, WakeInv, Stops, NEW p \in Procs, WaitKid(p) PROVE WakeInv'
  <1> DEFINE to == IF LastKid(p) THEN AfterWaits ELSE "wake"
  <1>1. /\ Moves(p, "wait", to) /\ Advance(p)
        /\ Gone(child[Kid(p)]) /\ child' = [child EXCEPT ![Kid(p)] = Reported(child[Kid(p)])]
        /\ UNCHANGED <<forking, woken>> /\ UNCHANGED <<program, tree>>
    BY DEF WaitKid, WaitsFor, forking
  <1>2. /\ to \in {"collect", "result", "exit", "wake"}
        /\ to = "wake" => ~LastKid(p)
        /\ to # "wake" => LastKid(p)
    BY DEF AfterWaits
  <1> HIDE DEF to
  <1>3. /\ Runs(p) /\ at[p] = "wait" /\ at'[p] = to /\ TypeOK
        /\ \A q \in Procs \ {p} : at'[q] = at[q]
    BY <1>1, Moved DEF StopInv
  <1>4. /\ Rooted /\ p \in Members /\ Grown \subseteq Procs \ {Main} /\ Main \in Members
        /\ i[p] \in Nat /\ i[p] + 1 \in 1 .. Nr(p) /\ Nr(p) \in Nat
    BY <1>3, Acting, TreeShape
  <1>5. PICK c \in Procs \ {Main, p} : /\ c = Kid(p) /\ c = Append(p, i[p] + 1)
                                       /\ tree # << >> => c \in Grown
    BY <1>4, KidOf
  <1>6. child[c].run = "zombie" /\ at[c] = "done" /\ child[c].event = "exited"
    BY <1>1, <1>5 DEF StopInv, Seen, Gone, Reportable
  <1>7. /\ \A q \in Procs \ {c} : child'[q] = child[q]
        /\ child'[c].run = "reaped"
    BY <1>1, <1>3, <1>5, <1>6, KernelActs, Typed
  <1>8. /\ \A q \in Procs \ {p} : i'[q] = i[q]
        /\ ~LastKid(p) => i'[p] = i[p] + 1
    BY <1>1, <1>3, <1>4, Advanced
  <1>9. \A q \in Grown : child[q].run = "reaped" => child'[q].run = "reaped"
    BY <1>4, <1>6, <1>7
  <1>10. Clears(p) /\ c \in Range(woken) /\ (p # Main => p \in Grown /\ p \in Range(woken))
    BY <1>3, <1>4, <1>5, <1>6, Rising DEF Clears, Woke
  <1>11. \A q \in Grown : c \in Grown /\ c \in Members
    BY <1>4, <1>5, TreeShape DEF Members
  <1>12. Cleared(c)'
    <2>1. Grown' = Grown
      BY <1>1 DEF Grown
    <2> SUFFICES ASSUME NEW q \in Grown, IsPrefix(c, q)
                 PROVE  child'[q].run = "reaped" /\ q \in Range(woken)
      BY <1>1, <2>1 DEF Cleared
    <2>2. CASE q = c
      BY <1>7, <1>10, <2>2
    <2>3. CASE q # c
      <3>1. Finished(c) /\ Clears(c)
        BY <1>5, <1>6, <1>10, <1>11, Rising DEF Finished
      <3>2. PICK k \in 1 .. Nr(c) : IsPrefix(Append(c, k), q)
        BY <1>4, <1>11, <2>3, NextOnTheWay
      <3>3. Cleared(Append(c, k))
        BY <3>1 DEF Clears
      <3>4. child[q].run = "reaped" /\ q \in Range(woken)
        BY <3>2, <3>3 DEF Cleared
      <3> QED BY <1>9, <3>4
    <2> QED BY <2>2, <2>3
  <1>13. \A k \in 1 .. i[p] + 1 : Cleared(Append(p, k))'
    <2>1. \A k \in 1 .. i[p] : Cleared(Append(p, k))
      BY <1>3, <1>10 DEF Clears
    <2>2. \A k \in 1 .. i[p] : Cleared(Append(p, k))'
      BY <1>1, <1>9, <2>1, StillCleared
    <2>3. \A k \in 1 .. i[p] + 1 : k \in 1 .. i[p] \/ k = i[p] + 1
      BY <1>4
    <2>4. ASSUME NEW k \in 1 .. i[p] + 1, k = i[p] + 1 PROVE Cleared(Append(p, k))'
      <3>1. c = Append(p, k)
        BY <1>5, <2>4
      <3> QED BY <1>12, <3>1
    <2> QED BY <2>2, <2>3, <2>4
  <1>14. Clears(p)'
    <2>1. to = "wake" => \A k \in 1 .. i'[p] : Cleared(Append(p, k))'
      BY <1>2, <1>8, <1>13
    <2>2. to # "wake" => \A k \in 1 .. Nr(p) : Cleared(Append(p, k))'
      BY <1>2, <1>13 DEF LastKid
    <2>3. Finished(p)' => to # "wake"
      BY <1>3 DEF Finished
    <2>4. to # "wait" /\ Nr(p)' = Nr(p)
      BY <1>1, <1>2, NoKids
    <2> QED BY <1>3, <2>1, <2>2, <2>3, <2>4 DEF Clears
  <1>15. p \in Grown => Woke(p)'
    BY <1>1, <1>2, <1>3, <1>4, <1>10 DEF Woke, Young
  <1>16. \A q \in Grown : Risen(q)' => Risen(q) /\ (IsPrefix(p, q) => p = q)
    <2> SUFFICES ASSUME NEW q \in Grown, Risen(q)' PROVE Risen(q) /\ (IsPrefix(p, q) => p = q)
      OBVIOUS
    <2>1. q # c /\ Risen(q)
      BY <1>1, <1>2, <1>3, <1>4, <1>7 DEF Risen
    <2>2. OnTheWay(q)
      BY <2>1 DEF WakeInv
    <2>3. ASSUME IsPrefix(p, q), p # q PROVE FALSE
      <3>1. IsPrefix(c, q)
        BY <1>4, <1>5, <2>2, <2>3 DEF OnTheWay
      <3>2. at[c] = "wait"
        BY <1>11, <2>1, <2>2, <3>1 DEF OnTheWay
      <3> QED BY <1>6, <3>2
    <2> QED BY <2>1, <2>3
  <1>17. WakesInOrder' /\ Range(woken)' \subseteq Grown
    BY <1>1, SameOrder DEF WakeInv
  <1>18. /\ p \in Members /\ \E k \in 1 .. Nr(p) : c = Append(p, k)
         /\ \A q \in Procs \ {p, c} : at'[q] = at[q] /\ child'[q] = child[q]
         /\ at'[c] = at[c] /\ child'[p] = child[p] /\ at[p] # "awake" /\ UNCHANGED woken
    BY <1>1, <1>3, <1>4, <1>5, <1>7
  <1> QED BY <1>1, <1>8, <1>9, <1>14, <1>15, <1>16, <1>17, <1>18, WakeOf

\* Whoever is below a process that is stopped has not woken.
LEMMA StillAsleep ==
    ASSUME StopInv, WakeInv, Stops, NEW c \in Grown, child[c].run = "stopped",
           NEW q \in Grown, IsPrefix(c, q)
    PROVE  q \notin Range(woken)
  <1>1. child[q].run = "stopped"
    <2>1. CASE q = c
      BY <2>1
    <2>2. CASE q # c
      <3>1. q \in Descendants(c) /\ c # Main
        BY <2>2, TreeShape DEF StopInv, Descendants
      <3> QED BY <3>1 DEF StopInv, ReadyRecursively, Ready
    <2> QED BY <2>1, <2>2
  <1>2. at[q] = "awake"
    BY <1>1, TreeShape DEF StopInv, Seen
  <1> QED BY <1>2 DEF WakeInv, Woke, Young

\* Who has woken when p is about to say that it is awake.
LEMMA MyTurn ==
    ASSUME StopInv, WakeInv, Stops, NEW p \in Grown, at[p] = "awake", child[p].run = "running",
           NEW q \in Grown
    PROVE  /\ q \in Range(woken) <=> Before(q, p)
           /\ p \notin Range(woken)
  <1>1. /\ TypeOK /\ Rooted /\ Grown \subseteq Members /\ Grown \subseteq Procs \ {Main}
        /\ p \in Path /\ q \in Path /\ \A a \in Members : a \in Path /\ a \in Procs /\ Nr(a) \in Nat
    BY TreeShape DEF StopInv, Members
  <1>2. p \notin Range(woken)
    BY DEF WakeInv, Woke, Young
  <1>3. \A a \in Members : IsPrefix(a, p) /\ a # p =>
            at[a] = "wait" /\ IsPrefix(Append(a, i[a] + 1), p)
    BY DEF WakeInv, OnTheWay, Risen
  \* The child a waits for is the one p is below.
  <1>4. ASSUME NEW a \in Members, NEW k \in 1 .. Nr(a), IsPrefix(Append(a, k), p)
        PROVE  at[a] = "wait" /\ k = i[a] + 1
    <2>1. a \in Path /\ k \in Nat \ {0} /\ i[a] + 1 \in Nat \ {0}
      <3>1. a \in Path /\ k \in Nat \ {0}
        BY <1>1
      <3>2. i[a] \in Nat
        BY <1>1, Typed
      <3> QED BY <3>1, <3>2
    <2>2. IsPrefix(a, p) /\ Len(a) < Len(p) /\ p[Len(a) + 1] = k
      BY <1>1, <1>4, <2>1, UnderKid
    <2>3. a # p
      BY <1>1, <2>2, PrefixIs
    <2>4. at[a] = "wait" /\ IsPrefix(Append(a, i[a] + 1), p)
      BY <1>3, <2>2, <2>3
    <2>5. PICK m \in Nat \ {0} : m = i[a] + 1
      BY <2>1
    <2>6. p[Len(a) + 1] = m
      BY <1>1, <2>1, <2>4, <2>5, UnderKid
    <2> QED BY <2>2, <2>4, <2>5, <2>6
  <1>5. ASSUME IsPrefix(q, p), q # p PROVE q \in Range(woken)
    <2>1. at[q] = "wait"
      BY <1>1, <1>3, <1>5
    <2> QED BY <2>1 DEF WakeInv, Woke
  <1>6. ASSUME Beside(q, p) PROVE q \in Range(woken)
    <2>1. PICK a \in Members : \E k, l \in 1 .. Nr(a) :
              k < l /\ IsPrefix(Append(a, k), q) /\ IsPrefix(Append(a, l), p)
      BY <1>6 DEF Beside
    <2>2. PICK k \in 1 .. Nr(a), l \in 1 .. Nr(a) :
              k < l /\ IsPrefix(Append(a, k), q) /\ IsPrefix(Append(a, l), p)
      BY <2>1
    <2>3. at[a] = "wait" /\ l = i[a] + 1
      BY <1>4, <2>2
    <2>4. k \in 1 .. i[a]
      BY <1>1, <2>2, <2>3, Typed
    <2>5. Cleared(Append(a, k))
      BY <2>3, <2>4 DEF WakeInv, Clears
    <2> QED BY <2>2, <2>5 DEF Cleared
  <1>7. ASSUME IsPrefix(p, q), q # p PROVE q \notin Range(woken)
    <2>1. PICK k \in 1 .. Nr(p) : Append(p, k) \in Grown /\ IsPrefix(Append(p, k), q)
      BY <1>1, <1>7, NextOnTheWay
    <2>2. i[p] = 0 /\ \A m \in i[p] + 1 .. Nr(p) : child[Append(p, m)].run = "stopped"
      BY <1>1 DEF StopInv, Local, Fresh, Counted
    <2>3. k \in i[p] + 1 .. Nr(p)
      BY <2>2
    <2>4. child[Append(p, k)].run = "stopped"
      BY <2>2, <2>3
    <2> QED BY <2>1, <2>4, StillAsleep
  <1>8. ASSUME Beside(p, q) PROVE q \notin Range(woken)
    <2>1. PICK a \in Members : \E k, l \in 1 .. Nr(a) :
              k < l /\ IsPrefix(Append(a, k), p) /\ IsPrefix(Append(a, l), q)
      BY <1>8 DEF Beside
    <2>2. PICK k \in 1 .. Nr(a), l \in 1 .. Nr(a) :
              k < l /\ IsPrefix(Append(a, k), p) /\ IsPrefix(Append(a, l), q)
      BY <2>1
    <2>3. at[a] = "wait" /\ k = i[a] + 1
      BY <1>4, <2>2
    <2>4. l \in i[a] + 2 .. Nr(a)
      BY <1>1, <2>2, <2>3, Typed
    <2>5. child[Append(a, l)].run = "stopped"
      BY <1>1, <2>3, <2>4 DEF StopInv, Local, Counted
    <2>6. Append(a, l) \in Grown
      BY <1>1, <2>2, TreeShape
    <2> QED BY <2>2, <2>5, <2>6, StillAsleep
  <1>9. CASE q = p
    <2>1. ~Before(p, p)
      <3>1. \A k \in 1 .. Len(p) : p[k] \in Nat
        BY <1>1, ElementOfSeq DEF Path
      <3>2. \A k \in 1 .. Len(p) : ~(p[k] < p[k])
        BY <3>1
      <3> QED BY <3>2 DEF Before, IsStrictPrefix
    <2> QED BY <1>2, <1>9, <2>1
  <1>10. CASE q # p
    <2>1. Before(q, p) => q \in Range(woken)
      BY <1>1, <1>5, <1>6, BeforeIs
    <2>2. Before(p, q) => q \notin Range(woken)
      BY <1>1, <1>7, <1>8, BeforeIs
    <2>3. Before(q, p) \/ Before(p, q)
      BY <1>1, <1>10, BeforeIs
    <2> QED BY <1>2, <2>1, <2>2, <2>3
  <1> QED BY <1>9, <1>10

LEMMA AppendRange ==
    ASSUME NEW S, NEW s \in Seq(S), NEW e \in S
    PROVE  /\ Range(Append(s, e)) = Range(s) \cup {e}
           /\ \A k \in 1 .. Len(s) : SubSeq(Append(s, e), 1, k) = SubSeq(s, 1, k)
           /\ \A k \in 1 .. Len(s) : Append(s, e)[k] = s[k]
           /\ SubSeq(Append(s, e), 1, Len(s) + 1) = Append(s, e)
           /\ Append(s, e)[Len(s) + 1] = e /\ Len(Append(s, e)) = Len(s) + 1 /\ Len(s) \in Nat
  <1> DEFINE t == Append(s, e)
  <1>1. /\ t \in Seq(S) /\ Len(t) = Len(s) + 1 /\ Len(s) \in Nat /\ t[Len(s) + 1] = e
        /\ \A k \in 1 .. Len(s) : t[k] = s[k]
        /\ DOMAIN s = 1 .. Len(s) /\ DOMAIN t = 1 .. Len(t)
    BY AppendProperties, LenProperties
  <1> HIDE DEF t
  <1>2. \A k \in 1 .. Len(t) : k \in 1 .. Len(s) \/ k = Len(s) + 1
    BY <1>1
  <1>3. 1 .. Len(s) \subseteq 1 .. Len(t) /\ Len(s) + 1 \in 1 .. Len(t)
    BY <1>1
  <1>4. Range(t) = Range(s) \cup {e}
    BY <1>1, <1>2, <1>3 DEF Range
  <1>5. SubSeq(t, 1, Len(s) + 1) = t
    BY <1>1, SubSeqFull
  <1>6. ASSUME NEW k \in 1 .. Len(s) PROVE SubSeq(t, 1, k) = SubSeq(s, 1, k)
    <2>1. \A m \in 1 .. k : m \in 1 .. Len(s) /\ m \in 1 .. Len(t)
      BY <1>1
    <2>2. \A m \in 1 .. k : t[m] = s[m] /\ t[m] \in S /\ s[m] \in S
      BY <1>1, <2>1, ElementOfSeq
    <2>3. /\ SubSeq(t, 1, k) \in Seq(S)
          /\ Len(SubSeq(t, 1, k)) = (IF 1 <= k THEN k - 1 + 1 ELSE 0)
          /\ \A m \in 1 .. k - 1 + 1 : SubSeq(t, 1, k)[m] = t[1 + m - 1]
      BY <2>2, SubSeqProperties
    <2>4. /\ SubSeq(s, 1, k) \in Seq(S)
          /\ Len(SubSeq(s, 1, k)) = (IF 1 <= k THEN k - 1 + 1 ELSE 0)
          /\ \A m \in 1 .. k - 1 + 1 : SubSeq(s, 1, k)[m] = s[1 + m - 1]
      BY <2>2, SubSeqProperties
    <2>5. Len(SubSeq(t, 1, k)) = Len(SubSeq(s, 1, k))
      BY <2>3, <2>4
    <2>6. \A m \in 1 .. Len(SubSeq(t, 1, k)) : SubSeq(t, 1, k)[m] = SubSeq(s, 1, k)[m]
      BY <2>2, <2>3, <2>4
    <2> QED BY <2>3, <2>4, <2>5, <2>6, SeqEqual
  <1> QED BY <1>1, <1>4, <1>5, <1>6 DEF t

LEMMA AwakeWakes ==
    ASSUME StopInv, WakeInv, Stops, NEW p \in Procs, Awake(p) PROVE WakeInv'
  <1> DEFINE to == IF Nr(p) = 0 THEN "result" ELSE "wake"
  <1>1. /\ Moves(p, "awake", to) /\ woken' = Append(woken, p)
        /\ UNCHANGED <<forking, i, child>> /\ UNCHANGED <<program, tree>>
    BY DEF Awake, forking
  <1>2. to \in {"result", "wake"} /\ (to = "result" => Nr(p) = 0)
    OBVIOUS
  <1> HIDE DEF to
  <1>3. /\ Runs(p) /\ at[p] = "awake" /\ at'[p] = to /\ TypeOK
        /\ \A q \in Procs \ {p} : at'[q] = at[q]
    BY <1>1, Moved DEF StopInv
  <1>4. /\ Rooted /\ p \in Members /\ p # Main /\ p \in Grown /\ child[p].run = "running"
        /\ Grown \subseteq Procs /\ i[p] = 0 /\ Nr(p)' = Nr(p) /\ Grown' = Grown
    BY <1>1, <1>3, Acting, NoKids, TreeShape DEF Members, Local, Fresh, Grown
  <1>5. woken \in Seq(Procs)
    BY <1>3 DEF TypeOK
  <1>6. /\ Range(woken') = Range(woken) \cup {p} /\ Range(woken) \subseteq Grown
        /\ \A q \in Procs \ {p} : q \in Range(woken)' <=> q \in Range(woken)
        /\ p \in Range(woken)'
    BY <1>1, <1>5, AppendRange DEF WakeInv
  <1>7. WakesInOrder'
    <2>1. /\ Len(woken') = Len(woken) + 1 /\ Len(woken) \in Nat
          /\ \A k \in 1 .. Len(woken) : /\ SubSeq(woken', 1, k) = SubSeq(woken, 1, k)
                                       /\ woken'[k] = woken[k]
          /\ SubSeq(woken', 1, Len(woken) + 1) = woken' /\ woken'[Len(woken) + 1] = p
      BY <1>1, <1>5, AppendRange
    <2>2. \A k \in 1 .. Len(woken) :
              Range(SubSeq(woken', 1, k)) = {q \in Grown : q = woken'[k] \/ Before(q, woken'[k])}
      BY <2>1 DEF WakeInv, WakesInOrder
    <2>3. Range(woken') = {q \in Grown : q = p \/ Before(q, p)}
      BY <1>3, <1>4, <1>6, MyTurn
    <2>4. \A k \in 1 .. Len(woken') : k \in 1 .. Len(woken) \/ k = Len(woken) + 1
      BY <2>1
    <2>5. \A k \in 1 .. Len(woken') :
              Range(SubSeq(woken', 1, k)) = {q \in Grown : q = woken'[k] \/ Before(q, woken'[k])}
      BY <2>1, <2>2, <2>3, <2>4
    <2> QED BY <1>4, <2>5 DEF WakesInOrder
  <1>8. Woke(p)'
    BY <1>2, <1>3, <1>6 DEF Woke, Young
  <1>9. Clears(p)'
    <2>1. ~Finished(p)' \/ Nr(p) = 0
      BY <1>2, <1>3, <1>4 DEF Finished
    <2>2. i'[p] = 0
      BY <1>1, <1>4
    <2> QED BY <1>2, <1>3, <1>4, <2>1, <2>2 DEF Clears
  <1>10. \A q \in Grown : Risen(q)' => Risen(q) /\ (IsPrefix(p, q) => p = q)
    <2>1. \A q \in Grown : Risen(q)' => Risen(q)
      BY <1>1, <1>2, <1>3, <1>4, <1>6 DEF Risen
    <2>2. \A q \in Grown : Risen(q) /\ IsPrefix(p, q) => p = q
      BY <1>3, <1>4, NoneBelow
    <2> QED BY <2>1, <2>2
  <1>11. Range(woken)' \subseteq Grown
    BY <1>4, <1>6
  <1>12. \A q \in Procs \ {p} : at'[q] = at[q] /\ child'[q] = child[q]
    BY <1>1, <1>3
  <1> QED
    BY <1>1, <1>3, <1>4, <1>6, <1>7, <1>8, <1>9, <1>10, <1>11, <1>12, WakeOf

LEMMA StutterWakes == ASSUME WakeInv, UNCHANGED vars PROVE WakeInv'
  <1>1. /\ UNCHANGED <<program, tree, at, i, child, woken>>
        /\ Grown' = Grown /\ Members' = Members /\ Stops' = Stops /\ \A p : Nr(p)' = Nr(p)
    BY NoKids DEF vars, Grown, Members
  <1>2. \A x : Cleared(x)' = Cleared(x)
    BY <1>1, SameCleared
  <1>3. ASSUME Stops, NEW p \in Grown PROVE Woke(p)' /\ (Risen(p)' => OnTheWay(p)')
    BY <1>1, <1>3 DEF WakeInv, Woke, Risen, OnTheWay
  <1>4. ASSUME Stops, NEW p \in Members PROVE Clears(p)'
    <2>1. Clears(p)
      BY <1>4 DEF WakeInv
    <2> QED BY <1>1, <1>2, <2>1 DEF Clears, Finished, Kid
  <1>5. Stops => WakesInOrder' /\ Range(woken)' \subseteq Grown
    BY <1>1, SameOrder DEF WakeInv
  <1> QED BY <1>1, <1>3, <1>4, <1>5 DEF WakeInv

LEMMA NoneAwake ==
    ASSUME woken = << >>, Grown \subseteq Procs
    PROVE  Range(woken) = {} /\ WakesInOrder
  <1>1. DOMAIN woken = {} /\ Len(woken) = 0
    BY EmptySeq, LenProperties
  <1> QED BY <1>1 DEF Range, WakesInOrder

LEMMA AwakeInit == Init => AwakeInv
  <1> SUFFICES ASSUME Init PROVE AwakeInv
    OBVIOUS
  <1>1. /\ woken = << >> /\ child = [p \in Procs |-> Unborn]
        /\ at = [p \in Procs |-> IF p # Main THEN "unborn"
                                ELSE IF TreeOf(file).ok THEN "fork" ELSE "fail"]
    BY DEF Init
  <1>2. Grown \subseteq Procs \ {Main} /\ Members \subseteq Procs /\ Main \in Procs
    BY StopInit, TreeShape DEF StopInv
  <1>3. Range(woken) = {} /\ WakesInOrder
    BY <1>1, <1>2, NoneAwake
  <1>4. \A p \in Grown : Woke(p) /\ ~Risen(p)
    BY <1>1, <1>2, <1>3 DEF Woke, Risen, Unborn
  <1>5. \A p \in Members : Clears(p)
    <2>1. \A p \in Members : at[p] \in {"unborn", "fork", "fail"} /\ (p = Main => at[p] # "unborn")
                             /\ p \notin Range(woken)
      BY <1>1, <1>2, <1>3
    <2> QED BY <2>1 DEF Clears, Finished
  <1> QED BY <1>1, <1>3, <1>4, <1>5 DEF AwakeInv, WakeInv

LEMMA AwakeStep == StopInv /\ AwakeInv /\ [Next]_vars => AwakeInv'
  <1> SUFFICES ASSUME StopInv, WakeInv, ~Stops => woken = << >>, [Next]_vars PROVE AwakeInv'
    BY DEF AwakeInv
  <1>1. CASE UNCHANGED vars
    <2>1. UNCHANGED <<program, woken>>
      BY <1>1 DEF vars
    <2> QED BY <1>1, <2>1, StutterWakes DEF AwakeInv, Stops
  <1>2. CASE Next /\ Stops
    <2>1. ASSUME NEW p \in Procs, Grows(p) PROVE WakeInv'
      BY <1>2, <2>1, StartWakes, ForkWakes, ForkFailsWakes, WaitReadyWakes, RaiseStopWakes DEF Grows
    <2>2. ASSUME NEW p \in Procs, Walks(p) PROVE WakeInv'
      BY <1>2, <2>2, AwakeWakes, WakeWakes, WaitKidWakes DEF Walks
    <2>3. ASSUME NEW p \in Procs, Evaluates(p) PROVE WakeInv'
      BY <1>2, <2>3, ReadPipeWakes, ForkFailsWakes, ResultWakes, WriteWakes, ExitWakes DEF Evaluates
    <2>4. ASSUME MainStep PROVE WakeInv'
      BY <1>2, <2>4, PhotoWakes, MainEndsWakes DEF MainStep
    <2>5. WakeInv'
      BY <1>2, <2>1, <2>2, <2>3, <2>4 DEF Next, Step
    <2>6. Stops'
      BY <1>2 DEF Next, Step, Grows, Walks, Evaluates, MainStep, Start, Fork, ForkFails,
                  WaitReady, RaiseStop, Awake, Wake, WaitKid, ReadPipe, ReadEnd, Result, Write, Exit,
                  Photo, MainEnds, forking, Stops
    <2> QED BY <2>5, <2>6 DEF AwakeInv
  <1>3. CASE Next /\ ~Stops
    <2>1. \A p \in Procs : ~Awake(p)
      <3> SUFFICES ASSUME NEW p \in Procs, Awake(p) PROVE FALSE
        OBVIOUS
      <3>1. Runs(p) /\ at[p] = "awake"
        BY DEF Awake, Moves
      <3>2. p \in Members /\ Local(p)
        BY <3>1, Acting
      <3> QED BY <1>3, <3>1, <3>2 DEF Local, Way
    <2>2. UNCHANGED <<program, woken>>
      BY <1>3, <2>1 DEF Next, Step, Grows, Walks, Evaluates, MainStep, Start, Fork, ForkFails,
                  WaitReady, RaiseStop, Wake, WaitKid, ReadPipe, ReadEnd, Result, Write, Exit,
                  Photo, MainEnds, forking
    <2> QED BY <1>3, <2>2 DEF AwakeInv, WakeInv, Stops
  <1> QED BY <1>1, <1>2, <1>3

LEMMA AwakeAlways == Spec => [](StopInv /\ AwakeInv)
  <1>1. Init => StopInv /\ AwakeInv
    BY StopInit, AwakeInit
  <1>2. (StopInv /\ AwakeInv) /\ [Next]_vars => (StopInv /\ AwakeInv)'
    BY StopStep, AwakeStep
  <1> QED BY <1>1, <1>2, PTL DEF Spec

----------------------------------------------------------------------------
(* The results. *)

\* The programs whose results are values: ask2-expr-rv takes the exit(1) of a process
\* with a bad operator for one.
Sane == program = "expr" \/ (program = "rv" /\ BadOperators = {})

Below(p) == {q \in Grown : IsPrefix(p, q)}

\* Below p there is an expression, and w gives every node of it its value.
Solves(w, p) ==
    \A q \in Below(p) :
        /\ Nr(q) \in {0, 2}
        /\ w[q] = IF Nr(q) = 0 THEN Atoi[tree[q].name]
                  ELSE IF Operator[tree[q].name] = "*"
                       THEN w[Append(q, 1)] * w[Append(q, 2)]
                       ELSE w[Append(q, 1)] + w[Append(q, 2)]

\* The expression below p has the value x.
Denotes(p, x) ==
    /\ \E w \in [Grown -> Int] : Solves(w, p)
    /\ \A w : Solves(w, p) => w[p] = x

\* It has no bad operators, and y is what the program makes of its value: ask2-expr-rv
\* passes on the last eight bits.
Answer(p, y) ==
    /\ Below(p) \cap BadOperators = {}
    /\ \E x \in Int : Denotes(p, x) /\ IF program = "rv" THEN y % 256 = x % 256 ELSE y = x

\* A child that has had its turn.
Over == {"exit", "fail", "done", "crash"}

\* How many children have had their turn, and can have written a value.
Due(p) ==
    IF at[p] \in Young THEN 0
    ELSE IF at[p] \in {"collect", "result"} THEN Nr(p)
    ELSE IF at[p] = "wait" /\ program = "expr" /\ at[Kid(p)] \in Over THEN i[p] + 1
    ELSE i[p]

Values(p) == Len(got[p]) + Len(pipe[p])
Nth(p, k) == IF k <= Len(got[p]) THEN got[p][k] ELSE pipe[p][k - Len(got[p])]

Gathers == Young \cup {"wake", "wait", "collect", "result"}

\* A process has at most one value, read or still in its pipe, of each child that has
\* had its turn.  When it has that many they are the values of the children, in order.
Gathered(p) ==
    at[p] \in Gathers =>
        /\ Values(p) <= Due(p)
        /\ Values(p) = Due(p) => \A k \in 1 .. Due(p) : Answer(Append(p, k), Nth(p, k))

\* What a process is about to tell its parent, or has told it, is the value.
Told(p) ==
    /\ at[p] \in {"write", "exit"} => Answer(p, got[p][1])
    /\ program = "rv" /\ p \in Range(woken) =>
          at[p] # "fail" /\ (at[p] = "done" => Answer(p, status[p]))

\* main prints one answer.
OutRight == out # << >> => \E y \in Int : /\ out = <<y>> /\ Answer(Root, y)
                                          /\ program = "rv" => y \in 0 .. 255

Bytes == program = "rv" => \A k \in 1 .. Len(got[Main]) : got[Main][k] \in 0 .. 255

ReturnedWith == out # << >> => program \in {"expr", "rv"} /\ at[Main] = "done"

SaneInv == OutRight /\ Bytes /\ (\A p \in Members : Gathered(p)) /\ (\A p \in Grown : Told(p))

ValueInv == ReturnedWith /\ (Sane => SaneInv)

LEMMA SameAnswer ==
    ASSUME UNCHANGED <<program, tree>>
    PROVE  /\ \A p, y : Answer(p, y)' = Answer(p, y)
           /\ Sane' = Sane /\ Grown' = Grown /\ Members' = Members
           /\ \A p : Nr(p)' = Nr(p)
  <1>1. Grown' = Grown /\ Members' = Members /\ \A p : Nr(p)' = Nr(p)
    BY NoKids DEF Grown, Members
  <1>2. BadOperators' = BadOperators
    BY <1>1 DEF BadOperators
  <1>3. \A p : Below(p)' = Below(p)
    BY <1>1 DEF Below
  <1>4. \A w, p : Solves(w, p)' = Solves(w, p)
    BY <1>1, <1>3 DEF Solves
  <1>5. \A p, x : Denotes(p, x)' = Denotes(p, x)
    BY <1>1, <1>4 DEF Denotes
  <1>6. \A p, y : Answer(p, y)' = Answer(p, y)
    BY <1>2, <1>3, <1>5 DEF Answer
  <1> QED BY <1>1, <1>2, <1>6 DEF Sane

\* A leaf is all there is below it; below an operator there are the subtrees of its two
\* children, which have no node in common.
LEMMA LeafBelow ==
    ASSUME Rooted, NEW p \in Grown, Nr(p) = 0 PROVE Below(p) = {p}
  <1>1. p \in Members /\ p \in Path
    BY TreeShape DEF Members
  <1>2. ASSUME NEW q \in Grown, IsPrefix(p, q), p # q PROVE FALSE
    BY <1>1, <1>2, NextOnTheWay
  <1> QED BY <1>1, <1>2, PrefixOrder DEF Below

LEMMA TwoBelow ==
    ASSUME Rooted, NEW p \in Grown, Nr(p) = 2
    PROVE  /\ Append(p, 1) \in Grown /\ Append(p, 2) \in Grown
           /\ Below(p) = {p} \cup Below(Append(p, 1)) \cup Below(Append(p, 2))
           /\ p \notin Below(Append(p, 1)) /\ p \notin Below(Append(p, 2))
           /\ Below(Append(p, 1)) \cap Below(Append(p, 2)) = {}
  <1>1. p \in Members /\ p \in Path /\ Grown \subseteq Path /\ tree # << >>
    BY TreeShape DEF Members
  <1>2. \A k \in {1, 2} : k \in 1 .. Nr(p) /\ k \in Nat \ {0}
    OBVIOUS
  <1>3. \A k \in {1, 2} : Append(p, k) \in Grown
    BY <1>1, <1>2, TreeShape
  <1>4. \A k \in {1, 2} : \A q \in Grown :
            IsPrefix(Append(p, k), q) <=> IsPrefix(p, q) /\ Len(p) < Len(q) /\ q[Len(p) + 1] = k
    <2> TAKE k \in {1, 2}
    <2> TAKE q \in Grown
    <2> QED BY <1>1, <1>2, UnderKid
  <1>5. \A q \in Grown : IsPrefix(p, q) /\ p # q => \E k \in {1, 2} : IsPrefix(Append(p, k), q)
    <2> SUFFICES ASSUME NEW q \in Grown, IsPrefix(p, q), p # q
                 PROVE  \E k \in {1, 2} : IsPrefix(Append(p, k), q)
      OBVIOUS
    <2>1. PICK k \in 1 .. Nr(p) : IsPrefix(Append(p, k), q)
      BY <1>1, NextOnTheWay
    <2>2. k \in {1, 2}
      OBVIOUS
    <2> QED BY <2>1, <2>2
  <1>6. IsPrefix(p, p) /\ ~(Len(p) < Len(p))
    BY <1>1, PrefixOrder, PrefixIs
  <1>7. \A k \in {1, 2} : Below(Append(p, k)) = {q \in Grown : IsPrefix(p, q) /\ Len(p) < Len(q)
                                                                /\ q[Len(p) + 1] = k}
    BY <1>4 DEF Below
  <1>8. Below(p) = {p} \cup Below(Append(p, 1)) \cup Below(Append(p, 2))
    BY <1>4, <1>5, <1>6 DEF Below
  <1>9. Below(Append(p, 1)) \cap Below(Append(p, 2)) = {}
    BY <1>7
  <1>10. p \notin Below(Append(p, 1)) /\ p \notin Below(Append(p, 2))
    BY <1>6, <1>7
  <1> QED BY <1>3, <1>8, <1>9, <1>10

LEMMA BelowStays ==
    ASSUME Rooted, NEW p \in Grown, NEW q \in Below(p), NEW k \in 1 .. Nr(q)
    PROVE  q \in Grown /\ Append(q, k) \in Below(p) /\ p \in Below(p)
  <1>1. q \in Grown /\ q \in Members /\ tree # << >> /\ p \in Path /\ q \in Path /\ IsPrefix(p, q)
    BY TreeShape DEF Members, Below
  <1>2. Append(q, k) \in Grown /\ k \in Nat \ {0} /\ Append(q, k) \in Path
    BY <1>1, TreeShape
  <1>3. IsPrefix(q, Append(q, k)) /\ IsPrefix(p, p)
    BY <1>1, <1>2, KidPath, PrefixOrder
  <1>4. IsPrefix(p, Append(q, k))
    BY <1>1, <1>2, <1>3, PrefixOrder
  <1> QED BY <1>1, <1>2, <1>3, <1>4 DEF Below

LEMMA LeafDenotes ==
    ASSUME Rooted, NEW p \in Grown, Nr(p) = 0 PROVE Denotes(p, Atoi[tree[p].name])
  <1>1. Atoi[tree[p].name] \in Int /\ Below(p) = {p}
    BY TreeShape, LeafBelow
  <1> DEFINE w == [q \in Grown |-> Atoi[tree[p].name]]
  <1>2. w \in [Grown -> Int] /\ Solves(w, p)
    BY <1>1 DEF Solves
  <1>3. \A v : Solves(v, p) => v[p] = Atoi[tree[p].name]
    BY <1>1 DEF Solves
  <1> QED BY <1>2, <1>3 DEF Denotes

\* What the operators of the values below it make of them is the value of a node.
Combined(p, x, y) == IF Operator[tree[p].name] = "*" THEN x * y ELSE x + y

LEMMA NodeDenotes ==
    ASSUME Rooted, NEW p \in Grown, Nr(p) = 2, NEW x \in Int, NEW y \in Int,
           Denotes(Append(p, 1), x), Denotes(Append(p, 2), y)
    PROVE  Combined(p, x, y) \in Int /\ Denotes(p, Combined(p, x, y))
  <1> DEFINE a == Append(p, 1)
             b == Append(p, 2)
             z == Combined(p, x, y)
  <1>1. z \in Int
    BY DEF Combined
  <1>2. /\ a \in Grown /\ b \in Grown /\ Below(p) = {p} \cup Below(a) \cup Below(b)
        /\ p \notin Below(a) /\ p \notin Below(b) /\ Below(a) \cap Below(b) = {}
    BY TwoBelow
  <1>3. a \in Below(a) /\ b \in Below(b)
    BY <1>2, TreeShape, PrefixOrder DEF Below
  <1>4. PICK u \in [Grown -> Int] : Solves(u, a)
    BY DEF Denotes
  <1>5. PICK v \in [Grown -> Int] : Solves(v, b)
    BY DEF Denotes
  <1>6. u[a] = x /\ v[b] = y
    BY <1>4, <1>5 DEF Denotes
  <1> DEFINE w == [q \in Grown |-> IF q \in Below(a) THEN u[q] ELSE IF q \in Below(b) THEN v[q] ELSE z]
  <1>7. w \in [Grown -> Int]
    BY <1>1
  <1>8. /\ w[p] = z /\ \A q \in Below(a) : w[q] = u[q]
        /\ \A q \in Below(b) : w[q] = v[q]
    BY <1>2 DEF Below
  <1> HIDE DEF w, z
  <1>9. Solves(w, p)
    <2> SUFFICES ASSUME NEW q \in Below(p)
                 PROVE  /\ Nr(q) \in {0, 2}
                        /\ w[q] = IF Nr(q) = 0 THEN Atoi[tree[q].name]
                                  ELSE Combined(q, w[Append(q, 1)], w[Append(q, 2)])
      BY DEF Solves, Combined
    <2>1. CASE q = p
      BY <1>3, <1>6, <1>8, <2>1 DEF z
    <2>2. ASSUME NEW c \in {a, b}, NEW t, Solves(t, c), \A r \in Below(c) : w[r] = t[r],
                 q \in Below(c)
          PROVE  /\ Nr(q) \in {0, 2}
                 /\ w[q] = IF Nr(q) = 0 THEN Atoi[tree[q].name]
                           ELSE Combined(q, w[Append(q, 1)], w[Append(q, 2)])
      <3>1. /\ Nr(q) \in {0, 2}
            /\ t[q] = IF Nr(q) = 0 THEN Atoi[tree[q].name]
                      ELSE Combined(q, t[Append(q, 1)], t[Append(q, 2)])
        BY <2>2 DEF Solves, Combined
      <3>2. \A k \in 1 .. Nr(q) : Append(q, k) \in Below(c)
        BY <1>2, <2>2, BelowStays
      <3>3. Nr(q) = 2 => w[Append(q, 1)] = t[Append(q, 1)] /\ w[Append(q, 2)] = t[Append(q, 2)]
        BY <2>2, <3>2
      <3> QED BY <2>2, <3>1, <3>3
    <2> QED BY <1>2, <1>4, <1>5, <1>8, <2>1, <2>2
  <1>10. ASSUME NEW t, Solves(t, p) PROVE t[p] = z
    <2>1. Solves(t, a) /\ Solves(t, b)
      BY <1>2, <1>10 DEF Solves
    <2>2. t[a] = x /\ t[b] = y
      BY <2>1 DEF Denotes
    <2>3. t[p] = Combined(p, t[a], t[b])
      BY <1>2, <1>10 DEF Solves, Combined
    <2> QED BY <2>2, <2>3 DEF z
  <1> QED BY <1>1, <1>7, <1>9, <1>10 DEF Denotes, z

\* The last eight bits of a sum or a product depend on those of the operands.
LEMMA CombinedBits ==
    ASSUME NEW p, NEW a \in Int, NEW b \in Int, NEW x \in Int, NEW y \in Int,
           a % 256 = x % 256, b % 256 = y % 256
    PROVE  Combined(p, a, b) % 256 = Combined(p, x, y) % 256
  <1>1. \A n \in Int : n % 256 \in 0 .. 255 /\ \E m \in Int : n = (n % 256) + 256 * m
    OBVIOUS
  <1>2. ASSUME NEW n \in Int, NEW m \in Int PROVE (n + 256 * m) % 256 = n % 256
    OBVIOUS
  <1>3. PICK c \in Int, d \in Int : a = x + 256 * c /\ b = y + 256 * d
    <2>1. PICK c1 \in Int, c2 \in Int, d1 \in Int, d2 \in Int :
              a = (a % 256) + 256 * c1 /\ x = (x % 256) + 256 * c2
              /\ b = (b % 256) + 256 * d1 /\ y = (y % 256) + 256 * d2
      BY <1>1
    <2>2. c1 - c2 \in Int /\ d1 - d2 \in Int
      OBVIOUS
    <2>3. a = x + 256 * (c1 - c2) /\ b = y + 256 * (d1 - d2)
      BY <1>1, <2>1
    <2> QED BY <2>2, <2>3
  <1>4. c + d \in Int /\ x + y \in Int /\ x * y \in Int
    OBVIOUS
  <1>5. a + b = (x + y) + 256 * (c + d)
    BY <1>3
  <1>6. \E m \in Int : a * b = x * y + 256 * m
    <2>1. a * b = (x + 256 * c) * b
      BY <1>3
    <2>2. (x + 256 * c) * b = x * b + 256 * (c * b)
      OBVIOUS
    <2>3. x * b = x * (y + 256 * d)
      BY <1>3
    <2>4. x * (y + 256 * d) = x * y + 256 * (x * d)
      OBVIOUS
    <2>5. c * b \in Int /\ x * d \in Int /\ x * b \in Int
      OBVIOUS
    <2>6. \A k, l, m \in Int : k + 256 * l + 256 * m = k + 256 * (l + m) /\ l + m \in Int
      OBVIOUS
    <2>7. a * b = x * y + 256 * (x * d) + 256 * (c * b)
      BY <2>1, <2>2, <2>3, <2>4
    <2>8. a * b = x * y + 256 * (x * d + c * b) /\ x * d + c * b \in Int
      BY <1>4, <2>5, <2>6, <2>7
    <2> QED BY <2>8
  <1>7. (a + b) % 256 = (x + y) % 256
    BY <1>2, <1>4, <1>5
  <1>8. (a * b) % 256 = (x * y) % 256
    BY <1>2, <1>4, <1>6
  <1> QED BY <1>7, <1>8 DEF Combined

\* A process that has the answers of its children computes its own.
LEMMA ComputedAnswers ==
    ASSUME TypeOK, Rooted, NEW p \in Grown, Nr(p) \in {0, 2}, Len(got[p]) = Nr(p), ~BadOperator(p),
           \A k \in 1 .. Nr(p) : Answer(Append(p, k), got[p][k])
    PROVE  Answer(p, Computed(p)) /\ Computed(p) \in Int
  <1>1. p \in Procs /\ p # Main /\ got[p] \in Seq(Int) /\ p \notin BadOperators
    BY TreeShape, Typed DEF BadOperators, BadOperator
  <1>2. CASE Nr(p) = 0
    <2>1. Computed(p) = Atoi[tree[p].name] /\ Atoi[tree[p].name] \in Int
      BY <1>2, TreeShape DEF Computed
    <2> QED BY <1>1, <1>2, <2>1, LeafBelow, LeafDenotes DEF Answer
  <1>3. CASE Nr(p) = 2
    <2>1. 1 \in 1 .. Nr(p) /\ 2 \in 1 .. Nr(p)
      BY <1>3
    <2>2. got[p][1] \in Int /\ got[p][2] \in Int
      BY <1>1, <1>3, ElementOfSeq
    <2>3. Computed(p) = Combined(p, got[p][1], got[p][2])
      BY <1>3 DEF Computed, Combined
    <2>4. PICK x \in Int : Denotes(Append(p, 1), x)
                           /\ IF program = "rv" THEN got[p][1] % 256 = x % 256 ELSE got[p][1] = x
      BY <2>1 DEF Answer
    <2>5. PICK y \in Int : Denotes(Append(p, 2), y)
                           /\ IF program = "rv" THEN got[p][2] % 256 = y % 256 ELSE got[p][2] = y
      BY <2>1 DEF Answer
    <2>6. Combined(p, x, y) \in Int /\ Denotes(p, Combined(p, x, y))
      BY <1>3, <2>4, <2>5, NodeDenotes
    <2>7. IF program = "rv" THEN Computed(p) % 256 = Combined(p, x, y) % 256
                            ELSE Computed(p) = Combined(p, x, y)
      <3>1. program # "rv" => Computed(p) = Combined(p, x, y)
        BY <2>3, <2>4, <2>5
      <3>2. ASSUME program = "rv" PROVE Computed(p) % 256 = Combined(p, x, y) % 256
        <4>1. got[p][1] % 256 = x % 256 /\ got[p][2] % 256 = y % 256
          BY <2>4, <2>5, <3>2
        <4>2. Combined(p, got[p][1], got[p][2]) % 256 = Combined(p, x, y) % 256
          BY <2>2, <4>1, CombinedBits
        <4> QED BY <2>3, <4>2
      <3> QED BY <3>1, <3>2
    <2>8. Below(p) \cap BadOperators = {}
      BY <1>1, <1>3, <2>1, TwoBelow DEF Answer
    <2>9. Computed(p) \in Int
      BY <2>2, <2>3 DEF Combined
    <2> QED BY <2>6, <2>7, <2>8, <2>9 DEF Answer
  <1> QED BY <1>2, <1>3

LEMMA DueIsNatural ==
    ASSUME TypeOK, Rooted, NEW p \in Members
    PROVE  /\ Due(p) \in Nat /\ Len(got[p]) \in Nat /\ Len(pipe[p]) \in Nat /\ Values(p) \in Nat
           /\ got[p] \in Seq(Int) /\ pipe[p] \in Seq(Int) /\ p \in Procs
  <1>1. p \in Procs /\ Nr(p) \in Nat /\ i[p] \in Nat /\ Len(got[p]) \in Nat
        /\ got[p] \in Seq(Int) /\ pipe[p] \in Seq(Int)
    BY TreeShape, Typed
  <1>2. Len(pipe[p]) \in Nat
    BY <1>1, LenProperties
  <1>3. Due(p) \in Nat
    BY <1>1 DEF Due
  <1>4. Values(p) \in Nat
    <2>1. \A m, n \in Nat : m + n \in Nat
      OBVIOUS
    <2> QED BY <1>1, <1>2, <2>1 DEF Values
  <1> QED BY <1>1, <1>2, <1>3, <1>4

\* A step that takes no value and lets no value be due that was not.
LEMMA KeepsValues ==
    ASSUME TypeOK, Rooted, TypeOK', UNCHANGED <<program, tree>>, NEW p \in Members, Gathered(p),
           got'[p] = got[p], pipe'[p] = pipe[p],
           at'[p] \in Gathers => at[p] \in Gathers /\ Due(p)' >= Due(p)
    PROVE  Gathered(p)'
  <1>1. /\ Due(p) \in Nat /\ Values(p) \in Nat /\ Values(p)' = Values(p)
        /\ \A k : Nth(p, k)' = Nth(p, k)
    BY DueIsNatural DEF Values, Nth
  <1>2. Due(p)' \in Nat /\ \A y, k : Answer(Append(p, k), y)' = Answer(Append(p, k), y)
    <2>1. p \in Procs /\ Nr(p)' = Nr(p) /\ Nr(p) \in Nat
      BY TreeShape, SameAnswer
    <2>2. i'[p] \in Nat
      BY <2>1 DEF TypeOK
    <2>3. Due(p)' \in Nat
      BY <2>1, <2>2 DEF Due
    <2> QED BY <2>3, SameAnswer
  <1>3. ASSUME at'[p] \in Gathers, Values(p) = Due(p)'
        PROVE  \A k \in 1 .. Due(p)' : Answer(Append(p, k), Nth(p, k))'
    <2>1. Due(p)' = Due(p) /\ Values(p) = Due(p)
      BY <1>1, <1>2, <1>3 DEF Gathered
    <2>2. \A k \in 1 .. Due(p) : Answer(Append(p, k), Nth(p, k))
      BY <1>3, <2>1 DEF Gathered
    <2> QED BY <1>1, <1>2, <2>1, <2>2
  <1> QED BY <1>1, <1>2, <1>3 DEF Gathered

\* A step of p, seen by the others.
LEMMA ValueOf ==
    ASSUME StopInv, SaneInv, TypeOK', NEW p \in Procs, UNCHANGED <<program, tree>>,
           out' = out \/ OutRight',
           \A q \in Procs \ {p} : /\ i'[q] = i[q] /\ got'[q] = got[q] /\ status'[q] = status[q]
                                  /\ at'[q] = at[q] \/ (at[q] = "unborn" /\ at'[q] = "start")
                                  /\ q \in Range(woken)' => q \in Range(woken),
           p # Main /\ at[p] \in Over => at'[p] \in Over,
           \A q \in Members \ {p} : pipe'[q] = pipe[q] \/ Gathered(q)',
           p \in Members => Gathered(p)',
           p \in Grown => Told(p)',
           p = Main => Bytes'
    PROVE  SaneInv'
  <1>1. /\ TypeOK /\ Rooted /\ Members \subseteq Procs /\ Grown \subseteq Procs /\ Main \in Procs
        /\ \A q \in Members : Nr(q) \in Nat
    BY TreeShape DEF StopInv
  <1>2. /\ \A q, y : Answer(q, y)' = Answer(q, y)
        /\ Grown' = Grown /\ Members' = Members /\ \A q : Nr(q)' = Nr(q)
    BY SameAnswer
  <1>3. OutRight' /\ Bytes'
    <2>1. OutRight'
      BY <1>2 DEF SaneInv, OutRight, Root
    <2>2. CASE p = Main
      BY <2>1, <2>2
    <2>3. CASE p # Main
      <3>1. got'[Main] = got[Main]
        BY <1>1, <2>3
      <3> QED BY <2>1, <3>1 DEF SaneInv, Bytes, Main
    <2> QED BY <2>2, <2>3
  <1>4. ASSUME NEW q \in Members \ {p} PROVE Gathered(q)'
    <2> SUFFICES ASSUME pipe'[q] = pipe[q] PROVE Gathered(q)'
      OBVIOUS
    <2>1. q \in Procs \ {p} /\ Gathered(q) /\ i'[q] = i[q] /\ got'[q] = got[q] /\ i[q] \in Nat
          /\ Nr(q) \in Nat
      BY <1>1, Typed DEF SaneInv
    <2>2. ASSUME at'[q] \in Gathers PROVE at[q] \in Gathers /\ Due(q)' >= Due(q)
      <3>1. CASE at[q] \in Young
        <4>1. at'[q] \in Young
          BY <2>1, <3>1 DEF Young
        <4>2. Due(q) = 0 /\ Due(q)' = 0
          BY <3>1, <4>1 DEF Due
        <4> QED BY <3>1, <4>2 DEF Gathers
      <3>2. CASE at[q] \notin Young
        <4>1. at'[q] = at[q]
          BY <2>1, <3>2 DEF Young
        <4>2. at[q] = "wait" /\ at[Kid(q)] \in Over => at'[Kid(q)] \in Over
          <5> SUFFICES ASSUME at[q] = "wait", at[Kid(q)] \in Over PROVE at'[Kid(q)] \in Over
            OBVIOUS
          <5>1. i[q] + 1 \in 1 .. Nr(q)
            <6>1. i[q] < Nr(q)
              BY <1>1, <2>1 DEF TypeOK
            <6> QED BY <2>1, <6>1
          <5>2. Kid(q) \in Procs /\ Kid(q) # Main
            BY <1>1, <5>1, KidOf
          <5> QED BY <5>2 DEF Over
        <4>3. Kid(q)' = Kid(q)
          BY <2>1 DEF Kid
        <4>4. Due(q)' >= Due(q)
          <5>1. CASE at[q] = "wait"
            <6>1. Due(q) = IF program = "expr" /\ at[Kid(q)] \in Over THEN i[q] + 1 ELSE i[q]
              BY <5>1 DEF Due, Young
            <6>2. Due(q)' = IF program = "expr" /\ at'[Kid(q)] \in Over THEN i[q] + 1 ELSE i[q]
              BY <2>1, <4>1, <4>3, <5>1 DEF Due, Young
            <6> QED BY <2>1, <4>2, <5>1, <6>1, <6>2
          <5>2. CASE at[q] # "wait"
            <6>1. Due(q)' = Due(q) /\ Due(q) \in Nat
              BY <1>2, <2>1, <3>2, <4>1, <5>2 DEF Due
            <6> QED BY <6>1
          <5> QED BY <5>1, <5>2
        <4> QED BY <2>2, <4>1, <4>4
      <3> QED BY <3>1, <3>2
    <2> QED BY <1>1, <2>1, <2>2, KeepsValues
  <1>5. ASSUME NEW q \in Grown \ {p} PROVE Told(q)'
    <2>1. /\ q \in Procs \ {p} /\ Told(q) /\ got'[q] = got[q] /\ status'[q] = status[q]
          /\ q \in Range(woken)' => q \in Range(woken)
          /\ at'[q] \in {"write", "exit", "fail", "done"} => at'[q] = at[q]
      BY <1>1 DEF SaneInv
    <2> QED BY <1>2, <2>1 DEF Told
  <1> QED BY <1>2, <1>3, <1>4, <1>5 DEF SaneInv

\* A step that moves p and no value.
LEMMA MovesValues ==
    ASSUME StopInv, SaneInv, TypeOK', NEW p \in Procs, NEW from, NEW to, Moves(p, from, to),
           UNCHANGED <<program, tree, status, got, pipe, out>>,
           \A q \in Procs \ {p} : i'[q] = i[q] /\ (q \in Range(woken)' => q \in Range(woken)),
           from \notin Over, to \notin {"write", "exit", "done"},
           to = "fail" /\ program = "rv" => p \notin Range(woken)',
           p \in Members /\ to \in Gathers => from \in Gathers /\ Due(p)' >= Due(p)
    PROVE  SaneInv'
  <1>1. /\ at[p] = from /\ at'[p] = to /\ TypeOK /\ Rooted
        /\ \A q \in Procs \ {p} : at'[q] = at[q]
    BY Moved DEF StopInv
  <1>2. p \in Members => Gathered(p)'
    BY <1>1, KeepsValues DEF SaneInv
  <1>3. p \in Grown => Told(p)'
    BY <1>1 DEF Told
  <1>4. Bytes'
    BY DEF SaneInv, Bytes, Main
  <1> QED BY <1>1, <1>2, <1>3, <1>4, ValueOf

\* What the programs with values are.
LEMMA SaneIs ==
    ASSUME StopInv, AwakeInv, Sane
    PROVE  /\ Stops /\ program \in {"expr", "rv"} /\ WakeInv
           /\ \A p \in Grown : Woke(p)
           /\ \A p \in Members : Clears(p) /\ Local(p) /\ (p # Main => p \in Grown)
           /\ program = "rv" => \A p \in Grown : ~BadOperator(p)
  <1>1. Stops /\ program \in {"expr", "rv"}
    BY DEF Sane, Stops
  <1>2. program = "rv" => \A p \in Grown : ~BadOperator(p)
    BY DEF Sane, BadOperators, BadOperator
  <1> QED BY <1>1, <1>2 DEF AwakeInv, WakeInv, StopInv, Members

LEMMA StartValues ==
    ASSUME StopInv, AwakeInv, Sane, SaneInv, TypeOK', NEW p \in Procs, Start(p) PROVE SaneInv'
  <1>1. Moves(p, "start", FirstStep(p)) /\ FirstStep(p) \in {"crash", "raise", "fork"}
    BY SaneIs DEF Start, FirstStep
  <1>2. at[p] = "start" /\ at'[p] = FirstStep(p)
    BY <1>1, Moved DEF StopInv
  <1>3. FirstStep(p) \in Gathers => "start" \in Gathers /\ Due(p) = 0 /\ Due(p)' = 0
    BY <1>1, <1>2 DEF Due, Young, Gathers
  <1> QED BY <1>1, <1>3, MovesValues DEF Start, forking, values, Over

LEMMA ForkFailsValues ==
    ASSUME StopInv, AwakeInv, Sane, SaneInv, TypeOK', NEW p \in Procs, ForkFails(p) \/ ReadEnd(p)
    PROVE  SaneInv'
  <1>1. PICK from \in {"fork", "collect"} : Moves(p, from, "fail")
    BY DEF ForkFails, ReadEnd
  <1>2. UNCHANGED <<forking, i, child, values, woken, out>>
    BY DEF ForkFails, ReadEnd
  <1>3. at[p] = from /\ Runs(p) /\ p \in Members
    <2>1. at[p] = from /\ Runs(p)
      BY <1>1, Moved DEF StopInv
    <2> QED BY <2>1, Acting
  <1>4. program = "rv" => p \notin Range(woken)
    <2>1. program = "rv" => from = "fork"
      BY <1>3, SaneIs DEF Local, Way
    <2>2. Main \notin Range(woken)
      BY SaneIs, TreeShape DEF WakeInv, StopInv
    <2> QED BY <1>3, <2>1, <2>2, SaneIs DEF Woke, Young
  <1> QED BY <1>1, <1>2, <1>4, MovesValues DEF forking, values, Over, Gathers, Young

LEMMA RaiseStopValues ==
    ASSUME StopInv, AwakeInv, Sane, SaneInv, TypeOK', NEW p \in Procs, RaiseStop(p) PROVE SaneInv'
  <1>1. Moves(p, "raise", "awake") /\ UNCHANGED <<forking, i, values, woken, out>>
    BY DEF RaiseStop
  <1>2. at[p] = "raise" /\ at'[p] = "awake"
    BY <1>1, Moved DEF StopInv
  <1>3. "raise" \in Gathers /\ Due(p) = 0 /\ Due(p)' = 0
    BY <1>2 DEF Due, Young, Gathers
  <1> QED BY <1>1, <1>3, MovesValues DEF forking, values, Over

LEMMA AwakeValues ==
    ASSUME StopInv, AwakeInv, Sane, SaneInv, TypeOK', NEW p \in Procs, Awake(p) PROVE SaneInv'
  <1> DEFINE to == IF Nr(p) = 0 THEN "result" ELSE "wake"
  <1>1. /\ Moves(p, "awake", to) /\ woken' = Append(woken, p)
        /\ UNCHANGED <<forking, i, child, values, out>> /\ UNCHANGED <<program, tree>>
    BY DEF Awake, forking
  <1>2. to \in {"result", "wake"} /\ (to = "result" => Nr(p) = 0)
    OBVIOUS
  <1> HIDE DEF to
  <1>3. at[p] = "awake" /\ at'[p] = to /\ Runs(p) /\ TypeOK
    BY <1>1, Moved DEF StopInv
  <1>4. p \in Members /\ i[p] = 0 /\ i'[p] = 0 /\ Nr(p)' = Nr(p)
    BY <1>1, <1>3, Acting, NoKids DEF Local, Fresh
  <1>5. \A q \in Procs \ {p} : q \in Range(woken)' => q \in Range(woken)
    BY <1>1, <1>3, AppendRange DEF TypeOK
  <1>6. "awake" \in Gathers /\ Due(p) = 0 /\ Due(p)' = 0
    BY <1>2, <1>3, <1>4 DEF Due, Young, Gathers
  <1> QED BY <1>1, <1>2, <1>5, <1>6, MovesValues DEF values, Over

LEMMA PhotoValues ==
    ASSUME StopInv, AwakeInv, Sane, SaneInv, TypeOK', Photo PROVE SaneInv'
  <1>1. Moves(Main, "photo", "wake") /\ UNCHANGED <<forking, i, child, values, woken, out>>
    BY SaneIs DEF Photo
  <1>2. Main \in Procs /\ Main \in Members
    BY TreeShape DEF StopInv
  <1>3. at[Main] = "photo" /\ at'[Main] = "wake" /\ i[Main] = 0 /\ i'[Main] = 0
    <2>1. at[Main] = "photo" /\ at'[Main] = "wake"
      BY <1>1, <1>2, Moved DEF StopInv
    <2> QED BY <1>1, <1>2, <2>1, SaneIs DEF Local, Fresh
  <1>4. "photo" \in Gathers /\ Due(Main) = 0 /\ Due(Main)' = 0
    BY <1>3 DEF Due, Young, Gathers, Main
  <1> QED BY <1>1, <1>2, <1>4, MovesValues DEF forking, values, Over

LEMMA WaitReadyValues ==
    ASSUME StopInv, AwakeInv, Sane, SaneInv, TypeOK', NEW p \in Procs, WaitReady(p) PROVE SaneInv'
  <1>1. PICK event : Moves(p, "ready", AfterReady(p, event))
    BY DEF WaitReady, Moves
  <1>2. /\ UNCHANGED <<forking, values, woken, out>> /\ UNCHANGED <<program, tree>> /\ Advance(p)
        /\ AfterReady(p, event) \in {"fail", "ready", "photo", "raise"}
    BY DEF WaitReady, forking, AfterReady
  <1>3. at[p] = "ready" /\ at'[p] = AfterReady(p, event) /\ Runs(p) /\ TypeOK
    BY <1>1, Moved DEF StopInv
  <1>4. p \in Members /\ i[p] + 1 \in 1 .. Nr(p) /\ Nr(p) \in Nat
    BY <1>3, Acting, TreeShape
  <1>5. \A q \in Procs \ {p} : i'[q] = i[q]
    BY <1>2, <1>3, <1>4, Advanced
  <1>6. p \notin Range(woken)
    BY <1>3, <1>4, SaneIs, TreeShape DEF Woke, Young, WakeInv, StopInv
  <1>7. AfterReady(p, event) \in Gathers => "ready" \in Gathers /\ Due(p) = 0 /\ Due(p)' = 0
    BY <1>2, <1>3 DEF Due, Young, Gathers
  <1> QED BY <1>1, <1>2, <1>5, <1>6, <1>7, MovesValues DEF values, Over

LEMMA ForkValues ==
    ASSUME StopInv, AwakeInv, Sane, SaneInv, TypeOK', NEW p \in Procs, Fork(p) PROVE SaneInv'
  <1>1. PICK to \in {"fork", "ready"} : at' = [at EXCEPT ![Kid(p)] = "start", ![p] = to]
    BY SaneIs DEF Fork, AfterForks
  <1>2. /\ Runs(p) /\ at[p] = "fork" /\ Advance(p) /\ TypeOK
        /\ UNCHANGED <<forking, values, woken, out>> /\ UNCHANGED <<program, tree>>
    BY DEF Fork, StopInv, forking
  <1>3. p \in Members /\ i[p] + 1 \in 1 .. Nr(p) /\ Nr(p) \in Nat /\ Local(p) /\ Rooted /\ i[p] \in Nat
    BY <1>2, Acting, TreeShape
  <1>4. PICK c \in Procs \ {Main, p} : c = Kid(p) /\ c = Append(p, i[p] + 1)
    BY <1>3, KidOf
  <1>5. at[c] = "unborn"
    <2>1. i[p] + 1 \in i[p] + 1 .. Nr(p)
      BY <1>3
    <2> QED BY <1>2, <1>3, <1>4, <2>1 DEF Local, Fresh
  <1>6. /\ at'[p] = to /\ at'[c] = "start"
        /\ \A q \in Procs \ {p, c} : at'[q] = at[q]
    BY <1>1, <1>2, <1>4 DEF TypeOK
  <1>7. \A q \in Procs \ {p} : i'[q] = i[q]
    BY <1>2, <1>3, Advanced
  <1>8. to \in Gathers => "fork" \in Gathers /\ Due(p) = 0 /\ Due(p)' = 0
    BY <1>2, <1>6 DEF Due, Young, Gathers
  <1>9. Gathered(p)'
    BY <1>2, <1>3, <1>6, <1>8, KeepsValues DEF SaneInv, values
  <1>10. p \in Grown => Told(p)'
    BY <1>6 DEF Told
  <1>11. Bytes'
    BY <1>2 DEF SaneInv, Bytes, Main, values
  <1> QED BY <1>2, <1>5, <1>6, <1>7, <1>9, <1>10, <1>11, ValueOf DEF values, Over

LEMMA WakeValues ==
    ASSUME StopInv, AwakeInv, Sane, SaneInv, TypeOK', NEW p \in Procs, Wake(p) PROVE SaneInv'
  <1>1. /\ Moves(p, "wake", "wait")
        /\ UNCHANGED <<forking, i, values, woken, out>> /\ UNCHANGED <<program, tree>>
    BY DEF Wake, forking
  <1>2. at[p] = "wake" /\ at'[p] = "wait" /\ i[p] \in Nat /\ i'[p] = i[p]
    BY <1>1, Moved DEF StopInv, TypeOK
  <1>3. "wake" \in Gathers /\ Due(p) = i[p] /\ Due(p)' \in {i[p], i[p] + 1}
    BY <1>2 DEF Due, Young, Gathers
  <1>4. Due(p)' >= Due(p)
    BY <1>2, <1>3
  <1> QED BY <1>1, <1>3, <1>4, MovesValues DEF values, Over

\* What the elements of a sequence are when one more is put behind, or the first taken.
LEMMA AppendTail ==
    ASSUME NEW s \in Seq(Int), NEW e \in Int
    PROVE  /\ Append(s, e) \in Seq(Int) /\ Len(Append(s, e)) = Len(s) + 1 /\ Len(s) \in Nat
           /\ Append(s, e)[Len(s) + 1] = e
           /\ \A k \in 1 .. Len(s) : Append(s, e)[k] = s[k] /\ s[k] \in Int
           /\ s # << >> => /\ Tail(s) \in Seq(Int) /\ Len(Tail(s)) = Len(s) - 1 /\ Len(s) >= 1
                           /\ \A k \in 1 .. Len(s) - 1 : Tail(s)[k] = s[k + 1]
                           /\ Head(s) = s[1] /\ s[1] \in Int
  <1>1. /\ Append(s, e) \in Seq(Int) /\ Len(Append(s, e)) = Len(s) + 1 /\ Len(s) \in Nat
        /\ Append(s, e)[Len(s) + 1] = e
        /\ \A k \in 1 .. Len(s) : Append(s, e)[k] = s[k]
    BY AppendProperties, LenProperties
  <1>2. \A k \in 1 .. Len(s) : s[k] \in Int
    BY ElementOfSeq
  <1>3. ASSUME s # << >>
        PROVE  /\ Tail(s) \in Seq(Int) /\ Len(Tail(s)) = Len(s) - 1 /\ Len(s) >= 1
               /\ \A k \in 1 .. Len(s) - 1 : Tail(s)[k] = s[k + 1]
               /\ Head(s) = s[1]
    <2>1. /\ Tail(s) \in Seq(Int) /\ Len(Tail(s)) = Len(s) - 1 /\ Head(s) = s[1]
          /\ \A k \in 1 .. Len(Tail(s)) : Tail(s)[k] = s[k + 1]
      BY <1>3, HeadTailProperties
    <2>2. Len(s) # 0
      BY <1>3, EmptySeq
    <2> QED BY <1>1, <2>1, <2>2
  <1>4. s # << >> => s[1] \in Int
    <2>1. s # << >> => 1 \in 1 .. Len(s)
      BY <1>1, <1>3
    <2> QED BY <1>2, <2>1
  <1> QED BY <1>1, <1>2, <1>3, <1>4

LEMMA ReadPipeValues ==
    ASSUME StopInv, AwakeInv, Sane, SaneInv, TypeOK', NEW p \in Procs, ReadPipe(p) PROVE SaneInv'
  <1> DEFINE to == IF Len(got[p]) + 1 = Nr(p) THEN "result" ELSE "collect"
             g == got[p]
             s == pipe[p]
  <1>1. /\ Moves(p, "collect", to) /\ to \in {"result", "collect"} /\ s # << >>
        /\ got' = [got EXCEPT ![p] = Append(g, Head(s))] /\ pipe' = [pipe EXCEPT ![p] = Tail(s)]
        /\ UNCHANGED <<forking, i, child, status, woken, out>> /\ UNCHANGED <<program, tree>>
    BY DEF ReadPipe, forking
  <1> HIDE DEF to
  <1>2. /\ at[p] = "collect" /\ at'[p] = to /\ Runs(p) /\ TypeOK /\ Rooted
        /\ \A q \in Procs \ {p} : at'[q] = at[q]
    BY <1>1, Moved DEF StopInv
  <1>3. p \in Members /\ Local(p) /\ Nr(p) \in Nat /\ Nr(p)' = Nr(p) /\ program = "expr"
    BY <1>1, <1>2, Acting, TreeShape, NoKids DEF Local, Way
  <1>4. g \in Seq(Int) /\ s \in Seq(Int) /\ got \in [Procs -> Seq(Int)] /\ pipe \in [Procs -> Seq(Int)]
    BY <1>2, Typed
  <1>5. /\ got'[p] = Append(g, Head(s)) /\ pipe'[p] = Tail(s)
        /\ \A q \in Procs \ {p} : got'[q] = got[q] /\ pipe'[q] = pipe[q]
    BY <1>1, <1>4
  <1> DEFINE n == Len(g)
             m == Len(s)
  <1>6. Due(p) = Nr(p) /\ Due(p)' = Nr(p) /\ Gathered(p) /\ at[p] \in Gathers
    BY <1>1, <1>2, <1>3 DEF Due, Young, Gathers, SaneInv
  <1>7. /\ n \in Nat /\ m \in Nat /\ m >= 1 /\ Head(s) = s[1]
        /\ Len(got'[p]) = n + 1 /\ Len(pipe'[p]) = m - 1 /\ got'[p][n + 1] = s[1]
        /\ \A k \in 1 .. n : got'[p][k] = g[k]
        /\ \A k \in 1 .. m - 1 : pipe'[p][k] = s[k + 1]
    <2>1. s[1] \in Int /\ Head(s) = s[1] /\ m \in Nat /\ m >= 1
          /\ Len(Tail(s)) = m - 1 /\ \A k \in 1 .. m - 1 : Tail(s)[k] = s[k + 1]
      BY <1>1, <1>4, AppendTail
    <2> QED BY <1>4, <1>5, <2>1, AppendTail
  <1>8. Values(p) = n + m /\ Values(p)' = n + m
    <2>1. Values(p) = n + m /\ Values(p)' = (n + 1) + (m - 1)
      BY <1>7 DEF Values
    <2>2. (n + 1) + (m - 1) = n + m
      <3> HIDE DEF n, m
      <3> QED BY <1>7
    <2> QED BY <2>1, <2>2
  <1>9. ASSUME n + m = Nr(p), NEW k \in 1 .. Nr(p)
        PROVE  Answer(Append(p, k), Nth(p, k))'
    <2>1. Answer(Append(p, k), Nth(p, k))
      BY <1>6, <1>8, <1>9 DEF Gathered
    <2>2. Nth(p, k)' = Nth(p, k)
      <3> HIDE DEF g, s
      <3>1. CASE k <= n
        BY <1>3, <1>7, <3>1 DEF Nth, g, s
      <3>2. CASE k = n + 1
        BY <1>3, <1>7, <3>2 DEF Nth, g, s
      <3>3. CASE k > n + 1
        <4>1. k - (n + 1) \in 1 .. m - 1 /\ (k - (n + 1)) + 1 = k - n
          BY <1>3, <1>7, <1>9, <3>3
        <4>2. pipe'[p][k - (n + 1)] = s[k - n]
          BY <1>7, <4>1
        <4>3. ~(k <= n) /\ ~(k <= n + 1)
          BY <1>3, <1>7, <3>3
        <4> QED BY <1>7, <4>2, <4>3 DEF Nth, g, s
      <3> QED BY <1>3, <1>7, <3>1, <3>2, <3>3
    <2> QED BY <1>1, <2>1, <2>2, SameAnswer
  <1>10. Gathered(p)'
    BY <1>6, <1>8, <1>9 DEF Gathered
  <1>11. p \in Grown => Told(p)'
    BY <1>1, <1>2 DEF Told
  <1>12. Bytes'
    BY <1>1, <1>3 DEF Bytes
  <1> QED BY <1>1, <1>2, <1>5, <1>10, <1>11, <1>12, ValueOf DEF Over

LEMMA WaitKidValues ==
    ASSUME StopInv, AwakeInv, Sane, SaneInv, TypeOK', NEW p \in Procs, WaitKid(p) PROVE SaneInv'
  <1> DEFINE to == IF LastKid(p) THEN AfterWaits ELSE "wake"
  <1>1. /\ Moves(p, "wait", to) /\ Advance(p) /\ Gone(child[Kid(p)])
        /\ got' = IF program = "rv" THEN [got EXCEPT ![p] = Append(got[p], status[Kid(p)])] ELSE got
        /\ UNCHANGED <<forking, status, pipe, woken, out>> /\ UNCHANGED <<program, tree>>
    BY SaneIs DEF WaitKid, WaitsFor, forking
  <1>2. /\ to \in {"collect", "result", "wake"}
        /\ to = "wake" => ~LastKid(p)
        /\ to # "wake" => LastKid(p)
        /\ to = "collect" => program = "expr"
    BY SaneIs DEF AfterWaits
  <1> HIDE DEF to
  <1>3. /\ Runs(p) /\ at[p] = "wait" /\ at'[p] = to /\ TypeOK
        /\ \A q \in Procs \ {p} : at'[q] = at[q]
    BY <1>1, Moved DEF StopInv
  <1>4. /\ Rooted /\ p \in Members /\ Local(p) /\ i[p] \in Nat /\ i[p] + 1 \in 1 .. Nr(p)
        /\ Nr(p) \in Nat /\ Nr(p)' = Nr(p)
    BY <1>1, <1>3, Acting, TreeShape, NoKids
  <1>5. PICK c \in Procs \ {Main, p} : c = Kid(p) /\ c = Append(p, i[p] + 1)
    BY <1>4, KidOf
  <1>6. at[c] = "done" /\ child[c].run = "zombie"
    BY <1>1, <1>5 DEF StopInv, Seen, Gone, Reportable
  <1>7. c \in Range(woken) /\ c \in Grown
    BY <1>3, <1>4, <1>5, <1>6, SaneIs DEF Clears, WakeInv
  <1>8. /\ \A q \in Procs \ {p} : i'[q] = i[q]
        /\ ~LastKid(p) => i'[p] = i[p] + 1
    BY <1>1, <1>3, <1>4, Advanced
  <1>9. Due(p)' = i[p] + 1
    <2>1. CASE LastKid(p)
      <3>1. Due(p)' = Nr(p)
        BY <1>2, <1>3, <1>4, <2>1 DEF Due, Young
      <3> QED BY <2>1, <3>1 DEF LastKid
    <2>2. CASE ~LastKid(p)
      BY <1>2, <1>3, <1>8, <2>2 DEF Due, Young
    <2> QED BY <2>1, <2>2
  <1>10. at[p] \in Gathers /\ Gathered(p)
    BY <1>3, <1>4 DEF Gathers, SaneInv
  <1>11. p \in Grown => Told(p)'
    BY <1>2, <1>3 DEF Told
  <1>12. CASE program # "rv"
    <2>1. program = "expr" /\ got' = got
      BY <1>1, <1>12, SaneIs
    <2>2. Due(p) = i[p] + 1
      BY <1>3, <1>5, <1>6, <2>1 DEF Due, Young, Over
    <2>3. Due(p)' >= Due(p)
      BY <1>4, <1>9, <2>2
    <2>4. Gathered(p)'
      BY <1>1, <1>3, <1>4, <1>10, <2>1, <2>3, KeepsValues
    <2>5. Bytes'
      BY <1>1, <1>12 DEF Bytes
    <2> QED BY <1>1, <1>3, <1>8, <1>11, <2>1, <2>4, <2>5, ValueOf DEF Over
  <1>13. CASE program = "rv"
    <2> DEFINE g == got[p]
               y == status[c]
    <2>1. /\ g \in Seq(Int) /\ y \in Int /\ y \in 0 .. 255 /\ pipe[p] \in Seq(Int)
          /\ got \in [Procs -> Seq(Int)]
      <3>1. status[c] \in 0 .. 255
        BY <1>3 DEF TypeOK
      <3>2. \A n \in 0 .. 255 : n \in Int
        OBVIOUS
      <3> QED BY <1>3, <3>1, <3>2, Typed
    <2>2. /\ got'[p] = Append(g, y) /\ pipe'[p] = pipe[p]
          /\ \A q \in Procs \ {p} : got'[q] = got[q]
      BY <1>1, <1>5, <1>13, <2>1
    <2>3. Len(g) = i[p] /\ Due(p) = i[p]
      BY <1>3, <1>4, <1>13 DEF Local, Valued, Due, Young
    <2>4. /\ Len(got'[p]) = i[p] + 1 /\ got'[p][i[p] + 1] = y
          /\ \A k \in 1 .. i[p] : got'[p][k] = g[k]
      <3> HIDE DEF g, y
      <3>1. /\ Len(Append(g, y)) = Len(g) + 1 /\ Append(g, y)[Len(g) + 1] = y
            /\ \A k \in 1 .. Len(g) : Append(g, y)[k] = g[k]
        BY <2>1, AppendTail
      <3> QED BY <2>2, <2>3, <3>1
    <2>5. Len(pipe[p]) \in Nat
      BY <2>1, LenProperties
    <2>6. Values(p) = i[p] + Len(pipe[p]) /\ Values(p)' = i[p] + 1 + Len(pipe[p])
      BY <2>2, <2>3, <2>4 DEF Values
    <2>7. Values(p) <= i[p]
      BY <1>10, <2>3 DEF Gathered
    <2>8. Len(pipe[p]) = 0
      BY <1>4, <2>5, <2>6, <2>7
    <2>9. \A k \in 1 .. i[p] : Answer(Append(p, k), g[k])
      <3>1. Values(p) = Due(p)
        BY <1>4, <2>3, <2>6, <2>8
      <3>2. \A k \in 1 .. i[p] : Answer(Append(p, k), Nth(p, k))
        BY <1>10, <2>3, <3>1 DEF Gathered
      <3> QED BY <1>4, <2>3, <3>2 DEF Nth
    <2>10. Answer(c, y)
      BY <1>6, <1>7, <1>13 DEF SaneInv, Told
    <2>11. \A k \in 1 .. i[p] + 1 : Answer(Append(p, k), Nth(p, k)')
      <3> SUFFICES ASSUME NEW k \in 1 .. i[p] + 1 PROVE Answer(Append(p, k), got'[p][k])
        BY <1>4, <2>4 DEF Nth
      <3>1. CASE k = i[p] + 1
        BY <1>5, <2>4, <2>10, <3>1
      <3>2. CASE k \in 1 .. i[p]
        BY <2>4, <2>9, <3>2
      <3> QED BY <1>4, <3>1, <3>2
    <2>12. Gathered(p)'
      <3>1. \A k \in 1 .. i[p] + 1 : Answer(Append(p, k), Nth(p, k))'
        BY <1>1, <2>11, SameAnswer
      <3>2. Values(p)' = i[p] + 1
        BY <1>4, <2>6, <2>8
      <3> QED BY <1>4, <1>9, <3>1, <3>2 DEF Gathered
    <2>13. p = Main => Bytes'
      <3> SUFFICES ASSUME p = Main, NEW k \in 1 .. i[p] + 1 PROVE got'[p][k] \in 0 .. 255
        BY <2>4 DEF Bytes, Main
      <3>1. CASE k = i[p] + 1
        BY <2>1, <2>4, <3>1
      <3>2. CASE k \in 1 .. i[p]
        BY <1>13, <2>3, <2>4, <3>2 DEF SaneInv, Bytes
      <3> QED BY <1>4, <3>1, <3>2
    <2> QED BY <1>1, <1>3, <1>8, <1>11, <2>2, <2>12, <2>13, ValueOf DEF Over
  <1> QED BY <1>12, <1>13

\* A process that has a value of each child has the answers.
LEMMA Answered ==
    ASSUME StopInv, AwakeInv, Sane, SaneInv, NEW p \in Members, at[p] = "result"
    PROVE  /\ Len(got[p]) = Nr(p) /\ Nr(p) \in Nat
           /\ \A k \in 1 .. Nr(p) : Answer(Append(p, k), got[p][k])
  <1>1. Len(got[p]) = Nr(p) /\ Nr(p) \in Nat /\ TypeOK /\ Rooted
    BY SaneIs, TreeShape DEF Local, Valued, StopInv
  <1>2. Gathered(p) /\ at[p] \in Gathers /\ Due(p) = Nr(p)
    BY DEF SaneInv, Gathers, Due, Young
  <1>3. Len(pipe[p]) \in Nat
    BY <1>1, DueIsNatural
  <1>4. Values(p) = Nr(p) + Len(pipe[p]) /\ Values(p) <= Nr(p)
    BY <1>1, <1>2 DEF Values, Gathered
  <1>5. Values(p) = Nr(p)
    BY <1>1, <1>3, <1>4
  <1>6. \A k \in 1 .. Nr(p) : Answer(Append(p, k), Nth(p, k))
    BY <1>2, <1>5 DEF Gathered
  <1> QED BY <1>1, <1>6 DEF Nth

LEMMA ResultValues ==
    ASSUME StopInv, AwakeInv, Sane, SaneInv, TypeOK', NEW p \in Procs, Result(p) PROVE SaneInv'
  <1>1. /\ p # Main /\ Runs(p) /\ at[p] = "result"
        /\ UNCHANGED <<forking, i, child, status, pipe, woken, out>> /\ UNCHANGED <<program, tree>>
    BY DEF Result, forking
  <1>2. TypeOK /\ Rooted /\ p \in Members /\ Local(p) /\ p \in Grown
    BY <1>1, Acting DEF Members
  <1>3. /\ Nr(p) \in {0, 2} /\ Len(got[p]) = Nr(p) /\ program # "signals"
        /\ \A k \in 1 .. Nr(p) : Answer(Append(p, k), got[p][k])
    BY <1>1, <1>2, Answered, SaneIs DEF Local, Way
  <1>4. PICK to \in {"fail", "exit", "write"} :
            /\ Moves(p, "result", to)
            /\ to = "fail" => BadOperator(p) /\ got' = got
            /\ to # "fail" => ~BadOperator(p) /\ got' = [got EXCEPT ![p] = <<Computed(p)>>]
    BY <1>1, <1>3 DEF Result, Moves
  <1>5. /\ at'[p] = to /\ \A q \in Procs \ {p} : at'[q] = at[q]
    BY <1>2, <1>4, Moved
  <1>6. \A q \in Procs \ {p} : got'[q] = got[q]
    BY <1>2, <1>4, Typed
  <1>7. to \notin Gathers /\ Gathered(p)'
    BY <1>5 DEF Gathers, Gathered, Young
  <1>8. Told(p)'
    <2>1. CASE to = "fail"
      <3>1. program # "rv"
        BY <1>2, <1>4, <2>1, SaneIs
      <3> QED BY <1>1, <1>5, <2>1, <3>1 DEF Told
    <2>2. CASE to # "fail"
      <3>1. Answer(p, Computed(p))
        BY <1>2, <1>3, <1>4, <2>2, ComputedAnswers
      <3>2. got'[p][1] = Computed(p)
        <4>1. got'[p] = <<Computed(p)>>
          BY <1>2, <1>4, <2>2, Typed
        <4> QED BY <4>1
      <3>3. Answer(p, got[p][1])'
        BY <1>1, <3>1, <3>2, SameAnswer
      <3> QED BY <1>5, <2>2, <3>3 DEF Told
    <2> QED BY <2>1, <2>2
  <1> QED BY <1>1, <1>5, <1>6, <1>7, <1>8, ValueOf DEF Over

\* A process writes while its parent waits for it.
LEMMA ParentWaits ==
    ASSUME StopInv, AwakeInv, Sane, NEW p \in Grown, Risen(p)
    PROVE  /\ Front(p) \in Members /\ Front(p) # p
           /\ at[Front(p)] = "wait" /\ Kid(Front(p)) = p
  <1> DEFINE q == Front(p)
  <1>1. q \in Members /\ q \in Path /\ p \in Path /\ p # Main /\ Rooted
    BY TreeShape DEF StopInv
  <1>2. Len(p) \in Nat \ {0} /\ q = SubSeq(p, 1, Len(p) - 1)
    <2>1. Len(p) # 0 /\ Len(p) \in Nat
      BY <1>1, PrefixIs, EmptySeq DEF Path, Main
    <2> QED BY <2>1 DEF Front
  <1>3. Len(q) = Len(p) - 1 /\ \A k \in 1 .. Len(q) : q[k] = p[k]
    <2> DEFINE l == Len(p) - 1
    <2>1. l \in Nat /\ l - 1 + 1 = l /\ \A m \in 1 .. l : m \in 1 .. Len(p) /\ 1 + m - 1 = m
      BY <1>2
    <2>2. q = SubSeq(p, 1, l)
      BY <1>2
    <2> HIDE DEF l, q
    <2>3. 1 \in Int /\ l \in Int /\ \A m \in 1 .. l : p[m] \in Nat \ {0}
      BY <1>1, <2>1, ElementOfSeq DEF Path
    <2>4. /\ Len(SubSeq(p, 1, l)) = (IF 1 <= l THEN l - 1 + 1 ELSE 0)
          /\ \A m \in 1 .. l - 1 + 1 : SubSeq(p, 1, l)[m] = p[1 + m - 1]
      BY <2>3, SubSeqProperties
    <2>5. Len(q) = l
      BY <2>1, <2>2, <2>4
    <2>6. \A k \in 1 .. l : q[k] = p[k]
      BY <2>1, <2>2, <2>4
    <2> QED BY <2>5, <2>6 DEF l
  <1> HIDE DEF q
  <1>4. IsPrefix(q, p) /\ q # p
    <2>1. Len(q) <= Len(p) /\ Len(q) # Len(p)
      BY <1>2, <1>3
    <2> QED BY <1>1, <1>3, <2>1, PrefixIs
  <1>5. at[q] = "wait" /\ IsPrefix(Append(q, i[q] + 1), p)
    BY <1>1, <1>4, SaneIs DEF WakeInv, OnTheWay
  <1>6. i[q] + 1 \in Nat \ {0}
    <2>1. i[q] \in Nat
      BY <1>1, TreeShape DEF StopInv, TypeOK
    <2> QED BY <2>1
  <1>7. Append(q, i[q] + 1) = p
    <2> DEFINE c == Append(q, i[q] + 1)
    <2>1. c \in Path /\ Len(c) = Len(p)
      BY <1>1, <1>2, <1>3, <1>6, KidPath
    <2> HIDE DEF c
    <2>2. IsPrefix(c, p) => c = p
      <3>1. IsPrefix(c, p) => \A k \in 1 .. Len(c) : c[k] = p[k]
        BY <1>1, <2>1, PrefixIs
      <3>2. IsPrefix(c, p) => IsPrefix(p, c)
        BY <1>1, <2>1, <3>1, PrefixIs
      <3> QED BY <1>1, <2>1, <3>2, PrefixOrder
    <2> QED BY <1>5, <2>2 DEF c
  <1> QED BY <1>1, <1>4, <1>5, <1>7 DEF Kid, q

LEMMA WriteValues ==
    ASSUME StopInv, AwakeInv, Sane, SaneInv, TypeOK', NEW p \in Procs, Write(p) PROVE SaneInv'
  <1> DEFINE q == Front(p)
             y == got[p][1]
             s == pipe[q]
  <1>1. /\ Moves(p, "write", "exit") /\ pipe' = [pipe EXCEPT ![q] = Append(s, y)]
        /\ UNCHANGED <<forking, i, child, status, got, woken, out>> /\ UNCHANGED <<program, tree>>
    BY DEF Write, forking
  <1>2. /\ at'[p] = "exit" /\ at[p] = "write" /\ Runs(p) /\ TypeOK
        /\ \A r \in Procs \ {p} : at'[r] = at[r]
    BY <1>1, Moved DEF StopInv
  <1>3. /\ p \in Members /\ p # Main /\ p \in Grown /\ Local(p) /\ Rooted
        /\ child[p].run = "running" /\ Members \subseteq Procs
    BY <1>2, Acting, TreeShape DEF Members
  <1>4. program = "expr" /\ got[p] # << >> /\ got \in [Procs -> Seq(Int)] /\ pipe \in [Procs -> Seq(Int)]
    BY <1>2, <1>3, Typed DEF Local, Way, Valued
  <1>5. y \in Int /\ Answer(p, y)
    <2>1. got[p] \in Seq(Int)
      BY <1>4
    <2> QED BY <1>2, <1>3, <1>4, <2>1, AppendTail DEF SaneInv, Told
  <1>6. q \in Members /\ q # p /\ at[q] = "wait" /\ Kid(q) = p
    <2>1. Risen(p)
      BY <1>2, <1>3, SaneIs DEF Risen, Woke
    <2> QED BY <1>3, <2>1, ParentWaits
  <1>7. s \in Seq(Int) /\ pipe'[q] = Append(s, y) /\ \A r \in Procs \ {q} : pipe'[r] = pipe[r]
    BY <1>1, <1>3, <1>4, <1>6
  <1>8. /\ Len(pipe'[q]) = Len(s) + 1 /\ Len(s) \in Nat /\ pipe'[q][Len(s) + 1] = y
        /\ \A k \in 1 .. Len(s) : pipe'[q][k] = s[k]
    BY <1>5, <1>7, AppendTail
  <1>9. i[q] \in Nat /\ Len(got[q]) \in Nat /\ got'[q] = got[q] /\ at'[q] = "wait" /\ Kid(q)' = p
    <2>1. q \in Procs
      BY <1>3, <1>6
    <2> QED BY <1>1, <1>2, <1>6, <2>1, Typed DEF Kid
  <1>10. Due(q) = i[q] /\ Due(q)' = i[q] + 1
    BY <1>1, <1>2, <1>4, <1>6, <1>9 DEF Due, Young, Over
  <1> DEFINE n == Len(got[q])
             m == Len(s)
  <1>11. Values(q) = n + m /\ Values(q)' = n + (m + 1)
    BY <1>8, <1>9 DEF Values
  <1>12. n + m <= i[q] /\ (n + m = i[q] => \A k \in 1 .. i[q] : Answer(Append(q, k), Nth(q, k)))
    BY <1>6, <1>10, <1>11 DEF SaneInv, Gathered, Gathers
  <1>13. Append(q, i[q] + 1) = p
    BY <1>6 DEF Kid
  <1>14. \A k : Nth(q, k) = IF k <= n THEN got[q][k] ELSE s[k - n]
    BY DEF Nth
  <1>15. \A k : Nth(q, k)' = IF k <= n THEN got[q][k] ELSE pipe'[q][k - n]
    BY <1>9 DEF Nth
  <1>16. n \in Nat /\ m \in Nat /\ i[q] \in Nat
    BY <1>8, <1>9
  <1> HIDE DEF n, m, s, y, q
  <1>17. ASSUME n + (m + 1) = i[q] + 1, NEW k \in 1 .. i[q] + 1
         PROVE  Answer(Append(q, k), Nth(q, k))'
    <2>1. n + m = i[q]
      BY <1>16, <1>17
    <2>2. CASE k = i[q] + 1
      <3>1. ~(k <= n) /\ k - n = m + 1
        BY <1>16, <2>1, <2>2
      <3>2. Nth(q, k)' = y
        BY <1>8, <1>15, <3>1 DEF m
      <3> QED BY <1>1, <1>5, <1>13, <2>2, <3>2, SameAnswer
    <2>3. CASE k \in 1 .. i[q]
      <3>1. k <= n \/ k - n \in 1 .. m
        BY <1>16, <2>1, <2>3
      <3>2. Nth(q, k)' = Nth(q, k)
        BY <1>8, <1>14, <1>15, <3>1 DEF m
      <3>3. Answer(Append(q, k), Nth(q, k))
        BY <1>12, <2>1, <2>3
      <3>4. Nth(q, k) = Nth(q, k)'
        BY <3>2
      <3> QED BY <1>1, <3>3, <3>4, SameAnswer
    <2> QED BY <1>16, <2>2, <2>3
  <1>18. Gathered(q)'
    BY <1>10, <1>11, <1>12, <1>16, <1>17 DEF Gathered
  <1>19. Gathered(p)'
    BY <1>2 DEF Gathered, Gathers, Young
  <1>20. Told(p)'
    <2>1. got'[p][1] = y
      BY <1>1 DEF y
    <2>2. Answer(p, got[p][1])'
      BY <1>1, <1>5, <2>1, SameAnswer
    <2> QED BY <1>1, <1>2, <1>4, <2>2 DEF Told
  <1> QED BY <1>1, <1>2, <1>3, <1>7, <1>18, <1>19, <1>20, ValueOf DEF Over, q

LEMMA ExitValues ==
    ASSUME StopInv, AwakeInv, Sane, SaneInv, TypeOK', NEW p \in Procs, Exit(p) PROVE SaneInv'
  <1>1. /\ p # Main /\ Runs(p) /\ at[p] \in {"exit", "fail", "crash"}
        /\ status' = [status EXCEPT ![p] = StatusOf(p)] /\ at' = [at EXCEPT ![p] = "done"]
        /\ UNCHANGED <<forking, i, got, pipe, woken, out>> /\ UNCHANGED <<program, tree>>
    BY DEF Exit, forking
  <1>2. TypeOK /\ at'[p] = "done" /\ \A q \in Procs \ {p} : at'[q] = at[q] /\ status'[q] = status[q]
    BY <1>1 DEF StopInv, TypeOK
  <1>3. status'[p] = StatusOf(p)
    BY <1>1, <1>2 DEF TypeOK
  <1>4. Gathered(p)'
    BY <1>2 DEF Gathered, Gathers, Young
  <1>5. ASSUME p \in Grown PROVE Told(p)'
    <2> SUFFICES ASSUME program = "rv", p \in Range(woken) PROVE Answer(p, status[p])'
      BY <1>1, <1>2, <1>5 DEF Told
    <2>1. at[p] = "exit" /\ Answer(p, got[p][1])
      BY <1>1, <1>5, SaneIs DEF SaneInv, Told, Woke
    <2>2. got[p] # << >> /\ got[p] \in Seq(Int)
      BY <1>2, <1>5, <2>1, SaneIs, Typed DEF Local, Valued, Members
    <2>3. got[p][1] \in Int
      BY <2>2, AppendTail
    <2>4. StatusOf(p) = got[p][1] % 256
      BY <2>1 DEF StatusOf
    <2>5. (got[p][1] % 256) % 256 = got[p][1] % 256
      BY <2>3
    <2>6. Answer(p, status'[p])
      BY <1>3, <2>1, <2>4, <2>5 DEF Answer
    <2> QED BY <1>1, <2>6, SameAnswer
  <1>6. p = Main => Bytes'
    BY <1>1
  <1> QED BY <1>1, <1>2, <1>4, <1>5, <1>6, ValueOf DEF Over

LEMMA MainEndsValues ==
    ASSUME StopInv, AwakeInv, ReturnedWith, Sane, SaneInv, TypeOK', MainEnds PROVE SaneInv'
  <1>1. PICK from \in {"result", "exit", "fail", "crash"}, to \in Ended :
            /\ Moves(Main, from, to)
            /\ from # "result" => out' = out
            /\ from = "result" => out' = Append(out, got[Main][1])
    BY DEF MainEnds, Ended
  <1>2. UNCHANGED <<forking, i, child, values, woken>> /\ UNCHANGED <<program, tree>>
    BY DEF MainEnds, forking
  <1>3. /\ Main \in Procs /\ Main \in Members /\ TypeOK /\ Rooted /\ Main \notin Grown /\ Nr(Main) = 1
    BY TreeShape DEF StopInv, Nr
  <1>4. at[Main] = from /\ at'[Main] = to /\ \A q \in Procs \ {Main} : at'[q] = at[q]
    BY <1>1, <1>3, Moved
  <1>5. Gathered(Main)' /\ Bytes'
    <2>1. to \notin Gathers
      BY <1>1 DEF Ended, Gathers, Young
    <2>2. Bytes'
      BY <1>2 DEF SaneInv, Bytes, Main, values
    <2> QED BY <1>4, <2>1, <2>2 DEF Gathered
  <1>6. out' = out \/ OutRight'
    <2> SUFFICES ASSUME from = "result" PROVE OutRight'
      BY <1>1
    <2>1. Len(got[Main]) = 1 /\ \A k \in 1 .. 1 : Answer(Append(Main, k), got[Main][k])
      BY <1>3, <1>4, Answered
    <2>2. 1 \in 1 .. Len(got[Main]) /\ got[Main] \in Seq(Int) /\ Append(Main, 1) = Root
      BY <1>3, <2>1, Typed DEF Main, Root
    <2>3. PICK y \in Int : y = got[Main][1]
      BY <2>2, ElementOfSeq
    <2>4. Answer(Root, y)
      <3>1. Answer(Append(Main, 1), got[Main][1])
        BY <2>1
      <3> QED BY <2>2, <2>3, <3>1
    <2>5. out' = <<y>>
      BY <1>1, <1>4, <2>3 DEF ReturnedWith
    <2>6. program = "rv" => y \in 0 .. 255
      BY <2>2, <2>3 DEF SaneInv, Bytes
    <2>7. Answer(<<1>>, y)'
      BY <1>2, <2>4, SameAnswer DEF Root
    <2> QED BY <1>2, <2>5, <2>6, <2>7 DEF OutRight, Root
  <1>7. Main \notin Grown /\ (Main # Main /\ at[Main] \in Over => at'[Main] \in Over)
    BY <1>3
  <1> QED BY <1>2, <1>3, <1>4, <1>5, <1>6, <1>7, ValueOf DEF values

\* main prints when it ends, and not before.
LEMMA PrintsAtTheEnd ==
    ASSUME StopInv, ReturnedWith, [Next]_vars PROVE ReturnedWith'
  <1>1. CASE UNCHANGED vars
    BY <1>1 DEF vars, ReturnedWith, Main
  <1>2. CASE MainEnds
    <2>1. PICK from \in {"result", "exit", "fail", "crash"}, to \in Ended :
              /\ Moves(Main, from, to) /\ UNCHANGED program
              /\ from = "result" => to = "done"
              /\ from # "result" => out' = out
      BY <1>2 DEF MainEnds, Ended, forking
    <2>2. Main \in Procs /\ Main \in Members /\ TypeOK
      BY TreeShape DEF StopInv
    <2>3. at[Main] = from /\ at'[Main] = to
      BY <2>1, <2>2, Moved
    <2>4. from = "result" => program \in {"expr", "rv"}
      BY <2>2, <2>3, ProgramsAssumption DEF StopInv, Local, Way, Stops, TypeOK
    <2> QED BY <2>1, <2>3, <2>4 DEF ReturnedWith, Main, Ended
  <1>3. ASSUME NEW p \in Procs, Grows(p) \/ Walks(p) \/ Evaluates(p) \/ Photo
        PROVE  out' = out /\ program' = program /\ (at[Main] = "done" => at'[Main] = "done")
    <2>1. out' = out /\ program' = program
      BY <1>3 DEF Grows, Walks, Evaluates, Start, Fork, ForkFails,
                  WaitReady, RaiseStop, Awake, Wake, WaitKid, ReadPipe, ReadEnd, Result, Write, Exit,
                  Photo, forking
    <2>2. ASSUME at[Main] = "done" PROVE at'[Main] = "done"
      <3>1. ~Runs(Main) /\ Main \in Procs /\ TypeOK
        BY <2>2, TreeShape DEF Runs, Ended, StopInv
      <3>2. p # Main /\ ~Photo
        <4>1. p = Main => ~Grows(p) /\ ~Walks(p)
          BY <3>1 DEF Grows, Walks, Start, Fork, ForkFails, WaitReady, RaiseStop,
                      Awake, Wake, WaitKid, Moves
        <4>2. p = Main => ~Evaluates(p)
          BY <3>1 DEF Evaluates, ReadPipe, ReadEnd, Result, Write, Exit, Moves
        <4>3. ~Photo
          BY <3>1 DEF Photo, Moves
        <4> QED BY <1>3, <4>1, <4>2, <4>3
      <3>3. CASE Fork(p)
        <4>1. p \in Members /\ i[p] + 1 \in 1 .. Nr(p) /\ Rooted
          BY <3>3, Acting DEF Fork
        <4>2. Kid(p) # Main
          BY <4>1, KidOf
        <4>3. PICK to : at' = [at EXCEPT ![Kid(p)] = "start", ![p] = to]
          BY <3>3 DEF Fork
        <4> QED BY <2>2, <3>1, <3>2, <4>2, <4>3 DEF TypeOK
      <3>4. CASE ~Fork(p)
        <4>1. PICK to : at' = [at EXCEPT ![p] = to]
          BY <1>3, <3>2, <3>4 DEF Grows, Walks, Evaluates, Start, ForkFails, WaitReady, RaiseStop,
                Awake, Wake, WaitKid, ReadPipe, ReadEnd, Result, Write, Exit, Moves
        <4> QED BY <2>2, <3>1, <3>2, <4>1 DEF TypeOK
      <3> QED BY <3>3, <3>4
    <2> QED BY <2>1, <2>2
  <1> QED BY <1>1, <1>2, <1>3 DEF Next, Step, MainStep, ReturnedWith

LEMMA ValueInit == Init => ValueInv
  <1> SUFFICES ASSUME Init PROVE ValueInv
    OBVIOUS
  <1>1. StopInv
    BY StopInit
  <1>2. /\ out = << >> /\ woken = << >> /\ got = [p \in Procs |-> << >>] /\ pipe = [p \in Procs |-> << >>]
        /\ at = [p \in Procs |-> IF p # Main THEN "unborn"
                                ELSE IF TreeOf(file).ok THEN "fork" ELSE "fail"]
    BY DEF Init
  <1>3. Members \subseteq Procs /\ Grown \subseteq Procs /\ Main \in Procs /\ Main \notin Grown
        /\ \A p \in Members : Nr(p) \in Nat
    BY <1>1, TreeShape DEF StopInv
  <1>4. Len(<< >>) = 0
    BY EmptySeq
  <1>5. ASSUME NEW p \in Members PROVE Gathered(p)
    <2>1. at[p] \in Gathers => Due(p) = 0 /\ Values(p) = 0
      BY <1>2, <1>3, <1>4 DEF Due, Values, Young, Gathers
    <2> QED BY <2>1 DEF Gathered
  <1>6. ASSUME NEW p \in Grown PROVE Told(p)
    <2>1. p \notin Range(woken)
      BY <1>2, <1>3, NoneAwake
    <2>2. at[p] = "unborn"
      BY <1>2, <1>3
    <2> QED BY <2>1, <2>2 DEF Told
  <1>7. Bytes
    BY <1>2, <1>3, <1>4 DEF Bytes
  <1> QED BY <1>2, <1>5, <1>6, <1>7 DEF ValueInv, ReturnedWith, SaneInv, OutRight

LEMMA ValueStep == StopInv /\ AwakeInv /\ ValueInv /\ [Next]_vars => ValueInv'
  <1> SUFFICES ASSUME StopInv, AwakeInv, ValueInv, [Next]_vars PROVE ValueInv'
    OBVIOUS
  <1>1. ReturnedWith' /\ TypeOK'
    BY PrintsAtTheEnd, StopStep DEF ValueInv, StopInv
  <1>2. UNCHANGED <<program, tree>>
    BY DEF Next, Step, Grows, Walks, Evaluates, MainStep, Start, Fork, ForkFails,
           WaitReady, RaiseStop, Awake, Wake, WaitKid, ReadPipe, ReadEnd, Result, Write, Exit,
           Photo, MainEnds, forking, vars
  <1>3. Sane' = Sane
    BY <1>2, SameAnswer
  <1> SUFFICES ASSUME Sane, SaneInv PROVE SaneInv'
    BY <1>1, <1>3 DEF ValueInv
  <1>4. CASE UNCHANGED vars
    <2>1. UNCHANGED <<program, tree, status, got, pipe, out, at, i, woken>> /\ Main \in Procs /\ Main \in Members
          /\ Main \notin Grown /\ TypeOK /\ Rooted
      BY <1>4, TreeShape DEF vars, values, StopInv
    <2>2. Bytes'
      BY <2>1 DEF SaneInv, Bytes, Main
    <2>3. Due(Main)' >= Due(Main)
      <3>1. Due(Main)' = Due(Main) /\ Due(Main) \in Nat
        BY <2>1, DueIsNatural, SameAnswer DEF Due, Kid, Main
      <3> QED BY <3>1
    <2>4. Gathered(Main)'
      BY <1>1, <2>1, <2>3, KeepsValues DEF SaneInv, Main
    <2> QED BY <1>1, <2>1, <2>2, <2>4, ValueOf
  <1>5. ASSUME NEW p \in Procs, Grows(p) PROVE SaneInv'
    BY <1>1, <1>5, StartValues, ForkValues, ForkFailsValues, WaitReadyValues, RaiseStopValues DEF Grows
  <1>6. ASSUME NEW p \in Procs, Walks(p) PROVE SaneInv'
    BY <1>1, <1>6, AwakeValues, WakeValues, WaitKidValues DEF Walks
  <1>7. ASSUME NEW p \in Procs, Evaluates(p) PROVE SaneInv'
    BY <1>1, <1>7, ReadPipeValues, ForkFailsValues, ResultValues, WriteValues, ExitValues DEF Evaluates
  <1>8. ASSUME MainStep PROVE SaneInv'
    BY <1>1, <1>8, PhotoValues, MainEndsValues DEF MainStep, ValueInv
  <1> QED BY <1>4, <1>5, <1>6, <1>7, <1>8 DEF Next, Step

LEMMA ValueAlways == Spec => [](StopInv /\ AwakeInv /\ ValueInv)
  <1>1. Init => StopInv /\ AwakeInv /\ ValueInv
    BY StopInit, AwakeInit, ValueInit
  <1>2. (StopInv /\ AwakeInv /\ ValueInv) /\ [Next]_vars => (StopInv /\ AwakeInv /\ ValueInv)'
    BY StopStep, AwakeStep, ValueStep
  <1> QED BY <1>1, <1>2, PTL DEF Spec

\* The recursive definition of the value gives what the tree denotes.
LEMMA ValueIs ==
    ASSUME Rooted, NEW x, Denotes(Root, x) PROVE Value = x /\ Below(Root) = Grown
  <1>1. Below(Root) = Grown /\ Main \notin Grown
    BY TreeShape DEF Below
  <1> DEFINE Body(v) == [p \in Grown |->
                             IF tree[p].nr = 0 THEN Atoi[tree[p].name]
                             ELSE IF Operator[tree[p].name] = "*"
                                  THEN v[Append(p, 1)] * v[Append(p, 2)]
                                  ELSE v[Append(p, 1)] + v[Append(p, 2)]]
  <1>2. \A p \in Grown : Nr(p) = tree[p].nr
    BY <1>1 DEF Nr
  <1>3. \E w : w = Body(w)
    <2>1. PICK w \in [Grown -> Int] : Solves(w, Root)
      BY DEF Denotes
    <2>2. \A p \in Grown : w[p] = Body(w)[p]
      BY <1>1, <1>2, <2>1 DEF Solves
    <2>3. w = Body(w)
      BY <2>2
    <2> QED BY <2>3
  <1>4. ValueAt = CHOOSE v : v = Body(v)
    BY DEF ValueAt
  <1>5. ValueAt = Body(ValueAt)
    <2> HIDE DEF Body
    <2> QED BY <1>3, <1>4
  <1>6. \A p \in Grown : ValueAt[p] = Body(ValueAt)[p]
    <2> HIDE DEF Body
    <2> QED BY <1>5
  <1>7. \A p \in Grown : Nr(p) \in {0, 2}
    BY <1>1 DEF Denotes, Solves
  <1>8. Solves(ValueAt, Root)
    BY <1>1, <1>2, <1>6, <1>7 DEF Solves
  <1> QED BY <1>1, <1>8 DEF Denotes, Value

----------------------------------------------------------------------------
(* Theorems. *)

\* Type correctness: whatever the four programs do, no loop runs past its last child,
\* and every status is one that exit can pass on.
THEOREM TypeCorrect == Spec => []TypeOK
  <1>1. StopInv => TypeOK
    BY DEF StopInv
  <1> QED BY <1>1, StopAlways, PTL

\* A process that is stopped is the root of a subtree that is stopped, and main takes its
\* picture of a tree that is there to the last process: wait_for_ready_children does
\* what its comment promises at every level, whatever forks fail.
THEOREM ReadyTheorem == Spec => []ReadyRecursively
  <1>1. StopInv => ReadyRecursively
    BY DEF StopInv
  <1> QED BY <1>1, StopAlways, PTL

\* The processes wake in the order in which print_tree prints them, none passed over:
\* each is woken by a parent that waits for it and has seen the end of all the
\* children before it.
THEOREM WakeOrder == Spec => []WakesInOrder
  <1>1. StopInv /\ AwakeInv => WakesInOrder
    <2> SUFFICES ASSUME StopInv, AwakeInv PROVE WakesInOrder
      OBVIOUS
    <2>1. Grown \subseteq Procs
      BY TreeShape DEF StopInv
    <2> QED BY <2>1, NoneAwake DEF AwakeInv, WakeInv
  <1> QED BY <1>1, AwakeAlways, PTL

\* When main returns, every process of the tree has ended and has been waited for, so
\* that none outlives the program and none is a zombie.
THEOREM NobodyLeftTheorem == Spec => []NobodyLeft
  <1>1. StopInv /\ AwakeInv => NobodyLeft
    <2> SUFFICES ASSUME StopInv, AwakeInv, at[Main] = "done", Stops, NEW p \in Grown
                 PROVE  child[p].run = "reaped"
      BY DEF NobodyLeft
    <2>1. Main \in Members /\ Nr(Main) = 1
      BY DEF Members, Nr
    <2>2. Clears(Main) /\ Finished(Main)
      BY <2>1 DEF AwakeInv, WakeInv, Finished
    <2>3. Cleared(Append(Main, 1)) /\ Append(Main, 1) = Root
      BY <2>1, <2>2 DEF Clears, Main, Root
    <2>4. IsPrefix(Root, p)
      BY TreeShape DEF StopInv
    <2> QED BY <2>3, <2>4 DEF Cleared
  <1> QED BY <1>1, AwakeAlways, PTL

\* What main prints is the value of the expression: all of it with ask2-expr, which
\* prints nothing for a bad operator; its last eight bits with ask2-expr-rv, when there
\* is none.
THEOREM ResultTheorem == Spec => []ResultIsRight
  <1>1. StopInv /\ AwakeInv /\ ValueInv => ResultIsRight
    <2> SUFFICES ASSUME StopInv, ValueInv, out # << >>,
                        program # "expr" => BadOperators = {}
                 PROVE  IF program = "expr" THEN BadOperators = {} /\ out = <<Value>>
                                            ELSE out = <<Value % 256>>
      BY DEF ResultIsRight
    <2>1. program \in {"expr", "rv"} /\ SaneInv
      BY DEF ValueInv, ReturnedWith, Sane
    <2>2. PICK y \in Int : out = <<y>> /\ Answer(Root, y) /\ (program = "rv" => y \in 0 .. 255)
      BY <2>1 DEF SaneInv, OutRight
    <2>3. PICK x \in Int : /\ Denotes(Root, x)
                           /\ IF program = "rv" THEN y % 256 = x % 256 ELSE y = x
      BY <2>2 DEF Answer
    <2>4. Value = x /\ Below(Root) = Grown
      BY <2>3, ValueIs DEF StopInv
    <2>5. CASE program = "expr"
      BY <2>2, <2>3, <2>4, <2>5 DEF Answer, BadOperators
    <2>6. CASE program = "rv"
      <3>1. y \in 0 .. 255 /\ y % 256 = x % 256
        BY <2>2, <2>3, <2>6
      <3>2. y = x % 256
        BY <3>1
      <3> QED BY <2>2, <2>4, <2>6, <3>2
    <2> QED BY <2>1, <2>5, <2>6
  <1> QED BY <1>1, ValueAlways, PTL
=============================================================================
