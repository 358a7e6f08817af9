------------------------- MODULE PointerListProofs -------------------------
(***************************************************************************)
(* The lists of exer4/prio/plist.c in memory, for every set of addresses   *)
(* and every number of tasks.  Each of the two lists is a ring, and the    *)
(* nodes of the rings are all the nodes there are: that is the inductive   *)
(* invariant.  A loop of plist.c then meets the ring once around, so that  *)
(* what a call does to the memory can be said of rings: one ring loses a   *)
(* node, gets one, or starts at the next; the other stays.  From this      *)
(* follow RingsAreSound and that the calls do to the walks what TaskLists  *)
(* says they do to sequences.                                              *)
(***************************************************************************)
EXTENDS PointerList, SharedLemmas, FiniteSetTheorems
----------------------------------------------------------------------------
(* The lists as they are in memory: rings. *)

Node == [id : Nat, pid : Pids \cup {NULL}, next : Addrs \cup {NULL}, prev : Addrs \cup {NULL}]
Memory == [node : [Addrs -> Node], head : [Lists -> Addrs \cup {NULL}]]

\* The place after place i of a ring of n nodes.
NextIn(n, i) == IF i = n THEN 1 ELSE i + 1

\* The nodes of s are linked to each other in both directions, in this order.
Linked(m, s) ==
    \A i \in 1 .. Len(s) : /\ m.node[s[i]].next = s[NextIn(Len(s), i)]
                           /\ m.node[s[NextIn(Len(s), i)]].prev = s[i]

Ring(m, l, s) ==
    /\ s \in Seq(Addrs) /\ IsInjective(s) /\ Linked(m, s)
    /\ m.head[l] = (IF s = << >> THEN NULL ELSE s[1])

\* What a node says of its task.
Task(m, a) == [id |-> m.node[a].id, pid |-> m.node[a].pid]

\* Two rings that share no node, and no node besides them.
Rings(m, s) ==
    /\ m \in Memory
    /\ \A l \in Lists : Ring(m, l, s[l]) /\ Range(s[l]) \cap Range(s[Other(l)]) = {}
    /\ \A a \in Addrs : (\A l \in Lists : a \notin Range(s[l])) => m.node[a] = Freed

\* What is true of the addresses of a ring, whatever the links are.
Places(s) ==
    /\ Len(s) \in Nat /\ DOMAIN s = 1 .. Len(s)
    /\ \A i \in 1 .. Len(s) : s[i] \in Addrs /\ NextIn(Len(s), i) \in 1 .. Len(s)
    /\ \A i, j \in 1 .. Len(s) : s[i] = s[j] => i = j
    /\ \A a : a \in Range(s) <=> \E i \in 1 .. Len(s) : a = s[i]
    /\ s # << >> <=> Len(s) >= 1
    /\ Len(s) <= Cardinality(Addrs) /\ Cardinality(Addrs) \in Nat

LEMMA RingFacts ==
    ASSUME NEW m, NEW l, NEW s, Ring(m, l, s)
    PROVE  Places(s)
  <1>1. Len(s) \in Nat /\ DOMAIN s = 1 .. Len(s)
    BY LenProperties DEF Ring
  <1>2. \A i \in 1 .. Len(s) : s[i] \in Addrs
    BY ElementOfSeq DEF Ring
  <1>3. \A a : a \in Range(s) <=> \E i \in 1 .. Len(s) : a = s[i]
    BY <1>1 DEF Range
  <1>4. \A i, j \in 1 .. Len(s) : s[i] = s[j] => i = j
    BY <1>1 DEF Ring, IsInjective
  <1>5. s # << >> <=> Len(s) >= 1
    BY <1>1, EmptySeq DEF Ring
  <1>6. \A i \in 1 .. Len(s) : NextIn(Len(s), i) \in 1 .. Len(s)
    <2> SUFFICES ASSUME NEW i \in 1 .. Len(s) PROVE NextIn(Len(s), i) \in 1 .. Len(s)
      OBVIOUS
    <2>1. CASE i = Len(s)
      BY <1>1, <2>1 DEF NextIn
    <2>2. CASE i # Len(s)
      <3>1. \A k \in Nat : \A j \in 1 .. k : j # k => j + 1 \in 1 .. k
        OBVIOUS
      <3>2. i + 1 \in 1 .. Len(s)
        BY <1>1, <2>2, <3>1, Zenon
      <3> QED BY <2>2, <3>2 DEF NextIn
    <2> QED BY <2>1, <2>2
  <1>7. s \in Injection(1 .. Len(s), Addrs)
    <2>1. s \in [1 .. Len(s) -> Addrs]
      BY LenProperties DEF Ring
    <2> QED BY <2>1 DEF Injection, Ring
  <1>8. Cardinality(1 .. Len(s)) <= Cardinality(Addrs)
    BY <1>7, FS_Injection, PointersAssumption
  <1>9. Cardinality(1 .. Len(s)) = Len(s)
    <2>1. Cardinality(1 .. Len(s)) = IF 1 > Len(s) THEN 0 ELSE Len(s) - 1 + 1
      BY <1>1, FS_Interval
    <2> QED BY <1>1, <2>1
  <1>10. Cardinality(Addrs) \in Nat
    BY PointersAssumption, FS_CardinalityType
  <1> QED BY <1>1, <1>2, <1>3, <1>4, <1>5, <1>6, <1>8, <1>9, <1>10 DEF Places

\* The loops of plist.c meet the nodes of a ring in its order, each once.
LEMMA WalkIs ==
    ASSUME NEW m, NEW l \in Lists, NEW s, Ring(m, l, s)
    PROVE  Walk(m, l) = s
  <1>0. NULL \notin Addrs
    BY PointersAssumption
  <1>1. CASE s = << >>
    BY <1>1 DEF Walk, Ring
  <1>2. CASE s # << >>
    <2> DEFINE N == Cardinality(Addrs)
               n == Len(s)
               Body(f) == [i \in 0 .. N |-> IF i = 0 THEN m.head[l] ELSE m.node[f[i - 1]].next]
               at == CHOOSE f : f = Body(f)
               size == Min({i \in 1 .. N : at[i] = m.head[l]})
    <2>1. /\ N \in Nat /\ n \in 1 .. N /\ DOMAIN s = 1 .. n
          /\ \A i \in 1 .. n : s[i] \in Addrs /\ NextIn(n, i) \in 1 .. n
          /\ \A i, j \in 1 .. n : s[i] = s[j] => i = j
          /\ \A a : a \in Range(s) <=> \E i \in 1 .. n : a = s[i]
      <3>1. Places(s)
        BY RingFacts
      <3> QED BY <1>2, <3>1 DEF Places
    <2>2. m.head[l] = s[1] /\ m.head[l] # NULL
      BY <1>0, <1>2, <2>1 DEF Ring
    <2>3. Walk(m, l) = [i \in 1 .. size |-> at[i - 1]]
      BY <2>2 DEF Walk
    <2>4. at = Body(at)
      <3> DEFINE step == [i \in 1 .. N |-> [a \in Range(s) |-> m.node[a].next]]
      <3>1. step \in Steps(Range(s), N)
        BY <2>1 DEF Steps, Ring, Linked
      <3>2. s[1] \in Range(s)
        BY <2>1
      <3>3. PICK f \in [0 .. N -> Range(s)] : StepByStep(f, N, s[1], step)
        <4> HIDE DEF step, N
        <4> QED BY <2>1, <3>1, <3>2, Recursion
      <3>4. f = Body(f)
        <4>1. ASSUME NEW i \in 0 .. N PROVE f[i] = Body(f)[i]
          <5>1. CASE i = 0
            BY <2>2, <3>3, <5>1 DEF StepByStep
          <5>2. CASE i # 0
            <6>1. i \in 1 .. N /\ i - 1 \in 0 .. N
              BY <2>1, <5>2
            <6> QED BY <3>3, <5>2, <6>1 DEF StepByStep
          <5> QED BY <5>1, <5>2
        <4> QED BY <4>1
      <3> HIDE DEF Body
      <3> QED BY <3>4
    <2>5. at[0] = s[1]
      <3>1. at[0] = Body(at)[0]
        <4> HIDE DEF Body, at
        <4> QED BY <2>4
      <3> QED BY <2>1, <2>2, <3>1
    <2>6. \A i \in 1 .. N : at[i] = m.node[at[i - 1]].next
      <3> TAKE i \in 1 .. N
      <3>1. at[i] = Body(at)[i]
        <4> HIDE DEF Body, at
        <4> QED BY <2>4
      <3>2. i \in 0 .. N /\ i # 0
        BY <2>1
      <3> HIDE DEF at
      <3> QED BY <3>1, <3>2
    <2> HIDE DEF at, N
    <2>7. \A i \in 0 .. n - 1 : at[i] = s[i + 1]
      <3> DEFINE T == {i \in Nat : i < n => at[i] = s[i + 1]}
      <3>1. 0 \in T
        BY <2>5
      <3>2. ASSUME NEW i \in Nat, i \in T PROVE i + 1 \in T
        <4> SUFFICES ASSUME i + 1 < n PROVE at[i + 1] = s[(i + 1) + 1]
          OBVIOUS
        <4>1. at[i] = s[i + 1] /\ i + 1 \in 1 .. N /\ i + 1 \in 1 .. n /\ (i + 1) - 1 = i
          BY <2>1, <3>2
        <4>2. at[i + 1] = m.node[s[i + 1]].next
          BY <2>6, <4>1
        <4>3. NextIn(Len(s), i + 1) = (i + 1) + 1
          BY <4>1 DEF NextIn
        <4> QED BY <4>1, <4>2, <4>3 DEF Ring, Linked
      <3>3. Nat \subseteq T
        <4> HIDE DEF T
        <4> QED BY <3>1, <3>2, SetInduction
      <3>4. \A i \in 0 .. n - 1 : i \in Nat /\ i < n
        BY <2>1
      <3> QED BY <3>3, <3>4
    <2>8. at[n] = s[1]
      <3>1. n - 1 \in 0 .. n - 1 /\ (n - 1) + 1 = n /\ n \in 1 .. N
        BY <2>1
      <3>2. at[n] = m.node[s[n]].next
        BY <2>6, <2>7, <3>1
      <3>3. NextIn(Len(s), n) = 1
        BY DEF NextIn
      <3> QED BY <2>1, <3>1, <3>2, <3>3 DEF Ring, Linked
    <2>9. size = n
      <3> DEFINE T == {i \in 1 .. N : at[i] = m.head[l]}
      <3>1. n \in T
        BY <2>1, <2>2, <2>8
      <3>2. \A i \in T : n <= i
        <4> SUFFICES ASSUME NEW i \in 1 .. n - 1, at[i] = s[1] PROVE FALSE
          BY <2>1, <2>2
        <4>1. i \in 0 .. n - 1 /\ i + 1 \in 1 .. n /\ i + 1 # 1 /\ 1 \in 1 .. n
          BY <2>1
        <4> QED BY <2>1, <2>7, <4>1
      <3>3. size \in T /\ \A i \in T : size <= i
        <4>1. T \subseteq Nat /\ T # {}
          BY <2>1, <3>1
        <4> HIDE DEF T
        <4> QED BY <4>1, MinFacts DEF T
      <3> QED BY <2>1, <3>1, <3>2, <3>3
    <2>10. Walk(m, l) = [i \in 1 .. n |-> s[i]]
      <3> HIDE DEF size, n
      <3>1. \A i \in 1 .. n : i - 1 \in 0 .. n - 1 /\ (i - 1) + 1 = i
        BY <2>1
      <3> QED BY <2>3, <2>7, <2>9, <3>1
    <2> QED BY <2>1, <2>10, LenProperties DEF Ring
  <1> QED BY <1>1, <1>2

\* Looking for a node finds the first one in the order of the ring.
LEMMA FirstOfIs ==
    ASSUME NEW m, NEW l \in Lists, NEW s, Ring(m, l, s), NEW T
    PROVE  \/ FirstOf(m, l, T) = NULL /\ Range(s) \cap T = {}
           \/ /\ FirstOf(m, l, T) # NULL
              /\ \E j \in 1 .. Len(s) : FirstOf(m, l, T) = s[j] /\ s[j] \in T
  <1> DEFINE hits == {i \in DOMAIN s : s[i] \in T}
  <1>1. FirstOf(m, l, T) = IF hits = {} THEN NULL ELSE s[Min(hits)]
    BY WalkIs DEF FirstOf
  <1>2. /\ DOMAIN s = 1 .. Len(s) /\ Len(s) \in Nat
        /\ \A a : a \in Range(s) <=> \E i \in 1 .. Len(s) : a = s[i]
        /\ \A i \in 1 .. Len(s) : s[i] \in Addrs
    <2>1. Places(s)
      BY RingFacts
    <2> QED BY <2>1 DEF Places
  <1>3. CASE hits = {}
    BY <1>1, <1>2, <1>3
  <1>4. CASE hits # {}
    <2>1. hits \subseteq Nat
      BY <1>2
    <2>2. Min(hits) \in hits
      <3> HIDE DEF hits
      <3> QED BY <1>4, <2>1, MinFacts
    <2> QED BY <1>1, <1>2, <1>4, <2>2, PointersAssumption
  <1> QED BY <1>3, <1>4

\* Two lists and no more.
LEMMA Two ==
    ASSUME NEW l \in Lists
    PROVE  /\ Other(l) \in Lists /\ Other(l) # l /\ Other(Other(l)) = l
           /\ \A k \in Lists : k = l \/ k = Other(l)
  BY DEF Lists, Other

\* Whoever is in a ring has links, so it is not freed memory.
LEMMA InARing ==
    ASSUME NEW m, NEW l, NEW s, Ring(m, l, s), NEW a \in Range(s)
    PROVE  /\ a \in Addrs /\ m.node[a] # Freed
           /\ m.node[a].next \in Range(s) /\ m.node[a].prev \in Range(s)
           /\ m.node[m.node[a].next].prev = a /\ m.node[m.node[a].prev].next = a
  <1>1. Places(s)
    BY RingFacts
  <1>2. PICK i \in 1 .. Len(s) : a = s[i]
    BY <1>1 DEF Places
  <1>3. NextIn(Len(s), i) \in 1 .. Len(s) /\ s[NextIn(Len(s), i)] \in Addrs /\ a \in Addrs
    BY <1>1, <1>2 DEF Places
  <1>4. m.node[a].next = s[NextIn(Len(s), i)] /\ m.node[m.node[a].next].prev = a
    BY <1>2 DEF Ring, Linked
  <1>5. m.node[a] # Freed
    BY <1>3, <1>4, PointersAssumption DEF Freed
  <1>6. \E k \in 1 .. Len(s) : NextIn(Len(s), k) = i
    <2>1. CASE i = 1
      <3>1. Len(s) \in 1 .. Len(s)
        BY <1>1, <2>1 DEF Places
      <3> QED BY <2>1, <3>1 DEF NextIn
    <2>2. CASE i # 1
      <3>1. i - 1 \in 1 .. Len(s) /\ i - 1 # Len(s) /\ (i - 1) + 1 = i
        BY <1>1, <2>2 DEF Places
      <3> QED BY <3>1 DEF NextIn
    <2> QED BY <2>1, <2>2
  <1>7. PICK k \in 1 .. Len(s) : NextIn(Len(s), k) = i
    BY <1>6
  <1>8. m.node[a].prev = s[k] /\ m.node[s[k]].next = a
    BY <1>2, <1>7 DEF Ring, Linked
  <1>9. m.node[a].next \in Range(s) /\ m.node[a].prev \in Range(s)
    BY <1>1, <1>3, <1>4, <1>8 DEF Places
  <1> QED BY <1>3, <1>4, <1>5, <1>8, <1>9

\* What happens to one ring leaves the other as it is.
LEMMA OneRingChanges ==
    ASSUME NEW m, NEW s, Rings(m, s), DOMAIN s = Lists,
           NEW m2 \in Memory, NEW l \in Lists, NEW t, Ring(m2, l, t),
           m2.head[Other(l)] = m.head[Other(l)],
           Range(t) \cap Range(s[Other(l)]) = {},
           \A b \in Addrs \ (Range(s[l]) \cup Range(t)) : m2.node[b] = m.node[b],
           \A b \in Range(s[l]) \ Range(t) : m2.node[b] = Freed
    PROVE  Rings(m2, [s EXCEPT ![l] = t])
  <1> DEFINE o == Other(l)
             s2 == [s EXCEPT ![l] = t]
  <1>1. o \in Lists /\ o # l /\ Other(o) = l /\ \A k \in Lists : k = l \/ k = o
    BY Two
  <1>2. s2[l] = t /\ s2[o] = s[o]
    BY <1>1
  <1>3. Ring(m, o, s[o]) /\ Range(s[o]) \cap Range(s[l]) = {}
    BY <1>1 DEF Rings
  <1> HIDE DEF s2, o
  <1>4. \A b \in Range(s[o]) : m2.node[b] = m.node[b]
    BY <1>1, <1>3, InARing DEF o
  <1>5. Linked(m2, s[o])
    <2>1. Places(s[o])
      BY <1>3, RingFacts
    <2> SUFFICES ASSUME NEW i \in 1 .. Len(s[o])
                 PROVE  /\ m2.node[s[o][i]].next = s[o][NextIn(Len(s[o]), i)]
                        /\ m2.node[s[o][NextIn(Len(s[o]), i)]].prev = s[o][i]
      BY DEF Linked
    <2>2. s[o][i] \in Range(s[o]) /\ s[o][NextIn(Len(s[o]), i)] \in Range(s[o])
      BY <2>1 DEF Places
    <2> QED BY <1>3, <1>4, <2>2 DEF Ring, Linked
  <1>6. Ring(m2, o, s2[o])
    BY <1>1, <1>2, <1>3, <1>5 DEF Ring, o
  <1>7. \A k \in Lists : Ring(m2, k, s2[k]) /\ Range(s2[k]) \cap Range(s2[Other(k)]) = {}
    BY <1>1, <1>2, <1>6 DEF o
  <1>8. ASSUME NEW a \in Addrs, \A k \in Lists : a \notin Range(s2[k])
        PROVE  m2.node[a] = Freed
    <2>1. a \notin Range(t) /\ a \notin Range(s[o])
      BY <1>1, <1>2, <1>8
    <2>2. CASE a \in Range(s[l])
      BY <2>1, <2>2
    <2>3. CASE a \notin Range(s[l])
      <3>1. m.node[a] = Freed
        BY <1>1, <2>1, <2>3 DEF Rings
      <3> QED BY <2>1, <2>3, <3>1
    <2> QED BY <2>2, <2>3
  <1> QED BY <1>7, <1>8 DEF Rings, s2

\* The fields of the nodes after a new one has been linked.
LEMMA LinkFacts ==
    ASSUME NEW m \in Memory, NEW h \in Addrs, NEW a \in Addrs, NEW id \in Nat,
           NEW pid \in Pids, a # h, m.node[h].prev \in Addrs \ {a}
    PROVE  /\ Link(m, h, a, id, pid) \in [Addrs -> Node]
           /\ Link(m, h, a, id, pid)[a] = NewNode(id, pid, h, m.node[h].prev)
           /\ \A b \in Addrs \ {a} :
                 Link(m, h, a, id, pid)[b] =
                     NewNode(m.node[b].id, m.node[b].pid,
                             IF b = m.node[h].prev THEN a ELSE m.node[b].next,
                             IF b = h THEN a ELSE m.node[b].prev)
  <1> DEFINE p == m.node[h].prev
             new == NewNode(id, pid, h, p)
             one == [m.node EXCEPT ![a] = new]
             two == [one EXCEPT ![p] = [@ EXCEPT !.next = a]]
             all == [two EXCEPT ![h] = [@ EXCEPT !.prev = a]]
  <1>0. m.node \in [Addrs -> Node] /\ p \in Addrs /\ p # a
    BY DEF Memory
  <1>1. new \in Node
    BY <1>0 DEF NewNode, Node
  <1>2. one \in [Addrs -> Node] /\ one[a] = new /\ \A b \in Addrs \ {a} : one[b] = m.node[b]
    BY <1>0, <1>1
  <1>3. Link(m, h, a, id, pid) = all
    BY DEF Link
  <1>4. \A b \in Addrs : m.node[b] \in Node
    BY <1>0
  <1> HIDE DEF one, new, p
  <1>5. /\ two \in [Addrs -> Node] /\ two[a] = new
        /\ two[p] = [m.node[p] EXCEPT !.next = a]
        /\ \A b \in Addrs \ {a, p} : two[b] = m.node[b]
    <2>1. one[p] = m.node[p] /\ one[p] \in Node
      BY <1>0, <1>2
    <2>2. [one[p] EXCEPT !.next = a] \in Node
      BY <2>1 DEF Node
    <2> QED BY <1>0, <1>2, <2>1, <2>2
  <1> HIDE DEF two
  <1>6. /\ all \in [Addrs -> Node] /\ all[a] = new
        /\ all[h] = [two[h] EXCEPT !.prev = a]
        /\ \A b \in Addrs \ {h} : all[b] = two[b]
    <2>1. two[h] \in Node
      BY <1>5
    <2>2. [two[h] EXCEPT !.prev = a] \in Node
      BY <2>1 DEF Node
    <2> QED BY <1>5, <2>1, <2>2
  <1> HIDE DEF all
  <1>7. ASSUME NEW b \in Addrs \ {a}
        PROVE  all[b] = NewNode(m.node[b].id, m.node[b].pid,
                                IF b = p THEN a ELSE m.node[b].next,
                                IF b = h THEN a ELSE m.node[b].prev)
    <2> DEFINE node == m.node[b]
    <2>1. node \in Node
      BY <1>4
    <2>2. two[b] = [id |-> node.id, pid |-> node.pid,
                    next |-> IF b = p THEN a ELSE node.next, prev |-> node.prev]
      <3> HIDE DEF node
      <3>1. CASE b = p
        BY <1>5, <2>1, <3>1 DEF Node, node
      <3>2. CASE b # p
        BY <1>5, <2>1, <3>2 DEF Node, node
      <3> QED BY <3>1, <3>2
    <2> HIDE DEF node
    <2>3. CASE b = h
      BY <1>6, <2>2, <2>3 DEF NewNode, node
    <2>4. CASE b # h
      BY <1>6, <2>2, <2>4 DEF NewNode, node
    <2> QED BY <2>3, <2>4
  <1> QED BY <1>3, <1>6, <1>7 DEF new, p

\* The fields of the nodes after one has been unlinked and freed.
LEMMA UnlinkFacts ==
    ASSUME NEW m \in Memory, NEW a \in Addrs,
           m.node[a].next \in Addrs, m.node[a].prev \in Addrs
    PROVE  /\ Unlink(m, a) \in [Addrs -> Node]
           /\ Unlink(m, a)[a] = Freed
           /\ \A b \in Addrs \ {a} :
                 Unlink(m, a)[b] =
                     NewNode(m.node[b].id, m.node[b].pid,
                             IF b = m.node[a].prev THEN m.node[a].next ELSE m.node[b].next,
                             IF b = m.node[a].next THEN m.node[a].prev ELSE m.node[b].prev)
  <1> DEFINE p == m.node[a].prev
             q == m.node[a].next
             one == [m.node EXCEPT ![p] = [@ EXCEPT !.next = q]]
             two == [one EXCEPT ![q] = [@ EXCEPT !.prev = p]]
             all == [two EXCEPT ![a] = Freed]
  <1>0. m.node \in [Addrs -> Node] /\ p \in Addrs /\ q \in Addrs
    BY DEF Memory
  <1>1. Freed \in Node
    BY PointersAssumption DEF Freed, Node
  <1>2. Unlink(m, a) = all
    BY DEF Unlink
  <1>3. \A b \in Addrs : m.node[b] \in Node
    BY <1>0
  <1> HIDE DEF p, q
  <1>4. /\ one \in [Addrs -> Node] /\ one[p] = [m.node[p] EXCEPT !.next = q]
        /\ \A b \in Addrs \ {p} : one[b] = m.node[b]
    <2>1. [m.node[p] EXCEPT !.next = q] \in Node
      <3>1. m.node[p] \in Node
        BY <1>0
      <3> QED BY <1>0, <3>1 DEF Node
    <2> QED BY <1>0, <2>1
  <1> HIDE DEF one
  <1>5. /\ two \in [Addrs -> Node] /\ two[q] = [one[q] EXCEPT !.prev = p]
        /\ \A b \in Addrs \ {q} : two[b] = one[b]
    <2>1. [one[q] EXCEPT !.prev = p] \in Node
      <3>1. one[q] \in Node
        BY <1>0, <1>4
      <3> QED BY <1>0, <3>1 DEF Node
    <2> QED BY <1>0, <1>4, <2>1
  <1> HIDE DEF two
  <1>6. /\ all \in [Addrs -> Node] /\ all[a] = Freed
        /\ \A b \in Addrs \ {a} : all[b] = two[b]
    BY <1>1, <1>5
  <1> HIDE DEF all
  <1>7. ASSUME NEW b \in Addrs \ {a}
        PROVE  all[b] = NewNode(m.node[b].id, m.node[b].pid,
                                IF b = p THEN q ELSE m.node[b].next,
                                IF b = q THEN p ELSE m.node[b].prev)
    <2> DEFINE node == m.node[b]
    <2>1. node \in Node
      BY <1>3
    <2>2. one[b] = [id |-> node.id, pid |-> node.pid,
                    next |-> IF b = p THEN q ELSE node.next, prev |-> node.prev]
      <3> HIDE DEF node
      <3>1. CASE b = p
        BY <1>4, <2>1, <3>1 DEF Node, node
      <3>2. CASE b # p
        BY <1>4, <2>1, <3>2 DEF Node, node
      <3> QED BY <3>1, <3>2
    <2> HIDE DEF node
    <2>3. CASE b = q
      BY <1>5, <1>6, <2>2, <2>3 DEF NewNode, node
    <2>4. CASE b # q
      BY <1>5, <1>6, <2>2, <2>4 DEF NewNode, node
    <2> QED BY <2>3, <2>4
  <1> QED BY <1>2, <1>6, <1>7 DEF p, q

\* A sequence of addresses with one more.
LEMMA OneMoreNode ==
    ASSUME NEW s \in Seq(Addrs), IsInjective(s), NEW a \in Addrs, a \notin Range(s)
    PROVE  /\ Append(s, a) \in Seq(Addrs) /\ IsInjective(Append(s, a))
           /\ Len(Append(s, a)) = Len(s) + 1 /\ Append(s, a) # << >>
           /\ Append(s, a)[Len(s) + 1] = a
           /\ \A i \in 1 .. Len(s) : Append(s, a)[i] = s[i]
           /\ Range(Append(s, a)) = Range(s) \cup {a}
  <1>1. /\ Append(s, a) \in Seq(Addrs) /\ Len(Append(s, a)) = Len(s) + 1
        /\ Append(s, a)[Len(s) + 1] = a /\ \A i \in 1 .. Len(s) : Append(s, a)[i] = s[i]
    BY AppendProperties
  <1>2. /\ IsInjective(Append(s, a)) /\ Append(s, a) # << >>
        /\ Range(Append(s, a)) = Range(s) \cup {a}
    BY AppendFacts DEF AppendToList
  <1> QED BY <1>1, <1>2

\* A task is appended to list l, in node a: memory m with the rings s becomes m2, and
\* s becomes s2.
Appended(m, s, l, a, task, m2, s2) ==
    /\ s \in [Lists -> Seq(Addrs)] /\ Rings(m, s)
    /\ l \in Lists /\ a \in Unused(m) /\ task \in [id : Nat, pid : Pids]
    /\ m2 = append_to_list_with_id(m, l, a, task.id, task.pid)
    /\ s2 = [s EXCEPT ![l] = Append(@, a)]

\* A node that is put before the head of a ring, or makes one, is the ring's last.
LEMMA AppendRing ==
    ASSUME NEW m, NEW s, NEW l, NEW a, NEW task, NEW m2, NEW s2,
           Appended(m, s, l, a, task, m2, s2)
    PROVE  /\ \A k \in Lists : a \notin Range(s[k])
           /\ Rings(m2, s2)
           /\ Task(m2, a) = task
           /\ \A b \in Addrs \ {a} : Task(m2, b) = Task(m, b)
  <1> USE DEF Appended
  <1> DEFINE id == task.id
             pid == task.pid
             r == s[l]
             t == Append(r, a)
             n == Len(r)
             h == m.head[l]
             o == Other(l)
  <1>0. /\ m \in Memory /\ Ring(m, l, r) /\ r \in Seq(Addrs) /\ IsInjective(r)
        /\ a \in Addrs /\ m.node[a] = Freed
        /\ o \in Lists /\ o # l /\ \A k \in Lists : k = l \/ k = o
        /\ Range(r) \cap Range(s[o]) = {} /\ Ring(m, o, s[o])
    BY Two DEF Rings, Ring, Unused
  <1>8. /\ id \in Nat /\ pid \in Pids /\ task = [id |-> id, pid |-> pid]
          /\ m2 = append_to_list_with_id(m, l, a, id, pid)
          /\ s2 = [s EXCEPT ![l] = t]
    OBVIOUS
  <1> HIDE DEF id, pid
  <1>1. \A k \in Lists : a \notin Range(s[k])
    BY <1>0, InARing
  <1>2. /\ t \in Seq(Addrs) /\ IsInjective(t) /\ Len(t) = n + 1 /\ t # << >> /\ t[n + 1] = a
        /\ \A i \in 1 .. n : t[i] = r[i]
        /\ Range(t) = Range(r) \cup {a}
    BY <1>0, <1>1, OneMoreNode
  <1>3. Places(r) /\ n \in Nat
    BY <1>0, RingFacts DEF Places
  <1>4. m.node \in [Addrs -> Node] /\ m.head \in [Lists -> Addrs \cup {NULL}]
    BY <1>0 DEF Memory
  <1>5. m = [node |-> m.node, head |-> m.head]
    BY <1>0 DEF Memory
  <1> HIDE DEF r, t, n, o
  <1>6. CASE h = NULL
    <2>1. r = << >> /\ n = 0
      <3>1. r = << >>
        <4> SUFFICES ASSUME r # << >> PROVE FALSE
          OBVIOUS
        <4>1. h = r[1] /\ r[1] \in Addrs
          BY <1>0, <1>3 DEF Ring, Places, n
        <4> QED BY <1>6, <4>1, PointersAssumption
      <3> QED BY <3>1 DEF n
    <2>2. m2 = [node |-> [m.node EXCEPT ![a] = NewNode(id, pid, a, a)],
                head |-> [m.head EXCEPT ![l] = a]]
      BY <1>6, <1>8 DEF append_to_list_with_id
    <2>3. NewNode(id, pid, a, a) \in Node
      BY <1>0, <1>8 DEF NewNode, Node
    <2>4. m2 \in Memory
      BY <1>0, <1>4, <2>2, <2>3 DEF Memory
    <2>5. /\ m2.node[a] = NewNode(id, pid, a, a) /\ m2.head[l] = a /\ m2.head[o] = m.head[o]
          /\ \A b \in Addrs \ {a} : m2.node[b] = m.node[b]
      BY <1>0, <1>4, <2>2
    <2>6. Linked(m2, t)
      <3> SUFFICES ASSUME NEW i \in 1 .. Len(t)
                   PROVE  /\ m2.node[t[i]].next = t[NextIn(Len(t), i)]
                          /\ m2.node[t[NextIn(Len(t), i)]].prev = t[i]
        BY DEF Linked
      <3>1. i = 1 /\ NextIn(Len(t), i) = 1 /\ t[1] = a
        BY <1>2, <2>1 DEF NextIn
      <3> QED BY <2>5, <3>1 DEF NewNode
    <2>7. Ring(m2, l, t)
      <3>1. t[1] = a
        BY <1>2, <2>1
      <3> QED BY <1>2, <2>5, <2>6, <3>1 DEF Ring
    <2>8. /\ Range(t) \cap Range(s[o]) = {}
          /\ \A b \in Addrs \ (Range(r) \cup Range(t)) : m2.node[b] = m.node[b]
          /\ \A b \in Range(r) \ Range(t) : m2.node[b] = Freed
      BY <1>0, <1>1, <1>2, <2>5
    <2>9. Rings(m2, [s EXCEPT ![l] = t])
      BY <2>4, <2>5, <2>7, <2>8, OneRingChanges DEF r, o
    <2>10. /\ Task(m2, a) = task
           /\ \A b \in Addrs \ {a} : Task(m2, b) = Task(m, b)
      BY <2>5, <1>8 DEF NewNode, Task
    <2> QED BY <1>1, <1>8, <2>5, <2>9, <2>10
  <1>7. CASE h # NULL
    <2>1. n >= 1 /\ h = r[1] /\ h \in Addrs /\ h \in Range(r) /\ m.node[h].prev = r[n]
          /\ r[n] \in Addrs /\ r[n] \in Range(r)
      <3>1. n >= 1 /\ h = r[1]
        BY <1>0, <1>3, <1>7 DEF Ring, Places, n
      <3>2. 1 \in 1 .. n /\ n \in 1 .. n
        BY <1>3, <3>1
      <3>3. NextIn(n, n) = 1
        BY DEF NextIn
      <3>4. m.node[r[1]].prev = r[n]
        BY <1>0, <3>2, <3>3 DEF Ring, Linked, n
      <3>5. /\ r[1] \in Addrs /\ r[1] \in Range(r)
            /\ r[n] \in Addrs /\ r[n] \in Range(r)
        BY <1>3, <3>2 DEF Places, n
      <3> QED BY <3>1, <3>4, <3>5
    <2>2. a # h /\ a # r[n]
      BY <1>0, <1>1, <2>1 DEF r
    <2>3. m2 = [node |-> Link(m, h, a, id, pid), head |-> m.head]
      BY <1>5, <1>7, <1>8 DEF append_to_list_with_id
    <2> HIDE DEF h
    <2>4. /\ m2.node \in [Addrs -> Node] /\ m2.node[a] = NewNode(id, pid, h, r[n])
          /\ \A b \in Addrs \ {a} :
                 m2.node[b] = NewNode(m.node[b].id, m.node[b].pid,
                                      IF b = r[n] THEN a ELSE m.node[b].next,
                                      IF b = h THEN a ELSE m.node[b].prev)
      <3>1. m2.node = Link(m, h, a, id, pid)
        BY <2>3
      <3>2. h \in Addrs /\ a # h /\ m.node[h].prev \in Addrs \ {a} /\ m \in Memory /\ a \in Addrs
        BY <1>0, <2>1, <2>2
      <3>3. /\ Link(m, h, a, id, pid) \in [Addrs -> Node]
            /\ Link(m, h, a, id, pid)[a] = NewNode(id, pid, h, m.node[h].prev)
        BY <1>8, <3>2, LinkFacts
      <3>4. \A b \in Addrs \ {a} :
                 Link(m, h, a, id, pid)[b] =
                     NewNode(m.node[b].id, m.node[b].pid,
                             IF b = m.node[h].prev THEN a ELSE m.node[b].next,
                             IF b = h THEN a ELSE m.node[b].prev)
        BY <1>8, <3>2, LinkFacts
      <3> QED BY <2>1, <3>1, <3>3, <3>4
    <2>5. /\ \A b \in Addrs \ {a} :
                /\ m2.node[b].id = m.node[b].id /\ m2.node[b].pid = m.node[b].pid
                /\ m2.node[b].next = (IF b = r[n] THEN a ELSE m.node[b].next)
                /\ m2.node[b].prev = (IF b = h THEN a ELSE m.node[b].prev)
          /\ m2.node[a].id = id /\ m2.node[a].pid = pid
          /\ m2.node[a].next = h /\ m2.node[a].prev = r[n]
      <3>1. ASSUME NEW b \in Addrs \ {a}
            PROVE  /\ m2.node[b].id = m.node[b].id /\ m2.node[b].pid = m.node[b].pid
                   /\ m2.node[b].next = (IF b = r[n] THEN a ELSE m.node[b].next)
                   /\ m2.node[b].prev = (IF b = h THEN a ELSE m.node[b].prev)
        <4> DEFINE next == IF b = r[n] THEN a ELSE m.node[b].next
                   prev == IF b = h THEN a ELSE m.node[b].prev
        <4>1. m2.node[b] = NewNode(m.node[b].id, m.node[b].pid, next, prev)
          BY <2>4
        <4> HIDE DEF next, prev
        <4>2. /\ m2.node[b].id = m.node[b].id /\ m2.node[b].pid = m.node[b].pid
              /\ m2.node[b].next = next /\ m2.node[b].prev = prev
          BY <4>1 DEF NewNode
        <4> QED BY <4>2 DEF next, prev
      <3>2. /\ m2.node[a].id = id /\ m2.node[a].pid = pid
            /\ m2.node[a].next = h /\ m2.node[a].prev = r[n]
        BY <2>4 DEF NewNode
      <3> QED BY <3>1, <3>2
    <2>6. m2 \in Memory
      BY <1>4, <2>3, <2>4 DEF Memory
    <2>7. \A b \in Addrs \ (Range(r) \cup Range(t)) : m2.node[b] = m.node[b]
      <3> SUFFICES ASSUME NEW b \in Addrs \ (Range(r) \cup Range(t))
                   PROVE  m2.node[b] = m.node[b]
        OBVIOUS
      <3>1. b # a /\ b # h /\ b # r[n] /\ m.node[b] \in Node
        BY <1>2, <1>4, <2>1
      <3>2. m2.node[b] = NewNode(m.node[b].id, m.node[b].pid, m.node[b].next, m.node[b].prev)
        BY <2>4, <3>1
      <3> QED BY <3>1, <3>2 DEF NewNode, Node
    <2>8. Linked(m2, t)
      <3> SUFFICES ASSUME NEW i \in 1 .. Len(t)
                   PROVE  /\ m2.node[t[i]].next = t[NextIn(Len(t), i)]
                          /\ m2.node[t[NextIn(Len(t), i)]].prev = t[i]
        BY DEF Linked
      <3>6. \A k \in 1 .. n : r[k] \in Addrs /\ r[k] # a
        BY <1>1, <1>3 DEF Places, r, n
      <3>7. \A j, k \in 1 .. n : r[j] = r[k] => j = k
        BY <1>3 DEF Places, n
      <3>1. CASE i \in 1 .. n - 1
        <4>1. i \in 1 .. n /\ i + 1 \in 1 .. n /\ 1 \in 1 .. n /\ n \in 1 .. n
              /\ i # n /\ i + 1 # 1 /\ NextIn(n, i) = i + 1 /\ NextIn(Len(t), i) = i + 1
          BY <1>2, <1>3, <3>1 DEF NextIn
        <4>2. t[i] = r[i] /\ t[i + 1] = r[i + 1]
          BY <1>2, <4>1
        <4>3. m.node[r[i]].next = r[i + 1] /\ m.node[r[i + 1]].prev = r[i]
          BY <1>0, <4>1 DEF Ring, Linked, n
        <4>4. r[i] # r[n] /\ r[i + 1] # h
          BY <2>1, <3>7, <4>1
        <4>5. m2.node[r[i]].next = r[i + 1]
          BY <2>5, <3>6, <4>1, <4>3, <4>4
        <4>6. m2.node[r[i + 1]].prev = r[i]
          BY <2>5, <3>6, <4>1, <4>3, <4>4
        <4> QED BY <4>1, <4>2, <4>5, <4>6
      <3>2. CASE i = n
        <4>1. NextIn(Len(t), i) = n + 1 /\ t[i] = r[n] /\ t[n + 1] = a
          BY <1>2, <1>3, <2>1, <3>2 DEF NextIn
        <4>2. m2.node[r[n]].next = a
          BY <2>1, <2>2, <2>5
        <4>3. m2.node[a].prev = r[n]
          BY <2>5
        <4> QED BY <4>1, <4>2, <4>3
      <3>3. CASE i = n + 1
        <4>1. NextIn(Len(t), i) = 1 /\ t[i] = a /\ t[1] = h
          BY <1>2, <1>3, <2>1, <3>3 DEF NextIn
        <4>2. m2.node[h].prev = a
          BY <2>1, <2>2, <2>5
        <4>3. m2.node[a].next = h
          BY <2>5
        <4> QED BY <4>1, <4>2, <4>3
      <3> QED BY <1>2, <1>3, <3>1, <3>2, <3>3
    <2>9. Ring(m2, l, t)
      <3>1. t[1] = h
        BY <1>2, <1>3, <2>1
      <3> QED BY <1>2, <2>3, <2>8, <3>1 DEF Ring, h
    <2>10. /\ Range(t) \cap Range(s[o]) = {} /\ m2.head[o] = m.head[o]
          /\ \A b \in Range(r) \ Range(t) : m2.node[b] = Freed
      BY <1>0, <1>1, <1>2, <2>3
    <2>11. Rings(m2, [s EXCEPT ![l] = t])
      BY <2>6, <2>7, <2>9, <2>10, OneRingChanges DEF r, o
    <2>12. /\ Task(m2, a) = task
           /\ \A b \in Addrs \ {a} : Task(m2, b) = Task(m, b)
      BY <2>5, <1>8 DEF Task
    <2> QED BY <1>1, <1>8, <2>11, <2>12
  <1> QED BY <1>6, <1>7

\* Place j of n is skipped: the place after the one before it is the one after it,
\* and the others follow as they did.
Skip(i, j) == IF i < j THEN i ELSE i + 1

LEMMA SkipFacts ==
    ASSUME NEW n \in Nat, NEW j \in 1 .. n, NEW i \in 1 .. n - 1
    PROVE  /\ Skip(i, j) \in 1 .. n /\ Skip(i, j) # j
           /\ NextIn(n - 1, i) \in 1 .. n - 1
           /\ Skip(NextIn(n - 1, i), j) =
                 IF NextIn(n, Skip(i, j)) = j THEN NextIn(n, j) ELSE NextIn(n, Skip(i, j))
  BY DEF Skip, NextIn

LEMMA NextInIsOneToOne ==
    ASSUME NEW n \in Nat, NEW i \in 1 .. n, NEW j \in 1 .. n, NextIn(n, i) = NextIn(n, j)
    PROVE  i = j
  BY DEF NextIn

\* Node j of list l is deleted.
Deleted(m, s, l, j, m2, s2) ==
    /\ s \in [Lists -> Seq(Addrs)] /\ Rings(m, s)
    /\ l \in Lists /\ j \in 1 .. Len(s[l])
    /\ m2 = Delete(m, l, s[l][j])
    /\ s2 = [s EXCEPT ![l] = RemoveAt(@, j)]

\* A node that is unlinked leaves its ring in the order it had.
LEMMA DeleteRing ==
    ASSUME NEW m, NEW s, NEW l, NEW j, NEW m2, NEW s2, Deleted(m, s, l, j, m2, s2)
    PROVE  /\ Rings(m2, s2)
           /\ \A k \in Lists : \A b \in Range(s2[k]) :
                 /\ b \in Range(s[k]) /\ b \in Addrs /\ b # s[l][j]
                 /\ Task(m2, b) = Task(m, b)
  <1> USE DEF Deleted
  <1> DEFINE r == s[l]
             a == r[j]
             t == RemoveAt(r, j)
             n == Len(r)
             o == Other(l)
             p == m.node[a].prev
             q == m.node[a].next
  <1>0. /\ m \in Memory /\ Ring(m, l, r) /\ r \in Seq(Addrs) /\ IsInjective(r)
        /\ o \in Lists /\ o # l /\ \A k \in Lists : k = l \/ k = o
        /\ Range(r) \cap Range(s[o]) = {} /\ Ring(m, o, s[o])
    BY Two DEF Rings, Ring
  <1>1. Places(r)
    BY <1>0, RingFacts
  <1>2. /\ n \in Nat /\ n >= 1 /\ a \in Addrs /\ a \in Range(r) /\ r # << >>
        /\ \A i \in 1 .. n : r[i] \in Addrs /\ r[i] \in Range(r) /\ NextIn(n, i) \in 1 .. n
        /\ \A i, k \in 1 .. n : r[i] = r[k] => i = k
    BY <1>1 DEF Places
  <1>3. /\ t \in Seq(Addrs) /\ Len(t) = n - 1
        /\ \A i \in 1 .. n - 1 : t[i] = r[Skip(i, j)]
    <2>1. /\ t \in Seq(Addrs) /\ Len(t) = n - 1
          /\ \A i \in 1 .. n - 1 : t[i] = IF i < j THEN r[i] ELSE r[i + 1]
      BY <1>0, RemoveAtFacts
    <2> HIDE DEF t
    <2> QED BY <2>1 DEF Skip
  <1>4. Range(t) = Range(r) \ {a} /\ IsInjective(t)
    <2>1. Position(r, a) = j
      BY <1>0, PositionIs
    <2>2. DeleteFromList(r, a) = t
      BY <1>2, <2>1 DEF DeleteFromList
    <2> HIDE DEF t, r, a
    <2> QED BY <1>0, <1>2, <2>2, DeleteFacts
  <1>5. /\ \A i \in 1 .. n : m.node[r[i]].next = r[NextIn(n, i)] /\ m.node[r[NextIn(n, i)]].prev = r[i]
        /\ m.head[l] = r[1]
    BY <1>0, <1>2 DEF Ring, Linked
  <1>6. q = r[NextIn(n, j)] /\ q \in Addrs /\ q \in Range(r) /\ p \in Addrs /\ p \in Range(r)
    <2>1. q = r[NextIn(n, j)]
      BY <1>5
    <2> QED BY <1>0, <1>1, <1>2, <2>1, InARing DEF Places
  <1>7. \A i \in 1 .. n : NextIn(n, i) = j => p = r[i]
    BY <1>5
  <1>8. /\ m.node \in [Addrs -> Node] /\ m.head \in [Lists -> Addrs \cup {NULL}]
        /\ a # NULL
    BY <1>0, <1>2, PointersAssumption DEF Memory
  <1>9. m2 = [node |-> Unlink(m, a), head |-> [m.head EXCEPT ![l] = HeadWithout(m, l, a)]]
    BY <1>8 DEF Delete
  <1> HIDE DEF r, t, n, o, a, p, q
  <1>10. /\ m2.node \in [Addrs -> Node] /\ m2.node[a] = Freed
         /\ \A b \in Addrs \ {a} :
                m2.node[b] = NewNode(m.node[b].id, m.node[b].pid,
                                     IF b = p THEN q ELSE m.node[b].next,
                                     IF b = q THEN p ELSE m.node[b].prev)
    BY <1>0, <1>2, <1>6, <1>9, UnlinkFacts DEF p, q
  <1>11. ASSUME NEW b \in Addrs \ {a}
         PROVE  /\ m2.node[b].id = m.node[b].id /\ m2.node[b].pid = m.node[b].pid
                /\ m2.node[b].next = (IF b = p THEN q ELSE m.node[b].next)
                /\ m2.node[b].prev = (IF b = q THEN p ELSE m.node[b].prev)
    <2> DEFINE next == IF b = p THEN q ELSE m.node[b].next
               prev == IF b = q THEN p ELSE m.node[b].prev
    <2>1. m2.node[b] = NewNode(m.node[b].id, m.node[b].pid, next, prev)
      BY <1>10
    <2> HIDE DEF next, prev
    <2>2. /\ m2.node[b].id = m.node[b].id /\ m2.node[b].pid = m.node[b].pid
          /\ m2.node[b].next = next /\ m2.node[b].prev = prev
      BY <2>1 DEF NewNode
    <2> QED BY <2>2 DEF next, prev
  <1>12. \A b \in Addrs \ Range(r) : m2.node[b] = m.node[b]
    <2> SUFFICES ASSUME NEW b \in Addrs \ Range(r) PROVE m2.node[b] = m.node[b]
      OBVIOUS
    <2>1. b # a /\ b # p /\ b # q /\ m.node[b] \in Node
      BY <1>2, <1>6, <1>8
    <2>2. m2.node[b] = NewNode(m.node[b].id, m.node[b].pid, m.node[b].next, m.node[b].prev)
      BY <1>10, <2>1
    <2> QED BY <2>1, <2>2 DEF NewNode, Node
  <1>13. Linked(m2, t)
    <2> SUFFICES ASSUME NEW i \in 1 .. n - 1
                 PROVE  /\ m2.node[t[i]].next = t[NextIn(n - 1, i)]
                        /\ m2.node[t[NextIn(n - 1, i)]].prev = t[i]
      BY <1>3 DEF Linked
    <2> DEFINE k == Skip(i, j)
               x == r[k]
               k2 == Skip(NextIn(n - 1, i), j)
               y == r[k2]
    <2>1. /\ k \in 1 .. n /\ k # j /\ NextIn(n - 1, i) \in 1 .. n - 1
          /\ k2 = IF NextIn(n, k) = j THEN NextIn(n, j) ELSE NextIn(n, k)
          /\ k2 \in 1 .. n /\ k2 # j /\ j \in 1 .. n
      <3>1. n \in Nat /\ j \in 1 .. n
        BY <1>2 DEF n, r
      <3>2. /\ k \in 1 .. n /\ k # j /\ NextIn(n - 1, i) \in 1 .. n - 1
            /\ k2 = IF NextIn(n, k) = j THEN NextIn(n, j) ELSE NextIn(n, k)
        BY <3>1, SkipFacts
      <3>3. k2 \in 1 .. n /\ k2 # j
        BY <3>1, <3>2, SkipFacts
      <3> QED BY <3>1, <3>2, <3>3
    <2>2. t[i] = x /\ t[NextIn(n - 1, i)] = y
      BY <1>3, <2>1
    <2> HIDE DEF k, k2
    <2>3. x \in Addrs \ {a} /\ y \in Addrs \ {a}
      BY <1>2, <2>1 DEF a
    <2>4. CASE NextIn(n, k) = j
      <3>1. x = p /\ y = q
        BY <1>6, <1>7, <2>1, <2>4
      <3> HIDE DEF x, y
      <3> QED BY <1>11, <2>2, <2>3, <3>1
    <2>5. CASE NextIn(n, k) # j
      <3>1. m.node[x].next = y /\ m.node[y].prev = x
        BY <1>5, <2>1, <2>5
      <3>2. x # p
        <4> SUFFICES ASSUME x = p PROVE FALSE
          OBVIOUS
        <4>1. m.node[x].next = a
          BY <1>0, <1>2, InARing DEF p
        <4> QED BY <2>3, <3>1, <4>1
      <3>3. y # q
        <4> SUFFICES ASSUME y = q PROVE FALSE
          OBVIOUS
        <4>1. m.node[y].prev = a
          BY <1>0, <1>2, InARing DEF q
        <4> QED BY <2>3, <3>1, <4>1
      <3> HIDE DEF x, y
      <3> QED BY <1>11, <2>2, <2>3, <3>1, <3>2, <3>3
    <2> QED BY <2>4, <2>5
  <1>14. HeadWithout(m, l, a) = IF t = << >> THEN NULL ELSE t[1]
    <2>1. t = << >> <=> n = 1
      BY <1>2, <1>3, EmptySeq
    <2>2. 1 \in 1 .. n /\ j \in 1 .. n
      BY <1>2 DEF n, r
    <2>3. CASE j # 1
      <3>1. a # m.head[l]
        BY <1>2, <1>5, <2>2, <2>3 DEF a
      <3>2. n # 1 /\ 1 \in 1 .. n - 1 /\ Skip(1, j) = 1
        BY <1>2, <2>2, <2>3 DEF Skip
      <3> QED BY <1>3, <1>5, <2>1, <3>1, <3>2 DEF HeadWithout
    <2>4. CASE j = 1
      <3>1. a = m.head[l]
        BY <1>5, <2>4 DEF a
      <3>2. CASE n = 1
        <4>1. NextIn(n, j) = 1
          BY <2>4, <3>2 DEF NextIn
        <4>2. m.node[a].next = a
          BY <1>6, <2>4, <4>1 DEF a, q
        <4> QED BY <2>1, <3>1, <3>2, <4>2 DEF HeadWithout
      <3>3. CASE n # 1
        <4>1. NextIn(n, j) = 2 /\ 2 \in 1 .. n /\ 1 \in 1 .. n - 1 /\ Skip(1, j) = 2
          BY <1>2, <2>4, <3>3 DEF NextIn, Skip
        <4>2. m.node[a].next = r[2] /\ r[2] # a /\ t[1] = r[2]
          BY <1>2, <1>3, <1>6, <2>2, <2>4, <4>1 DEF a, q
        <4> QED BY <2>1, <3>1, <3>3, <4>2 DEF HeadWithout
      <3> QED BY <3>2, <3>3
    <2> QED BY <2>3, <2>4
  <1>15. m2.head[l] = (IF t = << >> THEN NULL ELSE t[1]) /\ m2.head[o] = m.head[o]
         /\ m2.head \in [Lists -> Addrs \cup {NULL}]
    <2>1. HeadWithout(m, l, a) \in Addrs \cup {NULL}
      BY <1>6, <1>8 DEF HeadWithout, q
    <2> QED BY <1>0, <1>8, <1>9, <1>14, <2>1
  <1>16. m2 \in Memory
    BY <1>9, <1>10, <1>15 DEF Memory
  <1>17. Ring(m2, l, t)
    BY <1>3, <1>4, <1>13, <1>15 DEF Ring
  <1>18. /\ Range(t) \cap Range(s[o]) = {}
         /\ \A b \in Addrs \ (Range(r) \cup Range(t)) : m2.node[b] = m.node[b]
         /\ \A b \in Range(r) \ Range(t) : m2.node[b] = Freed
    BY <1>0, <1>4, <1>10, <1>12
  <1>19. Rings(m2, [s EXCEPT ![l] = t])
    BY <1>15, <1>16, <1>17, <1>18, OneRingChanges DEF r, o
  <1>20. \A b \in Addrs \ {a} : Task(m2, b) = Task(m, b)
    BY <1>11 DEF Task
  <1>21. s2[l] = t /\ s2[o] = s[o] /\ s2 = [s EXCEPT ![l] = t]
    BY <1>0 DEF t, r
  <1>22. ASSUME NEW k \in Lists, NEW b \in Range(s2[k])
         PROVE  b \in Range(s[k]) /\ b \in Addrs /\ b # a
    <2>1. CASE k = l
      BY <1>0, <1>4, <1>21, <2>1, InARing DEF r
    <2>2. CASE k = o
      BY <1>0, <1>2, <1>21, <2>2, InARing
    <2> QED BY <1>0, <2>1, <2>2
  <1> QED BY <1>19, <1>20, <1>21, <1>22 DEF a, r

\* The head pointer goes round its ring.
LEMMA AdvanceRing ==
    ASSUME NEW m, NEW s \in [Lists -> Seq(Addrs)], Rings(m, s), NEW l \in Lists,
           m.head[l] # NULL
    PROVE  /\ s[l] # << >>
           /\ Rings([m EXCEPT !.head[l] = m.node[@].next], [s EXCEPT ![l] = Advance(@)])
  <1> DEFINE r == s[l]
             m2 == [m EXCEPT !.head[l] = m.node[@].next]
             t == Advance(r)
             n == Len(r)
             o == Other(l)
  <1>0. /\ m \in Memory /\ Ring(m, l, r) /\ r \in Seq(Addrs) /\ IsInjective(r)
        /\ o \in Lists /\ o # l /\ \A k \in Lists : k = l \/ k = o
        /\ Range(r) \cap Range(s[o]) = {}
    BY Two DEF Rings, Ring
  <1>1. r # << >> /\ m.head[l] = r[1]
    BY <1>0 DEF Ring
  <1>2. Places(r)
    BY <1>0, RingFacts
  <1>3. /\ n \in Nat /\ n >= 1
        /\ \A i \in 1 .. n : /\ r[i] \in Addrs /\ NextIn(n, i) \in 1 .. n
                             /\ m.node[r[i]].next = r[NextIn(n, i)]
                             /\ m.node[r[NextIn(n, i)]].prev = r[i]
    BY <1>0, <1>1, <1>2 DEF Places, Ring, Linked
  <1>4. /\ t \in Seq(Addrs) /\ t # << >> /\ Range(t) = Range(r) /\ IsInjective(t)
    BY <1>0, <1>1, AdvanceFacts
  <1>5. Len(t) = n /\ \A i \in 1 .. n : t[i] = r[NextIn(n, i)]
    <2>1. /\ Head(r) = r[1] /\ Head(r) \in Addrs
      BY <1>0, <1>1, HeadFacts
    <2>2. /\ Tail(r) \in Seq(Addrs)
          /\ Len(Tail(r)) = n - 1
          /\ \A i \in 1 .. n - 1 : Tail(r)[i] = r[i + 1]
      BY <1>0, <1>1, HeadTailProperties
    <2>3. /\ Len(t) = (n - 1) + 1
          /\ \A i \in 1 .. n - 1 : t[i] = r[i + 1]
          /\ t[(n - 1) + 1] = r[1]
      BY <2>1, <2>2, AppendProperties DEF Advance
    <2> HIDE DEF t, r, n
    <2>4. ASSUME NEW i \in 1 .. n PROVE t[i] = r[NextIn(n, i)]
      <3>1. CASE i = n
        BY <1>3, <2>3, <3>1 DEF NextIn
      <3>2. CASE i # n
        <4>1. i \in 1 .. n - 1
          BY <1>3, <3>2
        <4> QED BY <2>3, <3>2, <4>1 DEF NextIn
      <3> QED BY <3>1, <3>2
    <2> QED BY <1>3, <2>3, <2>4
  <1>6. /\ m.node \in [Addrs -> Node] /\ m.head \in [Lists -> Addrs \cup {NULL}]
        /\ m = [node |-> m.node, head |-> m.head]
    BY <1>0 DEF Memory
  <1>7. m2 = [node |-> m.node, head |-> [m.head EXCEPT ![l] = m.node[m.head[l]].next]]
    <2> DEFINE head2 == [m.head EXCEPT ![l] = m.node[m.head[l]].next]
    <2>1. m2 = [m EXCEPT !.head = head2]
      OBVIOUS
    <2> HIDE DEF head2, m2
    <2>2. [m EXCEPT !.head = head2] = [node |-> m.node, head |-> head2]
      BY <1>0 DEF Memory
    <2> QED BY <2>1, <2>2 DEF head2
  <1> HIDE DEF m2, r, t, n, o
  <1>8. m.node[m.head[l]].next = t[1] /\ t[1] \in Addrs
    <2>1. 1 \in 1 .. n
      BY <1>3
    <2> QED BY <1>1, <1>3, <1>5, <2>1
  <1>9. /\ m2.node = m.node /\ m2.head[l] = t[1] /\ m2.head[o] = m.head[o]
        /\ m2 \in Memory
    BY <1>0, <1>6, <1>7, <1>8 DEF Memory
  <1>10. Linked(m2, t)
    <2> SUFFICES ASSUME NEW i \in 1 .. n
                 PROVE  /\ m.node[t[i]].next = t[NextIn(n, i)]
                        /\ m.node[t[NextIn(n, i)]].prev = t[i]
      BY <1>5, <1>9 DEF Linked
    <2> QED BY <1>3, <1>5
  <1>11. Ring(m2, l, t)
    BY <1>4, <1>9, <1>10 DEF Ring
  <1>12. Rings(m2, [s EXCEPT ![l] = t])
    BY <1>0, <1>4, <1>9, <1>11, OneRingChanges DEF r, o
  <1> QED BY <1>1, <1>12 DEF m2, t, r

----------------------------------------------------------------------------
(* The tasks in the lists. *)

TaskSet == [id : Nat, pid : Pids \cup {NULL}]

\* The tasks in the nodes of a ring r.
TasksIn(m, r) == [k \in DOMAIN r |-> Task(m, r[k])]

LEMMA TasksInFacts ==
    ASSUME NEW m \in Memory, NEW r \in Seq(Addrs)
    PROVE  /\ TasksIn(m, r) \in Seq(TaskSet)
           /\ Len(TasksIn(m, r)) = Len(r)
           /\ \A k \in 1 .. Len(r) : TasksIn(m, r)[k] = Task(m, r[k])
           /\ DOMAIN TasksIn(m, r) = 1 .. Len(r)
  <1>1. DOMAIN r = 1 .. Len(r) /\ Len(r) \in Nat
    BY LenProperties
  <1>2. \A k \in 1 .. Len(r) : Task(m, r[k]) \in TaskSet
    <2> TAKE k \in 1 .. Len(r)
    <2>1. r[k] \in Addrs
      BY ElementOfSeq
    <2>2. m.node[r[k]] \in Node
      BY <2>1 DEF Memory
    <2> QED BY <2>2 DEF Node, Task, TaskSet
  <1>3. TasksIn(m, r) \in [1 .. Len(r) -> TaskSet]
    BY <1>1, <1>2 DEF TasksIn
  <1>4. TasksIn(m, r) \in Seq(TaskSet)
    BY <1>1, <1>3, SeqDef
  <1>5. DOMAIN TasksIn(m, r) = 1 .. Len(r)
    BY <1>3
  <1> QED BY <1>1, <1>4, <1>5, LenProperties DEF TasksIn

\* Nodes that keep their tasks: what is done to the ring is done to the tasks.
LEMMA SameTasks ==
    ASSUME NEW m \in Memory, NEW m2 \in Memory, NEW r \in Seq(Addrs),
           \A b \in Range(r) : Task(m2, b) = Task(m, b)
    PROVE  TasksIn(m2, r) = TasksIn(m, r)
  <1>1. \A k \in DOMAIN r : r[k] \in Range(r)
    BY DEF Range
  <1> QED BY <1>1 DEF TasksIn

LEMMA AppendTask ==
    ASSUME NEW m \in Memory, NEW r \in Seq(Addrs), NEW a \in Addrs
    PROVE  TasksIn(m, Append(r, a)) = AppendToList(TasksIn(m, r), Task(m, a))
  <1> DEFINE t == Append(r, a)
             old == TasksIn(m, r)
             one == TasksIn(m, t)
             two == Append(old, Task(m, a))
             n == Len(r)
  <1>1. /\ t \in Seq(Addrs) /\ Len(t) = n + 1 /\ t[n + 1] = a
        /\ \A i \in 1 .. n : t[i] = r[i]
    BY AppendProperties
  <1>2. n \in Nat
    BY LenProperties
  <1> HIDE DEF t
  <1>3. /\ old \in Seq(TaskSet) /\ Len(old) = n /\ \A i \in 1 .. n : old[i] = Task(m, r[i])
        /\ one \in Seq(TaskSet) /\ Len(one) = n + 1
        /\ \A i \in 1 .. n + 1 : one[i] = Task(m, t[i])
    BY <1>1, TasksInFacts
  <1> HIDE DEF old, one
  <1>4. n + 1 \in 1 .. n + 1 /\ one[n + 1] = Task(m, a)
    BY <1>1, <1>2, <1>3
  <1>5. Task(m, a) \in TaskSet
    BY <1>3, <1>4, ElementOfSeq
  <1>6. /\ two \in Seq(TaskSet) /\ Len(two) = n + 1 /\ two[n + 1] = Task(m, a)
        /\ \A i \in 1 .. n : two[i] = old[i]
    BY <1>3, <1>5, AppendProperties
  <1> HIDE DEF two
  <1>7. \A i \in 1 .. n + 1 : one[i] = two[i]
    <2> TAKE i \in 1 .. n + 1
    <2>1. i = n + 1 \/ i \in 1 .. n
      BY <1>2
    <2>2. CASE i \in 1 .. n
      BY <1>1, <1>3, <1>6, <2>2
    <2> QED BY <1>4, <1>6, <2>1, <2>2
  <1>8. one = two
    BY <1>3, <1>6, <1>7, SeqEqual
  <1> QED BY <1>8 DEF one, two, t, old, AppendToList

LEMMA RemoveTask ==
    ASSUME NEW m \in Memory, NEW r \in Seq(Addrs), NEW j \in 1 .. Len(r)
    PROVE  TasksIn(m, RemoveAt(r, j)) = RemoveAt(TasksIn(m, r), j)
  <1> DEFINE t == RemoveAt(r, j)
             old == TasksIn(m, r)
             one == TasksIn(m, t)
             two == RemoveAt(old, j)
             n == Len(r)
  <1>1. /\ t \in Seq(Addrs) /\ Len(t) = n - 1
        /\ \A i \in 1 .. n - 1 : t[i] = IF i < j THEN r[i] ELSE r[i + 1]
    BY RemoveAtFacts
  <1>2. n \in Nat
    BY LenProperties
  <1> HIDE DEF t
  <1>3. /\ old \in Seq(TaskSet) /\ Len(old) = n /\ \A i \in 1 .. n : old[i] = Task(m, r[i])
        /\ one \in Seq(TaskSet) /\ Len(one) = n - 1
        /\ \A i \in 1 .. n - 1 : one[i] = Task(m, t[i])
    BY <1>1, TasksInFacts
  <1> HIDE DEF old, one
  <1>4. /\ two \in Seq(TaskSet) /\ Len(two) = n - 1
        /\ \A i \in 1 .. n - 1 : two[i] = IF i < j THEN old[i] ELSE old[i + 1]
    BY <1>3, RemoveAtFacts
  <1> HIDE DEF two
  <1>5. \A i \in 1 .. n - 1 : one[i] = two[i]
    <2> TAKE i \in 1 .. n - 1
    <2>1. i \in 1 .. n /\ i + 1 \in 1 .. n
      BY <1>2
    <2>2. CASE i < j
      BY <1>1, <1>3, <1>4, <2>1, <2>2
    <2>3. CASE ~(i < j)
      BY <1>1, <1>3, <1>4, <2>1, <2>3
    <2> QED BY <2>2, <2>3
  <1>6. one = two
    BY <1>3, <1>4, <1>5, SeqEqual
  <1> QED BY <1>6 DEF one, two, t, old

LEMMA AdvanceTask ==
    ASSUME NEW m \in Memory, NEW r \in Seq(Addrs), r # << >>
    PROVE  TasksIn(m, r) # << >> /\ TasksIn(m, Advance(r)) = Advance(TasksIn(m, r))
  <1> DEFINE t == Tail(r)
             old == TasksIn(m, r)
             one == TasksIn(m, t)
             two == Tail(old)
             n == Len(r)
  <1>1. /\ t \in Seq(Addrs) /\ Len(t) = n - 1 /\ \A i \in 1 .. n - 1 : t[i] = r[i + 1]
    BY HeadTailProperties
  <1>2. n \in Nat \ {0} /\ Head(r) = r[1] /\ Head(r) \in Addrs
    BY HeadFacts
  <1> HIDE DEF t
  <1>3. /\ old \in Seq(TaskSet) /\ Len(old) = n /\ \A i \in 1 .. n : old[i] = Task(m, r[i])
        /\ one \in Seq(TaskSet) /\ Len(one) = n - 1
        /\ \A i \in 1 .. n - 1 : one[i] = Task(m, t[i])
    BY <1>1, TasksInFacts
  <1> HIDE DEF old, one
  <1>4. old # << >>
    BY <1>2, <1>3, EmptySeq
  <1>5. /\ two \in Seq(TaskSet) /\ Len(two) = n - 1 /\ \A i \in 1 .. n - 1 : two[i] = old[i + 1]
    BY <1>3, <1>4, HeadTailProperties
  <1>6. Head(old) = Task(m, r[1])
    <2>1. Head(old) = old[1] /\ 1 \in 1 .. n
      BY <1>2, <1>3, <1>4, HeadFacts
    <2> QED BY <1>3, <2>1
  <1> HIDE DEF two
  <1>7. \A i \in 1 .. n - 1 : one[i] = two[i]
    <2> TAKE i \in 1 .. n - 1
    <2>1. i + 1 \in 1 .. n
      BY <1>2
    <2> QED BY <1>1, <1>3, <1>5, <2>1
  <1>8. one = two
    BY <1>3, <1>5, <1>7, SeqEqual
  <1>9. TasksIn(m, Append(t, Head(r))) = Append(one, Task(m, r[1]))
    BY <1>1, <1>2, AppendTask DEF one, AppendToList
  <1> QED BY <1>4, <1>6, <1>8, <1>9 DEF two, t, old, Advance

View(m, s) == [l \in Lists |-> TasksIn(m, s[l])]

\* No two nodes of a ring r have the same pid.
OwnPids(m, r) == \A i, k \in 1 .. Len(r) : m.node[r[i]].pid = m.node[r[k]].pid => i = k

\* A task at the end of a list.
LEMMA AppendCall ==
    ASSUME NEW m, NEW s, NEW l, NEW a, NEW task, NEW m2, NEW s2,
           Appended(m, s, l, a, task, m2, s2)
    PROVE  /\ s2 \in [Lists -> Seq(Addrs)] /\ Rings(m2, s2)
           /\ View(m2, s2) = [View(m, s) EXCEPT ![l] = AppendToList(@, task)]
  <1>1. /\ \A k \in Lists : a \notin Range(s[k])
        /\ Rings(m2, s2) /\ Task(m2, a) = task
        /\ \A b \in Addrs \ {a} : Task(m2, b) = Task(m, b)
    BY AppendRing
  <1> USE DEF Appended
  <1> DEFINE o == Other(l)
  <1>0. o \in Lists /\ o # l /\ \A k \in Lists : k = l \/ k = o
    BY Two
  <1>2. a \in Addrs /\ m \in Memory /\ m2 \in Memory
    BY <1>1 DEF Rings, Unused
  <1>3. s2[l] = Append(s[l], a) /\ s2[o] = s[o] /\ s2[l] \in Seq(Addrs) /\ s2 \in [Lists -> Seq(Addrs)]
    <2>1. Append(s[l], a) \in Seq(Addrs)
      BY <1>2, AppendProperties
    <2> QED BY <1>0, <2>1
  <1> HIDE DEF o
  <1>4. \A k \in Lists : \A b \in Range(s[k]) : Task(m2, b) = Task(m, b)
    <2> SUFFICES ASSUME NEW k \in Lists, NEW b \in Range(s[k]) PROVE Task(m2, b) = Task(m, b)
      OBVIOUS
    <2>1. b \in Addrs \ {a}
      BY <1>1, InARing DEF Rings
    <2> QED BY <1>1, <2>1
  <1>5. \A k \in Lists : TasksIn(m2, s[k]) = TasksIn(m, s[k])
    <2> TAKE k \in Lists
    <2>1. s[k] \in Seq(Addrs)
      OBVIOUS
    <2> QED BY <1>2, <1>4, <2>1, SameTasks
  <1>6. TasksIn(m2, s2[l]) = AppendToList(TasksIn(m, s[l]), task)
    <2>1. TasksIn(m2, s2[l]) = AppendToList(TasksIn(m2, s[l]), Task(m2, a))
      BY <1>2, <1>3, AppendTask
    <2> QED BY <1>1, <1>5, <2>1
  <1>7. TasksIn(m2, s2[o]) = TasksIn(m, s[o])
    BY <1>0, <1>3, <1>5
  <1>8. View(m2, s2) = [View(m, s) EXCEPT ![l] = AppendToList(@, task)]
    BY <1>0, <1>6, <1>7 DEF View
  <1> QED BY <1>1, <1>3, <1>8

\* A task is deleted.
LEMMA DeleteCall ==
    ASSUME NEW m, NEW s, NEW l, NEW j, NEW m2, NEW s2, Deleted(m, s, l, j, m2, s2),
           OwnPids(m, s[l])
    PROVE  /\ s2 \in [Lists -> Seq(Addrs)]
           /\ Task(m, s[l][j]) \in Range(View(m, s)[l])
           /\ View(m2, s2) = [View(m, s) EXCEPT ![l] = DeleteFromList(@, Task(m, s[l][j]))]
  <1>1. /\ Rings(m2, s2)
        /\ \A k \in Lists : \A b \in Range(s2[k]) : Task(m2, b) = Task(m, b)
    BY DeleteRing
  <1> USE DEF Deleted
  <1> DEFINE r == s[l]
             a == r[j]
             o == Other(l)
             t == Task(m, a)
             old == TasksIn(m, r)
  <1>0. o \in Lists /\ o # l /\ (\A k \in Lists : k = l \/ k = o) /\ r \in Seq(Addrs)
    BY Two
  <1>2. m \in Memory /\ m2 \in Memory /\ Ring(m, l, r) /\ Range(r) \cap Range(s[o]) = {}
        /\ Ring(m, o, s[o])
    BY <1>0, <1>1 DEF Rings
  <1>3. /\ RemoveAt(r, j) \in Seq(Addrs)
        /\ s2[l] = RemoveAt(r, j) /\ s2[o] = s[o] /\ s2 \in [Lists -> Seq(Addrs)]
    <2>1. RemoveAt(r, j) \in Seq(Addrs)
      BY <1>0, RemoveAtFacts
    <2> QED BY <1>0, <2>1
  <1>4. /\ old \in Seq(TaskSet) /\ Len(old) = Len(r) /\ DOMAIN old = 1 .. Len(r)
        /\ \A i \in 1 .. Len(r) : old[i] = Task(m, r[i])
    BY <1>0, <1>2, TasksInFacts
  <1>5. IsInjective(old)
    <2> SUFFICES ASSUME NEW i \in 1 .. Len(r), NEW k \in 1 .. Len(r), old[i] = old[k]
                 PROVE  i = k
      BY <1>4 DEF IsInjective
    <2>1. Task(m, r[i]).pid = Task(m, r[k]).pid
      BY <1>4
    <2> QED BY <2>1 DEF Task, OwnPids
  <1>6. t \in Range(old) /\ Position(old, t) = j
    <2>1. old[j] = t
      BY <1>4
    <2> HIDE DEF old, t
    <2> QED BY <1>4, <1>5, <2>1, PositionIs
  <1>7. DeleteFromList(old, t) = TasksIn(m, RemoveAt(r, j))
    <2>1. DeleteFromList(old, t) = RemoveAt(old, j)
      BY <1>6 DEF DeleteFromList
    <2> QED BY <1>0, <1>2, <2>1, RemoveTask
  <1> HIDE DEF o, t, old, r, a
  <1>8. TasksIn(m2, s2[l]) = DeleteFromList(old, t)
    <2>1. TasksIn(m2, RemoveAt(r, j)) = TasksIn(m, RemoveAt(r, j))
      BY <1>2, <1>3, <1>1, SameTasks
    <2> QED BY <1>3, <1>7, <2>1
  <1>9. TasksIn(m2, s2[o]) = TasksIn(m, s[o])
    <2>1. s[o] \in Seq(Addrs) /\ \A b \in Range(s[o]) : Task(m2, b) = Task(m, b)
      BY <1>0, <1>1, <1>3
    <2> QED BY <1>2, <1>3, <2>1, SameTasks
  <1>10. /\ View(m2, s2) = [View(m, s) EXCEPT ![l] = DeleteFromList(@, t)]
         /\ View(m, s)[l] = old
    BY <1>0, <1>8, <1>9 DEF View, old, r
  <1>11. t \in Range(View(m, s)[l])
    BY <1>6, <1>10
  <1> QED BY <1>3, <1>10, <1>11 DEF t, a, r

\* delete_from_list finds the node with the pid, if there is one.
LEMMA delete_from_listFacts ==
    ASSUME NEW m, NEW s \in [Lists -> Seq(Addrs)], Rings(m, s), NEW l \in Lists, NEW pid
    PROVE  \/ /\ delete_from_list(m, l, pid) = m
              /\ \A i \in 1 .. Len(s[l]) : m.node[s[l][i]].pid # pid
           \/ \E j \in 1 .. Len(s[l]) : /\ m.node[s[l][j]].pid = pid
                                        /\ delete_from_list(m, l, pid) = Delete(m, l, s[l][j])
  <1> DEFINE T == {a \in Addrs : m.node[a].pid = pid}
             f == FirstOf(m, l, T)
  <1>1. Ring(m, l, s[l])
    BY DEF Rings
  <1>2. \/ f = NULL /\ Range(s[l]) \cap T = {}
        \/ f # NULL /\ \E j \in 1 .. Len(s[l]) : f = s[l][j] /\ s[l][j] \in T
    <2> HIDE DEF T
    <2> QED BY <1>1, FirstOfIs
  <1>3. delete_from_list(m, l, pid) = Delete(m, l, f)
    BY DEF delete_from_list
  <1>4. Places(s[l])
    BY <1>1, RingFacts
  <1> HIDE DEF f
  <1>5. CASE f = NULL /\ Range(s[l]) \cap T = {}
    <2>1. \A i \in 1 .. Len(s[l]) : s[l][i] \in Addrs /\ s[l][i] \in Range(s[l])
      BY <1>4 DEF Places
    <2>2. \A i \in 1 .. Len(s[l]) : m.node[s[l][i]].pid # pid
      BY <1>5, <2>1
    <2> QED BY <1>3, <1>5, <2>2 DEF Delete
  <1>6. CASE \E j \in 1 .. Len(s[l]) : f = s[l][j] /\ s[l][j] \in T
    BY <1>3, <1>6
  <1> QED BY <1>2, <1>5, <1>6

----------------------------------------------------------------------------
(* The calls. *)

\* Each task is in one node.
OneNodeEach(m, s) ==
    /\ \A l \in Lists : \A a \in Range(s[l]) : Task(m, a).pid \in Pids
    /\ \A k, l \in Lists : \A a \in Range(s[k]), b \in Range(s[l]) :
          Task(m, a).pid = Task(m, b).pid => a = b

\* A memory m whose rings are s.
Sound(m, s) == s \in [Lists -> Seq(Addrs)] /\ Rings(m, s) /\ OneNodeEach(m, s)

LEMMA SoundFacts ==
    ASSUME NEW m, NEW s, Sound(m, s), NEW l \in Lists
    PROVE  /\ m \in Memory /\ Ring(m, l, s[l]) /\ s[l] \in Seq(Addrs) /\ OwnPids(m, s[l])
           /\ \A i \in 1 .. Len(s[l]) : s[l][i] \in Range(s[l]) /\ s[l][i] \in Addrs
           /\ \A a : a \in Range(s[l]) <=> \E i \in 1 .. Len(s[l]) : a = s[l][i]
  <1>1. m \in Memory /\ Ring(m, l, s[l]) /\ s[l] \in Seq(Addrs)
    BY DEF Sound, Rings, Ring
  <1>2. Places(s[l])
    BY <1>1, RingFacts
  <1>3. /\ \A i \in 1 .. Len(s[l]) : s[l][i] \in Range(s[l]) /\ s[l][i] \in Addrs
        /\ \A a : a \in Range(s[l]) <=> \E i \in 1 .. Len(s[l]) : a = s[l][i]
        /\ \A i, k \in 1 .. Len(s[l]) : s[l][i] = s[l][k] => i = k
    BY <1>2 DEF Places
  <1>4. OwnPids(m, s[l])
    <2> SUFFICES ASSUME NEW i \in 1 .. Len(s[l]), NEW k \in 1 .. Len(s[l]),
                        m.node[s[l][i]].pid = m.node[s[l][k]].pid
                 PROVE  i = k
      BY DEF OwnPids
    <2>1. Task(m, s[l][i]).pid = Task(m, s[l][k]).pid
      BY DEF Task
    <2>2. s[l][i] = s[l][k]
      BY <1>3, <2>1 DEF Sound, OneNodeEach
    <2> QED BY <1>3, <2>2
  <1> QED BY <1>1, <1>3, <1>4

LEMMA AppendedNodes ==
    ASSUME NEW m, NEW s, NEW l, NEW a, NEW task, NEW m2, NEW s2,
           Appended(m, s, l, a, task, m2, s2)
    PROVE  \A k \in Lists : \A b \in Range(s2[k]) : b = a \/ b \in Range(s[k])
  <1>1. /\ s \in [Lists -> Seq(Addrs)] /\ Rings(m, s) /\ l \in Lists
        /\ s2 = [s EXCEPT ![l] = Append(@, a)]
    BY DEF Appended
  <1>2. s[l] \in Seq(Addrs) /\ IsInjective(s[l]) /\ a \in Addrs /\ a \notin Range(s[l])
    <2>1. a \in Addrs
      BY DEF Appended, Unused
    <2> QED BY <1>1, <2>1, AppendRing DEF Rings, Ring
  <1>3. Range(Append(s[l], a)) = Range(s[l]) \cup {a}
    BY <1>2, OneMoreNode
  <1>4. \A k \in Lists : s2[k] = IF k = l THEN Append(s[l], a) ELSE s[k]
    BY <1>1
  <1> QED BY <1>3, <1>4

\* A task is created.
LEMMA CreateStep ==
    ASSUME NEW m, NEW s, NEW l, NEW a, NEW task, NEW m2, NEW s2,
           Appended(m, s, l, a, task, m2, s2), Sound(m, s),
           \A b \in Addrs : m.node[b].pid # task.pid
    PROVE  Sound(m2, s2)
  <1>0. /\ s \in [Lists -> Seq(Addrs)] /\ Rings(m, s) /\ OneNodeEach(m, s)
        /\ l \in Lists /\ task \in [id : Nat, pid : Pids] /\ a \in Unused(m)
        /\ s2 = [s EXCEPT ![l] = Append(@, a)]
    BY DEF Sound, Appended
  <1>1. s2 \in [Lists -> Seq(Addrs)] /\ Rings(m2, s2)
    BY AppendCall
  <1>2. /\ \A k \in Lists : a \notin Range(s[k])
        /\ Task(m2, a) = task
        /\ \A b \in Addrs \ {a} : Task(m2, b) = Task(m, b)
    BY AppendRing
  <1>3. \A k \in Lists : \A b \in Range(s2[k]) : b = a \/ b \in Range(s[k])
    BY AppendedNodes
  <1>4. \A k \in Lists : \A b \in Range(s[k]) :
           Task(m2, b) = Task(m, b) /\ Task(m, b).pid # task.pid
    <2> SUFFICES ASSUME NEW k \in Lists, NEW b \in Range(s[k])
                 PROVE  Task(m2, b) = Task(m, b) /\ Task(m, b).pid # task.pid
      OBVIOUS
    <2>1. b \in Addrs \ {a}
      BY <1>0, <1>2, InARing DEF Rings
    <2> QED BY <1>2, <2>1 DEF Task
  <1>5. Task(m2, a).pid = task.pid /\ task.pid \in Pids
    BY <1>0, <1>2
  <1>6. OneNodeEach(m2, s2)
    <2>1. ASSUME NEW i \in Lists, NEW b \in Range(s2[i]) PROVE Task(m2, b).pid \in Pids
      BY <1>0, <1>3, <1>4, <1>5 DEF OneNodeEach
    <2>2. ASSUME NEW k \in Lists, NEW i \in Lists, NEW b \in Range(s2[k]), NEW c \in Range(s2[i]),
                 Task(m2, b).pid = Task(m2, c).pid
          PROVE  b = c
      <3>1. CASE b = a \/ c = a
        BY <1>3, <1>4, <1>5, <2>2, <3>1
      <3>2. CASE b # a /\ c # a
        BY <1>0, <1>3, <1>4, <2>2, <3>2 DEF OneNodeEach
      <3> QED BY <3>1, <3>2
    <2> QED BY <2>1, <2>2 DEF OneNodeEach
  <1> QED BY <1>1, <1>6 DEF Sound

\* A task that is in one node is deleted with it.
LEMMA BuryOne ==
    ASSUME NEW m, NEW s, NEW l, NEW j, NEW m2, NEW s2, Deleted(m, s, l, j, m2, s2),
           Sound(m, s), NEW t, t = Task(m, s[l][j])
    PROVE  /\ Sound(m2, s2)
           /\ \A k \in Lists : \A b \in Range(s2[k]) : Task(m2, b).pid # t.pid
           /\ t \in Range(View(m, s)[l])
           /\ View(m2, s2) = [k \in Lists |-> DeleteFromList(View(m, s)[k], t)]
  <1> DEFINE a == s[l][j]
             o == Other(l)
  <1> l \in Lists /\ j \in 1 .. Len(s[l])
    BY DEF Deleted
  <1>0. /\ s \in [Lists -> Seq(Addrs)] /\ Rings(m, s) /\ OneNodeEach(m, s) /\ OwnPids(m, s[l])
        /\ a \in Range(s[l]) /\ a \in Addrs /\ s[l] \in Seq(Addrs) /\ Ring(m, l, s[l])
        /\ o \in Lists /\ o # l /\ \A k \in Lists : k = l \/ k = o
    BY SoundFacts, Two DEF Sound
  <1>1. /\ s2 \in [Lists -> Seq(Addrs)] /\ Rings(m2, s2) /\ t \in Range(View(m, s)[l])
        /\ View(m2, s2) = [View(m, s) EXCEPT ![l] = DeleteFromList(@, t)]
    BY <1>0, DeleteCall, DeleteRing
  <1>2. \A k \in Lists : \A b \in Range(s2[k]) :
           b # a /\ b \in Range(s[k]) /\ b \in Addrs /\ Task(m2, b) = Task(m, b)
    BY DeleteRing
  <1> HIDE DEF a
  <1>3. t = Task(m, a)
    BY DEF a
  <1>4. \A k \in Lists : \A b \in Range(s2[k]) :
           Task(m2, b) = Task(m, b) /\ Task(m, b).pid # t.pid
    BY <1>0, <1>2, <1>3 DEF OneNodeEach
  <1>5. OneNodeEach(m2, s2)
    BY <1>0, <1>2, <1>4 DEF OneNodeEach
  <1>6. View(m2, s2) = [k \in Lists |-> DeleteFromList(View(m, s)[k], t)]
    <2>1. t \notin Range(View(m, s)[o])
      <3>1. View(m, s)[o] = TasksIn(m, s[o]) /\ s[o] \in Seq(Addrs) /\ m \in Memory
        BY <1>0 DEF View, Rings
      <3>2. /\ DOMAIN TasksIn(m, s[o]) = 1 .. Len(s[o])
            /\ \A k \in 1 .. Len(s[o]) : TasksIn(m, s[o])[k] = Task(m, s[o][k])
        BY <3>1, TasksInFacts
      <3>3. \A k \in 1 .. Len(s[o]) : s[o][k] \in Range(s[o])
        BY <1>0, SoundFacts
      <3>4. s2[o] = s[o]
        BY <1>0 DEF Deleted
      <3> QED BY <1>0, <1>4, <3>1, <3>2, <3>3, <3>4 DEF Range
    <2>2. DeleteFromList(View(m, s)[o], t) = View(m, s)[o]
      BY <2>1 DEF DeleteFromList
    <2>3. View(m, s) = [k \in Lists |-> View(m, s)[k]]
      BY DEF View
    <2> HIDE DEF o
    <2> QED BY <1>0, <1>1, <2>2, <2>3
  <1>7. Sound(m2, s2)
    BY <1>1, <1>5 DEF Sound
  <1> QED BY <1>1, <1>4, <1>6, <1>7

\* A task that has died is deleted from both lists.
LEMMA BuryStep ==
    ASSUME NEW m, NEW s, Sound(m, s), NEW pid,
           NEW m2, m2 = delete_from_list(delete_from_list(m, "high", pid), "low", pid)
    PROVE  \/ m2 = m
           \/ \E s2 : /\ Sound(m2, s2)
                      /\ \E l \in Lists : \E t \in Range(View(m, s)[l]) :
                            View(m2, s2) = [k \in Lists |-> DeleteFromList(View(m, s)[k], t)]
  <1> DEFINE m1 == delete_from_list(m, "high", pid)
  <1>0. "low" \in Lists /\ "high" \in Lists /\ s \in [Lists -> Seq(Addrs)] /\ Rings(m, s)
    BY DEF Sound, Lists
  <1>1. \/ m1 = m
        \/ \E j \in 1 .. Len(s["high"]) : /\ m.node[s["high"][j]].pid = pid
                                          /\ m1 = Delete(m, "high", s["high"][j])
    BY <1>0, delete_from_listFacts
  <1>2. m2 = delete_from_list(m1, "low", pid)
    OBVIOUS
  <1> HIDE DEF m1
  <1>3. CASE m1 = m
    <2>1. \/ m2 = m
          \/ \E j \in 1 .. Len(s["low"]) : /\ m.node[s["low"][j]].pid = pid
                                           /\ m2 = Delete(m, "low", s["low"][j])
      BY <1>0, <1>2, <1>3, delete_from_listFacts
    <2>2. ASSUME NEW j \in 1 .. Len(s["low"]), m2 = Delete(m, "low", s["low"][j])
          PROVE  \E s2 : /\ Sound(m2, s2)
                         /\ \E l \in Lists : \E t \in Range(View(m, s)[l]) :
                               View(m2, s2) = [k \in Lists |-> DeleteFromList(View(m, s)[k], t)]
      <3>1. ASSUME NEW s2, s2 = [s EXCEPT !["low"] = RemoveAt(@, j)],
                   NEW t, t = Task(m, s["low"][j])
            PROVE  /\ Sound(m2, s2) /\ t \in Range(View(m, s)["low"])
                   /\ View(m2, s2) = [k \in Lists |-> DeleteFromList(View(m, s)[k], t)]
        <4>1. Deleted(m, s, "low", j, m2, s2)
          BY <1>0, <2>2, <3>1 DEF Deleted
        <4> QED BY <3>1, <4>1, BuryOne
      <3> QED BY <1>0, <3>1
    <2> QED BY <2>1, <2>2
  <1>4. ASSUME NEW j \in 1 .. Len(s["high"]), m.node[s["high"][j]].pid = pid,
               m1 = Delete(m, "high", s["high"][j])
        PROVE  \E s2 : /\ Sound(m2, s2)
                       /\ \E l \in Lists : \E t \in Range(View(m, s)[l]) :
                             View(m2, s2) = [k \in Lists |-> DeleteFromList(View(m, s)[k], t)]
    <2>1. PICK s2 : s2 = [s EXCEPT !["high"] = RemoveAt(@, j)]
      OBVIOUS
    <2>2. PICK t : t = Task(m, s["high"][j])
      OBVIOUS
    <2>3. /\ Sound(m1, s2) /\ t \in Range(View(m, s)["high"])
          /\ \A k \in Lists : \A b \in Range(s2[k]) : Task(m1, b).pid # t.pid
          /\ View(m1, s2) = [k \in Lists |-> DeleteFromList(View(m, s)[k], t)]
      <3>1. Deleted(m, s, "high", j, m1, s2)
        BY <1>0, <1>4, <2>1 DEF Deleted
      <3> QED BY <2>2, <3>1, BuryOne
    <2>4. t.pid = pid
      BY <1>4, <2>2 DEF Task
    <2>5. s2 \in [Lists -> Seq(Addrs)] /\ Rings(m1, s2)
      BY <2>3 DEF Sound
    <2>6. \/ delete_from_list(m1, "low", pid) = m1
          \/ \E i \in 1 .. Len(s2["low"]) :
                /\ m1.node[s2["low"][i]].pid = pid
                /\ delete_from_list(m1, "low", pid) = Delete(m1, "low", s2["low"][i])
      <3>1. "low" \in Lists
        BY <1>0
      <3> QED BY <2>5, <3>1, delete_from_listFacts
    <2>7. \A i \in 1 .. Len(s2["low"]) : s2["low"][i] \in Range(s2["low"])
      BY <1>0, <2>3, SoundFacts
    <2>8. \A i \in 1 .. Len(s2["low"]) : m1.node[s2["low"][i]].pid # pid
      <3> TAKE i \in 1 .. Len(s2["low"])
      <3>1. Task(m1, s2["low"][i]).pid # pid
        BY <1>0, <2>3, <2>4, <2>7
      <3> QED BY <3>1 DEF Task
    <2>9. m2 = m1
      BY <1>2, <2>6, <2>8
    <2> QED BY <1>0, <2>3, <2>9
  <1> QED BY <1>1, <1>3, <1>4

\* A turn is over.
Turned(m, s, l, m2, s2) ==
    /\ m.head[l] # NULL
    /\ m2 = [m EXCEPT !.head[l] = m.node[@].next]
    /\ s2 = [s EXCEPT ![l] = Advance(@)]

LEMMA TurnStep ==
    ASSUME NEW m, NEW s, Sound(m, s), NEW l \in Lists, NEW m2, NEW s2,
           Turned(m, s, l, m2, s2)
    PROVE  /\ Sound(m2, s2) /\ View(m, s)[l] # << >>
           /\ View(m2, s2) = [View(m, s) EXCEPT ![l] = Advance(@)]
  <1> USE DEF Turned
  <1> DEFINE o == Other(l)
  <1>0. /\ s \in [Lists -> Seq(Addrs)] /\ Rings(m, s) /\ OneNodeEach(m, s)
        /\ s[l] \in Seq(Addrs) /\ IsInjective(s[l]) /\ m \in Memory
        /\ o \in Lists /\ o # l /\ \A k \in Lists : k = l \/ k = o
    BY SoundFacts, Two DEF Sound, Ring
  <1>1. s[l] # << >> /\ Rings(m2, s2)
    BY <1>0, AdvanceRing
  <1>2. Advance(s[l]) \in Seq(Addrs) /\ Range(Advance(s[l])) = Range(s[l])
    BY <1>0, <1>1, AdvanceFacts
  <1>3. s2 \in [Lists -> Seq(Addrs)] /\ s2[l] = Advance(s[l]) /\ s2[o] = s[o]
    BY <1>0, <1>2
  <1> HIDE DEF o
  <1>4. \A k \in Lists : Range(s2[k]) = Range(s[k])
    BY <1>0, <1>2, <1>3
  <1>5. m2.node = m.node /\ m2 \in Memory
    BY <1>0, <1>1 DEF Rings, Memory
  <1>6. \A b : Task(m2, b) = Task(m, b)
    BY <1>5 DEF Task
  <1>12. \A q \in Seq(Addrs) : TasksIn(m2, q) = TasksIn(m, q)
    BY <1>6 DEF TasksIn
  <1>7. OneNodeEach(m2, s2)
    <2>1. ASSUME NEW k \in Lists, NEW a \in Range(s2[k]) PROVE Task(m2, a).pid \in Pids
      BY <1>0, <1>4, <1>6 DEF OneNodeEach
    <2>2. ASSUME NEW k \in Lists, NEW i \in Lists, NEW a \in Range(s2[k]), NEW b \in Range(s2[i]),
                 Task(m2, a).pid = Task(m2, b).pid
          PROVE  a = b
      BY <1>0, <1>4, <1>6, <2>2 DEF OneNodeEach
    <2> QED BY <2>1, <2>2 DEF OneNodeEach
  <1>8. TasksIn(m2, s2[l]) = Advance(TasksIn(m, s[l])) /\ TasksIn(m, s[l]) # << >>
    <2>1. TasksIn(m2, s2[l]) = TasksIn(m, s2[l])
      BY <1>2, <1>3, <1>12
    <2> QED BY <1>0, <1>1, <1>3, <2>1, AdvanceTask
  <1>9. TasksIn(m2, s2[o]) = TasksIn(m, s[o])
    <2>1. s[o] \in Seq(Addrs)
      BY <1>0
    <2> QED BY <1>3, <1>12, <2>1
  <1>10. View(m2, s2) = [View(m, s) EXCEPT ![l] = Advance(@)] /\ View(m, s)[l] # << >>
    BY <1>0, <1>8, <1>9 DEF View
  <1>11. Sound(m2, s2)
    BY <1>1, <1>3, <1>7 DEF Sound
  <1> QED BY <1>10, <1>11

\* When the tasks of the list have distinct pids there is only one to find.
LEMMA DeleteFinds ==
    ASSUME NEW m, NEW s \in [Lists -> Seq(Addrs)], Rings(m, s), NEW l \in Lists,
           OwnPids(m, s[l]), NEW j \in 1 .. Len(s[l]), NEW pid, m.node[s[l][j]].pid = pid
    PROVE  delete_from_list(m, l, pid) = Delete(m, l, s[l][j])
  <1>1. \/ /\ delete_from_list(m, l, pid) = m
           /\ \A i \in 1 .. Len(s[l]) : m.node[s[l][i]].pid # pid
        \/ \E i \in 1 .. Len(s[l]) : /\ m.node[s[l][i]].pid = pid
                                     /\ delete_from_list(m, l, pid) = Delete(m, l, s[l][i])
    BY delete_from_listFacts
  <1>2. \A i \in 1 .. Len(s[l]) : m.node[s[l][i]].pid = pid => i = j
    BY DEF OwnPids
  <1> QED BY <1>1, <1>2

\* A task changes its list: while it is in both, the deletion finds its old node.
LEMMA SwitchStep ==
    ASSUME NEW m, NEW s, Sound(m, s), NEW l \in Lists, NEW id, NEW p,
           p = find_process_from_id(m, l, id), p # NULL, NEW a \in Unused(m),
           NEW m1, m1 = append_to_list_with_id(m, Other(l), a, id, m.node[p].pid),
           NEW m2, m2 = delete_from_list(m1, l, m.node[p].pid)
    PROVE  \E s2 : /\ Sound(m2, s2)
                   /\ \E t \in Range(View(m, s)[l]) :
                         View(m2, s2) = [View(m, s) EXCEPT
                                            ![l] = DeleteFromList(@, t),
                                            ![Other(l)] = AppendToList(@, t)]
  <1> DEFINE o == Other(l)
             task == Task(m, p)
             q == m.node[p].pid
  <1>0. /\ s \in [Lists -> Seq(Addrs)] /\ Rings(m, s) /\ OneNodeEach(m, s) /\ OwnPids(m, s[l])
        /\ m \in Memory /\ Ring(m, l, s[l])
        /\ o \in Lists /\ o # l /\ \A k \in Lists : k = l \/ k = o
    BY SoundFacts, Two DEF Sound
  <1>1. PICK j \in 1 .. Len(s[l]) : p = s[l][j] /\ m.node[p].id = id
    <2> DEFINE T == {b \in Addrs : m.node[b].id = id}
               f == FirstOf(m, l, T)
    <2>1. p = f
      BY DEF find_process_from_id
    <2>2. \/ f = NULL /\ Range(s[l]) \cap T = {}
          \/ f # NULL /\ \E j \in 1 .. Len(s[l]) : f = s[l][j] /\ s[l][j] \in T
      <3> HIDE DEF T
      <3> QED BY <1>0, FirstOfIs
    <2> HIDE DEF f
    <2> QED BY <2>1, <2>2
  <1>2. p \in Range(s[l]) /\ p \in Addrs /\ m.node[p] \in Node
    <2>1. p \in Range(s[l]) /\ p \in Addrs
      BY <1>1, SoundFacts
    <2> QED BY <1>0, <2>1 DEF Memory
  <1>3. task.id = id /\ task.pid = q /\ q \in Pids /\ task \in [id : Nat, pid : Pids]
    <2>1. task.id = id /\ task.pid = q
      BY <1>1 DEF Task
    <2>2. q \in Pids
      BY <1>0, <1>2, <2>1 DEF OneNodeEach
    <2>3. m.node[p].id \in Nat
      BY <1>2 DEF Node
    <2> QED BY <2>1, <2>2, <2>3 DEF Task
  <1> HIDE DEF task, q, o
  <1>4. PICK s1 : s1 = [s EXCEPT ![o] = Append(@, a)]
    OBVIOUS
  <1>5. Appended(m, s, o, a, task, m1, s1)
    BY <1>0, <1>3, <1>4 DEF Appended, o, q
  <1>6. /\ s1 \in [Lists -> Seq(Addrs)] /\ Rings(m1, s1) /\ s1[l] = s[l]
        /\ View(m1, s1) = [View(m, s) EXCEPT ![o] = AppendToList(@, task)]
    <2>1. /\ s1 \in [Lists -> Seq(Addrs)] /\ Rings(m1, s1)
          /\ View(m1, s1) = [View(m, s) EXCEPT ![o] = AppendToList(@, task)]
      BY <1>5, AppendCall
    <2>2. s1[l] = s[l]
      BY <1>0, <1>4
    <2> QED BY <2>1, <2>2
  <1>7. /\ \A k \in Lists : a \notin Range(s[k])
        /\ Task(m1, a) = task
        /\ \A b \in Addrs \ {a} : Task(m1, b) = Task(m, b)
    BY <1>5, AppendRing
  <1>8. \A k \in Lists : \A b \in Range(s[k]) : Task(m1, b) = Task(m, b)
    BY <1>0, <1>7, InARing DEF Rings
  <1>9. \A i \in 1 .. Len(s[l]) : m1.node[s[l][i]].pid = m.node[s[l][i]].pid
    <2> TAKE i \in 1 .. Len(s[l])
    <2>1. Task(m1, s[l][i]) = Task(m, s[l][i])
      BY <1>8, SoundFacts
    <2>2. Task(m1, s[l][i]).pid = Task(m, s[l][i]).pid
      BY <2>1
    <2> QED BY <2>2 DEF Task
  <1>10. OwnPids(m1, s1[l])
    <2>1. OwnPids(m, s[l]) /\ s1[l] = s[l]
      BY <1>0, <1>6
    <2>2. OwnPids(m1, s[l])
      BY <1>9, <2>1 DEF OwnPids
    <2> QED BY <2>1, <2>2
  <1>11. m2 = Delete(m1, l, s1[l][j])
    <2>1. m1.node[s1[l][j]].pid = q /\ j \in 1 .. Len(s1[l])
      BY <1>1, <1>6, <1>9 DEF q
    <2>2. s1 \in [Lists -> Seq(Addrs)] /\ Rings(m1, s1)
      BY <1>6
    <2>3. delete_from_list(m1, l, q) = Delete(m1, l, s1[l][j])
      BY <1>10, <2>1, <2>2, DeleteFinds
    <2> QED BY <2>3 DEF q
  <1>12. PICK s2 : s2 = [s1 EXCEPT ![l] = RemoveAt(@, j)]
    OBVIOUS
  <1>13. Deleted(m1, s1, l, j, m2, s2)
    BY <1>6, <1>11, <1>12 DEF Deleted
  <1>14. s1[l][j] = p /\ Task(m1, p) = task
    BY <1>1, <1>2, <1>6, <1>8 DEF task
  <1>15. /\ s2 \in [Lists -> Seq(Addrs)]
         /\ View(m2, s2) = [View(m1, s1) EXCEPT ![l] = DeleteFromList(@, task)]
    <2>1. /\ s2 \in [Lists -> Seq(Addrs)]
          /\ View(m2, s2) = [View(m1, s1) EXCEPT ![l] = DeleteFromList(@, Task(m1, s1[l][j]))]
      BY <1>10, <1>13, DeleteCall
    <2> QED BY <1>14, <2>1
  <1>16. /\ Rings(m2, s2)
         /\ \A k \in Lists : \A b \in Range(s2[k]) :
               b \in Range(s1[k]) /\ b # p /\ Task(m2, b) = Task(m1, b)
    <2>1. /\ Rings(m2, s2)
          /\ \A k \in Lists : \A b \in Range(s2[k]) :
                /\ b \in Range(s1[k]) /\ b \in Addrs /\ b # s1[l][j]
                /\ Task(m2, b) = Task(m1, b)
      BY <1>13, DeleteRing
    <2> QED BY <1>14, <2>1
  <1>17. \A k \in Lists : \A b \in Range(s2[k]) :
            \/ b = a /\ Task(m2, b).pid = q
            \/ b # a /\ b \in Range(s[k]) /\ b # p /\ Task(m2, b) = Task(m, b)
    <2>1. \A k \in Lists : \A b \in Range(s1[k]) : b = a \/ b \in Range(s[k])
      BY <1>5, AppendedNodes
    <2> QED BY <1>3, <1>7, <1>8, <1>16, <2>1
  <1>18. OneNodeEach(m2, s2)
    <2>1. ASSUME NEW i \in Lists, NEW b \in Range(s2[i]) PROVE Task(m2, b).pid \in Pids
      BY <1>0, <1>3, <1>17 DEF OneNodeEach
    <2>2. ASSUME NEW k \in Lists, NEW i \in Lists, NEW b \in Range(s2[k]), NEW c \in Range(s2[i]),
                 Task(m2, b).pid = Task(m2, c).pid
          PROVE  b = c
      <3>1. \A n \in Lists : \A d \in Range(s[n]) : Task(m, d).pid = q => d = p
        BY <1>0, <1>2, <1>3 DEF OneNodeEach, task
      <3>2. CASE b = a
        BY <1>17, <2>2, <3>1, <3>2
      <3>3. CASE c = a
        BY <1>17, <2>2, <3>1, <3>3
      <3>4. CASE b # a /\ c # a
        <4>1. /\ b \in Range(s[k]) /\ Task(m2, b) = Task(m, b)
              /\ c \in Range(s[i]) /\ Task(m2, c) = Task(m, c)
          BY <1>17, <3>4
        <4> QED BY <1>0, <2>2, <4>1 DEF OneNodeEach
      <3> QED BY <3>2, <3>3, <3>4
    <2> QED BY <2>1, <2>2 DEF OneNodeEach
  <1>19. Sound(m2, s2)
    BY <1>15, <1>16, <1>18 DEF Sound
  <1>20. task \in Range(View(m, s)[l])
    <2>1. /\ DOMAIN TasksIn(m, s[l]) = 1 .. Len(s[l])
          /\ TasksIn(m, s[l])[j] = task
      BY <1>0, <1>1, TasksInFacts DEF task
    <2> QED BY <2>1 DEF View, Range
  <1>21. View(m2, s2) = [View(m, s) EXCEPT ![l] = DeleteFromList(@, task),
                                           ![o] = AppendToList(@, task)]
    <2>1. View(m, s) = [k \in Lists |-> View(m, s)[k]]
      BY DEF View
    <2> QED BY <1>0, <1>6, <1>15, <2>1
  <1> QED BY <1>19, <1>20, <1>21 DEF o

----------------------------------------------------------------------------
(* The lists. *)

\* At every moment the lists are rings, and each task is in one node of them.
PointersInv == nextID \in Nat /\ \E s : Sound(mem, s)

\* Initially both lists are empty.
LEMMA PointersInit == Init => PointersInv
  <1> SUFFICES ASSUME Init PROVE PointersInv
    OBVIOUS
  <1> DEFINE s == [l \in Lists |-> << >>]
  <1>1. s \in [Lists -> Seq(Addrs)] /\ \A l \in Lists : s[l] = << >>
    BY EmptySeq
  <1> HIDE DEF s
  <1>2. mem \in Memory
    <2>1. Freed \in Node
      BY PointersAssumption DEF Freed, Node
    <2> QED BY <2>1 DEF Init, Memory
  <1>3. Range(<< >>) = {} /\ IsInjective(<< >>) /\ Len(<< >>) = 0
    BY DEF Range, IsInjective
  <1>4. \A l \in Lists : Ring(mem, l, s[l])
    <2> TAKE l \in Lists
    <2>1. s[l] = << >> /\ s[l] \in Seq(Addrs) /\ mem.head[l] = NULL
      BY <1>1 DEF Init
    <2>2. Linked(mem, << >>)
      BY <1>3 DEF Linked
    <2> QED BY <1>3, <2>1, <2>2 DEF Ring
  <1>5. \A l \in Lists : Range(s[l]) = {} /\ Other(l) \in Lists
    BY <1>1, <1>3, Two
  <1>6. \A a \in Addrs : mem.node[a] = Freed
    BY DEF Init
  <1>7. Rings(mem, s)
    BY <1>2, <1>4, <1>5, <1>6 DEF Rings
  <1>8. OneNodeEach(mem, s)
    BY <1>5 DEF OneNodeEach
  <1>9. nextID \in Nat
    BY DEF Init
  <1> QED BY <1>1, <1>7, <1>8, <1>9 DEF PointersInv, Sound

\* Every call keeps the rings, and does to the tasks in them what the lists promise.
LEMMA CallsKeepRings ==
    ASSUME NEW s, Sound(mem, s), nextID \in Nat, Next
    PROVE  \/ mem' = mem /\ nextID' = nextID
           \/ \E s2 : /\ Sound(mem', s2)
                      /\ \/ \E pid \in Pids :
                               /\ \A l \in Lists : \A t \in Range(View(mem, s)[l]) : t.pid # pid
                               /\ View(mem', s2) = [View(mem, s) EXCEPT
                                      !["low"] = AppendToList(@, [id |-> nextID, pid |-> pid])]
                               /\ nextID' = nextID + 1
                         \/ /\ nextID' = nextID
                            /\ \E l \in Lists :
                                  \/ \E t \in Range(View(mem, s)[l]) :
                                        \/ View(mem', s2) =
                                               [k \in Lists |-> DeleteFromList(View(mem, s)[k], t)]
                                        \/ View(mem', s2) =
                                               [View(mem, s) EXCEPT
                                                    ![l] = DeleteFromList(@, t),
                                                    ![Other(l)] = AppendToList(@, t)]
                                  \/ /\ View(mem, s)[l] # << >>
                                     /\ View(mem', s2) = [View(mem, s) EXCEPT ![l] = Advance(@)]
  <1>0. "low" \in Lists /\ s \in [Lists -> Seq(Addrs)] /\ Rings(mem, s)
    BY DEF Lists, Sound
  <1>1. CASE append_to_list
    <2>1. PICK a \in Unused(mem), pid \in Pids :
              /\ \A b \in Addrs : mem.node[b].pid # pid
              /\ mem' = append_to_list_with_id(mem, "low", a, nextID, pid)
      BY <1>1 DEF append_to_list
    <2>2. PICK task : task = [id |-> nextID, pid |-> pid]
      OBVIOUS
    <2>3. PICK s2 : s2 = [s EXCEPT !["low"] = Append(@, a)]
      OBVIOUS
    <2>4. task.id = nextID /\ task.pid = pid /\ task \in [id : Nat, pid : Pids]
      BY <2>2
    <2>5. Appended(mem, s, "low", a, task, mem', s2)
      BY <1>0, <2>1, <2>3, <2>4 DEF Appended
    <2>6. Sound(mem', s2)
      BY <2>1, <2>4, <2>5, CreateStep
    <2>7. View(mem', s2) = [View(mem, s) EXCEPT !["low"] = AppendToList(@, task)]
      BY <2>5, AppendCall
    <2>8. \A l \in Lists : \A t \in Range(View(mem, s)[l]) : t.pid # pid
      <3> SUFFICES ASSUME NEW l \in Lists, NEW t \in Range(View(mem, s)[l]) PROVE t.pid # pid
        OBVIOUS
      <3>1. View(mem, s)[l] = TasksIn(mem, s[l]) /\ mem \in Memory /\ s[l] \in Seq(Addrs)
        BY <1>0 DEF View, Rings
      <3>2. PICK i \in 1 .. Len(s[l]) : t = Task(mem, s[l][i])
        BY <3>1, TasksInFacts DEF Range
      <3>3. s[l][i] \in Addrs
        BY SoundFacts
      <3> QED BY <2>1, <3>2, <3>3 DEF Task
    <2>9. nextID' = nextID + 1
      BY <1>1 DEF append_to_list
    <2> QED BY <2>2, <2>6, <2>7, <2>8, <2>9
  <1>2. CASE BuryTask
    <2>1. PICK pid \in Pids :
              mem' = delete_from_list(delete_from_list(mem, "high", pid), "low", pid)
      BY <1>2 DEF BuryTask
    <2>2. \/ mem' = mem
          \/ \E s2 : /\ Sound(mem', s2)
                     /\ \E l \in Lists : \E t \in Range(View(mem, s)[l]) :
                           View(mem', s2) = [k \in Lists |-> DeleteFromList(View(mem, s)[k], t)]
      BY <2>1, BuryStep
    <2>3. nextID' = nextID
      BY <1>2 DEF BuryTask
    <2> QED BY <2>2, <2>3
  <1>3. CASE NextProcess
    <2>1. PICK l \in Lists : /\ mem.head[l] # NULL
                             /\ mem' = [mem EXCEPT !.head[l] = mem.node[@].next]
      BY <1>3 DEF NextProcess
    <2>2. PICK s2 : s2 = [s EXCEPT ![l] = Advance(@)]
      OBVIOUS
    <2>3. /\ Sound(mem', s2) /\ View(mem, s)[l] # << >>
          /\ View(mem', s2) = [View(mem, s) EXCEPT ![l] = Advance(@)]
      <3>1. Turned(mem, s, l, mem', s2)
        BY <2>1, <2>2 DEF Turned
      <3> QED BY <3>1, TurnStep
    <2>4. nextID' = nextID
      BY <1>3 DEF NextProcess
    <2> QED BY <2>3, <2>4
  <1>4. CASE MoveTask
    <2>1. PICK l \in Lists, id \in 0 .. MaxId - 1, a \in Unused(mem) :
              /\ find_process_from_id(mem, l, id) # NULL
              /\ mem' = delete_from_list(
                            append_to_list_with_id(mem, Other(l), a, id,
                                mem.node[find_process_from_id(mem, l, id)].pid),
                            l, mem.node[find_process_from_id(mem, l, id)].pid)
      BY <1>4 DEF MoveTask
    <2>2. \E s2 : /\ Sound(mem', s2)
                  /\ \E t \in Range(View(mem, s)[l]) :
                        View(mem', s2) = [View(mem, s) EXCEPT
                                             ![l] = DeleteFromList(@, t),
                                             ![Other(l)] = AppendToList(@, t)]
      <3>1. PICK p : p = find_process_from_id(mem, l, id)
        OBVIOUS
      <3>2. PICK m1 : m1 = append_to_list_with_id(mem, Other(l), a, id, mem.node[p].pid)
        OBVIOUS
      <3>3. p # NULL /\ mem' = delete_from_list(m1, l, mem.node[p].pid)
        BY <2>1, <3>1, <3>2
      <3> QED BY <3>1, <3>2, <3>3, SwitchStep
    <2>3. nextID' = nextID
      BY <1>4 DEF MoveTask
    <2> QED BY <2>2, <2>3
  <1> QED BY <1>1, <1>2, <1>3, <1>4 DEF Next

LEMMA PointersStep == PointersInv /\ [Next]_vars => PointersInv'
  <1> SUFFICES ASSUME PointersInv, [Next]_vars PROVE PointersInv'
    OBVIOUS
  <1>1. PICK s : Sound(mem, s) /\ nextID \in Nat
    BY DEF PointersInv
  <1>2. CASE mem' = mem /\ nextID' = nextID
    BY <1>1, <1>2 DEF PointersInv
  <1>3. CASE Next
    <2>1. \/ mem' = mem /\ nextID' = nextID
          \/ (nextID' = nextID \/ nextID' = nextID + 1) /\ \E s2 : Sound(mem', s2)
      BY <1>1, <1>3, CallsKeepRings
    <2> QED BY <1>1, <1>2, <2>1 DEF PointersInv
  <1> QED BY <1>2, <1>3 DEF vars

\* There are at all times two sequences of addresses that the memory holds as rings.
THEOREM PointersInvariant == Spec => []PointersInv
  BY PointersInit, PointersStep, PTL DEF Spec

\* The loops of plist.c meet the nodes of one list and of no other, next and prev undo
\* each other, no link leads to freed memory and no node is lost: whatever is
\* created, deleted, moved from list to list and given its turn.
THEOREM RingsSound == Spec => []RingsAreSound
  <1>1. PointersInv => RingsAreSound
    <2> SUFFICES ASSUME PointersInv PROVE RingsAreSound
      OBVIOUS
    <2>1. PICK s : Sound(mem, s)
      BY DEF PointersInv
    <2>2. \A l \in Lists : Ring(mem, l, s[l])
      BY <2>1, SoundFacts
    <2>3. \A l \in Lists : Reached(l) = Range(s[l])
      BY <2>2, WalkIs DEF Reached
    <2>4. /\ \A l \in Lists : Range(s[l]) \cap Range(s[Other(l)]) = {}
          /\ \A a \in Addrs : (\A l \in Lists : a \notin Range(s[l])) => mem.node[a] = Freed
      BY <2>1 DEF Sound, Rings
    <2>5. \A l \in Lists : \A a \in Range(s[l]) :
              /\ a \in Addrs /\ mem.node[a] # Freed
              /\ mem.node[a].next \in Range(s[l]) /\ mem.node[mem.node[a].next].prev = a
      BY <2>2, InARing
    <2>6. "high" \in Lists /\ Other("high") = "low" /\ Lists = {"high", "low"}
      BY DEF Lists, Other
    <2>7. Reached("high") \cap Reached("low") = {}
      BY <2>3, <2>4, <2>6
    <2>8. Reached("high") \cup Reached("low") = Addrs \ Unused(mem)
      BY <2>3, <2>4, <2>5, <2>6 DEF Unused
    <2>9. \A l \in Lists : \A a \in Reached(l) :
              mem.node[a].next \in Reached(l) /\ mem.node[mem.node[a].next].prev = a
      BY <2>3, <2>5
    <2> QED BY <2>7, <2>8, <2>9 DEF RingsAreSound
  <1> QED BY <1>1, PointersInvariant, PTL

----------------------------------------------------------------------------
(* The pointers do what the lists promise. *)

\* The tasks the loops meet.
Met == [l \in Lists |-> [k \in DOMAIN Walk(mem, l) |-> TaskOf(Walk(mem, l)[k])]]

\* The steps of the lists, for what the loops meet.
LEMMA ListSteps ==
    /\ L!LInit <=> Met = [l \in Lists |-> << >>] /\ nextID = 0
    /\ \A pid : L!New(pid) <=>
          /\ \A t \in Range(Met["high"]) \cup Range(Met["low"]) : t.pid # pid
          /\ Met' = [Met EXCEPT !["low"] = AppendToList(@, [id |-> nextID, pid |-> pid])]
          /\ nextID' = nextID + 1
    /\ \A t : L!Gone(t) <=>
          /\ Met' = [l \in Lists |-> DeleteFromList(Met[l], t)]
          /\ nextID' = nextID
    /\ \A l : L!NextTurn(l) <=>
          /\ Met[l] # << >>
          /\ Met' = [Met EXCEPT ![l] = Advance(@)]
          /\ nextID' = nextID
    /\ \A l, t : L!Changes(l, t) <=>
          /\ t \in Range(Met[l])
          /\ Met' = [Met EXCEPT ![l] = DeleteFromList(@, t), ![Other(l)] = AppendToList(@, t)]
          /\ nextID' = nextID
    /\ L!LNext <=> \/ \E pid \in Pids : L!New(pid)
                   \/ \E t \in Range(Met["high"]) \cup Range(Met["low"]) :
                         L!Gone(t) \/ \E l \in Lists : L!Changes(l, t)
                   \/ \E l \in Lists : L!NextTurn(l)
    /\ (Met' = Met /\ nextID' = nextID) => UNCHANGED L!lvars
  <1>1. L!LInit <=> Met = [l \in Lists |-> << >>] /\ nextID = 0
    BY DEF L!LInit, Met, L!Lists, Lists
  <1>2. \A pid : L!New(pid) <=>
          /\ \A t \in Range(Met["high"]) \cup Range(Met["low"]) : t.pid # pid
          /\ Met' = [Met EXCEPT !["low"] = AppendToList(@, [id |-> nextID, pid |-> pid])]
          /\ nextID' = nextID + 1
    BY Zenon DEF L!New, L!AllTasks, Met, L!AppendToList, AppendToList, L!Range, Range
  <1>3. \A t : L!Gone(t) <=>
          /\ Met' = [l \in Lists |-> DeleteFromList(Met[l], t)]
          /\ nextID' = nextID
    BY Zenon DEF L!Gone, Met, L!DeleteFromList, DeleteFromList, L!Range, Range, L!Position, Position,
           L!RemoveAt, RemoveAt, L!Lists, Lists
  <1>4. \A l : L!NextTurn(l) <=>
          /\ Met[l] # << >>
          /\ Met' = [Met EXCEPT ![l] = Advance(@)]
          /\ nextID' = nextID
    BY Zenon DEF L!NextTurn, Met, L!Advance, Advance
  <1>5. \A l, t : L!Changes(l, t) <=>
          /\ t \in Range(Met[l])
          /\ Met' = [Met EXCEPT ![l] = DeleteFromList(@, t), ![Other(l)] = AppendToList(@, t)]
          /\ nextID' = nextID
    BY Zenon DEF L!Changes, Met, L!DeleteFromList, DeleteFromList, L!Range, Range, L!Position, Position,
           L!RemoveAt, RemoveAt, L!AppendToList, AppendToList, L!Other, Other
  <1>6. L!LNext <=> \/ \E pid \in Pids : L!New(pid)
                    \/ \E t \in Range(Met["high"]) \cup Range(Met["low"]) :
                          L!Gone(t) \/ \E l \in Lists : L!Changes(l, t)
                    \/ \E l \in Lists : L!NextTurn(l)
    BY Zenon DEF L!LNext, L!AllTasks, Met, L!Range, Range, L!Lists, Lists
  <1>7. (Met' = Met /\ nextID' = nextID) => UNCHANGED L!lvars
    BY DEF L!lvars, Met
  <1> QED BY <1>1, <1>2, <1>3, <1>4, <1>5, <1>6, <1>7

\* The loops meet the tasks in the rings.
LEMMA MetIs ==
    ASSUME NEW s
    PROVE  /\ Sound(mem, s) => Met = View(mem, s)
           /\ Sound(mem', s) => Met' = View(mem', s)
  <1>1. ASSUME NEW m, Sound(m, s), NEW l \in Lists PROVE Walk(m, l) = s[l]
    BY <1>1, SoundFacts, WalkIs
  <1>2. ASSUME Sound(mem, s) PROVE Met = View(mem, s)
    <2>1. \A l \in Lists : Walk(mem, l) = s[l]
      BY <1>1, <1>2
    <2> QED BY <2>1 DEF Met, View, TasksIn, TaskOf, Task
  <1>3. ASSUME Sound(mem', s) PROVE Met' = View(mem', s)
    <2>1. \A l \in Lists : Walk(mem', l) = s[l]
      BY <1>1, <1>3
    <2> QED BY <2>1 DEF Met, View, TasksIn, TaskOf, Task
  <1> QED BY <1>2, <1>3

\* A step of the pointers is a step of the lists, or leaves them as they are.
LEMMA CallsAreListSteps ==
    ASSUME NEW s, Sound(mem, s), nextID \in Nat, Next
    PROVE  [L!LNext]_L!lvars
  <1> DEFINE V == View(mem, s)
  <1>1. Met = V
    BY MetIs
  <1>2. CASE mem' = mem /\ nextID' = nextID
    <2>1. Met' = Met
      BY <1>2 DEF Met, TaskOf
    <2> QED BY <1>2, <2>1, ListSteps
  <1>3. ASSUME NEW s2, Sound(mem', s2) PROVE Met' = View(mem', s2)
    BY <1>3, MetIs
  <1> HIDE DEF V
  <1>4. "high" \in Lists /\ "low" \in Lists /\ \A l \in Lists : l = "high" \/ l = "low"
    BY DEF Lists
  <1>5. ASSUME NEW s2, Met' = View(mem', s2), NEW pid \in Pids,
               \A l \in Lists : \A t \in Range(V[l]) : t.pid # pid,
               View(mem', s2) = [V EXCEPT !["low"] = AppendToList(@, [id |-> nextID, pid |-> pid])],
               nextID' = nextID + 1
        PROVE  L!LNext
    <2>1. \A t \in Range(Met["high"]) \cup Range(Met["low"]) : t.pid # pid
      BY <1>1, <1>4, <1>5
    <2>2. Met' = [Met EXCEPT !["low"] = AppendToList(@, [id |-> nextID, pid |-> pid])]
      BY <1>1, <1>5
    <2>3. L!New(pid)
      BY <1>5, <2>1, <2>2, ListSteps, Zenon
    <2> QED BY <2>3, ListSteps, Zenon
  <1>6. ASSUME NEW s2, Met' = View(mem', s2), NEW l \in Lists, NEW t \in Range(V[l]),
               nextID' = nextID,
               View(mem', s2) = [k \in Lists |-> DeleteFromList(V[k], t)]
        PROVE  L!LNext
    <2>1. t \in Range(Met["high"]) \cup Range(Met["low"])
      BY <1>1, <1>4, <1>6
    <2>2. Met' = [k \in Lists |-> DeleteFromList(Met[k], t)]
      BY <1>1, <1>6
    <2>3. L!Gone(t)
      BY <1>6, <2>2, ListSteps, Zenon
    <2> QED BY <2>1, <2>3, ListSteps, Zenon
  <1>7. ASSUME NEW s2, Met' = View(mem', s2), NEW l \in Lists, NEW t \in Range(V[l]),
               nextID' = nextID,
               View(mem', s2) = [V EXCEPT ![l] = DeleteFromList(@, t),
                                          ![Other(l)] = AppendToList(@, t)]
        PROVE  L!LNext
    <2>1. t \in Range(Met["high"]) \cup Range(Met["low"]) /\ t \in Range(Met[l])
      BY <1>1, <1>4, <1>7
    <2>2. Met' = [Met EXCEPT ![l] = DeleteFromList(@, t), ![Other(l)] = AppendToList(@, t)]
      BY <1>1, <1>7
    <2>3. L!Changes(l, t)
      BY <1>7, <2>1, <2>2, ListSteps, Zenon
    <2> QED BY <1>7, <2>1, <2>3, ListSteps, Zenon
  <1>8. ASSUME NEW s2, Met' = View(mem', s2), NEW l \in Lists, nextID' = nextID,
               V[l] # << >>, View(mem', s2) = [V EXCEPT ![l] = Advance(@)]
        PROVE  L!LNext
    <2>1. Met[l] # << >> /\ Met' = [Met EXCEPT ![l] = Advance(@)]
      BY <1>1, <1>8
    <2>2. L!NextTurn(l)
      BY <1>8, <2>1, ListSteps, Zenon
    <2> QED BY <1>8, <2>2, ListSteps, Zenon
  <1>9. \/ mem' = mem /\ nextID' = nextID
        \/ \E s2 : /\ Sound(mem', s2)
                   /\ \/ \E pid \in Pids :
                            /\ \A l \in Lists : \A t \in Range(V[l]) : t.pid # pid
                            /\ View(mem', s2) = [V EXCEPT
                                   !["low"] = AppendToList(@, [id |-> nextID, pid |-> pid])]
                            /\ nextID' = nextID + 1
                      \/ /\ nextID' = nextID
                         /\ \E l \in Lists :
                               \/ \E t \in Range(V[l]) :
                                     \/ View(mem', s2) = [k \in Lists |-> DeleteFromList(V[k], t)]
                                     \/ View(mem', s2) = [V EXCEPT
                                            ![l] = DeleteFromList(@, t),
                                            ![Other(l)] = AppendToList(@, t)]
                               \/ /\ V[l] # << >>
                                  /\ View(mem', s2) = [V EXCEPT ![l] = Advance(@)]
    BY CallsKeepRings DEF V
  <1> QED BY <1>2, <1>3, <1>5, <1>6, <1>7, <1>8, <1>9

\* The pointers implement the lists: what the loops of plist.c meet changes only as
\* TaskLists says, for every number of nodes and tasks.
THEOREM PointersImplementLists == Spec => ImplementsTaskLists
  <1>1. Init => L!LInit
    <2> SUFFICES ASSUME Init PROVE L!LInit
      OBVIOUS
    <2>1. \A l \in Lists : Walk(mem, l) = << >>
      BY DEF Init, Walk
    <2>2. Met = [l \in Lists |-> << >>]
      BY <2>1 DEF Met
    <2> QED BY <2>2, ListSteps DEF Init
  <1>2. PointersInv /\ [Next]_vars => [L!LNext]_L!lvars
    <2> SUFFICES ASSUME PointersInv, [Next]_vars PROVE [L!LNext]_L!lvars
      OBVIOUS
    <2>1. PICK s : Sound(mem, s) /\ nextID \in Nat
      BY DEF PointersInv
    <2>2. CASE Next
      BY <2>1, <2>2, CallsAreListSteps
    <2>3. CASE UNCHANGED vars
      <3>1. mem' = mem /\ nextID' = nextID
        BY <2>3 DEF vars
      <3>2. Met' = Met
        BY <3>1 DEF Met, TaskOf
      <3> QED BY <3>1, <3>2, ListSteps
    <2> QED BY <2>2, <2>3
  <1> QED BY <1>1, <1>2, PointersInvariant, PTL DEF Spec, ImplementsTaskLists, L!LSpec
=============================================================================
