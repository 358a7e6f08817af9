---------------------------- MODULE ProcessTree ----------------------------
(***************************************************************************)
(* The four programs of exer2 that turn a tree into a tree of processes:   *)
(*   "tree"     ask2-tree     leaves sleep, everybody waits for its        *)
(*                            children and exits with 9;                   *)
(*   "signals"  ask2-signals  every process stops itself once its children *)
(*                            have, and is woken depth-first;              *)
(*   "expr"     ask2-expr     the same, and the tree is an expression whose *)
(*                            values go up through pipes;                  *)
(*   "rv"       ask2-expr-rv  the same with exit statuses for pipes.       *)
(*                                                                         *)
(* A process is the path of its node.  main is the process << >>, whose    *)
(* only child <<1>> is the root of the tree: main makes the same calls for *)
(* its one child as a node makes for its own.                              *)
(***************************************************************************)
EXTENDS Integers, Sequences, SequencesExt, Processes

CONSTANTS Programs,   \* the programs to look at
          Files,      \* what argv[1] may name
          TreeOf(_),  \* what get_tree_from_file makes of a file
          Nodes,      \* the nodes a tree may have
          Atoi,       \* the number a name stands for
          Operator    \* "*", "+" or "?", by the first character of a name

Main == << >>
Root == <<1>>

Procs == {Main} \cup Nodes

ASSUME ProgramsAssumption == Programs \subseteq {"tree", "signals", "expr", "rv"}

ASSUME NodesAssumption == Nodes \subseteq Seq(Nat \ {0}) \ {Main} /\ Root \in Nodes

\* What parse_node returns is a tree: a node of nr children has children 1 to nr, and
\* the nodes on the way from the root to a node are in it too.  A name stands for a
\* number, as atoi has it.
ASSUME TreesAssumption ==
    \A f \in Files :
        LET t == TreeOf(f).tree
        IN  /\ DOMAIN t \subseteq Nodes
            /\ t # << >> => Root \in DOMAIN t
            /\ \A p \in DOMAIN t : t[p].nr \in Nat /\ Atoi[t[p].name] \in Int
            /\ \A p \in DOMAIN t :
                  /\ p[1] = 1
                  /\ \A k \in 1 .. Len(p) - 1 : /\ SubSeq(p, 1, k) \in DOMAIN t
                                               /\ p[k + 1] \in 1 .. t[SubSeq(p, 1, k)].nr
            /\ \A p \in DOMAIN t : \A k \in 1 .. t[p].nr : Append(p, k) \in DOMAIN t

VARIABLES program, file,  \* how the program was called; never change
          tree,           \* the tree in memory, << >> for NULL; never changes
          at,             \* where each process is
          i,              \* its loop counter
          child,          \* the processes, as their parents see them
          status,         \* the exit statuses
          got,            \* the values a process has from its children, or its result
          pipe,           \* what the pipe made by a process holds
          woken,          \* the processes that said that they are awake
          out             \* the values main has printed

forking == <<program, file, tree>>
values == <<status, got, pipe>>
vars == <<program, file, tree, at, i, child, values, woken, out>>

Stops == program # "tree"

Nr(p) == IF p = Main THEN 1 ELSE tree[p].nr
Kids(p) == {Append(p, k) : k \in 1 .. Nr(p)}

\* The child the loop of p is at.
Kid(p) == Append(p, i[p] + 1)
LastKid(p) == i[p] + 1 = Nr(p)

Ended == {"done", "failed", "crashed"}
Runs(p) == IF p = Main THEN at[Main] \notin Ended ELSE child[p].run = "running"

Where == {"unborn", "start", "fork", "ready", "photo", "raise", "awake",
          "wake", "wait", "collect", "result", "write", "exit", "fail", "crash"}
            \cup Ended

TypeOK ==
    /\ program \in Programs
    /\ at \in [Procs -> Where]
    /\ i \in [Procs -> Nat]
    /\ \A p \in Procs : at[p] \in {"fork", "ready", "wake", "wait"} => i[p] < Nr(p)
    /\ child \in [Procs -> Child]
    /\ status \in [Procs -> 0 .. 255]
    /\ got \in [Procs -> Seq(Int)]
    /\ pipe \in [Procs -> Seq(Int)]
    /\ woken \in Seq(Procs)
    /\ out \in Seq(Int)

\* get_tree_from_file has returned, or the error it met in the file has called
\* exit(1).
Init ==
    /\ program \in Programs /\ file \in Files
    /\ tree = TreeOf(file).tree
    /\ at = [p \in Procs |-> IF p # Main THEN "unborn"
                            ELSE IF TreeOf(file).ok THEN "fork" ELSE "fail"]
    /\ i = [p \in Procs |-> 0]
    /\ child = [p \in Procs |-> Unborn]
    /\ status = [p \in Procs |-> 0]
    /\ got = [p \in Procs |-> << >>]
    /\ pipe = [p \in Procs |-> << >>]
    /\ woken = << >>
    /\ out = << >>

\* Process p, which is there now, goes on to another place.
Moves(p, from, to) == Runs(p) /\ at[p] = from /\ at' = [at EXCEPT ![p] = to]

\* FAULT: the counter is not set to 0 before the next loop.
AdvanceOn(p) == i' = [i EXCEPT ![p] = @ + 1]

\* The loop of p goes round once more, or begins anew for a later loop.
Advance(p) == i' = [i EXCEPT ![p] = IF LastKid(p) THEN 0 ELSE @ + 1]

----------------------------------------------------------------------------
(* Growing the tree. *)

\* The head of fork_procs: a root that is NULL cannot be read, and change_pname, which
\* comes first in "tree", exits because prctl cannot read it; a leaf of "tree" sleeps
\* and goes on to exit; an expression asserts that its operators are binary.
FirstStep(p) ==
    IF tree = << >> THEN IF Stops THEN "crash" ELSE "fail"
    ELSE IF Nr(p) = 0 THEN IF Stops THEN "raise" ELSE "exit"
    ELSE IF program \in {"expr", "rv"} /\ Nr(p) # 2 THEN "crash"
    ELSE "fork"

Start(p) ==
    /\ Moves(p, "start", FirstStep(p))
    /\ UNCHANGED <<forking, i, child, values, woken, out>>

AfterForks(p) ==
    IF Stops THEN "ready" ELSE IF p = Main THEN "photo" ELSE "wait"

Fork(p) ==
    /\ Runs(p) /\ at[p] = "fork"
    /\ child' = [child EXCEPT ![Kid(p)] = Forked]
    /\ at' = [at EXCEPT ![Kid(p)] = "start",
                        ![p] = IF LastKid(p) THEN AfterForks(p) ELSE "fork"]
    /\ Advance(p)
    /\ UNCHANGED <<forking, values, woken, out>>

\* pipe, malloc or fork fail.  The children there are already stay.
ForkFails(p) ==
    /\ Moves(p, "fork", "fail")
    /\ UNCHANGED <<forking, i, child, values, woken, out>>

\* FAULT: a death counts as well as a stop.
EveryEventCounts(event) == TRUE

Stopped(event) == event = "stopped"

\* A round of wait_for_ready_children.
AfterReady(p, event) ==
    IF ~Stopped(event) THEN "fail"
    ELSE IF ~LastKid(p) THEN "ready"
    ELSE IF p = Main THEN "photo" ELSE "raise"

WaitReady(p) ==
    /\ Runs(p) /\ at[p] = "ready"
    /\ \E c \in Kids(p) :
          /\ Reportable(child[c], {"stopped", "exited"})
          /\ at' = [at EXCEPT ![p] = AfterReady(p, child[c].event)]
          /\ child' = [child EXCEPT ![c] = Reported(@)]
    /\ Advance(p)
    /\ UNCHANGED <<forking, values, woken, out>>

RaiseStop(p) ==
    /\ Moves(p, "raise", "awake")
    /\ child' = [child EXCEPT ![p] = Raise(@)]
    /\ UNCHANGED <<forking, i, values, woken, out>>

\* main shows the tree; ask2-tree prints what is in memory first, and a NULL
\* there is its end.
Photo ==
    /\ Moves(Main, "photo", IF Stops THEN "wake"
                            ELSE IF tree = << >> THEN "crash" ELSE "wait")
    /\ UNCHANGED <<forking, i, child, values, woken, out>>

----------------------------------------------------------------------------
(* Walking it. *)

\* A process that was continued says that it is awake.
Awake(p) ==
    /\ Moves(p, "awake", IF Nr(p) = 0 THEN "result" ELSE "wake")
    /\ woken' = Append(woken, p)
    /\ UNCHANGED <<forking, i, child, values, out>>

Wake(p) ==
    /\ Moves(p, "wake", "wait")
    /\ child' = [child EXCEPT ![Kid(p)] = SendCont(@)]
    /\ UNCHANGED <<forking, i, values, woken, out>>

\* FAULT: waits for a change of state, and a stop is one.
AnyChange(c) == Reportable(c, {"stopped", "continued", "exited"})

Gone(c) == Reportable(c, {"exited"})

\* ask2-tree waits for any child; the others for the one they have continued.
WaitsFor(p) == IF Stops THEN {Kid(p)} ELSE Kids(p)

AfterWaits ==
    CASE program = "expr" -> "collect"
      [] program = "rv" -> "result"
      [] OTHER -> "exit"

WaitKid(p) ==
    /\ Moves(p, "wait", IF LastKid(p) THEN AfterWaits
                        ELSE IF Stops THEN "wake" ELSE "wait")
    /\ \E c \in WaitsFor(p) :
          /\ Gone(child[c])
          /\ child' = [child EXCEPT ![c] = Reported(@)]
          /\ got' = IF program = "rv" THEN [got EXCEPT ![p] = Append(@, status[c])]
                                      ELSE got
    /\ Advance(p)
    /\ UNCHANGED <<forking, status, pipe, woken, out>>

----------------------------------------------------------------------------
(* Evaluating it. *)

\* FAULT: p does not close its own copy.
WritersWithParent(p) ==
    {q \in Procs \ {Main} : IsPrefix(p, q) /\ Alive(child[q])}

\* Who holds the write end of the pipe of p: its descendants have inherited it,
\* none closes it, and p itself has closed its own.
Writers(p) == {q \in Procs \ {p} : IsPrefix(p, q) /\ Alive(child[q])}

ReadPipe(p) ==
    /\ pipe[p] # << >>
    /\ Moves(p, "collect", IF Len(got[p]) + 1 = Nr(p) THEN "result" ELSE "collect")
    /\ got' = [got EXCEPT ![p] = Append(@, Head(pipe[p]))]
    /\ pipe' = [pipe EXCEPT ![p] = Tail(@)]
    /\ UNCHANGED <<forking, i, child, status, woken, out>>

\* read finds the pipe empty and nobody who could still write.
ReadEnd(p) ==
    /\ pipe[p] = << >> /\ Writers(p) = {}
    /\ Moves(p, "collect", "fail")
    /\ UNCHANGED <<forking, i, child, values, woken, out>>

\* FAULT: takes the operators for each other.
ComputedSwapped(p) ==
    IF Nr(p) = 0 THEN Atoi[tree[p].name]
    ELSE IF Operator[tree[p].name] = "+" THEN got[p][1] * got[p][2]
    ELSE got[p][1] + got[p][2]

\* What a node of an expression makes of the values of its children.
Computed(p) ==
    IF Nr(p) = 0 THEN Atoi[tree[p].name]
    ELSE IF Operator[tree[p].name] = "*" THEN got[p][1] * got[p][2]
    ELSE got[p][1] + got[p][2]

BadOperator(p) == Nr(p) # 0 /\ Operator[tree[p].name] \notin {"*", "+"}

Result(p) ==
    /\ p # Main /\ Runs(p) /\ at[p] = "result"
    /\ \/ /\ program = "signals"
          /\ at' = [at EXCEPT ![p] = "exit"]
          /\ UNCHANGED got
       \/ /\ program # "signals" /\ BadOperator(p)
          /\ at' = [at EXCEPT ![p] = "fail"]
          /\ UNCHANGED got
       \/ /\ program # "signals" /\ ~BadOperator(p)
          /\ at' = [at EXCEPT ![p] = IF program = "expr" THEN "write" ELSE "exit"]
          /\ got' = [got EXCEPT ![p] = <<Computed(p)>>]
    /\ UNCHANGED <<forking, i, child, status, pipe, woken, out>>

Write(p) ==
    /\ Moves(p, "write", "exit")
    /\ pipe' = [pipe EXCEPT ![Front(p)] = Append(@, got[p][1])]
    /\ UNCHANGED <<forking, i, child, status, got, woken, out>>

\* The status its parent will find: that of a process killed by a signal reads 0.
StatusOf(p) ==
    CASE at[p] = "fail" -> 1
      [] at[p] = "exit" /\ program = "tree" -> 9
      [] at[p] = "exit" /\ program = "rv" -> got[p][1] % 256
      [] OTHER -> 0

Exit(p) ==
    /\ p # Main /\ Runs(p) /\ at[p] \in {"exit", "fail", "crash"}
    /\ child' = [child EXCEPT ![p] = Die(@)]
    /\ status' = [status EXCEPT ![p] = StatusOf(p)]
    /\ at' = [at EXCEPT ![p] = "done"]
    /\ UNCHANGED <<forking, i, got, pipe, woken, out>>

\* main prints the result, if it is after one, and returns, or calls exit(1).
MainEnds ==
    \/ /\ Moves(Main, "result", "done")
       /\ out' = Append(out, got[Main][1])
       /\ UNCHANGED <<forking, i, child, values, woken>>
    \/ /\ \/ Moves(Main, "exit", "done")
          \/ Moves(Main, "fail", "failed")
          \/ Moves(Main, "crash", "crashed")
       /\ UNCHANGED <<forking, i, child, values, woken, out>>

----------------------------------------------------------------------------
Grows(p) == Start(p) \/ Fork(p) \/ ForkFails(p) \/ WaitReady(p) \/ RaiseStop(p)

Walks(p) == Awake(p) \/ Wake(p) \/ WaitKid(p)

Evaluates(p) == ReadPipe(p) \/ ReadEnd(p) \/ Result(p) \/ Write(p) \/ Exit(p)

MainStep == Photo \/ MainEnds

Step(p) == Grows(p) \/ Walks(p) \/ Evaluates(p) \/ (p = Main /\ MainStep)

Next == \E p \in Procs : Step(p)

Spec == Init /\ [][Next]_vars

\* Every process that can take a step takes one.
FairSpec == Spec /\ \A p \in Procs : WF_vars(Step(p))

----------------------------------------------------------------------------
(* Properties. *)

Grown == DOMAIN tree
Descendants(p) == {q \in Grown : p # q /\ IsPrefix(p, q)}

\* "It guarantees that all the children (and their children, recursively) are
\* ready and have done raise(SIGSTOP)": a process that is stopped is the root of a
\* subtree that is stopped, whatever failed elsewhere, and main takes its picture
\* of a tree that is there to the last process.
Ready(p) == IF p = Main THEN Stops /\ at[Main] = "photo" ELSE child[p].run = "stopped"
ReadyRecursively ==
    \A p \in Grown \cup {Main} :
        Ready(p) => \A q \in Descendants(p) : child[q].run = "stopped"

\* p comes before q when the tree is printed (print_tree): the parent before its
\* children, and the whole of one child before the next.
Before(p, q) ==
    \/ IsStrictPrefix(p, q)
    \/ \E k \in 1 .. Len(p) :
          /\ k <= Len(q) /\ p[k] < q[k]
          /\ SubSeq(p, 1, k - 1) = SubSeq(q, 1, k - 1)

\* The processes wake in the order in which the tree is printed, and none is
\* passed over.
WakesInOrder ==
    \A k \in 1 .. Len(woken) :
        Range(SubSeq(woken, 1, k)) =
            {q \in Grown : q = woken[k] \/ Before(q, woken[k])}

\* The value of the expression at each node, for a tree without bad operators.
ValueAt[p \in Grown] ==
    IF tree[p].nr = 0 THEN Atoi[tree[p].name]
    ELSE IF Operator[tree[p].name] = "*"
         THEN ValueAt[Append(p, 1)] * ValueAt[Append(p, 2)]
         ELSE ValueAt[Append(p, 1)] + ValueAt[Append(p, 2)]

Value == ValueAt[Root]

BadOperators == {p \in Grown : Nr(p) # 0 /\ Operator[tree[p].name] \notin {"*", "+"}}

\* What main prints is the value of the expression: all of it through pipes, its
\* last eight bits through exit statuses.  A bad operator makes the first print
\* nothing; the second takes the exit(1) for a value.
ResultIsRight ==
    out # << >> =>
        IF program = "expr" THEN BadOperators = {} /\ out = <<Value>>
        ELSE BadOperators = {} => out = <<Value % 256>>

\* When main returns, every process of the tree has ended and its parent knows;
\* in ask2-tree a failed fork may leave some behind.
NobodyLeft ==
    at[Main] = "done" /\ Stops => \A p \in Grown : child[p].run = "reaped"

\* Whatever fails, main ends: nobody waits for ever for a process that was never
\* started, for a stop that was reported already, or for a value nobody writes.
AlwaysEnds == <>(at[Main] \in Ended)
=============================================================================
