--------------------------- MODULE MCProcessTree ---------------------------
(***************************************************************************)
(* The programs of exer2 on small files: files that describe a tree, and   *)
(* the same files with a line lost, replaced or said twice, a comment in   *)
(* the middle, or no newline at the end.                                   *)
(***************************************************************************)
EXTENDS TreeFile, ProcessTree

Letters == {"A", "B", "C", "D", "E", "F", "+", "*", "-"}
\* The words that are numbers; atol makes 0 of all others.
Numeral == ("0" :> 0) @@ ("1" :> 1) @@ ("2" :> 2) @@ ("3" :> 3) @@ ("4" :> 4)
            @@ ("5" :> 5) @@ ("7" :> 7) @@ ("9" :> 9) @@ ("10" :> 10) @@ ("20" :> 20)
MCNumber == [w \in Letters \cup {"#", "", "LONG NAME", "LONG NAM"} |-> 0] @@ Numeral
Words == DOMAIN MCNumber
MCShort == [w \in Words |-> IF w = "LONG NAME" THEN "LONG NAM" ELSE w]
MCChopped == [w \in Words |-> CASE w = "LONG NAME" -> "LONG NAM"
                                [] w = "20" -> "2"
                                [] w = "10" -> "1"
                                [] OTHER -> ""]
MCOperator == [w \in Words |-> IF w \in {"+", "*"} THEN w ELSE "?"]

\* A tree as it is written down: the name and the children.
T(name, kids) == [name |-> name, kids |-> kids]
Leaf(name) == T(name, << >>)
Sum == T("+", <<Leaf("20"), Leaf("3")>>)

SmallTrees == {Leaf("2"), Sum, T("A", <<Leaf("B")>>)}
BigTrees == {T("*", <<Leaf("20"), Sum>>), T("*", <<Sum, Leaf("2")>>),
             T("+", <<T("-", <<Leaf("1"), Leaf("2")>>), Leaf("3")>>),
             T("A", <<T("B", <<Leaf("C")>>)>>),
             T("A", <<Leaf("B"), Leaf("B"), Leaf("C")>>)}

\* The examples of exer2/helpcode: proc.tree, expr.tree, and bad.tree, which is
\* proc.tree without its last block.
ProcTree == T("A", <<T("B", <<Leaf("E"), Leaf("F")>>), Leaf("C"), Leaf("D")>>)
ExprTree == T("+", <<Leaf("10"), T("*", <<T("+", <<Leaf("5"), Leaf("7")>>), Leaf("4")>>)>>)

Digit(n) == CHOOSE w \in {"0", "1", "2", "3"} : MCNumber[w] = n

RECURSIVE Lines(_)
Lines(t) ==
    <<t.name, Digit(Len(t.kids))>> \o [k \in DOMAIN t.kids |-> t.kids[k].name]
        \o <<"">> \o FlattenSeq([k \in DOMAIN t.kids |-> Lines(t.kids[k])])

RECURSIVE AsTree(_, _)
AsTree(t, p) ==
    FoldLeft(@@, p :> [name |-> t.name, nr |-> Len(t.kids)],
             [k \in DOMAIN t.kids |-> AsTree(t.kids[k], Append(p, k))])

File(lines) == [exists |-> TRUE, lines |-> lines, newline |-> TRUE]

WholeTrees == SmallTrees \cup BigTrees \cup {ProcTree, ExprTree}
WholeFiles == {File(<<"#", "">> \o Lines(t)) : t \in WholeTrees}
BadFile == File(SubSeq(Lines(ProcTree), 1, Len(Lines(ProcTree)) - 3))

Spoiled(lines) ==
    {RemoveAt(lines, k) : k \in DOMAIN lines}
        \cup {InsertAt(lines, k, lines[k]) : k \in DOMAIN lines}
        \cup {InsertAt(lines, k, "#") : k \in DOMAIN lines}
        \cup {[lines EXCEPT ![k] = w] :
                  k \in DOMAIN lines, w \in {"", "9", "C", "#", "LONG NAME", "TOO LONG"}}

SpoiledFiles ==
    LET small == {Lines(t) : t \in SmallTrees}
    IN  {File(s) : s \in UNION {Spoiled(lines) : lines \in small}}
            \cup {[File(Front(lines)) EXCEPT !.newline = b] :
                      lines \in small, b \in BOOLEAN}
            \cup {BadFile, File(<< >>), [File(<< >>) EXCEPT !.exists = FALSE]}

MCFiles == WholeFiles \cup SpoiledFiles
MCNodes == {<<1>>, <<1, 1>>, <<1, 2>>, <<1, 3>>,
            <<1, 1, 1>>, <<1, 1, 2>>, <<1, 2, 1>>, <<1, 2, 2>>,
            <<1, 2, 1, 1>>, <<1, 2, 1, 2>>}

----------------------------------------------------------------------------
(* The format, read as the comments at the head of proc.tree and expr.tree  *)
(* explain it: "blocks are seperated with empty lines", "no comments are    *)
(* allowed within a block", a block is the name of a node, the number of    *)
(* its children and their names, and "nodes must be placed in a DFS order". *)

\* The blocks of a file: its runs of lines that are not empty, without the comments
\* a run begins with.
Blocks(lines) ==
    LET Read(runs, w) ==
            IF w = "" THEN Append(runs, << >>)
            ELSE IF w = "#" /\ Last(runs) = << >> THEN runs
            ELSE Append(Front(runs), Append(Last(runs), w))
    IN  SelectSeq(FoldLeft(Read, <<<< >>>>, lines), LAMBDA run : run # << >>)

\* The block of node p of tree t.
IsBlockOf(block, t, p) ==
    /\ Len(block) = 2 + t[p].nr
    /\ block[1] = t[p].name
    /\ block[2] \in DOMAIN Numeral /\ Numeral[block[2]] = t[p].nr
    /\ \A j \in 1 .. t[p].nr : block[2 + j] = t[Append(p, j)].name

\* The lines end in newlines and fit the buffer, the names fit a node.
WithinLimits(f) ==
    f.exists /\ f.newline /\ Range(f.lines) \cap {"TOO LONG", "LONG NAME"} = {}

\* The first blocks of the file are those of the nodes of t, in depth-first order.
Describes(f, t) ==
    LET blocks == Blocks(f.lines)
    IN  /\ WithinLimits(f)
        /\ Cardinality(DOMAIN t) <= Len(blocks)
        /\ \A p \in DOMAIN t :
              IsBlockOf(blocks[Cardinality({q \in DOMAIN t : Before(q, p)}) + 1], t, p)

CountsAreNumbers(f) ==
    \A block \in Range(Blocks(f.lines)) : Len(block) > 1 => block[2] \in DOMAIN Numeral

Samples == {AsTree(t, Root) : t \in WholeTrees}

Parsed == at[Main] \in {"fork", "fail"} /\ child[Root].run = "none"

\* A file that describes a tree is not refused; and the tree that is made of a file
\* with a number where each block must have one is the tree the file describes.  (A
\* count that is no number is taken for 0, against "no comments are allowed within a
\* block" of proc.tree:9; what is beyond the limits of a line or a name is cut, see
\* LineOf and Short.)
TreeIsTheFiles ==
    Parsed =>
        IF tree = << >> THEN \A t \in Samples : ~Describes(file, t)
        ELSE WithinLimits(file) /\ CountsAreNumbers(file) => Describes(file, tree)
=============================================================================
