------------------------------ MODULE TreeFile ------------------------------
(***************************************************************************)
(* get_tree_from_file of exer2/*/tree.c: the parser that turns the file of *)
(* a tree into its nodes.  A file is a sequence of blocks in depth-first   *)
(* order; a block is the name of a node, the number of its children, their *)
(* names and an empty line.                                                *)
(*                                                                         *)
(* A line is a word without its newline.  What the C library makes of a    *)
(* word is given by functions: its number, what the 16 bytes of a name     *)
(* keep of it, and what remains when its last character is removed.        *)
(* A node is a path: <<1>> is the root, Append(p, k) is the k-th child of  *)
(* p.  A tree is a function from its paths to names and numbers of         *)
(* children; the empty function is NULL.                                   *)
(***************************************************************************)
EXTENDS Naturals, Sequences, FiniteSetsExt, SequencesExt

CONSTANTS Comments,  \* words that begin with '#'
          Overlong,  \* words that fill the buffer of a line
          Number,    \* atol
          Short,     \* the first NODE_NAME_SIZE - 1 characters
          Chopped    \* all but the last character

Failed == [ok |-> FALSE, next |-> 0, tree |-> << >>]

\* read_line removes the last character, be it a newline or not: the last line of
\* a file that does not end in a newline loses a letter.
LineOf(f, k) ==
    IF k = Len(f.lines) /\ ~f.newline THEN Chopped[f.lines[k]] ELSE f.lines[k]

AtEnd(f, k) == k > Len(f.lines)

\* read_line does not exit.
Fits(f, k) == f.lines[k] \notin Overlong

\* read_empty_line and read_non_empty_line return.
EmptyLine(f, k) == AtEnd(f, k) \/ (Fits(f, k) /\ LineOf(f, k) = "")
NonEmptyLine(f, k) == ~AtEnd(f, k) /\ Fits(f, k) /\ LineOf(f, k) # ""

\* find_block_start passes over it.
Gap(f, k) == LineOf(f, k) = "" \/ LineOf(f, k) \in Comments

BlockStart(f, k) ==
    Min({j \in k .. Len(f.lines) + 1 :
             AtEnd(f, j) \/ ~Fits(f, j) \/ ~Gap(f, j)} \cup {Len(f.lines) + 1})

\* FAULT: takes the blocks in any order.
AnyName(path, name, line) == TRUE

\* The root takes any name; the block of a child must be headed by the name its
\* parent gave it, of which only the first characters were kept.
NameMatches(path, name, line) == Len(path) = 1 \/ name = line

\* The block that starts at line h: where the next one may start and whether it
\* is complete.
NrAt(f, h) == Number[LineOf(f, h + 1)]
BlockReads(f, h) ==
    /\ NonEmptyLine(f, h + 1)
    /\ \A j \in 1 .. NrAt(f, h) : NonEmptyLine(f, h + 1 + j)
    /\ EmptyLine(f, h + 2 + NrAt(f, h))

\* parse_node, for the node at path, whose name is already known unless it is the
\* root; the children are parsed one after the other, each from where the one
\* before ended.
RECURSIVE ParseNode(_, _, _, _)
ParseNode(f, k, path, name) ==
    LET h == BlockStart(f, k)
        nr == NrAt(f, h)
        Kid(j) == Short[LineOf(f, h + 1 + j)]
        Node == [name |-> Short[LineOf(f, h)], nr |-> nr]
        ParseKid(done, j) ==
            IF ~done.ok THEN done
            ELSE LET kid == ParseNode(f, done.next, Append(path, j), Kid(j))
                 IN  IF kid.ok THEN [kid EXCEPT !.tree = @ @@ done.tree] ELSE Failed
    IN  IF AtEnd(f, h)
        THEN [Failed EXCEPT !.ok = Len(path) = 1]
        ELSE IF /\ Fits(f, h)
                /\ NameMatches(path, name, LineOf(f, h))
                /\ BlockReads(f, h)
        THEN FoldLeft(ParseKid,
                      [ok |-> TRUE, next |-> h + 3 + nr, tree |-> path :> Node],
                      [j \in 1 .. nr |-> j])
        ELSE Failed

\* A file that cannot be opened, or read, makes the program exit; what follows the
\* last block is not looked at.
GetTree(f) ==
    LET parsed == IF f.exists THEN ParseNode(f, 1, <<1>>, "") ELSE Failed
    IN  IF parsed.ok THEN parsed ELSE Failed
=============================================================================
