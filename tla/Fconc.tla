------------------------------- MODULE Fconc -------------------------------
(***************************************************************************)
(* The programs of exer1 that write one file after the other into an       *)
(* output file:                                                            *)
(*   "fconc"      fconc/fconc.c, two inputs;                               *)
(*   "fconc2"     fconc/fconc2.c, any number of inputs;                    *)
(*   "unchecked"  the earlier version of both that does not check whether  *)
(*                an input is the output (.old/task2-without-checking...); *)
(*   "testin"     the one that opens the output first (.old/fconc-testin). *)
(*                                                                         *)
(* A file is an inode with bytes; several names may stand for one.         *)
(* Nothing else touches the files while the program runs.                  *)
(***************************************************************************)
EXTENDS Naturals, Sequences, SequencesExt

CONSTANTS Programs,     \* the programs to look at
          Names,        \* file names
          Inodes,       \* files that exist or may be created
          NoInode,      \* stat fails
          Bytes,
          Directories,  \* what the names may stand for at first
          Contents,     \* what may be in the files at first
          MaxInputs,    \* how many inputs are given at most
          BufSize,      \* sizeof(buf)
          Capacity      \* a file of so many bytes fills the disk

ASSUME SizesAssumption ==
    BufSize \in Nat \ {0} /\ Capacity \in Nat /\ MaxInputs \in Nat \ {0}
ASSUME FilesAssumption ==
    /\ NoInode \notin Inodes
    /\ Directories \subseteq [Names -> Inodes \cup {NoInode}]
    /\ Contents \subseteq [Inodes -> Seq(Bytes)]

VARIABLES program, args, before,  \* the command line and the files as they were
          dir, data,  \* what the names stand for, what is in the files
          pc, k,      \* where the program is and the input it is at
          in, out,    \* open inputs with their positions; the open output
          buf, sent   \* what was read, and how much of it is written

given == <<program, args, before>>
vars == <<program, args, before, dir, data, pc, k, in, out, buf, sent>>

Checked == program \in {"fconc", "fconc2"}

Inputs == DOMAIN in
OutName == Last(args)

Ended == {"done", "died", "refused"}

TypeOK ==
    /\ program \in Programs
    /\ dir \in [Names -> Inodes \cup {NoInode}]
    /\ data \in [Inodes -> Seq(Bytes)]
    /\ pc \in {"check", "open", "create", "read", "write"} \cup Ended
    /\ in \in Seq([file : Inodes \cup {NoInode}, pos : Nat])
    /\ k \in Inputs
    /\ out \in Inodes \cup {NoInode}
    /\ buf \in Seq(Bytes)
    /\ sent \in 0 .. Len(buf)

Closed == [file |-> NoInode, pos |-> 0]

ArgCounts(p) == IF p = "fconc" THEN {3} ELSE 2 .. MaxInputs + 1

Init ==
    /\ program \in Programs
    /\ \E n \in ArgCounts(program) : args \in [1 .. n -> Names]
    /\ dir \in Directories
    /\ before \in Contents /\ data = before
    /\ in = [n \in 1 .. Len(args) - 1 |-> Closed]
    /\ pc = CASE program = "unchecked" -> "open"
              [] program = "testin" -> "create"
              [] OTHER -> "check"
    /\ k = 1
    /\ out = NoInode
    /\ buf = << >> /\ sent = 0

\* FAULT: compares the names.
SameName(a, b) == a = b

\* check_if_same: a name that stat does not know is never the same.
Same(a, b) == dir[a] = dir[b] /\ dir[a] # NoInode

\* FAULT: the counter is not set back.
NextInputOn(here, after) ==
    k' = k + 1 /\ pc' = IF k < Len(in) THEN here ELSE after

\* The loop over the inputs goes on to the next, or the program to what follows.
NextInput(here, after) ==
    IF k < Len(in) THEN k' = k + 1 /\ pc' = here ELSE k' = 1 /\ pc' = after

Check ==
    /\ pc = "check"
    /\ IF Same(args[k], OutName) THEN pc' = "refused" /\ UNCHANGED k
                                 ELSE NextInput("check", "open")
    /\ UNCHANGED <<given, dir, data, in, out, buf, sent>>

Die ==
    /\ pc' = "died"
    /\ UNCHANGED <<given, dir, data, k, in, out, buf, sent>>

MallocFails == pc = "check" /\ k = 1 /\ program = "fconc2" /\ Die

\* open_fin.  "testin" opens an input when it gets to it; it must exist, and open
\* may fail although it does.
OpenIn ==
    /\ pc = "open" /\ dir[args[k]] # NoInode
    /\ in' = [in EXCEPT ![k].file = dir[args[k]]]
    /\ IF program = "testin" THEN pc' = "read" /\ UNCHANGED k
                             ELSE NextInput("open", "create")
    /\ UNCHANGED <<given, dir, data, out, buf, sent>>

OpenFails == pc \in {"open", "create"} /\ Die

\* open_fout: O_CREAT makes a file where there is none, O_TRUNC empties one.
OpenOut ==
    /\ pc = "create"
    /\ \E f \in Inodes :
          /\ IF dir[OutName] = NoInode THEN \A n \in Names : dir[n] # f
                                       ELSE f = dir[OutName]
          /\ dir' = [dir EXCEPT ![OutName] = f]
          /\ data' = [data EXCEPT ![f] = << >>]
          /\ out' = f
    /\ pc' = IF program = "testin" THEN "open" ELSE "read"
    /\ UNCHANGED <<given, k, in, buf, sent>>

\* read takes what is there, up to the size of the buffer, or less.
Unread == LET f == in[k] IN Len(data[f.file]) - f.pos

Read ==
    /\ pc = "read" /\ Unread > 0
    /\ \E n \in 1 .. BufSize :
          /\ n <= Unread
          /\ buf' = SubSeq(data[in[k].file], in[k].pos + 1, in[k].pos + n)
          /\ in' = [in EXCEPT ![k].pos = @ + n]
    /\ sent' = 0
    /\ pc' = "write"
    /\ UNCHANGED <<given, dir, data, k, out>>

\* The end of an input; after the last one the files are closed.
EndOfInput ==
    /\ pc = "read" /\ Unread = 0
    /\ IF k = Len(in) THEN pc' = "done" /\ UNCHANGED k
       ELSE k' = k + 1 /\ pc' = IF program = "testin" THEN "open" ELSE "read"
    /\ UNCHANGED <<given, dir, data, in, out, buf, sent>>

ReadFails == pc = "read" /\ Die

\* FAULT: writes from the start of the buffer each time.
FromStart(n) == SubSeq(buf, 1, n)

\* The part of the buffer that a write which takes n bytes takes.
Taken(n) == SubSeq(buf, sent + 1, sent + n)

\* do_write: write takes a part of what is left, at least a byte.
WriteSome ==
    /\ pc = "write" /\ sent < Len(buf)
    /\ \E n \in 1 .. Len(buf) - sent :
          /\ Len(data[out]) + n <= Capacity
          /\ data' = [data EXCEPT ![out] = @ \o Taken(n)]
          /\ sent' = sent + n
    /\ UNCHANGED <<given, dir, pc, k, in, out, buf>>

\* FAULT: waits for one more byte than there is.
OneMoreSent == sent > Len(buf)

\* do_write goes on until there is nothing left for write to take.
AllSent == sent = Len(buf)

WriteEnds ==
    /\ pc = "write" /\ AllSent
    /\ pc' = "read"
    /\ UNCHANGED <<given, dir, data, k, in, out, buf, sent>>

\* Among others, when the disk is full.
WriteFails == pc = "write" /\ sent < Len(buf) /\ Die

----------------------------------------------------------------------------
Open == OpenIn \/ OpenFails \/ OpenOut

Copy == Read \/ EndOfInput \/ ReadFails \/ WriteSome \/ WriteEnds \/ WriteFails

Next == Check \/ MallocFails \/ Open \/ Copy

Spec == Init /\ [][Next]_vars
FairSpec == Spec /\ WF_vars(Next)

----------------------------------------------------------------------------
(* Properties. *)

\* The first n inputs one after the other, as they were at first.
Original(name) == IF dir[name] = NoInode THEN << >> ELSE before[dir[name]]
Concatenated[n \in 0 .. Len(in)] ==
    IF n = 0 THEN << >> ELSE Concatenated[n - 1] \o Original(args[n])

InputIsOutput == \E n \in Inputs : dir[args[n]] # NoInode /\ dir[args[n]] = dir[OutName]

\* "Better write: error checking, makes sure it finishes": at every moment the
\* output is the beginning of what it should be, each byte once and in order,
\* however little each call takes; and all of it when the program returns 0.  The
\* versions that do not check promise it of an output that is no input.
CopiesInOrder ==
    out # NoInode /\ (Checked \/ ~InputIsOutput) =>
        /\ IsPrefix(data[out], Concatenated[k])
        /\ pc = "done" =>
              /\ \A n \in Inputs : dir[args[n]] # NoInode
              /\ data[out] = Concatenated[Len(in)]

\* "Do not allow input == output", "open last, only if inputs are ok": the programs
\* that check change no input, under whatever name, and when there is an input that
\* is missing or is the output, nothing at all.
KeepsFiles ==
    Checked =>
        /\ \A n \in Inputs : dir[args[n]] # NoInode =>
              data[dir[args[n]]] = before[dir[args[n]]]
        /\ InputIsOutput \/ (\E n \in Inputs : dir[args[n]] = NoInode) =>
              data = before

\* An output that is one of its own inputs may grow while it is read; the program
\* ends all the same, at the latest when the disk is full.
AlwaysEnds == <>(pc \in Ended)
=============================================================================
