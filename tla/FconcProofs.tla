---------------------------- MODULE FconcProofs ----------------------------
(***************************************************************************)
(* Proofs about Fconc, for any files and any number of names and inputs.   *)
(***************************************************************************)
EXTENDS Fconc, SequenceTheorems, TLAPS

Shared == INSTANCE SharedLemmas

----------------------------------------------------------------------------
(* Types. *)

Input == [file : Inodes \cup {NoInode}, pos : Nat]

\* What is open where: the input that is read, and, unless the program opens each
\* input when it gets to it, all of them once the loop of open_fin is over.
Opened ==
    /\ pc \in {"read", "write"} => in[k].file # NoInode
    /\ pc \in {"create", "read", "write"} /\ program # "testin" =>
          \A n \in Inputs : in[n].file # NoInode
    /\ pc = "open" /\ program # "testin" => \A n \in 1 .. k - 1 : in[n].file # NoInode
    /\ pc \in {"read", "write"} \/ (pc = "open" /\ program = "testin") => out # NoInode
    /\ pc = "check" => program # "testin"

TInv ==
    /\ TypeOK /\ Opened
    /\ args \in Seq(Names) /\ Len(args) = Len(in) + 1

LEMMA InputsAreNumbers == TypeOK => Inputs = 1 .. Len(in) /\ k \in 1 .. Len(in) /\ Len(in) \in Nat
  BY LenProperties DEF TypeOK, Inputs

LEMMA NamesGiven ==
    ASSUME TInv
    PROVE  /\ OutName \in Names
           /\ \A n \in Inputs : args[n] \in Names
           /\ OutName = args[Len(in) + 1]
  <1>1. \A n \in 1 .. Len(args) : args[n] \in Names
    BY ElementOfSeq DEF TInv
  <1> QED BY <1>1, InputsAreNumbers DEF TInv, OutName, Last

LEMMA TypesAtFirst == Init => TInv
  <1> SUFFICES ASSUME Init PROVE TInv
    OBVIOUS
  <1>1. PICK c \in ArgCounts(program) : args \in [1 .. c -> Names]
    BY DEF Init
  <1>2. c \in Nat /\ c >= 2
    BY <1>1, SizesAssumption DEF ArgCounts
  <1>3. args \in Seq(Names) /\ Len(args) = c
    BY <1>1, <1>2, IsASeq
  <1>4. in \in [1 .. c - 1 -> Input]
    BY <1>3 DEF Init, Closed, Input
  <1>5. in \in Seq(Input) /\ Len(in) = c - 1 /\ Inputs = 1 .. c - 1
    BY <1>2, <1>4, IsASeq DEF Inputs
  <1>6. dir \in [Names -> Inodes \cup {NoInode}] /\ data \in [Inodes -> Seq(Bytes)]
    BY FilesAssumption DEF Init
  <1>7. TypeOK
    BY <1>2, <1>5, <1>6, EmptySeq DEF Init, TypeOK, Input, Ended
  <1>8. Opened
    BY <1>2, <1>5 DEF Init, Opened
  <1> QED BY <1>2, <1>3, <1>5, <1>7, <1>8 DEF TInv

\* The loops over the inputs move to an input.
LEMMA LoopsStayInside ==
    ASSUME TInv, NEW here, NEW after, NextInput(here, after)
    PROVE  /\ k' \in Inputs
           /\ \/ pc' = here /\ k' = k + 1
              \/ pc' = after /\ k' = 1 /\ k = Len(in)
  BY InputsAreNumbers DEF NextInput, TInv

LEMMA TypesOfCheck ==
    ASSUME TInv, Check \/ MallocFails \/ OpenFails \/ ReadFails \/ WriteFails
    PROVE  TInv'
  <1>1. CASE Check
    <2>1. CASE Same(args[k], OutName)
      BY <1>1, <2>1 DEF Check, TInv, TypeOK, Opened, given, Inputs, Ended
    <2>2. CASE NextInput("check", "open")
      <3>1. k' \in Inputs /\ (pc' = "check" \/ (pc' = "open" /\ k' = 1))
        BY <2>2, LoopsStayInside
      <3> QED BY <1>1, <3>1 DEF Check, TInv, TypeOK, Opened, given, Inputs
    <2> QED BY <1>1, <2>1, <2>2 DEF Check
  <1>2. CASE Die
    BY <1>2 DEF Die, TInv, TypeOK, Opened, given, Inputs, Ended
  <1> QED BY <1>1, <1>2 DEF MallocFails, OpenFails, ReadFails, WriteFails

\* Only the input k changes, in its file or in its position.
LEMMA OneInputChanges ==
    ASSUME TInv, NEW v \in Input, in' = [in EXCEPT ![k] = v]
    PROVE  /\ in' \in Seq(Input) /\ Len(in') = Len(in) /\ Inputs' = Inputs
           /\ in'[k] = v /\ \A n \in Inputs \ {k} : in'[n] = in[n]
  <1>1. in \in Seq(Input) /\ k \in 1 .. Len(in) /\ Inputs = 1 .. Len(in)
    BY InputsAreNumbers DEF TInv, TypeOK, Input
  <1>2. in' \in Seq(Input) /\ Len(in') = Len(in)
    BY <1>1, ExceptSeq
  <1>3. \A n \in 1 .. Len(in) : in'[n] = IF n = k THEN v ELSE in[n]
    BY <1>1, ExceptSeq
  <1>4. Inputs' = 1 .. Len(in')
    BY <1>2, LenProperties DEF Inputs
  <1> QED BY <1>1, <1>2, <1>3, <1>4

LEMMA KthIsInput == TInv => in[k] \in Input
  BY InputsAreNumbers, ElementOfSeq DEF TInv, TypeOK, Input

LEMMA TypesOfOpenIn == ASSUME TInv, OpenIn PROVE TInv'
  <1> DEFINE v == [in[k] EXCEPT !.file = dir[args[k]]]
  <1>1. dir[args[k]] \in Inodes
    BY NamesGiven DEF TInv, TypeOK, OpenIn
  <1>2. v \in Input /\ v.file # NoInode
    BY <1>1, KthIsInput, FilesAssumption DEF Input
  <1>3. in' = [in EXCEPT ![k] = v]
    BY DEF OpenIn
  <1> HIDE DEF v
  <1>4. /\ in' \in Seq(Input) /\ Len(in') = Len(in) /\ Inputs' = Inputs
        /\ in'[k] = v /\ \A n \in Inputs \ {k} : in'[n] = in[n]
    BY <1>2, <1>3, OneInputChanges
  <1>5. k \in Inputs /\ Inputs = 1 .. Len(in) /\ Len(in) \in Nat
    BY InputsAreNumbers DEF TInv
  <1>6. CASE program = "testin"
    BY <1>2, <1>4, <1>5, <1>6 DEF OpenIn, TInv, TypeOK, Opened, given, Input
  <1>7. CASE program # "testin"
    <2>1. /\ k' \in Inputs
          /\ \/ pc' = "open" /\ k' = k + 1
             \/ pc' = "create" /\ k' = 1 /\ k = Len(in)
      BY <1>7, LoopsStayInside DEF OpenIn
    <2>2. TypeOK'
      BY <1>4, <2>1 DEF OpenIn, TInv, TypeOK, given, Input
    <2>3. \A n \in 1 .. k : in'[n].file # NoInode
      BY <1>2, <1>4, <1>5, <1>7 DEF OpenIn, TInv, Opened
    <2>4. Opened'
      BY <1>4, <1>5, <1>7, <2>1, <2>3 DEF OpenIn, Opened, given
    <2> QED BY <1>4, <2>2, <2>4 DEF OpenIn, TInv, given
  <1> QED BY <1>6, <1>7

LEMMA TypesOfOpenOut == ASSUME TInv, OpenOut PROVE TInv'
  <1>1. PICK f \in Inodes : /\ dir' = [dir EXCEPT ![OutName] = f]
                            /\ data' = [data EXCEPT ![f] = << >>]
                            /\ out' = f
    BY DEF OpenOut
  <1>2. << >> \in Seq(Bytes)
    BY EmptySeq
  <1>3. TypeOK'
    BY <1>1, <1>2, NamesGiven DEF OpenOut, TInv, TypeOK, given, Inputs
  <1>4. Opened'
    BY <1>1, InputsAreNumbers, FilesAssumption DEF OpenOut, TInv, Opened, given, Inputs
  <1> QED BY <1>3, <1>4 DEF OpenOut, TInv, given

LEMMA TypesOfRead == ASSUME TInv, Read PROVE TInv'
  <1> DEFINE f == in[k]
  <1>1. f \in Input /\ f.file \in Inodes
    BY KthIsInput DEF Read, TInv, Opened, Input
  <1>2. data[f.file] \in Seq(Bytes)
    BY <1>1 DEF TInv, TypeOK
  <1>3. PICK n \in 1 .. BufSize :
          /\ n <= Len(data[f.file]) - f.pos
          /\ buf' = SubSeq(data[f.file], f.pos + 1, f.pos + n)
          /\ in' = [in EXCEPT ![k].pos = @ + n]
    BY DEF Read, Unread
  <1>4. n \in Nat /\ f.pos \in Nat /\ Len(data[f.file]) \in Nat
    BY <1>1, <1>2, SizesAssumption, LenProperties DEF Input
  <1>5. \A m \in f.pos + 1 .. f.pos + n : data[f.file][m] \in Bytes
    BY <1>2, <1>3, <1>4, ElementOfSeq
  <1>6. buf' \in Seq(Bytes)
    BY <1>3, <1>4, <1>5, SubSeqProperties
  <1> DEFINE v == [f EXCEPT !.pos = @ + n]
  <1>7. v \in Input /\ v.file = f.file
    BY <1>1, <1>4 DEF Input
  <1>8. in' = [in EXCEPT ![k] = v]
    BY <1>3
  <1> HIDE DEF v
  <1>9. /\ in' \in Seq(Input) /\ Len(in') = Len(in) /\ Inputs' = Inputs
        /\ in'[k] = v /\ \A m \in Inputs \ {k} : in'[m] = in[m]
    BY <1>7, <1>8, OneInputChanges
  <1>10. sent' \in 0 .. Len(buf')
    BY <1>6, LenProperties DEF Read
  <1>11. TypeOK'
    BY <1>6, <1>9, <1>10 DEF Read, TInv, TypeOK, given, Input
  <1>12. Opened'
    BY <1>7, <1>9 DEF Read, TInv, Opened, given
  <1> QED BY <1>9, <1>11, <1>12 DEF Read, TInv, given

LEMMA TypesOfWrite == ASSUME TInv, WriteSome PROVE TInv'
  <1>1. PICK n \in 1 .. Len(buf) - sent :
          data' = [data EXCEPT ![out] = @ \o Taken(n)] /\ sent' = sent + n
    BY DEF WriteSome
  <1>2. Len(buf) \in Nat /\ sent \in 0 .. Len(buf) /\ n \in Nat /\ buf \in Seq(Bytes)
    BY LenProperties DEF TInv, TypeOK
  <1>3. \A m \in sent + 1 .. sent + n : buf[m] \in Bytes
    BY <1>1, <1>2, ElementOfSeq
  <1>4. Taken(n) \in Seq(Bytes)
    BY <1>2, <1>3, SubSeqProperties DEF Taken
  <1>5. data[out] \o Taken(n) \in Seq(Bytes)
    BY <1>4, ConcatProperties DEF WriteSome, TInv, TypeOK, Opened
  <1>6. data' \in [Inodes -> Seq(Bytes)]
    BY <1>1, <1>5 DEF TInv, TypeOK
  <1>7. sent' \in 0 .. Len(buf)
    BY <1>1, <1>2
  <1> QED BY <1>6, <1>7 DEF WriteSome, TInv, TypeOK, Opened, given, Inputs

LEMMA TypesOfLoops == ASSUME TInv, EndOfInput \/ WriteEnds PROVE TInv'
  <1>1. CASE EndOfInput
    <2>1. Inputs = 1 .. Len(in) /\ k \in 1 .. Len(in) /\ Len(in) \in Nat
      BY InputsAreNumbers DEF TInv
    <2>2. k' \in Inputs /\ pc' \in {"done", "open", "read"} /\ (pc' = "open" => program = "testin")
          /\ (pc' = "read" => program # "testin")
      BY <1>1, <2>1 DEF EndOfInput
    <2> QED BY <1>1, <2>2 DEF EndOfInput, TInv, TypeOK, Opened, given, Inputs, Ended
  <1>2. CASE WriteEnds
    BY <1>2 DEF WriteEnds, TInv, TypeOK, Opened, given, Inputs
  <1> QED BY <1>1, <1>2

LEMMA TypesKept == TInv /\ [Next]_vars => TInv'
  <1> SUFFICES ASSUME TInv, [Next]_vars PROVE TInv'
    OBVIOUS
  <1>1. CASE UNCHANGED vars
    BY <1>1 DEF vars, given, TInv, TypeOK, Opened, Inputs
  <1> QED BY <1>1, TypesOfCheck, TypesOfOpenIn, TypesOfOpenOut, TypesOfRead, TypesOfWrite,
             TypesOfLoops DEF Next, Open, Copy

\* The programs read from inputs that are open only and within them, and write a part
\* of the buffer that there is.
THEOREM TypeCorrect == Spec => []TypeOK
  <1>1. TInv => TypeOK
    BY DEF TInv
  <1> QED BY <1>1, TypesAtFirst, TypesKept, PTL DEF Spec

----------------------------------------------------------------------------
(* The files. *)

\* Nothing has been written yet, and the inputs the loops have passed are neither the
\* output nor missing.
Untouched ==
    /\ data = before /\ out = NoInode /\ pc \notin {"read", "write", "done"}
    /\ pc = "check" => \A n \in 1 .. k - 1 : ~Same(args[n], OutName)
    /\ pc \in {"open", "create"} => \A n \in Inputs : ~Same(args[n], OutName)
    /\ pc = "open" => \A n \in 1 .. k - 1 : dir[args[n]] # NoInode
    /\ pc = "create" => \A n \in Inputs : dir[args[n]] # NoInode

\* The output is open; it is none of the inputs, and all that is written goes there.
Copying ==
    /\ pc \in {"read", "write", "done", "died"}
    /\ dir[OutName] = out /\ out # NoInode
    /\ \A n \in Inputs : dir[args[n]] # NoInode /\ dir[args[n]] # out
    /\ \A f \in Inodes \ {out} : data[f] = before[f]

FInv == TInv /\ (Checked => Untouched \/ Copying)

LEMMA FilesAtFirst == Init => FInv
  <1> SUFFICES ASSUME Init, Checked PROVE Untouched
    BY TypesAtFirst DEF FInv
  <1> QED BY DEF Init, Untouched, Checked

LEMMA CheckKeeps == ASSUME FInv, Checked, Check PROVE Untouched'
  <1> USE DEF Check, FInv, given
  <1>1. Untouched /\ Inputs' = Inputs /\ OutName' = OutName
    BY DEF Copying, Inputs, OutName
  <1>2. Inputs = 1 .. Len(in) /\ k \in 1 .. Len(in) /\ Len(in) \in Nat
    BY InputsAreNumbers DEF TInv
  <1>3. CASE Same(args[k], OutName)
    BY <1>1, <1>3 DEF Untouched
  <1>4. CASE ~Same(args[k], OutName)
    <2>1. \/ pc' = "check" /\ k' = k + 1
          \/ pc' = "open" /\ k' = 1 /\ k = Len(in)
      BY <1>4, LoopsStayInside
    <2>2. \A n \in 1 .. k : ~Same(args[n], OutName)
      BY <1>1, <1>2, <1>4 DEF Untouched
    <2> QED BY <1>1, <1>2, <2>1, <2>2 DEF Untouched, Same
  <1> QED BY <1>3, <1>4

LEMMA OpenInKeeps == ASSUME FInv, Checked, OpenIn PROVE Untouched'
  <1> USE DEF OpenIn, FInv, given
  <1>1. Untouched /\ Len(in') = Len(in) /\ Inputs' = Inputs /\ OutName' = OutName
    <2>1. in \in Seq(Input) /\ DOMAIN in' = DOMAIN in
      BY DEF TInv, TypeOK, Input
    <2>2. in' \in Seq(Input)
      BY TypesOfOpenIn DEF TInv, TypeOK, Input
    <2> QED BY <2>1, <2>2, LenProperties DEF Copying, Inputs, OutName
  <1>2. Inputs = 1 .. Len(in) /\ k \in 1 .. Len(in) /\ Len(in) \in Nat
    BY InputsAreNumbers DEF TInv
  <1>3. \/ pc' = "open" /\ k' = k + 1
        \/ pc' = "create" /\ k' = 1 /\ k = Len(in)
    BY LoopsStayInside DEF Checked
  <1>4. \A n \in 1 .. k : dir[args[n]] # NoInode
    BY <1>1, <1>2 DEF Untouched
  <1> QED BY <1>1, <1>2, <1>3, <1>4 DEF Untouched, Same

LEMMA OpenOutKeeps == ASSUME FInv, Checked, OpenOut PROVE Copying'
  <1> USE DEF OpenOut, FInv, given
  <1>1. /\ data = before /\ Inputs' = Inputs /\ OutName' = OutName
        /\ \A n \in Inputs : dir[args[n]] # NoInode /\ dir[args[n]] # dir[OutName]
    BY DEF Untouched, Copying, Same, Inputs, OutName
  <1>2. PICK f \in Inodes :
          /\ IF dir[OutName] = NoInode THEN \A n \in Names : dir[n] # f
                                       ELSE f = dir[OutName]
          /\ dir' = [dir EXCEPT ![OutName] = f]
          /\ data' = [data EXCEPT ![f] = << >>]
          /\ out' = f
    OBVIOUS
  <1>3. OutName \in Names /\ \A n \in Inputs : args[n] \in Names
    BY NamesGiven
  <1>4. dir'[OutName] = f /\ f # NoInode
    BY <1>2, <1>3, FilesAssumption DEF TInv, TypeOK
  <1>5. \A n \in Inputs : dir'[args[n]] = dir[args[n]] /\ dir[args[n]] # f
    BY <1>1, <1>2, <1>3 DEF TInv, TypeOK
  <1>6. \A g \in Inodes \ {f} : data'[g] = before[g]
    BY <1>1, <1>2 DEF TInv, TypeOK
  <1>7. pc' = "read"
    BY DEF Checked
  <1> QED BY <1>1, <1>2, <1>4, <1>5, <1>6, <1>7 DEF Copying

LEMMA WriteKeeps == ASSUME FInv, Checked, WriteSome PROVE Copying'
  <1> USE DEF WriteSome, FInv, given
  <1>1. Copying /\ Inputs' = Inputs /\ OutName' = OutName
    BY DEF Untouched, Inputs, OutName
  <1>2. \A f \in Inodes \ {out} : data'[f] = data[f]
    BY DEF TInv, TypeOK
  <1> QED BY <1>1, <1>2 DEF Copying

LEMMA ReadKeeps == ASSUME FInv, Checked, Read \/ EndOfInput \/ WriteEnds PROVE Copying'
  <1>1. Copying
    BY DEF FInv, Untouched, Read, EndOfInput, WriteEnds
  <1>2. DOMAIN in' = DOMAIN in /\ pc' \in {"read", "write", "done"}
    BY DEF Read, EndOfInput, WriteEnds, Checked
  <1> QED BY <1>1, <1>2 DEF Copying, Read, EndOfInput, WriteEnds, given, Inputs, OutName

LEMMA DyingKeeps == ASSUME FInv, Checked, Die PROVE (Untouched \/ Copying)'
  <1>1. CASE Untouched
    BY <1>1 DEF Die, Untouched, given
  <1>2. CASE Copying
    BY <1>2 DEF Die, Copying, given, Inputs, OutName
  <1> QED BY <1>1, <1>2 DEF FInv

LEMMA FilesKept == FInv /\ [Next]_vars => FInv'
  <1> SUFFICES ASSUME FInv, [Next]_vars, Checked' PROVE (Untouched \/ Copying)'
    BY TypesKept DEF FInv
  <1>1. Checked
    BY DEF Checked, Next, Open, Copy, Check, MallocFails, OpenIn, OpenFails, OpenOut, Read,
           EndOfInput, ReadFails, WriteSome, WriteEnds, WriteFails, Die, given, vars
  <1>2. CASE UNCHANGED vars
    <2>1. Untouched => Untouched'
      BY <1>2 DEF vars, given, Untouched, Same, Inputs, OutName
    <2>2. Copying => Copying'
      BY <1>2 DEF vars, given, Copying, Inputs, OutName
    <2> QED BY <1>1, <2>1, <2>2 DEF FInv
  <1>3. CASE Die
    BY <1>1, <1>3, DyingKeeps
  <1> QED BY <1>1, <1>2, <1>3, CheckKeeps, OpenInKeeps, OpenOutKeeps, WriteKeeps, ReadKeeps
       DEF Next, Open, Copy, MallocFails, OpenFails, ReadFails, WriteFails

LEMMA FilesAreKept == FInv => KeepsFiles
  <1> SUFFICES ASSUME FInv, Checked PROVE KeepsFiles
    BY DEF KeepsFiles
  <1>1. CASE Untouched
    BY <1>1 DEF Untouched, KeepsFiles
  <1>2. CASE Copying
    <2>1. \A n \in Inputs : dir[args[n]] \in Inodes \ {out}
      BY <1>2, NamesGiven DEF FInv, TInv, TypeOK, Copying
    <2> QED BY <1>2, <2>1 DEF Copying, KeepsFiles, InputIsOutput
  <1> QED BY <1>1, <1>2 DEF FInv

\* Whatever the names stand for, and whenever the program dies: fconc and fconc2 change
\* none of their inputs, and change nothing at all when one of them is missing or is
\* the output under another name.
THEOREM InputsSurvive == Spec => []KeepsFiles
  BY FilesAtFirst, FilesKept, FilesAreKept, PTL DEF Spec

----------------------------------------------------------------------------
(* The output. *)

\* The sequence that CopiesInOrder compares the output with is defined step by step.
LEMMA ConcatenatedIs ==
    ASSUME TInv, before \in [Inodes -> Seq(Bytes)]
    PROVE  /\ \A n \in Inputs : Original(args[n]) \in Seq(Bytes)
           /\ \A n \in 0 .. Len(in) : Concatenated[n] \in Seq(Bytes)
           /\ Concatenated[0] = << >>
           /\ \A n \in Inputs : Concatenated[n] = Concatenated[n - 1] \o Original(args[n])
  <1> DEFINE Body(f) == [n \in 0 .. Len(in) |->
                            IF n = 0 THEN << >> ELSE f[n - 1] \o Original(args[n])]
             step == [n \in 1 .. Len(in) |-> [s \in Seq(Bytes) |-> s \o Original(args[n])]]
  <1>1. Inputs = 1 .. Len(in) /\ Len(in) \in Nat
    BY InputsAreNumbers DEF TInv
  <1>2. \A n \in Inputs : Original(args[n]) \in Seq(Bytes)
    BY NamesGiven, EmptySeq DEF TInv, TypeOK, Original
  <1>3. step \in [1 .. Len(in) -> [Seq(Bytes) -> Seq(Bytes)]]
    BY <1>1, <1>2, ConcatProperties
  <1>4. PICK g \in [0 .. Len(in) -> Seq(Bytes)] :
          g[0] = << >> /\ \A n \in 1 .. Len(in) : g[n] = step[n][g[n - 1]]
    <2>1. << >> \in Seq(Bytes)
      BY EmptySeq
    <2>2. step \in Shared!Steps(Seq(Bytes), Len(in))
      BY <1>3 DEF Shared!Steps
    <2> HIDE DEF step
    <2>3. \E g \in [0 .. Len(in) -> Seq(Bytes)] : Shared!StepByStep(g, Len(in), << >>, step)
      BY <1>1, <2>1, <2>2, Shared!Recursion
    <2> QED BY <2>3 DEF Shared!StepByStep
  <1>5. g = Body(g)
    <2>1. ASSUME NEW n \in 0 .. Len(in) PROVE g[n] = Body(g)[n]
      <3>1. CASE n = 0
        BY <1>4, <3>1
      <3>2. CASE n # 0
        <4>1. n \in 1 .. Len(in) /\ n - 1 \in 0 .. Len(in)
          BY <1>1, <3>2
        <4> QED BY <1>4, <4>1
      <3> QED BY <3>1, <3>2
    <2> QED BY <2>1
  <1>6. Concatenated = CHOOSE f : f = Body(f)
    BY DEF Concatenated
  <1>7. Concatenated = Body(Concatenated)
    <2> HIDE DEF Body
    <2> QED BY <1>5, <1>6
  <1>8. \A n \in 0 .. Len(in) : Concatenated[n] = Body(Concatenated)[n]
    <2> HIDE DEF Body
    <2> QED BY <1>7
  <1>9. Concatenated[0] = << >>
    BY <1>1, <1>8
  <1>10. \A n \in Inputs : Concatenated[n] = Concatenated[n - 1] \o Original(args[n])
    <2> TAKE n \in Inputs
    <2>1. n \in 0 .. Len(in) /\ n # 0
      BY <1>1
    <2> QED BY <1>8, <2>1
  <1>11. \A n \in 0 .. Len(in) : Concatenated[n] \in Seq(Bytes)
    <2> DEFINE T == {n \in Nat : n <= Len(in) => Concatenated[n] \in Seq(Bytes)}
    <2>1. 0 \in T
      BY <1>9, EmptySeq
    <2>2. ASSUME NEW n \in Nat, n \in T PROVE n + 1 \in T
      <3> SUFFICES ASSUME n + 1 <= Len(in) PROVE Concatenated[n + 1] \in Seq(Bytes)
        OBVIOUS
      <3>1. n + 1 \in Inputs /\ Concatenated[n] \in Seq(Bytes)
        BY <1>1, <2>2
      <3>2. Concatenated[n + 1] = Concatenated[n] \o Original(args[n + 1])
        <4>1. (n + 1) - 1 = n
          OBVIOUS
        <4> QED BY <1>10, <3>1, <4>1
      <3> QED BY <1>2, <3>1, <3>2, ConcatProperties
    <2>3. Nat \subseteq T
      <3> HIDE DEF T
      <3> QED BY <2>1, <2>2, Shared!SetInduction
    <2> QED BY <1>1, <2>3
  <1> QED BY <1>2, <1>9, <1>10, <1>11

LEMMA ConcatenatedStays ==
    ASSUME TInv, dir' = dir, args' = args, before' = before, Inputs' = Inputs,
           Len(in') = Len(in)
    PROVE  /\ Concatenated' = Concatenated
           /\ \A n \in Inputs : Original(args[n])' = Original(args[n])
           /\ InputIsOutput' <=> InputIsOutput
           /\ OutName' = OutName
  BY DEF Concatenated, Original, InputIsOutput, OutName

\* An input that is open is the file of its name, and is read only when it is its turn;
\* those before it have all been there.
InputsInTurn ==
    \A n \in Inputs :
        /\ in[n].file # NoInode => in[n].file = dir[args[n]]
        /\ (out = NoInode \/ n > k \/ (n = k /\ pc = "open")) => in[n].pos = 0
        /\ out # NoInode /\ (n < k \/ pc = "done") => in[n].file # NoInode

\* Nothing is written before the output is open, and it stays what its name stands for.
OutputInTurn ==
    /\ out = NoInode => data = before /\ pc \notin {"read", "write", "done"}
    /\ out # NoInode => /\ dir[OutName] = out
                        /\ pc \notin {"check", "create"}
                        /\ pc = "open" => program = "testin"
    /\ pc = "create" => k = 1
    /\ pc = "done" => k = Len(in)

PlacesInv ==
    /\ TInv
    /\ before \in [Inodes -> Seq(Bytes)]
    /\ InputsInTurn /\ OutputInTurn

LEMMA PlacesAtFirst == Init => PlacesInv
  <1> SUFFICES ASSUME Init PROVE PlacesInv
    OBVIOUS
  <1>1. TInv
    BY TypesAtFirst
  <1>2. before \in [Inodes -> Seq(Bytes)]
    BY FilesAssumption DEF Init
  <1>3. /\ \A n \in Inputs : in[n].file = NoInode /\ in[n].pos = 0
        /\ out = NoInode
    BY DEF Init, Inputs, Closed
  <1>4. InputsInTurn
    BY <1>3 DEF InputsInTurn
  <1>5. OutputInTurn
    BY DEF Init, OutputInTurn
  <1> QED BY <1>1, <1>2, <1>4, <1>5 DEF PlacesInv

\* The steps that leave the inputs and the names alone.
LEMMA PlacesStay ==
    ASSUME PlacesInv, in' = in, UNCHANGED <<given, dir, out>>,
           \/ Check
           \/ Die
           \/ EndOfInput
           \/ WriteSome
           \/ WriteEnds
    PROVE  InputsInTurn' /\ OutputInTurn'
  <1> USE DEF PlacesInv, given
  <1>1. Inputs' = Inputs /\ Len(in') = Len(in) /\ OutName' = OutName
    BY DEF Inputs, OutName
  <1>2. Inputs = 1 .. Len(in) /\ k \in 1 .. Len(in) /\ Len(in) \in Nat
    BY InputsAreNumbers DEF TInv
  <1>3. CASE Check
    <2>1. out = NoInode /\ pc' \in {"refused", "check", "open"}
      BY <1>3 DEF Check, OutputInTurn, NextInput
    <2> QED BY <1>1, <1>3, <2>1 DEF Check, InputsInTurn, OutputInTurn
  <1>4. CASE Die
    BY <1>1, <1>4 DEF Die, InputsInTurn, OutputInTurn
  <1>5. CASE EndOfInput
    <2>1. out # NoInode /\ in[k].file # NoInode
      BY <1>5 DEF EndOfInput, TInv, Opened
    <2>2. \/ pc' = "done" /\ k = Len(in) /\ k' = k
          \/ k' = k + 1 /\ pc' \in {"open", "read"} /\ (pc' = "open" => program = "testin")
      BY <1>5 DEF EndOfInput
    <2>3. \A n \in Inputs : n < k + 1 => in[n].file # NoInode
      BY <1>2, <2>1 DEF InputsInTurn
    <2>4. InputsInTurn'
      BY <1>1, <1>2, <2>1, <2>2, <2>3 DEF InputsInTurn
    <2>5. OutputInTurn'
      BY <1>1, <2>1, <2>2 DEF OutputInTurn
    <2> QED BY <2>4, <2>5
  <1>6. CASE WriteSome \/ WriteEnds
    <2>1. out # NoInode /\ k' = k /\ pc = "write" /\ pc' \in {"read", "write"}
      BY <1>6 DEF WriteSome, WriteEnds, TInv, Opened
    <2> QED BY <1>1, <2>1 DEF InputsInTurn, OutputInTurn
  <1> QED BY <1>3, <1>4, <1>5, <1>6

LEMMA PlacesOfOpenIn ==
    ASSUME PlacesInv, OpenIn
    PROVE  /\ InputsInTurn' /\ OutputInTurn'
           /\ Inputs' = Inputs /\ Len(in') = Len(in) /\ in'[k].pos = in[k].pos
  <1> USE DEF PlacesInv, given
  <1> DEFINE v == [in[k] EXCEPT !.file = dir[args[k]]]
  <1>1. dir[args[k]] \in Inodes
    BY NamesGiven DEF TInv, TypeOK, OpenIn
  <1>2. v \in Input /\ v.file = dir[args[k]] /\ v.pos = in[k].pos
    BY <1>1, KthIsInput DEF Input
  <1>3. in' = [in EXCEPT ![k] = v]
    BY DEF OpenIn
  <1> HIDE DEF v
  <1>4. /\ Len(in') = Len(in) /\ Inputs' = Inputs
        /\ in'[k] = v /\ \A n \in Inputs \ {k} : in'[n] = in[n]
    BY <1>2, <1>3, OneInputChanges
  <1>5. Inputs = 1 .. Len(in) /\ k \in 1 .. Len(in) /\ OutName' = OutName
    BY InputsAreNumbers DEF TInv, OpenIn, OutName
  <1>6. CASE program = "testin"
    <2>1. out # NoInode /\ pc' = "read" /\ k' = k
      BY <1>6 DEF OpenIn, TInv, Opened
    <2>2. InputsInTurn'
      BY <1>2, <1>4, <1>5, <2>1 DEF OpenIn, InputsInTurn
    <2> QED BY <1>4, <1>5, <2>1, <2>2 DEF OpenIn, OutputInTurn
  <1>7. CASE program # "testin"
    <2>1. out = NoInode /\ (pc' = "open" \/ (pc' = "create" /\ k' = 1))
      BY <1>7, LoopsStayInside DEF OpenIn, OutputInTurn
    <2>2. InputsInTurn'
      BY <1>2, <1>4, <1>5, <2>1 DEF OpenIn, InputsInTurn
    <2> QED BY <1>4, <1>5, <2>1, <2>2 DEF OpenIn, OutputInTurn
  <1> QED BY <1>2, <1>4, <1>6, <1>7

LEMMA PlacesOfOpenOut ==
    ASSUME PlacesInv, OpenOut
    PROVE  InputsInTurn' /\ OutputInTurn'
  <1> USE DEF PlacesInv, given, OpenOut
  <1>1. PICK f \in Inodes :
          /\ IF dir[OutName] = NoInode THEN \A n \in Names : dir[n] # f
                                       ELSE f = dir[OutName]
          /\ dir' = [dir EXCEPT ![OutName] = f]
          /\ out' = f
    OBVIOUS
  <1>2. Inputs' = Inputs /\ Len(in') = Len(in) /\ OutName' = OutName
    BY DEF Inputs, OutName
  <1>3. out = NoInode /\ k = 1 /\ f # NoInode /\ pc' \in {"open", "read"}
        /\ (pc' = "open" => program = "testin")
    BY <1>1, FilesAssumption DEF OutputInTurn
  <1>4. OutName \in Names /\ \A n \in Inputs : args[n] \in Names
    BY NamesGiven
  <1>5. Inputs = 1 .. Len(in) /\ Len(in) \in Nat
    BY InputsAreNumbers DEF TInv
  <1>6. ASSUME NEW n \in Inputs, in[n].file # NoInode PROVE in[n].file = dir'[args[n]]
    <2>1. in[n].file = dir[args[n]]
      BY <1>6 DEF InputsInTurn
    <2>2. args[n] = OutName => f = dir[OutName]
      BY <1>1, <1>6, <2>1
    <2> QED BY <1>1, <1>4, <2>1, <2>2 DEF TInv, TypeOK
  <1>7. InputsInTurn'
    BY <1>2, <1>3, <1>5, <1>6 DEF InputsInTurn
  <1>8. dir'[OutName] = f
    BY <1>1, <1>4 DEF TInv, TypeOK
  <1>9. OutputInTurn'
    BY <1>1, <1>2, <1>3, <1>8 DEF OutputInTurn
  <1> QED BY <1>7, <1>9

\* What a read takes: a part of the input k, at its position.
LEMMA ReadTakes ==
    ASSUME PlacesInv, Read
    PROVE  /\ in[k].file \in Inodes /\ in[k].file = dir[args[k]]
           /\ \E n \in Nat \ {0} :
                 /\ in[k].pos + n <= Len(data[in[k].file])
                 /\ buf' = SubSeq(data[in[k].file], in[k].pos + 1, in[k].pos + n)
                 /\ in'[k].file = in[k].file /\ in'[k].pos = in[k].pos + n
           /\ \A n \in Inputs \ {k} : in'[n] = in[n]
           /\ Inputs' = Inputs /\ Len(in') = Len(in)
  <1> USE DEF PlacesInv
  <1> DEFINE f == in[k]
  <1>1. f \in Input /\ f.file \in Inodes /\ k \in Inputs
    BY KthIsInput DEF Read, TInv, TypeOK, Opened, Input
  <1>2. f.file = dir[args[k]]
    BY <1>1, FilesAssumption DEF InputsInTurn
  <1>3. PICK n \in 1 .. BufSize :
          /\ n <= Len(data[f.file]) - f.pos
          /\ buf' = SubSeq(data[f.file], f.pos + 1, f.pos + n)
          /\ in' = [in EXCEPT ![k].pos = @ + n]
    BY DEF Read, Unread
  <1>4. data[f.file] \in Seq(Bytes)
    BY <1>1 DEF TInv, TypeOK
  <1>5. n \in Nat \ {0} /\ f.pos \in Nat /\ Len(data[f.file]) \in Nat
    BY <1>1, <1>4, SizesAssumption, LenProperties DEF Input
  <1> DEFINE v == [f EXCEPT !.pos = @ + n]
  <1>6. v \in Input /\ v.file = f.file /\ v.pos = f.pos + n
    BY <1>1, <1>5 DEF Input
  <1>7. in' = [in EXCEPT ![k] = v]
    BY <1>3
  <1> HIDE DEF v
  <1>8. /\ Len(in') = Len(in) /\ Inputs' = Inputs
        /\ in'[k] = v /\ \A m \in Inputs \ {k} : in'[m] = in[m]
    BY <1>6, <1>7, OneInputChanges
  <1>9. f.pos + n <= Len(data[f.file])
    BY <1>3, <1>5
  <1> QED BY <1>1, <1>2, <1>3, <1>5, <1>6, <1>8, <1>9

LEMMA PlacesOfRead ==
    ASSUME PlacesInv, Read
    PROVE  InputsInTurn' /\ OutputInTurn'
  <1> USE DEF PlacesInv, Read, given
  <1>1. /\ \A n \in Inputs \ {k} : in'[n] = in[n]
        /\ in'[k].file = in[k].file
        /\ Inputs' = Inputs /\ Len(in') = Len(in)
    BY ReadTakes
  <1>2. out # NoInode /\ pc' = "write" /\ OutName' = OutName
    BY DEF TInv, Opened, OutName
  <1>3. Inputs = 1 .. Len(in) /\ k \in 1 .. Len(in)
    BY InputsAreNumbers DEF TInv
  <1>4. InputsInTurn'
    BY <1>1, <1>2, <1>3 DEF InputsInTurn
  <1> QED BY <1>1, <1>2, <1>4 DEF OutputInTurn

LEMMA PlacesKept == PlacesInv /\ [Next]_vars => PlacesInv'
  <1> SUFFICES ASSUME PlacesInv, [Next]_vars PROVE PlacesInv'
    OBVIOUS
  <1>1. TInv'
    BY TypesKept DEF PlacesInv
  <1>2. before' = before
    BY DEF Next, Open, Copy, Check, MallocFails, OpenIn, OpenFails, OpenOut, Read,
           EndOfInput, ReadFails, WriteSome, WriteEnds, WriteFails, Die, given, vars
  <1>3. InputsInTurn' /\ OutputInTurn'
    <2>1. CASE UNCHANGED vars
      BY <2>1 DEF vars, given, PlacesInv, InputsInTurn, OutputInTurn, Inputs, OutName
    <2>2. CASE Check
      BY <2>2, PlacesStay DEF Check, given
    <2>3. CASE Die
      BY <2>3, PlacesStay DEF Die, given
    <2>4. CASE EndOfInput
      BY <2>4, PlacesStay DEF EndOfInput, given
    <2>5. CASE WriteSome
      BY <2>5, PlacesStay DEF WriteSome, given
    <2>6. CASE WriteEnds
      BY <2>6, PlacesStay DEF WriteEnds, given
    <2> QED BY <2>1, <2>2, <2>3, <2>4, <2>5, <2>6, PlacesOfOpenIn, PlacesOfOpenOut, PlacesOfRead
         DEF Next, Open, Copy, MallocFails, OpenFails, ReadFails, WriteFails
  <1> QED BY <1>1, <1>2, <1>3 DEF PlacesInv

----------------------------------------------------------------------------
(* Pieces of sequences. *)

LEMMA OneMorePiece ==
    ASSUME NEW S, NEW c \in Seq(S), NEW s \in Seq(S), NEW m \in Nat, NEW n \in m .. Len(s)
    PROVE  (c \o SubSeq(s, 1, m)) \o SubSeq(s, m + 1, n) = c \o SubSeq(s, 1, n)
  <1> DEFINE t == SubSeq(s, 1, m)
             u == SubSeq(s, m + 1, n)
  <1>1. Len(s) \in Nat
    BY LenProperties
  <1>2. t \o u = SubSeq(s, 1, n)
    BY <1>1, ConcatAdjacentSubSeq
  <1>3. /\ \A i \in 1 .. m : s[i] \in S
        /\ \A i \in m + 1 .. n : s[i] \in S
    BY <1>1, ElementOfSeq
  <1>4. t \in Seq(S) /\ u \in Seq(S)
    BY <1>3, SubSeqProperties
  <1> HIDE DEF t, u
  <1>5. (c \o t) \o u = c \o (t \o u)
    BY <1>4, ConcatAssociative
  <1> QED BY <1>2, <1>5 DEF t, u

LEMMA StartIsPrefix ==
    ASSUME NEW S, NEW c \in Seq(S), NEW s \in Seq(S), NEW m \in 0 .. Len(s)
    PROVE  IsPrefix(c \o SubSeq(s, 1, m), c \o s)
  <1> DEFINE a == c \o SubSeq(s, 1, m)
             b == c \o s
  <1>1. Len(s) \in Nat /\ Len(c) \in Nat /\ m \in Nat
    BY LenProperties
  <1>2. /\ SubSeq(s, 1, m) \in Seq(S) /\ Len(SubSeq(s, 1, m)) = m
        /\ \A i \in 1 .. m : SubSeq(s, 1, m)[i] = s[i]
    BY <1>1, ElementOfSeq, SubSeqProperties
  <1>3. /\ a \in Seq(S) /\ Len(a) = Len(c) + m
        /\ \A i \in 1 .. Len(c) + m : a[i] = IF i <= Len(c) THEN c[i]
                                             ELSE SubSeq(s, 1, m)[i - Len(c)]
    BY <1>2, ConcatProperties
  <1>4. /\ b \in Seq(S) /\ Len(b) = Len(c) + Len(s)
        /\ \A i \in 1 .. Len(c) + Len(s) : b[i] = IF i <= Len(c) THEN c[i] ELSE s[i - Len(c)]
    BY ConcatProperties
  <1> HIDE DEF a, b
  <1>5. ASSUME NEW i \in 1 .. Len(a) PROVE a[i] = b[i]
    <2>1. CASE i <= Len(c)
      BY <1>1, <1>3, <1>4, <2>1
    <2>2. CASE i > Len(c)
      <3>1. i - Len(c) \in 1 .. m
        BY <1>1, <1>3, <2>2
      <3>2. a[i] = SubSeq(s, 1, m)[i - Len(c)] /\ b[i] = s[i - Len(c)]
        BY <1>1, <1>3, <1>4, <2>2
      <3> QED BY <1>2, <3>1, <3>2
    <2> QED BY <1>1, <1>3, <2>1, <2>2
  <1>6. /\ SubSeq(b, 1, Len(a)) \in Seq(S) /\ Len(SubSeq(b, 1, Len(a))) = Len(a)
        /\ \A i \in 1 .. Len(a) : SubSeq(b, 1, Len(a))[i] = b[i]
    BY <1>1, <1>3, <1>4, ElementOfSeq, SubSeqProperties
  <1>7. SubSeq(b, 1, Len(a)) = a
    BY <1>3, <1>5, <1>6, SeqEqual
  <1>8. SubSeq(a, 1, Len(a)) = a
    BY <1>3, SubSeqFull
  <1> QED BY <1>1, <1>3, <1>4, <1>7, <1>8 DEF IsPrefix, a, b

LEMMA PieceOfPiece ==
    ASSUME NEW S, NEW s \in Seq(S), NEW p \in 0 .. Len(s), NEW t \in Seq(S),
           Len(t) <= p, t = SubSeq(s, p - Len(t) + 1, p),
           NEW m \in Nat, NEW n \in Nat \ {0}, m + n <= Len(t)
    PROVE  SubSeq(t, m + 1, m + n) = SubSeq(s, p - Len(t) + m + 1, p - Len(t) + m + n)
  <1>1. Len(s) \in Nat /\ Len(t) \in Nat /\ Len(t) > 0
    BY LenProperties
  <1> DEFINE i == p - Len(t) + 1
  <1>2. i \in 1 .. Len(s) /\ p \in 1 .. Len(s) /\ m + 1 \in 1 .. p - i + 1 /\ m + n \in 1 .. p - i + 1
    BY <1>1
  <1>3. SubSeq(SubSeq(s, i, p), m + 1, m + n) = SubSeq(s, i + (m + 1) - 1, i + (m + n) - 1)
    <2> HIDE DEF i
    <2> QED BY <1>2, SubSeqOfSubSeq
  <1>4. i + (m + 1) - 1 = p - Len(t) + m + 1 /\ i + (m + n) - 1 = p - Len(t) + m + n
    BY <1>1
  <1> QED BY <1>3, <1>4

----------------------------------------------------------------------------
(* The copy. *)

\* The inputs before k and so much of the input k.
Copied(m) == Concatenated[k - 1] \o SubSeq(Original(args[k]), 1, m)

\* How much of the input k may be in the output.
Written ==
    CASE pc = "open" -> {0}
      [] pc = "read" -> {in[k].pos}
      [] pc = "write" -> {in[k].pos - (Len(buf) - sent)}
      [] pc = "done" -> {Len(Original(args[k]))}
      [] OTHER -> 0 .. Len(Original(args[k]))

\* What is in the output is what has been copied; the rest of what has been read is in
\* the buffer, and the other files are as they were.
Faithful ==
    /\ \A f \in Inodes \ {out} : data[f] = before[f]
    /\ \E m \in Written : m \in 0 .. Len(Original(args[k])) /\ data[out] = Copied(m)
    /\ pc \in {"read", "write"} => in[k].pos <= Len(Original(args[k]))
    /\ pc = "write" =>
          /\ Len(buf) <= in[k].pos
          /\ buf = SubSeq(Original(args[k]), in[k].pos - Len(buf) + 1, in[k].pos)

CopyInv == PlacesInv /\ (out # NoInode /\ ~InputIsOutput => Faithful)

LEMMA CopyFacts ==
    ASSUME PlacesInv
    PROVE  /\ Inputs = 1 .. Len(in) /\ k \in 1 .. Len(in) /\ Len(in) \in Nat
           /\ Original(args[k]) \in Seq(Bytes) /\ Len(Original(args[k])) \in Nat
           /\ in[k].pos \in Nat /\ Len(buf) \in Nat /\ sent \in 0 .. Len(buf)
           /\ Concatenated[k - 1] \in Seq(Bytes) /\ Concatenated[k] \in Seq(Bytes)
           /\ Concatenated[k] = Concatenated[k - 1] \o Original(args[k])
           /\ Copied(0) = Concatenated[k - 1]
           /\ Copied(Len(Original(args[k]))) = Concatenated[k]
  <1>1. Inputs = 1 .. Len(in) /\ k \in 1 .. Len(in) /\ Len(in) \in Nat
    BY InputsAreNumbers DEF PlacesInv, TInv
  <1>2. /\ Original(args[k]) \in Seq(Bytes)
        /\ Concatenated[k - 1] \in Seq(Bytes) /\ Concatenated[k] \in Seq(Bytes)
        /\ Concatenated[k] = Concatenated[k - 1] \o Original(args[k])
    <2>1. k \in Inputs /\ k \in 0 .. Len(in) /\ k - 1 \in 0 .. Len(in)
      BY <1>1
    <2> QED BY <2>1, ConcatenatedIs DEF PlacesInv
  <1>3. Len(Original(args[k])) \in Nat /\ Len(buf) \in Nat /\ sent \in 0 .. Len(buf)
    BY <1>2, LenProperties DEF PlacesInv, TInv, TypeOK
  <1>4. in[k].pos \in Nat
    BY KthIsInput DEF PlacesInv, Input
  <1>5. SubSeq(Original(args[k]), 1, 0) = << >>
    BY SubSeqEmpty
  <1>6. Copied(0) = Concatenated[k - 1]
    BY <1>2, <1>5, ConcatEmptySeq DEF Copied
  <1>7. Copied(Len(Original(args[k]))) = Concatenated[k]
    BY <1>2, SubSeqFull DEF Copied
  <1> QED BY <1>1, <1>2, <1>3, <1>4, <1>6, <1>7

LEMMA CopyStart == PlacesInv => /\ Original(args[k]) \in Seq(Bytes)
                                /\ k = 1 => Copied(0) = << >>
  <1> SUFFICES ASSUME PlacesInv PROVE /\ Original(args[k]) \in Seq(Bytes)
                                      /\ k = 1 => Copied(0) = << >>
    OBVIOUS
  <1>1. Concatenated[0] = << >>
    BY ConcatenatedIs DEF PlacesInv
  <1>2. k = 1 => Concatenated[k - 1] = << >>
    BY <1>1
  <1> QED BY <1>2, CopyFacts

\* The steps that stay at the input they are at.
LEMMA CopyStays ==
    ASSUME PlacesInv, UNCHANGED <<given, dir, k, out>>, Inputs' = Inputs, Len(in') = Len(in)
    PROVE  /\ InputIsOutput' <=> InputIsOutput
           /\ Original(args[k])' = Original(args[k])
           /\ \A m : Copied(m)' = Copied(m)
  <1>1. /\ Concatenated' = Concatenated
        /\ InputIsOutput' <=> InputIsOutput
    BY ConcatenatedStays DEF PlacesInv, given
  <1>2. Original(args[k])' = Original(args[k])
    BY DEF Original, given
  <1> QED BY <1>1, <1>2 DEF Copied

\* The file that is read is the input as it was at first.
LEMMA ReadsOriginal ==
    ASSUME CopyInv, out # NoInode, ~InputIsOutput, pc \in {"read", "write"}
    PROVE  Faithful /\ in[k].file \in Inodes \ {out} /\ data[in[k].file] = Original(args[k])
  <1>1. in[k].file = dir[args[k]] /\ in[k].file # NoInode /\ dir[OutName] = out /\ k \in Inputs
    BY CopyFacts DEF CopyInv, PlacesInv, InputsInTurn, OutputInTurn, TInv, Opened
  <1>2. in[k].file \in Inodes \ {out}
    BY <1>1, KthIsInput DEF CopyInv, PlacesInv, Input, InputIsOutput
  <1> QED BY <1>1, <1>2 DEF CopyInv, Faithful, Original

LEMMA CopyOfRead ==
    ASSUME CopyInv, Read, out # NoInode, ~InputIsOutput
    PROVE  Faithful'
  <1>1. PICK o \in Seq(Bytes), p \in Nat : o = Original(args[k]) /\ p = in[k].pos
    BY CopyFacts DEF CopyInv
  <1>2. Faithful /\ data[in[k].file] = o
    BY <1>1, ReadsOriginal DEF Read
  <1>3. PICK n \in Nat \ {0} :
          /\ p + n <= Len(o)
          /\ buf' = SubSeq(o, p + 1, p + n)
          /\ in'[k].pos = p + n
    BY <1>1, <1>2, ReadTakes DEF CopyInv
  <1>4. Inputs' = Inputs /\ Len(in') = Len(in)
    BY ReadTakes DEF CopyInv
  <1>5. Original(args[k])' = o /\ \A m : Copied(m)' = Copied(m)
    BY <1>1, <1>4, CopyStays DEF Read, CopyInv
  <1>6. Len(buf') = n
    <2>1. Len(o) \in Nat /\ p + 1 \in Int /\ p + n \in Int
      BY LenProperties
    <2>2. \A i \in p + 1 .. p + n : o[i] \in Bytes
      BY <1>3, <2>1, ElementOfSeq
    <2>3. Len(SubSeq(o, p + 1, p + n)) = IF p + 1 <= p + n THEN p + n - (p + 1) + 1 ELSE 0
      BY <2>1, <2>2, SubSeqProperties
    <2> QED BY <1>3, <2>3
  <1>7. p \in 0 .. Len(o) /\ data[out] = Copied(p)
    BY <1>1, <1>2 DEF Faithful, Written, Read
  <1>8. k' = k /\ pc' = "write" /\ sent' = 0 /\ data' = data /\ out' = out /\ before' = before
    BY DEF Read, given
  <1>9. in'[k'].pos = p + n /\ (p + n) - (n - 0) = p /\ (p + n) - n + 1 = p + 1 /\ n <= p + n
    BY <1>3, <1>8
  <1>10. Written' = {p}
    BY <1>6, <1>8, <1>9 DEF Written
  <1>11. \E j \in Written' : j \in 0 .. Len(Original(args[k])') /\ data'[out'] = Copied(j)'
    BY <1>5, <1>7, <1>8, <1>10
  <1>12. \A f \in Inodes \ {out'} : data'[f] = before'[f]
    BY <1>2, <1>8 DEF Faithful
  <1>13. /\ in'[k'].pos <= Len(Original(args[k])') /\ Len(buf') <= in'[k'].pos
         /\ buf' = SubSeq(Original(args[k])', in'[k'].pos - Len(buf') + 1, in'[k'].pos)
    BY <1>3, <1>5, <1>6, <1>9
  <1> QED BY <1>8, <1>11, <1>12, <1>13 DEF Faithful

LEMMA CopyOfWrite ==
    ASSUME CopyInv, WriteSome, out # NoInode, ~InputIsOutput
    PROVE  Faithful'
  <1>1. PICK o \in Seq(Bytes), p \in Nat, c \in Seq(Bytes), l \in Nat, i \in Nat :
          /\ o = Original(args[k]) /\ p = in[k].pos /\ c = Concatenated[k - 1]
          /\ l = Len(buf) /\ i = sent /\ i <= l
    BY CopyFacts DEF CopyInv
  <1>2. Faithful
    BY DEF CopyInv, WriteSome
  <1>3. PICK n \in 1 .. l - i : data' = [data EXCEPT ![out] = @ \o Taken(n)] /\ sent' = i + n
    BY <1>1 DEF WriteSome
  <1>4. Original(args[k])' = o /\ \A j : Copied(j)' = Copied(j)
    BY <1>1, CopyStays DEF CopyInv, Inputs, given, WriteSome
  <1>5. p <= Len(o) /\ l <= p /\ buf = SubSeq(o, p - l + 1, p)
    BY <1>1, <1>2 DEF Faithful, WriteSome
  <1>6. PICK m \in 0 .. Len(o) : m = p - (l - i) /\ data[out] = Copied(m)
    BY <1>1, <1>2 DEF Faithful, Written, WriteSome
  <1>7. n \in Nat \ {0} /\ i + n <= l /\ Len(o) \in Nat
    BY LenProperties
  <1>8. out \in Inodes /\ data \in [Inodes -> Seq(Bytes)] /\ buf \in Seq(Bytes)
    BY DEF CopyInv, PlacesInv, TInv, TypeOK
  <1>9. PICK r \in m .. Len(o) : r = m + n
    <2>1. m + n \in m .. Len(o)
      BY <1>5, <1>6, <1>7
    <2> QED BY <2>1
  <1>10. Taken(n) = SubSeq(o, m + 1, r)
    <2>1. p \in 0 .. Len(o) /\ n \in Nat \ {0} /\ i + n <= l /\ i \in Nat
      BY <1>5, <1>7
    <2>2. PICK t \in Seq(Bytes) : t = buf
      BY <1>8
    <2>3. Len(t) <= p /\ t = SubSeq(o, p - Len(t) + 1, p) /\ i + n <= Len(t) /\ Len(t) = l
      BY <1>1, <1>5, <2>1, <2>2
    <2>4. SubSeq(t, i + 1, i + n) = SubSeq(o, p - Len(t) + i + 1, p - Len(t) + i + n)
      BY <2>1, <2>3, PieceOfPiece
    <2>5. p - Len(t) + i + 1 = m + 1 /\ p - Len(t) + i + n = r
      BY <1>6, <1>9, <2>3
    <2> QED BY <1>1, <2>2, <2>4, <2>5 DEF Taken
  <1>11. data'[out] = data[out] \o Taken(n)
    BY <1>3, <1>8
  <1>12. Copied(m) = c \o SubSeq(o, 1, m) /\ Copied(r) = c \o SubSeq(o, 1, r)
    BY <1>1 DEF Copied
  <1>13. data'[out] = Copied(r)
    <2>1. m \in Nat
      OBVIOUS
    <2>2. \A d, s \in Seq(Bytes) : \A j \in Nat : \A e \in j .. Len(s) :
              (d \o SubSeq(s, 1, j)) \o SubSeq(s, j + 1, e) = d \o SubSeq(s, 1, e)
      BY OneMorePiece, ZenonT(30)
    <2>3. (c \o SubSeq(o, 1, m)) \o SubSeq(o, m + 1, r) = c \o SubSeq(o, 1, r)
      BY <2>1, <2>2, ZenonT(30)
    <2> QED BY <1>6, <1>10, <1>11, <1>12, <2>3
  <1>14. /\ k' = k /\ in' = in /\ pc = "write" /\ pc' = pc /\ buf' = buf /\ out' = out
         /\ before' = before
    BY DEF WriteSome, given
  <1>15. Written' = {r}
    <2>1. p - (l - (i + n)) = r
      BY <1>1, <1>6, <1>9
    <2> QED BY <1>1, <1>3, <1>14, <2>1 DEF Written
  <1>16. \E j \in Written' : j \in 0 .. Len(Original(args[k])') /\ data'[out'] = Copied(j)'
    BY <1>4, <1>9, <1>13, <1>14, <1>15
  <1>17. \A f \in Inodes \ {out'} : data'[f] = before'[f]
    BY <1>2, <1>3, <1>8, <1>14 DEF Faithful
  <1>18. /\ in'[k'].pos <= Len(Original(args[k])') /\ Len(buf') <= in'[k'].pos
         /\ buf' = SubSeq(Original(args[k])', in'[k'].pos - Len(buf') + 1, in'[k'].pos)
    BY <1>1, <1>4, <1>5, <1>14
  <1> QED BY <1>14, <1>16, <1>17, <1>18 DEF Faithful

LEMMA CopyOfOpenIn ==
    ASSUME CopyInv, OpenIn, out' # NoInode, ~InputIsOutput'
    PROVE  Faithful'
  <1> USE DEF OpenIn, given
  <1>1. program = "testin" /\ out' = out /\ pc' = "read" /\ k' = k
    BY DEF CopyInv, PlacesInv, OutputInTurn
  <1>2. Inputs' = Inputs /\ Len(in') = Len(in)
    BY PlacesOfOpenIn DEF CopyInv
  <1>3. /\ InputIsOutput' <=> InputIsOutput
        /\ Original(args[k])' = Original(args[k]) /\ \A j : Copied(j)' = Copied(j)
    BY <1>1, <1>2, CopyStays DEF CopyInv
  <1>4. Faithful /\ data[out] = Copied(0)
    BY <1>1, <1>3 DEF CopyInv, Faithful, Written
  <1>5. in'[k].pos = 0 /\ Len(Original(args[k])) \in Nat
    <2>1. in[k].pos = 0
      BY CopyFacts DEF CopyInv, PlacesInv, InputsInTurn
    <2> QED BY <2>1, PlacesOfOpenIn, CopyFacts DEF CopyInv
  <1>6. Written' = {0}
    BY <1>1, <1>5 DEF Written
  <1> QED BY <1>1, <1>3, <1>4, <1>5, <1>6 DEF Faithful

LEMMA CopyOfOpenOut ==
    ASSUME CopyInv, OpenOut
    PROVE  Faithful'
  <1> USE DEF OpenOut, given
  <1>1. out = NoInode /\ data = before /\ k = 1 /\ pc' \in {"open", "read"} /\ in' = in
    BY DEF CopyInv, PlacesInv, OutputInTurn
  <1>2. PICK f \in Inodes : data' = [data EXCEPT ![f] = << >>] /\ out' = f
    OBVIOUS
  <1>3. data \in [Inodes -> Seq(Bytes)]
    BY DEF CopyInv, PlacesInv, TInv, TypeOK
  <1>4. PlacesInv'
    BY PlacesKept DEF CopyInv, Next, Open
  <1>5. Original(args[k])' \in Seq(Bytes) /\ Copied(0)' = << >>
    <2>1. (PlacesInv => /\ Original(args[k]) \in Seq(Bytes)
                        /\ k = 1 => Copied(0) = << >>)'
      BY CopyStart, PTL
    <2> QED BY <1>1, <1>4, <2>1
  <1>6. in'[k'].pos = 0
    BY <1>1, CopyFacts DEF CopyInv, PlacesInv, InputsInTurn
  <1>7. Written' = {0}
    BY <1>1, <1>6 DEF Written
  <1>8. Len(Original(args[k])') \in Nat
    BY <1>5, LenProperties
  <1> QED BY <1>1, <1>2, <1>3, <1>5, <1>6, <1>7, <1>8 DEF Faithful

LEMMA CopyOfEnd ==
    ASSUME CopyInv, EndOfInput \/ WriteEnds, out # NoInode, ~InputIsOutput
    PROVE  Faithful'
  <1> USE DEF given
  <1>1. Faithful /\ data[in[k].file] = Original(args[k])
    BY ReadsOriginal DEF EndOfInput, WriteEnds
  <1>2. PICK o \in Seq(Bytes), p \in Nat :
          /\ o = Original(args[k]) /\ p = in[k].pos /\ Len(o) \in Nat /\ p <= Len(o)
          /\ pc = "read" => data[out] = Copied(p)
    <2>1. /\ Original(args[k]) \in Seq(Bytes) /\ Len(Original(args[k])) \in Nat
          /\ in[k].pos \in Nat
      BY CopyFacts DEF CopyInv
    <2> QED BY <1>1, <2>1 DEF Faithful, Written, EndOfInput, WriteEnds
  <1>3. /\ in' = in /\ data' = data /\ out' = out /\ before' = before
        /\ Inputs' = Inputs /\ Len(in') = Len(in)
    BY DEF EndOfInput, WriteEnds, Inputs
  <1>4. CASE WriteEnds
    <2> USE <1>4 DEF WriteEnds
    <2>1. Original(args[k])' = o /\ \A j : Copied(j)' = Copied(j)
      BY <1>2, <1>3, CopyStays DEF CopyInv
    <2>2. data[out] = Copied(p)
      <3>1. in[k].pos - (Len(buf) - sent) = p
        BY <1>2, CopyFacts DEF CopyInv, AllSent
      <3> QED BY <1>1, <3>1 DEF Faithful, Written
    <2>3. Written' = {p}
      BY <1>2, <1>3 DEF Written
    <2> QED BY <1>1, <1>2, <1>3, <2>1, <2>2, <2>3 DEF Faithful
  <1>5. CASE EndOfInput
    <2> USE <1>5 DEF EndOfInput
    <2>1. p = Len(o)
      BY <1>1, <1>2 DEF Unread
    <2>2. data[out] = Copied(Len(o))
      BY <1>2, <2>1
    <2>3. CASE k = Len(in)
      <3>1. k' = k /\ pc' = "done"
        BY <2>3
      <3>2. Original(args[k])' = o /\ \A j : Copied(j)' = Copied(j)
        BY <1>2, <1>3, <3>1, CopyStays DEF CopyInv
      <3>3. Written' = {Len(o)}
        BY <3>1, <3>2 DEF Written
      <3> QED BY <1>1, <1>2, <1>3, <2>2, <3>1, <3>2, <3>3 DEF Faithful
    <2>4. CASE k # Len(in)
      <3>1. /\ k' = k + 1 /\ k' - 1 = k /\ k + 1 \in Inputs /\ pc' \in {"open", "read"}
            /\ in[k + 1].pos = 0
        <4>1. k' = k + 1 /\ pc' \in {"open", "read"}
          BY <2>4
        <4>2. k' - 1 = k /\ k + 1 \in Inputs /\ k + 1 > k
          BY <2>4, <4>1, CopyFacts DEF CopyInv
        <4> QED BY <4>1, <4>2 DEF CopyInv, PlacesInv, InputsInTurn
      <3>2. Concatenated' = Concatenated /\ data[out] = Concatenated[k]
            /\ Concatenated[k] \in Seq(Bytes)
        BY <1>2, <1>3, <2>2, ConcatenatedStays, CopyFacts DEF CopyInv, PlacesInv
      <3>3. Len(Original(args[k])') \in Nat
        <4>1. Original(args[k])' = Original(args[k + 1])
          BY <3>1 DEF Original
        <4> QED BY <3>1, <4>1, ConcatenatedIs, LenProperties DEF CopyInv, PlacesInv
      <3>4. Copied(0)' = Concatenated[k]
        <4>1. SubSeq(Original(args[k])', 1, 0) = << >>
          BY SubSeqEmpty
        <4>2. Concatenated[k] \o << >> = Concatenated[k]
          BY <3>2, ConcatEmptySeq
        <4> QED BY <3>1, <3>2, <4>1, <4>2 DEF Copied
      <3>5. Written' = {0}
        BY <1>3, <3>1 DEF Written
      <3> QED BY <1>1, <1>3, <3>1, <3>2, <3>3, <3>4, <3>5 DEF Faithful
    <2> QED BY <2>3, <2>4
  <1> QED BY <1>4, <1>5

LEMMA CopyOfDie ==
    ASSUME CopyInv, Die, out # NoInode, ~InputIsOutput
    PROVE  Faithful'
  <1> USE DEF Die, given
  <1>1. Faithful
    BY DEF CopyInv
  <1>2. Original(args[k])' = Original(args[k]) /\ \A j : Copied(j)' = Copied(j)
    BY CopyStays DEF CopyInv, Inputs
  <1>3. Written' = 0 .. Len(Original(args[k]))
    BY <1>2 DEF Written
  <1> QED BY <1>1, <1>2, <1>3 DEF Faithful

LEMMA CopyKept == CopyInv /\ [Next]_vars => CopyInv'
  <1> SUFFICES ASSUME CopyInv, [Next]_vars, out' # NoInode, ~InputIsOutput' PROVE Faithful'
    BY PlacesKept DEF CopyInv
  <1>1. CASE OpenOut
    BY <1>1, CopyOfOpenOut
  <1>2. CASE OpenIn
    BY <1>2, CopyOfOpenIn
  <1>3. CASE Check
    BY <1>3 DEF Check, CopyInv, PlacesInv, OutputInTurn
  <1>4. ASSUME ~OpenOut, ~OpenIn, ~Check
        PROVE  out # NoInode /\ ~InputIsOutput
    <2>1. UNCHANGED <<given, dir, out>>
      BY <1>4 DEF Next, Open, Copy, MallocFails, OpenFails, Read, EndOfInput, ReadFails,
                  WriteSome, WriteEnds, WriteFails, Die, vars, given
    <2>2. Inputs' = Inputs
      <3>1. in' = in \/ Read
        BY <1>4 DEF Next, Open, Copy, MallocFails, OpenFails, EndOfInput, ReadFails,
                    WriteSome, WriteEnds, WriteFails, Die, vars
      <3> QED BY <3>1, ReadTakes DEF CopyInv, Inputs
    <2> QED BY <2>1, <2>2 DEF InputIsOutput, OutName, given
  <1>5. CASE UNCHANGED vars
    <2>1. out # NoInode /\ ~InputIsOutput
      BY <1>5 DEF vars, given, InputIsOutput, Inputs, OutName
    <2>2. Original(args[k])' = Original(args[k]) /\ \A j : Copied(j)' = Copied(j)
      BY <1>5, CopyStays DEF vars, given, CopyInv, Inputs
    <2>3. Faithful /\ Written' = Written
      BY <1>5, <2>1, <2>2 DEF vars, CopyInv, Written
    <2> QED BY <1>5, <2>2, <2>3 DEF vars, given, Faithful
  <1> QED BY <1>1, <1>2, <1>3, <1>4, <1>5, CopyOfRead, CopyOfWrite, CopyOfEnd, CopyOfDie
       DEF Next, Open, Copy, MallocFails, OpenFails, ReadFails, WriteFails

LEMMA CopyGives == CopyInv /\ FInv => CopiesInOrder
  <1> SUFFICES ASSUME CopyInv, out # NoInode, Checked \/ ~InputIsOutput, FInv
               PROVE  /\ IsPrefix(data[out], Concatenated[k])
                      /\ pc = "done" => /\ \A n \in Inputs : dir[args[n]] # NoInode
                                        /\ data[out] = Concatenated[Len(in)]
    BY DEF CopiesInOrder
  <1>1. ~InputIsOutput
    BY DEF FInv, Untouched, Copying, InputIsOutput
  <1>2. PICK o \in Seq(Bytes), c \in Seq(Bytes) :
          /\ o = Original(args[k]) /\ c = Concatenated[k - 1] /\ Len(o) \in Nat
          /\ Concatenated[k] = c \o o
    BY CopyFacts DEF CopyInv
  <1>3. PICK m \in Written : m \in 0 .. Len(o) /\ data[out] = Copied(m)
    BY <1>1, <1>2 DEF CopyInv, Faithful
  <1>4. Copied(m) = c \o SubSeq(o, 1, m)
    BY <1>2 DEF Copied
  <1>5. IsPrefix(data[out], Concatenated[k])
    BY <1>2, <1>3, <1>4, StartIsPrefix
  <1>6. ASSUME pc = "done"
        PROVE  /\ \A n \in Inputs : dir[args[n]] # NoInode
               /\ data[out] = Concatenated[Len(in)]
    <2>1. m = Len(o) /\ k = Len(in)
      BY <1>2, <1>3, <1>6 DEF Written, CopyInv, PlacesInv, OutputInTurn
    <2>2. Copied(m) = Concatenated[k]
      BY <1>2, <2>1, CopyFacts DEF CopyInv
    <2>3. \A n \in Inputs : dir[args[n]] # NoInode
      BY <1>6 DEF CopyInv, PlacesInv, InputsInTurn
    <2> QED BY <1>3, <2>1, <2>2, <2>3
  <1> QED BY <1>5, <1>6

\* For any files and any inputs, and however little each read and each write takes: what
\* is in the output is at every moment the beginning of the inputs one after the other,
\* and all of it, with no input left out, when a program returns 0.
THEOREM CopiedInOrder == Spec => []CopiesInOrder
  <1>1. Init => CopyInv
    BY PlacesAtFirst DEF Init, CopyInv
  <1> QED BY <1>1, CopyKept, CopyGives, FilesAtFirst, FilesKept, PTL DEF Spec
=============================================================================
