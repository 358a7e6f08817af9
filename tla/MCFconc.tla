------------------------------ MODULE MCFconc ------------------------------
(***************************************************************************)
(* The programs of exer1 on three names: y may be another name for x, or   *)
(* stand for nothing, and so may z.                                        *)
(***************************************************************************)
EXTENDS Fconc

CONSTANTS x, y, z

MCDirectories ==
    {[n \in {x, y, z} |-> CASE n = x -> 1 [] n = y -> fy [] n = z -> fz] :
        fy \in {1, 2, NoInode}, fz \in {1, 3, NoInode}}

MCContents == {[f \in Inodes |-> CASE f = 1 -> <<1, 2, 3>> [] f = 2 -> <<4>>
                                   [] f = 3 -> <<5, 6>> [] OTHER -> << >>]}
=============================================================================
