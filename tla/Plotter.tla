------------------------------- MODULE Plotter -------------------------------
(***************************************************************************)
(* What the Mandelbrot programs promise on the terminal, without threads   *)
(* and semaphores: the lines of the picture are drawn from the top, one at *)
(* a time, each of them once.                                              *)
(***************************************************************************)
EXTENDS Naturals, Sequences

VARIABLES height,      \* the number of lines of the picture
          drawing,     \* the lines of which a part is on the screen
          screen       \* the lines that are complete, in the order drawn

pvars == <<height, drawing, screen>>

PInit == height \in Nat /\ drawing = {} /\ screen = << >>

StartLine ==
    /\ drawing = {} /\ Len(screen) < height
    /\ drawing' = {Len(screen)}
    /\ UNCHANGED <<height, screen>>

EndLine ==
    /\ drawing # {}
    /\ screen' = Append(screen, Len(screen))
    /\ drawing' = {}
    /\ UNCHANGED height

PSpec == PInit /\ [][StartLine \/ EndLine]_pvars
=============================================================================
