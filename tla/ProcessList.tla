---------------------------- MODULE ProcessList ----------------------------
(***************************************************************************)
(* The circular doubly linked list of exer4/*/plist.c.  The list is read   *)
(* as the sequence of pids that starts at the node the head pointer names; *)
(* NULL is the empty sequence.                                             *)
(***************************************************************************)
EXTENDS SequencesExt

\* (Definitions marked FAULT are deliberately wrong variants of the one that
\* follows them; the mutants of PROJECT.json put them in its place.)

\* FAULT: the new node becomes the head.
AppendInFront(list, p) == <<p>> \o list

\* The list is circular: inserting before the head node is appending.
AppendToList(list, p) == Append(list, p)

Position(list, p) == CHOOSE i \in DOMAIN list : list[i] = p

\* FAULT: always unlinks the head node.
DeleteHead(list, p) == Tail(list)

\* FAULT: frees nothing, the node stays linked.
DeleteNothing(list, p) == list

\* Deleting the head node moves the head pointer to the next one; a pid that is
\* not there changes nothing.
DeleteFromList(list, p) ==
    IF p \in Range(list) THEN RemoveAt(list, Position(list, p)) ELSE list

\* FAULT: the head pointer does not move.
AdvanceNot(list) == list

\* head = head->next
Advance(list) == Append(Tail(list), Head(list))
============================================================================
