---------------------------- MODULE PriorityQueue ----------------------------
(***************************************************************************)
(* What the users of include/asterisk/heap.h rely on: a set of elements    *)
(* from which any one can be removed, and whose pop takes one that no      *)
(* other precedes.                                                         *)
(***************************************************************************)
CONSTANTS
    Elements,
    Precedes(_, _)      \* strict order in which elements are to be popped

VARIABLES
    members,    \* elements in the queue
    popped      \* the element the last pop returned, or {} as a set

vars == <<members, popped>>

Init == members = {} /\ popped = {}

Push(e) ==
    /\ e \notin members
    /\ members' = members \union {e}
    /\ popped' = {}

Remove(e) ==
    /\ e \in members
    /\ members' = members \ {e}
    /\ popped' = {}

Pop(e) ==
    /\ e \in members
    /\ \A f \in members : ~Precedes(f, e)
    /\ members' = members \ {e}
    /\ popped' = {e}

Next == \E e \in Elements : Push(e) \/ Remove(e) \/ Pop(e)

Spec == Init /\ [][Next]_vars
=============================================================================
