------------------------------ MODULE Allocator -----------------------------
(***************************************************************************)
(* What the heap promises its clients: a pointer to memory of the size     *)
(* they asked for, inside the heap, that nobody else holds until they give *)
(* it back; and that nothing else happens to the memory they hold.         *)
(***************************************************************************)
EXTENDS Integers

CONSTANT Limit        \* the size to which the memory may grow

VARIABLE held         \* the pieces clients hold, with address and length

Piece == [at : 0..Limit, len : 1..Limit]

Apart(g, h) == g.at + g.len <= h.at \/ h.at + h.len <= g.at

Init == held = {}

\* Some piece is new.
Alloc ==
  \E h \in held' \ held :
    /\ h \in Piece /\ h.at + h.len <= Limit
    /\ \A g \in held : Apart(g, h)
    /\ held' = held \cup {h}

Free == \E h \in held : held' = held \ {h}

Next == Alloc \/ Free

Spec == Init /\ [][Next]_held
=============================================================================
