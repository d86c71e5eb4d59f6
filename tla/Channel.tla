------------------------------- MODULE Channel ------------------------------
(***************************************************************************)
(* What a ring of descriptors or a buffer shared with a device promises: a *)
(* line on which numbered items arrive in the order they were sent, each   *)
(* once.  Items are counted modulo Numbers; at most Capacity are under way *)
(* at once.  A line that may skip drops all that is under way together.    *)
(***************************************************************************)
EXTENDS Integers

CONSTANTS Numbers, Capacity, MaySkip

VARIABLES
  sent,      \* the item that is sent next
  taken      \* the item that is taken next

Under == (sent - taken) % Numbers

Init == sent = 0 /\ taken = 0

Send == Under < Capacity /\ sent' = (sent + 1) % Numbers /\ UNCHANGED taken

Take == Under > 0 /\ taken' = (taken + 1) % Numbers /\ UNCHANGED sent

Skip == MaySkip /\ taken' = sent /\ UNCHANGED sent

Next == Send \/ Take \/ Skip

Spec == Init /\ [][Next]_<<sent, taken>>
=============================================================================
