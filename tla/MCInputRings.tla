---------------------------- MODULE MCInputRings ----------------------------
(***************************************************************************)
(* Input with one key for TLC: F1 fills the event ring that the task also  *)
(* pushes to.  It has no entry in keycode_buffer, which stays empty.       *)
(***************************************************************************)
EXTENDS Input

OneFunctionKey == {<<"F1", 0>>}

RingsSpec == Init /\ [][RingStep]_vars /\ Fairness
=============================================================================
