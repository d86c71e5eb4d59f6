--------------------------------- MODULE Nic --------------------------------
(***************************************************************************)
(* The E1000 driver of kernel/nic.c and the controller it shares its rings *)
(* with.  The driver runs with interrupts off, but the controller reads    *)
(* and writes descriptors in memory at any time.                           *)
(*                                                                         *)
(* A frame is its number, counted modulo Numbers.                          *)
(***************************************************************************)
EXTENDS Integers, FiniteSets

CONSTANTS
  E1000_NUM_RX_DESC, E1000_NUM_TX_DESC,
  Numbers

ASSUME NicAssumption ==
  /\ E1000_NUM_RX_DESC \in Nat /\ E1000_NUM_TX_DESC \in Nat
  /\ Numbers > E1000_NUM_RX_DESC /\ Numbers > E1000_NUM_TX_DESC

VARIABLES
  rx_done, rx_buf,         \* DD bit and buffer of the receive descriptors
  rdh, rdt, rx_cur,        \* the controller's head, its tail, the driver's position
  rx_next, rx_want,        \* the next frame to arrive, the next to be delivered
  rx_pc,                   \* where e1000_poll_rx is
  tx_done, tx_buf,
  tdh, tdt, tx_cur,
  tx_next, tx_want,        \* the next frame to be sent, the next to leave
  tx_pc

rxVars == <<rx_done, rx_buf, rdh, rdt, rx_cur, rx_next, rx_want, rx_pc>>
txVars == <<tx_done, tx_buf, tdh, tdt, tx_cur, tx_next, tx_want, tx_pc>>
nicVars == <<rxVars, txVars>>

RxDesc == 0..(E1000_NUM_RX_DESC - 1)
TxDesc == 0..(E1000_NUM_TX_DESC - 1)
NextRx(i) == (i + 1) % E1000_NUM_RX_DESC
NextTx(i) == (i + 1) % E1000_NUM_TX_DESC

\* e1000_init_device: every receive descriptor but one belongs to the controller.
e1000_init_device ==
  /\ rx_done = [i \in RxDesc |-> FALSE] /\ rx_buf = [i \in RxDesc |-> 0]
  /\ rdh = 0 /\ rdt = E1000_NUM_RX_DESC - 1 /\ rx_cur = 0
  /\ rx_next = 0 /\ rx_want = 0 /\ rx_pc = "poll"
  /\ tx_done = [i \in TxDesc |-> TRUE] /\ tx_buf = [i \in TxDesc |-> 0]
  /\ tdh = 0 /\ tdt = 0 /\ tx_cur = 0 /\ tx_next = 0 /\ tx_want = 0 /\ tx_pc = "send"

-----------------------------------------------------------------------------
\* The controller stores a frame if it has a descriptor, and drops it otherwise.
hw_receive ==
  /\ rdh # rdt
  /\ rx_buf' = [rx_buf EXCEPT ![rdh] = rx_next] /\ rx_done' = [rx_done EXCEPT ![rdh] = TRUE]
  /\ rdh' = NextRx(rdh) /\ rx_next' = (rx_next + 1) % Numbers
  /\ UNCHANGED <<rdt, rx_cur, rx_want, rx_pc, txVars>>

hw_transmit ==
  /\ tdh # tdt
  /\ tx_done' = [tx_done EXCEPT ![tdh] = TRUE]
  /\ tdh' = NextTx(tdh) /\ tx_want' = (tx_buf[tdh] + 1) % Numbers
  /\ UNCHANGED <<tx_buf, tdt, tx_cur, tx_next, tx_pc, rxVars>>

-----------------------------------------------------------------------------
\* e1000_poll_rx copies the frame out, clears the descriptor, and only then gives
\* it back.
rx_copy ==
  /\ rx_pc = "poll" /\ rx_done[rx_cur]
  /\ rx_want' = (rx_buf[rx_cur] + 1) % Numbers /\ rx_pc' = "clear"
  /\ UNCHANGED <<rx_done, rx_buf, rdh, rdt, rx_cur, rx_next, txVars>>

rx_clear ==
  /\ rx_pc = "clear"
  /\ rx_done' = [rx_done EXCEPT ![rx_cur] = FALSE]
  /\ rx_cur' = NextRx(rx_cur) /\ rx_pc' = "return"
  /\ UNCHANGED <<rx_buf, rdh, rdt, rx_next, rx_want, txVars>>

rx_return ==
  /\ rx_pc = "return"
  /\ rdt' = (rx_cur - 1) % E1000_NUM_RX_DESC /\ rx_pc' = "poll"
  /\ UNCHANGED <<rx_done, rx_buf, rdh, rx_cur, rx_next, rx_want, txVars>>

-----------------------------------------------------------------------------
\* e1000_send: a descriptor that is not done makes it give up after a while.
MutNoWait ==
  /\ tx_pc = "send"
  /\ tx_buf' = [tx_buf EXCEPT ![tx_cur] = tx_next] /\ tx_done' = [tx_done EXCEPT ![tx_cur] = FALSE]
  /\ tx_cur' = NextTx(tx_cur) /\ tx_next' = (tx_next + 1) % Numbers /\ tx_pc' = "tail"
  /\ UNCHANGED <<tdh, tdt, tx_want, rxVars>>
e1000_send ==
  /\ tx_pc = "send" /\ tx_done[tx_cur]
  /\ tx_buf' = [tx_buf EXCEPT ![tx_cur] = tx_next] /\ tx_done' = [tx_done EXCEPT ![tx_cur] = FALSE]
  /\ tx_cur' = NextTx(tx_cur) /\ tx_next' = (tx_next + 1) % Numbers /\ tx_pc' = "tail"
  /\ UNCHANGED <<tdh, tdt, tx_want, rxVars>>

tx_tail ==
  /\ tx_pc = "tail"
  /\ tdt' = tx_cur /\ tx_pc' = "send"
  /\ UNCHANGED <<tx_done, tx_buf, tdh, tx_cur, tx_next, tx_want, rxVars>>

NicNext == hw_receive \/ hw_transmit \/ rx_copy \/ rx_clear \/ rx_return \/ e1000_send \/ tx_tail
NicSpec == e1000_init_device /\ [][NicNext]_nicVars

-----------------------------------------------------------------------------
(***************************************************************************)
(* Both rings implement a channel.  A frame is taken with rx_copy and with *)
(* hw_transmit: an old, a lost or an overwritten buffer in the ring would  *)
(* be a step that the channel does not have.                               *)
(***************************************************************************)
RxChannel == INSTANCE Channel WITH Capacity <- E1000_NUM_RX_DESC, MaySkip <- FALSE, sent <- rx_next, taken <- rx_want
TxChannel == INSTANCE Channel WITH Capacity <- E1000_NUM_TX_DESC, MaySkip <- FALSE, sent <- tx_next, taken <- tx_want

\* When e1000_poll_rx finds nothing, the controller has stored nothing that was not
\* delivered.
RxDrained == rx_pc = "poll" /\ ~rx_done[rx_cur] => rx_next = rx_want

\* The controller knows of every frame that was accepted, unless all descriptors
\* are in use at once, when head and tail meet and the ring looks empty to it.
TxKnown ==
  tx_pc = "send" =>
    LET pending == Cardinality({i \in TxDesc : ~tx_done[i]})
    IN pending = E1000_NUM_TX_DESC \/ pending = (tdt - tdh) % E1000_NUM_TX_DESC

\* Frames pass both descriptor rings in order, each once, and none stays behind,
\* whatever e1000_poll_rx, e1000_send and the controller do at the same time.
RingsAreChannels == RxChannel!Spec /\ TxChannel!Spec /\ [](RxDrained /\ TxKnown)
=============================================================================
