------------------------------ MODULE Rtl8139 -------------------------------
(***************************************************************************)
(* The RTL8139 driver of kernel/nic.c and its controller, which stores the *)
(* frames it receives one behind the other in a ring of bytes, each behind *)
(* a header with its status and length, and sends from four slots.         *)
(*                                                                         *)
(* With the WRAP bit a frame at the end of the ring goes on behind it, in  *)
(* the reserve of the buffer.  A frame is its number.                      *)
(***************************************************************************)
EXTENDS Integers

CONSTANTS
  RTL_RX_RING_SIZE,
  RTL_HEADER, RTL_ALIGN,    \* bytes of a header, and to what frames are rounded (4 and 4)
  FrameLengths,             \* pkt_len, within the limits the driver accepts
  RtlNumbers,               \* frames are counted modulo this
  TX_SLOTS,
  MaxBad                    \* bound: frames with an error status

MaxFrame == CHOOSE n \in FrameLengths : \A m \in FrameLengths : m <= n
RtlBuffer == 0..(RTL_RX_RING_SIZE + RTL_HEADER + MaxFrame - 1)

VARIABLES
  rtl_rx_buf,               \* what the bytes hold
  CBR, CAPR,                \* where the controller writes next, and what was given back to it
  rtl_rx_offset,
  rtl_next, rtl_want,       \* the next frame to be stored, the next to be delivered
  rtl_pc, bad,
  rtl_slot, rtl_own,        \* the frames in the slots, and which the controller has still to send
  rtl_tx_cur, rtl_sending,  \* the driver's slot and the controller's
  rtl_tx_next, rtl_tx_want, \* the next frame to be queued, the next to leave
  overrun                   \* a slot was used again before it was sent

rtlRx == <<rtl_rx_buf, CBR, CAPR, rtl_rx_offset, rtl_next, rtl_want, rtl_pc, bad>>
rtlTx == <<rtl_slot, rtl_own, rtl_tx_cur, rtl_sending, rtl_tx_next, rtl_tx_want, overrun>>
rtlVars == <<rtlRx, rtlTx>>

NoByte == <<"none">>
Header(ok, n) == <<"header", ok, n>>
FrameByte(k) == <<"byte", k>>

rtl8139_init_device ==
  /\ rtl_rx_buf = [i \in RtlBuffer |-> NoByte] /\ CBR = 0 /\ CAPR = 0 /\ rtl_rx_offset = 0
  /\ rtl_next = 0 /\ rtl_want = 0 /\ rtl_pc = "poll" /\ bad = 0
  /\ rtl_slot = [s \in 0..(TX_SLOTS - 1) |-> 0] /\ rtl_own = [s \in 0..(TX_SLOTS - 1) |-> FALSE]
  /\ rtl_tx_cur = 0 /\ rtl_sending = 0 /\ rtl_tx_next = 0 /\ rtl_tx_want = 0 /\ overrun = FALSE

-----------------------------------------------------------------------------
Aligned(n) == n + ((0 - n) % RTL_ALIGN)
MutNotAligned(offset, n) == (offset + RTL_HEADER + n) % RTL_RX_RING_SIZE
RtlAfter(offset, n) == Aligned(offset + RTL_HEADER + n) % RTL_RX_RING_SIZE

\* The controller stores a frame if there is room for it, or drops it.
FrameAt(i, n) == (i + RTL_HEADER)..(i + RTL_HEADER + n - 1)
hw_store(ok, n) ==
  /\ ((CBR - CAPR) % RTL_RX_RING_SIZE) + Aligned(RTL_HEADER + n) < RTL_RX_RING_SIZE
  /\ ok \/ bad < MaxBad
  /\ rtl_rx_buf' = [i \in RtlBuffer |-> IF i = CBR THEN Header(ok, n)
                                     ELSE IF i \in FrameAt(CBR, n) THEN FrameByte(rtl_next) ELSE rtl_rx_buf[i]]
  /\ CBR' = Aligned(CBR + RTL_HEADER + n) % RTL_RX_RING_SIZE
  /\ rtl_next' = (rtl_next + 1) % RtlNumbers
  /\ bad' = IF ok THEN bad ELSE bad + 1
  /\ UNCHANGED <<CAPR, rtl_rx_offset, rtl_want, rtl_pc, rtlTx>>

\* rtl8139_poll_rx: while the buffer is not empty, look at the header.  One that does
\* not make sense, or reports an error, makes the driver give up all that is there.
HeaderOK(w) == w \in {Header(TRUE, n) : n \in FrameLengths}
rtl_header ==
  /\ rtl_pc = "poll" /\ CBR # CAPR
  /\ rtl_pc' = IF HeaderOK(rtl_rx_buf[rtl_rx_offset]) THEN "copy" ELSE "resync"
  /\ UNCHANGED <<rtl_rx_buf, CBR, CAPR, rtl_rx_offset, rtl_next, rtl_want, bad, rtlTx>>

rtl_resync ==
  /\ rtl_pc = "resync"
  /\ rtl_rx_offset' = CBR /\ CAPR' = CBR
  /\ rtl_want' = rtl_next /\ rtl_pc' = "poll"
  /\ UNCHANGED <<rtl_rx_buf, CBR, rtl_next, bad, rtlTx>>

\* The frame is copied and its bytes are given back before net_rx_packet sees it.
\* What is delivered is a frame if all its bytes are of one.
Delivered(n) ==
  LET bytes == {rtl_rx_buf[i] : i \in FrameAt(rtl_rx_offset, n)}
  IN IF \E k \in 0..(RtlNumbers - 1) : bytes = {FrameByte(k)}
     THEN CHOOSE k \in 0..(RtlNumbers - 1) : bytes = {FrameByte(k)} ELSE -2
rtl_copy ==
  LET n == rtl_rx_buf[rtl_rx_offset][3]
  IN /\ rtl_pc = "copy"
     /\ rtl_want' = (Delivered(n) + 1) % RtlNumbers
     /\ rtl_rx_offset' = RtlAfter(rtl_rx_offset, n) /\ CAPR' = rtl_rx_offset'
     /\ rtl_pc' = "poll"
     /\ UNCHANGED <<rtl_rx_buf, CBR, rtl_next, bad, rtlTx>>

-----------------------------------------------------------------------------
\* rtl8139_send does not look whether the slot's last frame has left.
rtl8139_send ==
  /\ rtl_slot' = [rtl_slot EXCEPT ![rtl_tx_cur] = rtl_tx_next]
  /\ rtl_own' = [rtl_own EXCEPT ![rtl_tx_cur] = TRUE]
  /\ overrun' = (overrun \/ rtl_own[rtl_tx_cur])
  /\ rtl_tx_cur' = (rtl_tx_cur + 1) % TX_SLOTS /\ rtl_tx_next' = (rtl_tx_next + 1) % RtlNumbers
  /\ UNCHANGED <<rtl_sending, rtl_tx_want, rtlRx>>

hw_send ==
  /\ rtl_own[rtl_sending]
  /\ rtl_own' = [rtl_own EXCEPT ![rtl_sending] = FALSE]
  /\ rtl_tx_want' = (rtl_slot[rtl_sending] + 1) % RtlNumbers
  /\ rtl_sending' = (rtl_sending + 1) % TX_SLOTS
  /\ UNCHANGED <<rtl_slot, rtl_tx_cur, rtl_tx_next, overrun, rtlRx>>

\* Receiving and sending share no state.
RtlRxNext == rtl_header \/ rtl_resync \/ rtl_copy \/ \E n \in FrameLengths : hw_store(TRUE, n) \/ hw_store(FALSE, n)
RtlTxNext == rtl8139_send \/ hw_send

\* Bytes the controller has stored and not got back.
Unread(i) ==
  IF i >= RTL_RX_RING_SIZE THEN CBR < CAPR
  ELSE (i - CAPR) % RTL_RX_RING_SIZE < (CBR - CAPR) % RTL_RX_RING_SIZE

-----------------------------------------------------------------------------
RtlChannel ==
  INSTANCE Channel WITH Numbers <- RtlNumbers, Capacity <- RTL_RX_RING_SIZE, MaySkip <- TRUE,
                        sent <- rtl_next, taken <- rtl_want

\* Between two looks the driver stands at the header of the frame to be delivered.
RtlInStep ==
  /\ rtl_pc = "poll" => rtl_rx_offset = CAPR /\ (CBR = CAPR <=> rtl_next = rtl_want)
  /\ rtl_pc = "resync" => bad > 0

\* Frames leave in the order they were queued while no slot is used too early.
SlotsInOrder == ~overrun /\ rtl_own[rtl_sending] => rtl_slot[rtl_sending] = rtl_tx_want

\* rtl8139_poll_rx delivers the frames of the ring whole, in order and once, across
\* the end of the ring and while the controller writes behind it; only a frame with
\* an error makes it skip, and then it is in step again with the next one.
RtlRingIsChannel == RtlChannel!Spec /\ [](RtlInStep /\ SlotsInOrder)
=============================================================================
