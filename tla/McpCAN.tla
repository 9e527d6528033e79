------------------------------- MODULE McpCAN -------------------------------
(***************************************************************************)
(* The CAN driver for boards with an MCP2515: MCP2515can.cpp. The program  *)
(* polls the controller over SPI; there is no interrupt handler. The       *)
(* controller has three transmit buffers and two receive buffers.          *)
(***************************************************************************)
EXTENDS Naturals, Sequences

CONSTANTS
  Frame,    \* the frames
  NoFrame   \* none

VARIABLES
  txb,      \* the transmit buffers 0 to 2: a frame, if TXREQ is set
  rxb,      \* the receive buffers 0 and 1: a frame, if RXnIF is set
  sawFree,  \* can_check_free_buffer() has returned true, nothing sent since
  accepted  \* history: the frames to be sent, in the order they were accepted

vars == <<txb, rxb, sawFree, accepted>>

Tx == 0 .. 2

Requested == {b \in Tx : txb[b] # NoFrame}

\* Mutant: mcp2515_check_free_buffer, which asks for one free buffer.
can_check_free_buffer_any == Requested # Tx

can_check_free_buffer == Requested = {}

CheckFreeBuffer ==
  /\ ~sawFree
  /\ can_check_free_buffer
  /\ sawFree' = TRUE
  /\ UNCHANGED <<txb, rxb, accepted>>

\* The first buffer that is free.
can_send_message(f) ==
  /\ sawFree
  /\ \E b \in Tx \ Requested :
       /\ \A c \in Tx \ Requested : b <= c
       /\ txb' = [txb EXCEPT ![b] = f]
  /\ accepted' = Append(accepted, f)
  /\ sawFree' = FALSE
  /\ UNCHANGED rxb

\* Mutant: buffer 1 is never asked for.
can_get_message_last ==
  /\ rxb[0] # NoFrame
  /\ rxb' = [rxb EXCEPT ![0] = NoFrame]
  /\ UNCHANGED <<txb, sawFree, accepted>>

\* lastRxBuf1Status is a local variable, 0 in every call: whenever both
\* buffers are full the first is read.
can_get_message ==
  /\ \/ rxb[0] # NoFrame /\ rxb' = [rxb EXCEPT ![0] = NoFrame]
     \/ rxb[0] = NoFrame /\ rxb[1] # NoFrame /\ rxb' = [rxb EXCEPT ![1] = NoFrame]
  /\ UNCHANGED <<txb, sawFree, accepted>>

\* Buffers of equal priority: the controller sends the highest first.
FrameSent ==
  \E b \in Requested :
    /\ \A c \in Requested : c <= b
    /\ txb' = [txb EXCEPT ![b] = NoFrame]
    /\ accepted' = LET i == CHOOSE j \in 1 .. Len(accepted) : accepted[j] = txb[b]
                   IN  SubSeq(accepted, 1, i - 1) \o SubSeq(accepted, i + 1, Len(accepted))
    /\ UNCHANGED <<rxb, sawFree>>

\* Both buffers take every frame, the second one when the first is full.
FrameArrives(f) ==
  /\ \/ rxb[0] = NoFrame /\ rxb' = [rxb EXCEPT ![0] = f]
     \/ rxb[0] # NoFrame /\ rxb[1] = NoFrame /\ rxb' = [rxb EXCEPT ![1] = f]
  /\ UNCHANGED <<txb, sawFree, accepted>>

Init ==
  /\ txb = [b \in Tx |-> NoFrame]
  /\ rxb = [b \in {0, 1} |-> NoFrame]
  /\ sawFree = FALSE
  /\ accepted = <<>>

Next ==
  \/ CheckFreeBuffer
  \/ can_get_message
  \/ FrameSent
  \/ \E f \in Frame : can_send_message(f) \/ FrameArrives(f)

-----------------------------------------------------------------------------
(* Properties                                                              *)

Uncounted(n) == [i \in 1 .. n |-> NoFrame]

\* Frames are sent in the order in which they were accepted, each once, though
\* the program fills the buffers from the first and the controller empties
\* them from the last; and none that was received is read twice.
Channel == INSTANCE FrameChannel
  WITH Frame <- Frame \cup {NoFrame}, Capacity <- 2,
       out <- accepted,
       in <- Uncounted((IF rxb[0] = NoFrame THEN 0 ELSE 1)
                         + (IF rxb[1] = NoFrame THEN 0 ELSE 1))

\* A frame in the second receive buffer is read in the end, unless frames come
\* so fast that the first is full again at every call.
SecondRead ==
  \/ []<>(rxb[1] = NoFrame)
  \/ []<><<\E f \in Frame : FrameArrives(f)>>_vars
=============================================================================
