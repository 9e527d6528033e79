------------------------------ MODULE At90CAN ------------------------------
(***************************************************************************)
(* The CAN driver for the AT90CAN boards: CanBus.cpp behind the functions  *)
(* of AT90can.cpp that OpenLcbCanInterface.cpp calls.                      *)
(*                                                                         *)
(* It has a transmit and a receive queue. But the functions that should    *)
(* hand out a pointer to a place in a queue take the pointer by value and  *)
(* are given the address of the one global buf, so the queues only count:  *)
(* program and interrupt handler copy every frame to buf and from buf.     *)
(* The interrupt may come between any two steps of the program, and in the *)
(* middle of a copy.                                                       *)
(***************************************************************************)
EXTENDS Naturals, Sequences

CONSTANTS
  Frame,    \* the frames
  NoFrame,  \* none
  Mixed,    \* parts of two frames
  TxSize,   \* CAN_TX_BUFFER_SIZE
  RxSize    \* CAN_RX_BUFFER_SIZE

VARIABLES
  mob,        \* the transmit MOb: the frame being sent
  txok,       \* its TXOK flag: the frame has been sent
  inProgress, \* _transmission_in_progress
  txUsed,     \* can_tx_buffer.used
  rxUsed,     \* can_rx_buffer.used
  arrived,    \* a receive MOb: the frame received
  buf,        \* the global copy
  pc,         \* what the program does
  msg,        \* the frame it sends
  cut,        \* the handler wrote buf in the middle of a copy
  got,        \* the frame it read last
  txWant,     \* history: the frames accepted and not yet sent
  rxWant,     \* history: the frames that should be in can_rx_buffer
  crowded     \* history: two frames have needed buf at a time

vars == <<mob, txok, inProgress, txUsed, rxUsed, arrived, buf, pc, msg, cut, got,
          txWant, rxWant, crowded>>

\* What the program leaves alone, and what the handler leaves alone.
controller == <<txok, arrived>>
program == <<pc, msg, got>>

InCare == txUsed + rxUsed

\* Frames that join those of the queues need buf as well.
Crowds(joining) == (InCare # 0 /\ crowded) \/ InCare + joining > 1

-----------------------------------------------------------------------------
(* The program                                                             *)

can_buffer_full == txUsed >= TxSize

\* can_check_free_buffer
CheckFreeBuffer ==
  /\ pc = "idle"
  /\ ~can_buffer_full
  /\ pc' = "sawFree"
  /\ UNCHANGED <<mob, controller, inProgress, txUsed, rxUsed, buf, msg, cut, got, txWant,
                 rxWant, crowded>>

\* send_message to a free MOb
send_message(f) ==
  /\ mob' = f
  /\ inProgress' = TRUE
  /\ txWant' = Append(txWant, f)
  /\ pc' = "idle"
  /\ UNCHANGED txUsed

\* send_buffered_message finds no transmission in progress, or room in the
\* queue: it was seen not to be full, and only the program fills it.
SendBuffered(f) ==
  /\ pc = "sawFree"
  /\ msg' = f
  /\ \/ ~inProgress /\ send_message(f)
     \/ inProgress /\ pc' = "copyIn" /\ UNCHANGED <<mob, inProgress, txUsed, txWant>>
  /\ cut' = FALSE
  /\ crowded' = Crowds(IF inProgress THEN 1 ELSE 0)
  /\ UNCHANGED <<controller, rxUsed, buf, got, rxWant>>

\* Mutant: the frame goes to its place in the queue, from which nobody takes it.
CopyInPlace ==
  /\ pc = "copyIn"
  /\ pc' = "enqueue"
  /\ UNCHANGED <<mob, controller, inProgress, txUsed, rxUsed, buf, msg, cut, got, txWant,
                 rxWant, crowded>>

\* memcpy to buf
CopyIn ==
  /\ pc = "copyIn"
  /\ buf' \in IF cut THEN {msg, Mixed} ELSE {msg}
  /\ pc' = "enqueue"
  /\ UNCHANGED <<mob, controller, inProgress, txUsed, rxUsed, msg, cut, got, txWant, rxWant,
                 crowded>>

\* Mutant: the critical section does not look again.
EnqueueAnyway ==
  /\ pc = "enqueue"
  /\ txUsed' = txUsed + 1
  /\ txWant' = Append(txWant, msg)
  /\ pc' = "idle"
  /\ UNCHANGED <<mob, inProgress, controller, rxUsed, buf, msg, cut, got, rxWant, crowded>>

\* The transmission may have ended by now: the critical section looks again.
Enqueue ==
  /\ pc = "enqueue"
  /\ \/ ~inProgress /\ send_message(msg)
     \/ /\ inProgress
        /\ txUsed' = txUsed + 1
        /\ txWant' = Append(txWant, msg)
        /\ pc' = "idle"
        /\ UNCHANGED <<mob, inProgress>>
  /\ UNCHANGED <<controller, rxUsed, buf, msg, cut, got, rxWant, crowded>>

\* get_buffered_message
GetMessage ==
  /\ pc = "idle"
  /\ rxUsed # 0
  /\ pc' = "copyOut"
  /\ cut' = FALSE
  /\ UNCHANGED <<mob, controller, inProgress, txUsed, rxUsed, buf, msg, got, txWant, rxWant,
                 crowded>>

\* memcpy from buf
CopyOut ==
  /\ pc = "copyOut"
  /\ got' \in IF cut THEN {buf, Mixed} ELSE {buf}
  /\ pc' = "dequeue"
  /\ UNCHANGED <<mob, controller, inProgress, txUsed, rxUsed, buf, msg, cut, txWant, rxWant,
                 crowded>>

Dequeue ==
  /\ pc = "dequeue"
  /\ rxUsed' = rxUsed - 1
  /\ rxWant' = Tail(rxWant)
  /\ pc' = "idle"
  /\ UNCHANGED <<mob, controller, inProgress, txUsed, buf, msg, cut, got, txWant, crowded>>

-----------------------------------------------------------------------------
(* CANIT_vect                                                              *)

\* Mutant: the frame stays in the queue.
TxInterruptKeeps ==
  /\ txok
  /\ txok' = FALSE
  /\ mob' = IF txUsed # 0 THEN buf ELSE mob
  /\ inProgress' = (txUsed # 0)
  /\ UNCHANGED <<txUsed, txWant, arrived, program, rxUsed, buf, cut, rxWant, crowded>>

\* The next frame is taken from buf, be it in the middle of a copy to buf.
TxInterrupt ==
  /\ txok
  /\ txok' = FALSE
  /\ \/ /\ txUsed # 0
        /\ mob' \in IF pc = "copyIn" THEN {buf, Mixed} ELSE {buf}
        /\ txUsed' = txUsed - 1
        /\ UNCHANGED inProgress
     \/ /\ txUsed = 0
        /\ inProgress' = FALSE
        /\ UNCHANGED <<mob, txUsed>>
  /\ UNCHANGED <<arrived, program, rxUsed, buf, cut, txWant, rxWant, crowded>>

RxInterrupt ==
  /\ arrived # NoFrame
  /\ arrived' = NoFrame
  /\ \/ /\ rxUsed < RxSize
        /\ buf' = arrived
        /\ rxUsed' = rxUsed + 1
        /\ rxWant' = Append(rxWant, arrived)
        /\ cut' = (cut \/ pc \in {"copyIn", "copyOut"})
        /\ crowded' = Crowds(IF pc \in {"copyIn", "enqueue"} THEN 2 ELSE 1)
     \/ /\ rxUsed >= RxSize
        /\ UNCHANGED <<buf, rxUsed, rxWant, cut, crowded>>
  /\ UNCHANGED <<mob, txok, program, inProgress, txUsed, txWant>>

-----------------------------------------------------------------------------
(* The controller. Interrupts are short against a frame: one received      *)
(* frame at a time waits for the handler.                                  *)

FrameSent ==
  /\ mob # NoFrame
  /\ mob' = NoFrame
  /\ txok' = TRUE
  /\ txWant' = Tail(txWant)
  /\ UNCHANGED <<arrived, program, inProgress, txUsed, rxUsed, buf, cut, rxWant, crowded>>

FrameArrives(f) ==
  /\ arrived = NoFrame
  /\ arrived' = f
  /\ UNCHANGED <<mob, txok, program, inProgress, txUsed, rxUsed, buf, cut, txWant, rxWant,
                 crowded>>

-----------------------------------------------------------------------------
Init ==
  /\ mob = NoFrame
  /\ txok = FALSE
  /\ inProgress = FALSE
  /\ txUsed = 0
  /\ rxUsed = 0
  /\ arrived = NoFrame
  /\ buf = NoFrame
  /\ pc = "idle"
  /\ msg = NoFrame
  /\ cut = FALSE
  /\ got = NoFrame
  /\ txWant = <<>>
  /\ rxWant = <<>>
  /\ crowded = FALSE

Next ==
  \/ CheckFreeBuffer
  \/ CopyIn
  \/ Enqueue
  \/ GetMessage
  \/ CopyOut
  \/ Dequeue
  \/ TxInterrupt
  \/ RxInterrupt
  \/ FrameSent
  \/ \E f \in Frame : SendBuffered(f) \/ FrameArrives(f)

-----------------------------------------------------------------------------
(* Properties                                                              *)

\* As many frames are sent as were accepted: what was accepted and not yet
\* sent is in the MOb or counted in the queue, and the driver is at rest only
\* when nothing is.
SendsCounted ==
  /\ Len(txWant) = txUsed + (IF mob = NoFrame THEN 0 ELSE 1)
  /\ ~inProgress => txWant = <<>>

\* A frame that has buf for itself is the frame sent or read: while one frame
\* at a time needs buf, be it to send or to read, each queue holds the frame
\* it should. With two, the later one replaces the earlier, whichever way
\* they go.
AloneKept ==
  ~crowded =>
    /\ txUsed # 0 => buf = txWant[Len(txWant)]
    /\ rxUsed # 0 => buf = Head(rxWant)
    /\ pc = "dequeue" => got = Head(rxWant)

\* What waits to be sent is sent: the queue is full for a while only.
QueueMoves == (txUsed >= TxSize) ~> (txUsed < TxSize)
=============================================================================
