------------------------------ MODULE TivaCAN ------------------------------
(***************************************************************************)
(* The CAN driver for the Tiva boards: TivaCANv0.cpp behind the functions  *)
(* of tivacan.cpp that OpenLcbCanInterface.cpp calls.                      *)
(*                                                                         *)
(* The program fills and the interrupt handler empties a transmit ring,    *)
(* and the other way round for received frames.  The program masks the     *)
(* interrupt while it changes a ring, so those stretches and the handler   *)
(* are atomic; but tx_idle looks at TxPending with the interrupt enabled,  *)
(* and the program acts on the answer later.                               *)
(***************************************************************************)
EXTENDS Naturals, Sequences

CONSTANTS
  Frame,    \* the frames
  NoFrame,  \* "the message object is empty"
  SIZE,     \* RingBuffer::SIZE
  Direct    \* whether the class's public write() is also called without
            \* looking at tx_idle(), which fills the transmit ring

ASSUME TivaAssumption ==
  /\ NoFrame \notin Frame
  /\ SIZE \in Nat \ {0}
  /\ Direct \in BOOLEAN

VARIABLES
  txObj,      \* message object 2: the frame the controller is sending
  txInt,      \* interrupt of message object 2: a frame has been sent
  TxPending,
  TxBuffer,
  rxObj,      \* message object 1: the frame received last
  rxInt,      \* interrupt of message object 1: a frame has been received
  RxBuffer,
  sawFree     \* can_check_free_buffer() has returned true, nothing sent since

vars == <<txObj, txInt, TxPending, TxBuffer, rxObj, rxInt, RxBuffer, sawFree>>

-----------------------------------------------------------------------------
(* Ring buffers                                                            *)

Index == 0 .. SIZE - 1

RingBuffer ==
  [Buf : [Index -> Frame \cup {NoFrame}], Count : 0 .. SIZE, RdIndex : Index, WrIndex : Index]

\* Mutant: the index wraps one place too late.
AfterLate(i, k) == IF i + k <= SIZE THEN i + k ELSE i + k - SIZE

\* The index k places after i.
After(i, k) == IF i + k < SIZE THEN i + k ELSE i + k - SIZE

Front(r) == r.Buf[r.RdIndex]

Push(r, f) ==
  [Buf |-> [r.Buf EXCEPT ![r.WrIndex] = f], Count |-> r.Count + 1,
   RdIndex |-> r.RdIndex, WrIndex |-> After(r.WrIndex, 1)]

Pop(r) ==
  [Buf |-> r.Buf, Count |-> r.Count - 1,
   RdIndex |-> After(r.RdIndex, 1), WrIndex |-> r.WrIndex]

\* Mutant: the read index is left where it was.
ClearedHalf(r) == [Buf |-> r.Buf, Count |-> 0, RdIndex |-> r.RdIndex, WrIndex |-> 0]

Cleared(r) == [Buf |-> r.Buf, Count |-> 0, RdIndex |-> 0, WrIndex |-> 0]

\* The frames in a ring, oldest first.
Contents(r) == [i \in 1 .. r.Count |-> r.Buf[After(r.RdIndex, i - 1)]]

-----------------------------------------------------------------------------
(* The program                                                             *)

\* CANClass::write of one frame, with no time to wait (can_send_message).
write(f) ==
  \/ /\ ~TxPending
     /\ TxPending' = TRUE
     /\ txObj' = f
     /\ txInt' = FALSE
     /\ UNCHANGED TxBuffer
  \/ /\ TxPending
     /\ TxBuffer.Count < SIZE
     /\ TxBuffer' = Push(TxBuffer, f)
     /\ UNCHANGED <<TxPending, txObj, txInt>>
  \/ /\ TxPending
     /\ TxBuffer.Count = SIZE
     /\ UNCHANGED <<TxPending, txObj, txInt, TxBuffer>>

\* Mutant: the line commented out of tx_idle.
tx_idle_ring == TxBuffer.Count < 2

tx_idle == ~TxPending

CheckFreeBuffer ==
  /\ ~sawFree
  /\ tx_idle
  /\ sawFree' = TRUE
  /\ UNCHANGED <<txObj, txInt, TxPending, TxBuffer, rxObj, rxInt, RxBuffer>>

\* OpenLcb_can_queue_xmt_immediate sends once it has seen a free buffer, and
\* does not look at what can_send_message returns.
SendMessage(f) ==
  /\ sawFree
  /\ write(f)
  /\ sawFree' = FALSE
  /\ UNCHANGED <<rxObj, rxInt, RxBuffer>>

DirectWrite(f) ==
  /\ Direct
  /\ ~sawFree
  /\ write(f)
  /\ UNCHANGED <<rxObj, rxInt, RxBuffer, sawFree>>

\* can_get_message: available(), then read() of one frame.
GetMessage ==
  /\ RxBuffer.Count # 0
  /\ RxBuffer' = Pop(RxBuffer)
  /\ UNCHANGED <<txObj, txInt, TxPending, TxBuffer, rxObj, rxInt, sawFree>>

-----------------------------------------------------------------------------
(* CANIntHandler                                                           *)

\* Mutant: TxPending is left set.
ErrorWarningPending ==
  /\ txObj' = NoFrame
  /\ txInt' = FALSE
  /\ TxBuffer' = Cleared(TxBuffer)
  /\ UNCHANGED <<TxPending, rxObj, rxInt, RxBuffer, sawFree>>

\* Some status changed while an error counter stands above 96.  Message object
\* 2 is cleared; an interrupt of it that is already due may be served or not.
ErrorWarning ==
  /\ txObj' = NoFrame
  /\ txInt' \in {txInt, FALSE}
  /\ TxPending' = FALSE
  /\ TxBuffer' = Cleared(TxBuffer)
  /\ UNCHANGED <<rxObj, rxInt, RxBuffer, sawFree>>

RxInterrupt ==
  /\ rxInt
  /\ rxInt' = FALSE
  /\ rxObj' = NoFrame
  /\ RxBuffer' = IF RxBuffer.Count < SIZE THEN Push(RxBuffer, rxObj) ELSE RxBuffer
  /\ UNCHANGED <<txObj, txInt, TxPending, TxBuffer, sawFree>>

\* Mutant: TxPending is cleared whenever a frame has been sent.
TxInterruptIdle ==
  /\ txInt
  /\ txInt' = FALSE
  /\ TxPending' = FALSE
  /\ txObj' = IF TxBuffer.Count # 0 THEN Front(TxBuffer) ELSE txObj
  /\ TxBuffer' = IF TxBuffer.Count # 0 THEN Pop(TxBuffer) ELSE TxBuffer
  /\ UNCHANGED <<rxObj, rxInt, RxBuffer, sawFree>>

TxInterrupt ==
  /\ txInt
  /\ txInt' = FALSE
  /\ \/ /\ TxBuffer.Count # 0
        /\ txObj' = Front(TxBuffer)
        /\ TxBuffer' = Pop(TxBuffer)
        /\ UNCHANGED TxPending
     \/ /\ TxBuffer.Count = 0
        /\ TxPending' = FALSE
        /\ UNCHANGED <<txObj, TxBuffer>>
  /\ UNCHANGED <<rxObj, rxInt, RxBuffer, sawFree>>

-----------------------------------------------------------------------------
(* The controller                                                          *)

FrameSent ==
  /\ txObj # NoFrame
  /\ txObj' = NoFrame
  /\ txInt' = TRUE
  /\ UNCHANGED <<TxPending, TxBuffer, rxObj, rxInt, RxBuffer, sawFree>>

\* A frame that comes before the last one was fetched overwrites it.
FrameArrives(f) ==
  /\ rxObj' = f
  /\ rxInt' = TRUE
  /\ UNCHANGED <<txObj, txInt, TxPending, TxBuffer, RxBuffer, sawFree>>

-----------------------------------------------------------------------------

EmptyRing == [Buf |-> [i \in Index |-> NoFrame], Count |-> 0, RdIndex |-> 0, WrIndex |-> 0]

Init ==
  /\ txObj = NoFrame
  /\ txInt = FALSE
  /\ TxPending = FALSE
  /\ TxBuffer = EmptyRing
  /\ rxObj = NoFrame
  /\ rxInt = FALSE
  /\ RxBuffer = EmptyRing
  /\ sawFree = FALSE

Next ==
  \/ CheckFreeBuffer
  \/ GetMessage
  \/ ErrorWarning
  \/ RxInterrupt
  \/ TxInterrupt
  \/ FrameSent
  \/ \E f \in Frame : SendMessage(f) \/ DirectWrite(f) \/ FrameArrives(f)

Spec == Init /\ [][Next]_vars

\* The controller sends, and interrupts are served: write() unmasks them.
FairSpec == Spec /\ WF_vars(FrameSent) /\ WF_vars(TxInterrupt)

-----------------------------------------------------------------------------
(* Properties                                                              *)

\* The type of every variable.
TypeOK ==
  /\ txObj \in Frame \cup {NoFrame}
  /\ rxObj \in Frame \cup {NoFrame}
  /\ txInt \in BOOLEAN
  /\ TxPending \in BOOLEAN
  /\ rxInt \in BOOLEAN
  /\ sawFree \in BOOLEAN
  /\ TxBuffer \in RingBuffer
  /\ RxBuffer \in RingBuffer

RingOK(r) ==
  /\ r.WrIndex = After(r.RdIndex, r.Count)
  /\ \A i \in 1 .. r.Count : r.Buf[After(r.RdIndex, i - 1)] \in Frame

\* Between the program and the handler: the indices of both rings agree with
\* their counts; a frame waits in the ring only while one before it is being
\* sent or its interrupt is due, so that none is left behind; and an idle
\* driver has nothing under way.
DriverInv ==
  /\ RingOK(TxBuffer)
  /\ RingOK(RxBuffer)
  /\ rxInt => rxObj \in Frame
  /\ ~TxPending => TxBuffer.Count = 0 /\ txObj = NoFrame
  /\ TxPending => (txInt <=> txObj = NoFrame)

\* "wait for queue, but earlier check says will succeed" (LinkControl.cpp:107):
\* a driver once seen free takes the next frame straight away, whatever
\* interrupts come in between.
FreeStaysFree == sawFree => ~TxPending

\* The frames not yet sent, the one in the message object first.
Unsent == (IF txObj = NoFrame THEN <<>> ELSE <<txObj>>) \o Contents(TxBuffer)

\* The driver is a pair of bounded queues: rings, message object and
\* interrupts neither reorder nor duplicate nor lose a frame.
Channel == INSTANCE FrameChannel
  WITH Capacity <- SIZE, out <- Unsent, in <- Contents(RxBuffer)

ImplementsChannel == Channel!Spec

\* The loops that spin on OpenLcb_can_xmt_ready end, unless frames are
\* written past it for ever.
SpinEnds == []<>~TxPending \/ []<><<\E f \in Frame : DirectWrite(f)>>_vars

=============================================================================
