---------------------------- MODULE FrameChannel ----------------------------
(***************************************************************************)
(* What a CAN driver promises the node: two bounded queues of frames.      *)
(* Frames go on the bus in the order they were accepted, each once, unless *)
(* everything still waiting is flushed at a moment of bus trouble.         *)
(* Received frames are handed over in the order they came; a frame that    *)
(* finds the queue full is dropped.                                        *)
(***************************************************************************)
EXTENDS Naturals, Sequences

CONSTANTS
  Frame,     \* the frames
  Capacity   \* length of the receive queue; one frame more may wait to be sent

VARIABLES
  out,   \* frames accepted and not yet sent
  in     \* frames received and not yet read

chan == <<out, in>>

Init == out = <<>> /\ in = <<>>

Accept(f) == Len(out) <= Capacity /\ out' = Append(out, f) /\ UNCHANGED in

Transmit == out # <<>> /\ out' = Tail(out) /\ UNCHANGED in

Flush == out' = <<>> /\ UNCHANGED in

Arrive(f) == Len(in) < Capacity /\ in' = Append(in, f) /\ UNCHANGED out

Take == in # <<>> /\ in' = Tail(in) /\ UNCHANGED out

Next ==
  \/ Transmit
  \/ Flush
  \/ Take
  \/ \E f \in Frame : Accept(f) \/ Arrive(f)

Spec == Init /\ [][Next]_chan
=============================================================================
