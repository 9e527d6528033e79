-------------------------- MODULE CanDriversProofs --------------------------
(***************************************************************************)
(* Proofs about the drivers of the AT90CAN and of boards with an MCP2515,  *)
(* for every number of frames and places. Those about the Tiva driver are  *)
(* in TivaCANProofs.                                                       *)
(***************************************************************************)
EXTENDS CanDrivers, FiniteSetTheorems, SequenceTheorems, TLAPS

-----------------------------------------------------------------------------
(* AT90CAN                                                                 *)

\* What waits is counted where it waits. The queue counts a frame only when
\* buf, from which the handler takes it, holds one, and a transmission that
\* has ended is still in progress until the handler has seen it.
At90Inv ==
  /\ txUsed \in Nat
  /\ txWant \in Seq(Frame)
  /\ mob \in Frame \cup {NoFrame, Mixed}
  /\ buf \in Frame \cup {NoFrame, Mixed}
  /\ arrived \in Frame \cup {NoFrame}
  /\ txok \in BOOLEAN
  /\ inProgress \in BOOLEAN
  /\ pc \in {"copyIn", "enqueue"} => msg \in Frame
  /\ pc = "enqueue" \/ txUsed # 0 => buf # NoFrame
  /\ txok => mob = NoFrame /\ inProgress
  /\ At90!SendsCounted

LEMMA At90Init == At90!Init => At90Inv
<1> SUFFICES ASSUME At90!Init PROVE At90Inv
  OBVIOUS
<1>1. txok \in BOOLEAN /\ inProgress \in BOOLEAN /\ ~txok
  BY DEF At90!Init
<1>2. At90!SendsCounted
  BY DEF At90!Init, At90!SendsCounted
<1> QED
  BY <1>1, <1>2 DEF At90!Init, At90Inv

LEMMA At90Step1 ==
  ASSUME At90Inv, At90!Next
  PROVE  At90Inv'
<1> USE TivaAssumption, BoardAssumption DEF At90Inv, At90!SendsCounted
<1>1. CASE At90!CheckFreeBuffer
  BY <1>1 DEF At90!CheckFreeBuffer, At90!controller
<1>2. CASE At90!CopyIn
  BY <1>2 DEF At90!CopyIn, At90!controller
<1>3. CASE At90!Enqueue
  <2>1. CASE ~inProgress /\ At90!send_message(msg)
    BY <1>3, <2>1 DEF At90!Enqueue, At90!send_message, At90!controller
  <2>2. CASE inProgress
    BY <1>3, <2>2 DEF At90!Enqueue, At90!controller
  <2> QED
    BY <1>3, <2>1, <2>2 DEF At90!Enqueue
<1>4. CASE At90!GetMessage
  BY <1>4 DEF At90!GetMessage, At90!controller
<1>5. CASE At90!CopyOut
  BY <1>5 DEF At90!CopyOut, At90!controller
<1>6. CASE At90!Dequeue
  BY <1>6 DEF At90!Dequeue, At90!controller
<1>7. CASE At90!TxInterrupt
  <2>1. inProgress' \in BOOLEAN /\ txok' \in BOOLEAN
    BY <1>7 DEF At90!TxInterrupt
  <2>2. inProgress /\ mob = NoFrame /\ ~txok'
    BY <1>7 DEF At90!TxInterrupt
  <2>3. CASE txUsed # 0 /\ mob' \in {buf, Mixed} /\ txUsed' = txUsed - 1 /\ inProgress' = inProgress
    <3>1. txUsed' \in Nat /\ Len(txWant) = txUsed' + 1 /\ txWant' = txWant
      BY <1>7, <2>2, <2>3 DEF At90!TxInterrupt
    <3> QED
      BY <1>7, <2>1, <2>2, <2>3, <3>1 DEF At90!TxInterrupt, At90!program
  <2>4. CASE txUsed = 0 /\ inProgress' = FALSE /\ UNCHANGED <<mob, txUsed>>
    <3>1. txWant = <<>>
      BY <2>2, <2>4
    <3> QED
      BY <1>7, <2>1, <2>2, <2>4, <3>1 DEF At90!TxInterrupt, At90!program
  <2> QED
    BY <1>7, <2>3, <2>4 DEF At90!TxInterrupt
<1>8. CASE At90!RxInterrupt
  BY <1>8 DEF At90!RxInterrupt, At90!program
<1>9. CASE At90!FrameSent
  BY <1>9 DEF At90!FrameSent, At90!program
<1>10. ASSUME NEW f \in Frame, At90!SendBuffered(f)
       PROVE  At90Inv'
  <2>1. CASE ~inProgress /\ At90!send_message(f)
    BY <1>10, <2>1 DEF At90!SendBuffered, At90!send_message, At90!controller
  <2>2. CASE inProgress
    BY <1>10, <2>2 DEF At90!SendBuffered, At90!controller
  <2> QED
    BY <1>10, <2>1, <2>2 DEF At90!SendBuffered
<1>11. ASSUME NEW f \in Frame, At90!FrameArrives(f)
       PROVE  At90Inv'
  BY <1>11 DEF At90!FrameArrives, At90!program
<1> QED
  BY <1>1, <1>2, <1>3, <1>4, <1>5, <1>6, <1>7, <1>8, <1>9, <1>10, <1>11 DEF At90!Next

\* As many frames are sent by the AT90 driver as were accepted, though the
\* transmission may end while the next frame is put into the queue.
THEOREM At90Counts == BoardSpec => []At90SendsCounted
<1>1. BoardInit => At90Inv
  BY At90Init DEF BoardInit
<1>2. At90Inv /\ [BoardNext]_allVars => At90Inv'
  <2> SUFFICES ASSUME At90Inv, [BoardNext]_allVars
               PROVE  At90Inv'
    OBVIOUS
  <2>1. CASE At90Step
    BY <2>1, At90Step1 DEF At90Step
  <2>2. CASE UNCHANGED at90Vars
    BY <2>2 DEF at90Vars, At90Inv, At90!SendsCounted
  <2> QED
    BY <2>1, <2>2 DEF BoardNext, TivaStep, McpStep, allVars
<1>3. At90Inv => At90SendsCounted
  BY DEF At90Inv, At90SendsCounted
<1> QED
  BY <1>1, <1>2, <1>3, PTL DEF BoardSpec

\* While one frame at a time needs buf, it is in nobody's way: the program
\* adds to the queues only when they are empty, copies are not cut short, and
\* buf has the frame that is wanted.
AloneInv ==
  /\ At90Inv
  /\ rxUsed \in Nat
  /\ rxWant \in Seq(Frame)
  /\ Len(rxWant) = rxUsed
  /\ cut \in BOOLEAN
  /\ crowded \in BOOLEAN
  /\ pc \in {"copyOut", "dequeue"} => rxUsed # 0
  /\ ~crowded =>
       /\ txUsed + rxUsed <= 1
       /\ pc \in {"copyIn", "enqueue"} => txUsed + rxUsed = 0
       /\ pc \in {"copyIn", "copyOut"} => ~cut
       /\ pc = "enqueue" => buf = msg
  /\ At90!AloneKept

LEMMA AloneInit == At90!Init => AloneInv
<1> SUFFICES ASSUME At90!Init PROVE AloneInv
  OBVIOUS
<1>1. cut \in BOOLEAN /\ crowded \in BOOLEAN /\ ~cut
  BY DEF At90!Init
<1>2. At90!AloneKept
  BY DEF At90!Init, At90!AloneKept
<1> QED
  BY <1>1, <1>2, At90Init DEF At90!Init, AloneInv

LEMMA Uncrowded ==
  ASSUME NEW k \in Nat, txUsed \in Nat, rxUsed \in Nat, ~At90!Crowds(k)
  PROVE  /\ txUsed + rxUsed + k <= 1
         /\ ~crowded \/ txUsed + rxUsed = 0
<1>1. ~(txUsed + rxUsed + k > 1) /\ ~(txUsed + rxUsed # 0 /\ crowded)
  BY Zenon DEF At90!Crowds, At90!InCare
<1> QED
  BY <1>1

LEMMA AloneStep ==
  ASSUME AloneInv, At90!Next
  PROVE  AloneInv'
<1>0. At90Inv'
  BY At90Step1 DEF AloneInv
<1> USE TivaAssumption, BoardAssumption, <1>0 DEF AloneInv, At90!AloneKept
<1>1. CASE At90!CheckFreeBuffer
  BY <1>1 DEF At90!CheckFreeBuffer, At90!controller
<1>2. CASE At90!CopyIn
  <2>1. txUsed \in Nat
    BY DEF At90Inv
  <2>2. /\ pc = "copyIn" /\ pc' = "enqueue"
        /\ UNCHANGED <<txUsed, rxUsed, msg, cut, got, txWant, rxWant, crowded>>
        /\ ~cut => buf' = msg
    BY <1>2 DEF At90!CopyIn
  <2>3. ~crowded => txUsed = 0 /\ rxUsed = 0 /\ ~cut
    BY <2>1, <2>2
  <2> QED
    BY <2>1, <2>2, <2>3
<1>3. CASE At90!Enqueue
  <2>1. CASE ~inProgress /\ At90!send_message(msg)
    <3>1. txWant = <<>> /\ txUsed = 0
      BY <2>1 DEF At90Inv, At90!SendsCounted
    <3>2. /\ UNCHANGED <<rxUsed, buf, msg, cut, got, rxWant, crowded, txUsed>>
          /\ pc' = "idle"
      BY <1>3, <2>1 DEF At90!Enqueue, At90!send_message
    <3> QED
      BY <3>1, <3>2
  <2>2. CASE inProgress /\ txUsed' = txUsed + 1 /\ txWant' = Append(txWant, msg) /\ pc' = "idle"
    <3>1. txWant'[Len(txWant')] = msg
      BY <1>3, <2>2 DEF At90Inv
    <3>2. pc = "enqueue" /\ UNCHANGED <<rxUsed, buf, msg, cut, got, rxWant, crowded>>
      BY <1>3 DEF At90!Enqueue
    <3>3. txUsed \in Nat
      BY DEF At90Inv
    <3>4. ~crowded => txUsed = 0 /\ rxUsed = 0 /\ buf = msg
      BY <3>2, <3>3
    <3>5. ~crowded' => txUsed' + rxUsed' <= 1 /\ buf' = txWant'[Len(txWant')] /\ rxUsed' = 0
      BY <2>2, <3>1, <3>2, <3>3, <3>4
    <3> QED
      BY <2>2, <3>2, <3>3, <3>5
  <2> QED
    BY <1>3, <2>1, <2>2 DEF At90!Enqueue
<1>4. CASE At90!GetMessage
  BY <1>4 DEF At90!GetMessage, At90!controller
<1>5. CASE At90!CopyOut
  BY <1>5 DEF At90!CopyOut, At90!controller
<1>6. CASE At90!Dequeue
  BY <1>6 DEF At90!Dequeue, At90!controller, At90Inv
<1>7. CASE At90!TxInterrupt
  <2>1. txUsed \in Nat
    BY DEF At90Inv
  <2>2. UNCHANGED <<pc, msg, got, rxUsed, buf, cut, txWant, rxWant, crowded>>
    BY <1>7 DEF At90!TxInterrupt, At90!program
  <2>3. (txUsed # 0 /\ txUsed' = txUsed - 1) \/ (txUsed = 0 /\ txUsed' = 0)
    BY <1>7 DEF At90!TxInterrupt
  <2> QED
    BY <2>1, <2>2, <2>3
<1>8. CASE At90!RxInterrupt
  <2>1. CASE UNCHANGED <<buf, rxUsed, rxWant, cut, crowded>>
    BY <1>8, <2>1 DEF At90!RxInterrupt, At90!program
  <2>2. CASE /\ buf' = arrived
             /\ rxUsed' = rxUsed + 1
             /\ rxWant' = Append(rxWant, arrived)
             /\ cut' = (cut \/ pc \in {"copyIn", "copyOut"})
             /\ crowded' = At90!Crowds(IF pc \in {"copyIn", "enqueue"} THEN 2 ELSE 1)
    <3>1. /\ arrived \in Frame
          /\ UNCHANGED <<mob, txok, pc, msg, got, inProgress, txUsed, txWant>>
      BY <1>8 DEF At90!RxInterrupt, At90!program, At90Inv
    <3>2. /\ rxWant' \in Seq(Frame)
          /\ Len(rxWant') = rxUsed'
          /\ rxUsed' \in Nat
          /\ rxUsed = 0 => Head(rxWant') = arrived
      BY <2>2, <3>1
    <3>3. txUsed \in Nat
      BY DEF At90Inv
    <3>4. ASSUME ~crowded'
          PROVE  txUsed = 0 /\ rxUsed = 0 /\ pc \notin {"copyIn", "enqueue", "copyOut", "dequeue"}
      <4> DEFINE joining == IF pc \in {"copyIn", "enqueue"} THEN 2 ELSE 1
      <4>1. ~At90!Crowds(joining)
        BY <2>2, <3>4
      <4>2. joining \in Nat /\ joining >= 1 /\ (pc \in {"copyIn", "enqueue"} => joining = 2)
        OBVIOUS
      <4>3. txUsed + rxUsed + joining <= 1
        <5> HIDE DEF joining
        <5> QED
          BY <3>3, <4>1, <4>2, Uncrowded
      <4> QED
        BY <3>3, <4>2, <4>3
    <3>5. cut' \in BOOLEAN /\ crowded' \in BOOLEAN
      BY <2>2 DEF At90!Crowds
    <3> QED
      BY <2>2, <3>1, <3>2, <3>3, <3>4, <3>5
  <2> QED
    BY <1>8, <2>1, <2>2 DEF At90!RxInterrupt
<1>9. CASE At90!FrameSent
  <2>1. /\ UNCHANGED <<arrived, pc, msg, got, inProgress, txUsed, rxUsed, buf, cut, rxWant, crowded>>
        /\ txWant' = Tail(txWant)
    BY <1>9 DEF At90!FrameSent, At90!program
  <2>2. txUsed # 0 => txWant'[Len(txWant')] = txWant[Len(txWant)]
    BY <1>9, <2>1 DEF At90!FrameSent, At90Inv, At90!SendsCounted
  <2> QED
    BY <2>1, <2>2
<1>10. ASSUME NEW f \in Frame, At90!SendBuffered(f)
       PROVE  AloneInv'
  <2>1. /\ crowded' = At90!Crowds(IF inProgress THEN 1 ELSE 0)
        /\ pc = "sawFree"
        /\ cut' = FALSE
        /\ UNCHANGED <<txUsed, rxUsed, buf, got, rxWant>>
    BY <1>10 DEF At90!SendBuffered, At90!send_message
  <2>2. txUsed \in Nat /\ inProgress \in BOOLEAN /\ crowded' \in BOOLEAN /\ cut' \in BOOLEAN
    BY <2>1 DEF At90Inv, At90!Crowds
  <2>3. CASE ~inProgress /\ At90!send_message(f)
    <3>1. txWant = <<>> /\ txUsed = 0 /\ pc' = "idle"
      BY <2>3 DEF At90Inv, At90!SendsCounted, At90!send_message
    <3>2. ASSUME ~crowded'
          PROVE  (~crowded \/ rxUsed = 0) /\ rxUsed <= 1
      <4>1. ~At90!Crowds(0)
        BY <2>1, <2>3, <3>2
      <4>2. 0 + rxUsed + 0 <= 1 /\ (~crowded \/ 0 + rxUsed = 0)
        BY <2>2, <3>1, <4>1, Uncrowded
      <4> QED
        BY <4>2
    <3> QED
      BY <2>1, <2>2, <3>1, <3>2
  <2>4. CASE inProgress /\ pc' = "copyIn" /\ UNCHANGED txWant
    <3>1. ASSUME ~crowded'
          PROVE  txUsed = 0 /\ rxUsed = 0
      <4>1. ~At90!Crowds(1)
        BY <2>1, <2>4, <3>1
      <4>2. txUsed + rxUsed + 1 <= 1
        BY <2>2, <4>1, Uncrowded
      <4> QED
        BY <2>2, <4>2
    <3> QED
      BY <2>1, <2>2, <2>4, <3>1
  <2> QED
    BY <1>10, <2>3, <2>4 DEF At90!SendBuffered
<1>11. ASSUME NEW f \in Frame, At90!FrameArrives(f)
       PROVE  AloneInv'
  BY <1>11 DEF At90!FrameArrives, At90!program
<1> QED
  BY <1>1, <1>2, <1>3, <1>4, <1>5, <1>6, <1>7, <1>8, <1>9, <1>10, <1>11 DEF At90!Next

\* While one frame at a time needs the AT90 driver's buf, each queue holds the
\* frame it should.
THEOREM At90KeepsAlone == BoardSpec => []At90AloneKept
<1>1. BoardInit => AloneInv
  BY AloneInit DEF BoardInit
<1>2. AloneInv /\ [BoardNext]_allVars => AloneInv'
  <2> SUFFICES ASSUME AloneInv, [BoardNext]_allVars
               PROVE  AloneInv'
    OBVIOUS
  <2>1. CASE At90Step
    BY <2>1, AloneStep DEF At90Step
  <2>2. CASE UNCHANGED at90Vars
    BY <2>2 DEF at90Vars, AloneInv, At90Inv, At90!SendsCounted, At90!AloneKept
  <2> QED
    BY <2>1, <2>2 DEF BoardNext, TivaStep, McpStep, allVars
<1>3. AloneInv => At90AloneKept
  BY DEF AloneInv, At90AloneKept
<1> QED
  BY <1>1, <1>2, <1>3, PTL DEF BoardSpec

-----------------------------------------------------------------------------
(* MCP2515                                                                 *)

\* At most one frame waits, and it is the one accepted: the program fills a
\* buffer only after it has seen all of them empty.
McpInv ==
  /\ txb \in [0 .. 2 -> Frame \cup {NoFrame}]
  /\ rxb \in [{0, 1} -> Frame \cup {NoFrame}]
  /\ mcpFree \in BOOLEAN
  /\ mcpFree => accepted = <<>>
  /\ \/ accepted = <<>> /\ \A b \in 0 .. 2 : txb[b] = NoFrame
     \/ \E b \in 0 .. 2 : /\ txb[b] # NoFrame
                          /\ accepted = <<txb[b]>>
                          /\ \A c \in 0 .. 2 : c # b => txb[c] = NoFrame

\* One frame less to be read.
LEMMA McpTail ==
  ASSUME NEW n \in Nat
  PROVE  /\ Mcp!Uncounted(n + 1) # <<>>
         /\ Tail(Mcp!Uncounted(n + 1)) = Mcp!Uncounted(n)
<1>1. Mcp!Uncounted(n + 1) \in Seq({NoFrame}) /\ Len(Mcp!Uncounted(n + 1)) = n + 1
  BY DEF Mcp!Uncounted
<1>2. Mcp!Uncounted(n) \in Seq({NoFrame}) /\ Len(Mcp!Uncounted(n)) = n
  BY DEF Mcp!Uncounted
<1>3. Tail(Mcp!Uncounted(n + 1)) \in Seq({NoFrame}) /\ Len(Tail(Mcp!Uncounted(n + 1))) = n
  BY <1>1
<1>4. \A i \in 1 .. n : Tail(Mcp!Uncounted(n + 1))[i] = Mcp!Uncounted(n)[i]
  BY <1>1, <1>2, <1>3 DEF Mcp!Uncounted
<1> QED
  BY <1>1, <1>2, <1>3, <1>4, SeqEqual

LEMMA McpInit ==
  ASSUME Mcp!Init
  PROVE  McpInv /\ Mcp!Channel!Init
BY TivaAssumption DEF Mcp!Init, McpInv, Mcp!Channel!Init, Mcp!Tx, Mcp!Uncounted

LEMMA McpStep1 ==
  ASSUME McpInv, Mcp!Next
  PROVE  McpInv' /\ [Mcp!Channel!Next]_(Mcp!Channel!chan)
<1> USE TivaAssumption DEF McpInv
<1>1. CASE Mcp!CheckFreeBuffer
  BY <1>1 DEF Mcp!CheckFreeBuffer, Mcp!can_check_free_buffer, Mcp!Requested, Mcp!Tx,
              Mcp!Channel!chan
<1>2. ASSUME NEW f \in Frame, Mcp!can_send_message(f)
      PROVE  McpInv' /\ Mcp!Channel!Accept(f)
  <2>1. accepted = <<>> /\ accepted' = <<f>> /\ mcpFree' = FALSE /\ rxb' = rxb
    BY <1>2 DEF Mcp!can_send_message
  <2>2. PICK b \in 0 .. 2 : txb' = [txb EXCEPT ![b] = f]
    BY <1>2 DEF Mcp!can_send_message, Mcp!Requested, Mcp!Tx
  <2>3. \A c \in 0 .. 2 : txb[c] = NoFrame
    BY <2>1
  <2>4. McpInv'
    BY <2>1, <2>2, <2>3
  <2>5. Mcp!Channel!Accept(f)
    BY <2>1 DEF Mcp!Channel!Accept, Mcp!Uncounted
  <2> QED
    BY <2>4, <2>5
<1>3. CASE Mcp!can_get_message
  <2>1. UNCHANGED <<txb, mcpFree, accepted>>
    BY <1>3 DEF Mcp!can_get_message
  <2>2. PICK b \in {0, 1} : rxb[b] # NoFrame /\ rxb' = [rxb EXCEPT ![b] = NoFrame]
    BY <1>3 DEF Mcp!can_get_message
  <2>3. Mcp!Channel!Take
    <3> DEFINE n == (IF rxb[0] = NoFrame THEN 0 ELSE 1) + (IF rxb[1] = NoFrame THEN 0 ELSE 1)
    <3>1. n' \in Nat /\ n = n' + 1
      BY <2>2
    <3>2. Mcp!Uncounted(n) # <<>> /\ Mcp!Uncounted(n') = Tail(Mcp!Uncounted(n))
      BY <3>1, McpTail
    <3> QED
      BY <2>1, <3>2 DEF Mcp!Channel!Take
  <2> QED
    BY <2>1, <2>2, <2>3 DEF Mcp!Channel!Next
<1>4. CASE Mcp!FrameSent
  <2>1. PICK b \in 0 .. 2 :
          /\ txb[b] # NoFrame
          /\ txb' = [txb EXCEPT ![b] = NoFrame]
          /\ accepted' = LET i == CHOOSE j \in 1 .. Len(accepted) : accepted[j] = txb[b]
                         IN  SubSeq(accepted, 1, i - 1) \o SubSeq(accepted, i + 1, Len(accepted))
          /\ UNCHANGED <<rxb, mcpFree>>
    BY <1>4 DEF Mcp!FrameSent, Mcp!Requested, Mcp!Tx
  <2>2. accepted = <<txb[b]>> /\ \A c \in 0 .. 2 : c # b => txb[c] = NoFrame
    BY <2>1
  <2>3. (CHOOSE j \in 1 .. Len(accepted) : accepted[j] = txb[b]) = 1
    BY <2>2
  <2>4. accepted' = <<>>
    BY <2>1, <2>2, <2>3
  <2>5. McpInv'
    BY <2>1, <2>2, <2>4
  <2>6. Mcp!Channel!Transmit
    BY <2>1, <2>2, <2>4 DEF Mcp!Channel!Transmit
  <2> QED
    BY <2>5, <2>6 DEF Mcp!Channel!Next
<1>5. ASSUME NEW f \in Frame, Mcp!FrameArrives(f)
      PROVE  McpInv' /\ Mcp!Channel!Arrive(NoFrame)
  <2>1. UNCHANGED <<txb, mcpFree, accepted>>
    BY <1>5 DEF Mcp!FrameArrives
  <2>2. PICK b \in {0, 1} : rxb[b] = NoFrame /\ rxb' = [rxb EXCEPT ![b] = f]
    BY <1>5 DEF Mcp!FrameArrives
  <2>3. Mcp!Channel!Arrive(NoFrame)
    BY <2>1, <2>2 DEF Mcp!Channel!Arrive, Mcp!Uncounted
  <2> QED
    BY <2>1, <2>2, <2>3
<1> QED
  BY <1>1, <1>2, <1>3, <1>4, <1>5 DEF Mcp!Next, Mcp!Channel!Next

\* The MCP2515 driver implements a channel that keeps the order of the frames
\* sent, though the buffers are filled from one end and emptied from the other.
THEOREM McpKeepsOrder == BoardSpec => McpInOrder
<1>1. BoardInit => McpInv /\ Mcp!Channel!Init
  BY McpInit DEF BoardInit
<1>2. McpInv /\ [BoardNext]_allVars => McpInv' /\ [Mcp!Channel!Next]_(Mcp!Channel!chan)
  <2> SUFFICES ASSUME McpInv, [BoardNext]_allVars
               PROVE  McpInv' /\ [Mcp!Channel!Next]_(Mcp!Channel!chan)
    OBVIOUS
  <2>1. CASE McpStep
    BY <2>1, McpStep1 DEF McpStep
  <2>2. CASE UNCHANGED mcpVars
    BY <2>2 DEF mcpVars, McpInv, Mcp!Channel!chan, Mcp!Uncounted
  <2> QED
    BY <2>1, <2>2 DEF BoardNext, TivaStep, At90Step, allVars
<1> QED
  BY <1>1, <1>2, PTL DEF BoardSpec, McpInOrder, Mcp!Channel!Spec

=============================================================================
