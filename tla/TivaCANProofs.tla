--------------------------- MODULE TivaCANProofs ---------------------------
(***************************************************************************)
(* Proofs about the Tiva CAN driver, for every ring size.                  *)
(***************************************************************************)
EXTENDS TivaCAN, SequenceTheorems, TLAPS

-----------------------------------------------------------------------------
(* Rings                                                                   *)

\* Moving on by at most a whole ring stays within it.
LEMMA AfterIndex ==
  ASSUME NEW i \in Index, NEW k \in 0 .. SIZE
  PROVE  After(i, k) \in Index
BY TivaAssumption DEF After, Index

\* Moving on by k and then by one is moving on by k + 1.
LEMMA AfterStep ==
  ASSUME NEW i \in Index, NEW k \in 0 .. SIZE - 1
  PROVE  /\ After(After(i, k), 1) = After(i, k + 1)
         /\ After(After(i, 1), k) = After(i, k + 1)
BY TivaAssumption DEF After, Index

\* Different places less than a ring apart have different indices.
LEMMA AfterDistinct ==
  ASSUME NEW i \in Index, NEW j \in 0 .. SIZE - 1, NEW k \in 0 .. SIZE - 1, j # k
  PROVE  After(i, j) # After(i, k)
BY TivaAssumption DEF After, Index

\* What a ring holds is a sequence of frames, as long as its count.
LEMMA ContentsType ==
  ASSUME NEW r \in RingBuffer, RingOK(r)
  PROVE  /\ Contents(r) \in Seq(Frame)
         /\ Len(Contents(r)) = r.Count
         /\ r.Count \in Nat
<1>1. r.Count \in Nat
  BY TivaAssumption DEF RingBuffer
<1>2. \A i \in 1 .. r.Count : r.Buf[After(r.RdIndex, i - 1)] \in Frame
  BY DEF RingOK
<1>3. Contents(r) \in [1 .. r.Count -> Frame]
  BY <1>2 DEF Contents
<1>4. Contents(r) \in Seq(Frame)
  BY <1>1, <1>3
<1>5. Len(Contents(r)) = r.Count
  BY <1>1, <1>3, <1>4
<1> QED
  BY <1>1, <1>4, <1>5

\* Push appends to what the ring holds.
LEMMA PushContents ==
  ASSUME NEW r \in RingBuffer, RingOK(r), r.Count < SIZE, NEW f \in Frame
  PROVE  /\ Push(r, f) \in RingBuffer
         /\ RingOK(Push(r, f))
         /\ Contents(Push(r, f)) = Append(Contents(r), f)
<1> DEFINE p == Push(r, f)
<1>1. /\ r.Count \in 0 .. SIZE - 1
      /\ r.RdIndex \in Index
      /\ r.WrIndex \in Index
      /\ r.Buf \in [Index -> Frame \cup {NoFrame}]
  BY TivaAssumption DEF RingBuffer
<1>2. /\ r.WrIndex = After(r.RdIndex, r.Count)
      /\ \A i \in 1 .. r.Count : r.Buf[After(r.RdIndex, i - 1)] \in Frame
  BY DEF RingOK
<1>3. /\ p.Count = r.Count + 1
      /\ p.RdIndex = r.RdIndex
      /\ p.WrIndex = After(r.WrIndex, 1)
      /\ p.Buf = [r.Buf EXCEPT ![r.WrIndex] = f]
  BY DEF Push, RingBuffer
<1>4. After(r.WrIndex, 1) \in Index
  BY <1>1, AfterIndex, TivaAssumption
<1>5. p \in RingBuffer
  <2>1. p.Buf \in [Index -> Frame \cup {NoFrame}]
    BY <1>1, <1>3
  <2>2. p.Count \in 0 .. SIZE
    BY <1>1, <1>3, TivaAssumption
  <2>3. p = [Buf |-> p.Buf, Count |-> p.Count, RdIndex |-> p.RdIndex, WrIndex |-> p.WrIndex]
    BY DEF Push
  <2> HIDE DEF p
  <2> QED
    BY <2>1, <2>2, <2>3, <1>1, <1>3, <1>4 DEF RingBuffer
<1>6. p.WrIndex = After(p.RdIndex, p.Count)
  BY <1>1, <1>2, <1>3, AfterStep
<1>7. ASSUME NEW i \in 1 .. r.Count
      PROVE  p.Buf[After(p.RdIndex, i - 1)] = r.Buf[After(r.RdIndex, i - 1)]
  <2>1. /\ i - 1 \in 0 .. SIZE - 1
        /\ i - 1 # r.Count
    BY <1>1, TivaAssumption
  <2>2. After(r.RdIndex, i - 1) # r.WrIndex
    BY <2>1, <1>1, <1>2, AfterDistinct
  <2>3. After(r.RdIndex, i - 1) \in Index
    BY <2>1, <1>1, AfterIndex, TivaAssumption
  <2> QED
    BY <2>2, <2>3, <1>1, <1>3
<1>8. p.Buf[After(p.RdIndex, p.Count - 1)] = f
  <2>1. p.Count - 1 = r.Count
    BY <1>1, <1>3, TivaAssumption
  <2> QED
    BY <2>1, <1>1, <1>2, <1>3
<1>9. RingOK(p)
  <2>1. ASSUME NEW i \in 1 .. p.Count
        PROVE  p.Buf[After(p.RdIndex, i - 1)] \in Frame
    <3>1. CASE i \in 1 .. r.Count
      BY <3>1, <1>2, <1>7
    <3>2. CASE i = p.Count
      BY <3>2, <1>8
    <3> QED
      BY <3>1, <3>2, <1>1, <1>3, TivaAssumption
  <2> QED
    BY <2>1, <1>6 DEF RingOK
<1>10. Contents(p) = Append(Contents(r), f)
  <2>1. /\ Contents(r) \in Seq(Frame)
        /\ Len(Contents(r)) = r.Count
        /\ r.Count \in Nat
    BY ContentsType
  <2>2. /\ Contents(p) \in Seq(Frame)
        /\ Len(Contents(p)) = r.Count + 1
    BY <1>3, <1>5, <1>9, ContentsType
  <2>3. /\ Append(Contents(r), f) \in Seq(Frame)
        /\ Len(Append(Contents(r), f)) = r.Count + 1
        /\ \A i \in 1 .. r.Count : Append(Contents(r), f)[i] = Contents(r)[i]
        /\ Append(Contents(r), f)[r.Count + 1] = f
    BY <2>1, AppendProperties
  <2>4. ASSUME NEW i \in 1 .. r.Count + 1
        PROVE  Contents(p)[i] = Append(Contents(r), f)[i]
    <3>1. Contents(p)[i] = p.Buf[After(p.RdIndex, i - 1)]
      BY <1>3 DEF Contents
    <3>2. CASE i \in 1 .. r.Count
      BY <3>1, <3>2, <2>3, <1>7 DEF Contents
    <3>3. CASE i = r.Count + 1
      BY <3>1, <3>3, <2>3, <1>3, <1>8
    <3> QED
      BY <3>2, <3>3, <2>1
  <2> HIDE DEF p
  <2> QED
    BY <2>2, <2>3, <2>4, SeqEqual
<1> QED
  BY <1>5, <1>9, <1>10

\* Pop takes away the oldest frame, which is the one at the read index.
LEMMA PopContents ==
  ASSUME NEW r \in RingBuffer, RingOK(r), r.Count # 0
  PROVE  /\ Pop(r) \in RingBuffer
         /\ RingOK(Pop(r))
         /\ Front(r) \in Frame
         /\ Contents(r) # <<>>
         /\ Front(r) = Head(Contents(r))
         /\ Contents(Pop(r)) = Tail(Contents(r))
<1> DEFINE p == Pop(r)
<1>1. /\ r.Count \in 1 .. SIZE
      /\ r.RdIndex \in Index
      /\ r.WrIndex \in Index
      /\ r.Buf \in [Index -> Frame \cup {NoFrame}]
  BY TivaAssumption DEF RingBuffer
<1>2. /\ r.WrIndex = After(r.RdIndex, r.Count)
      /\ \A i \in 1 .. r.Count : r.Buf[After(r.RdIndex, i - 1)] \in Frame
  BY DEF RingOK
<1>3. /\ p.Count = r.Count - 1
      /\ p.RdIndex = After(r.RdIndex, 1)
      /\ p.WrIndex = r.WrIndex
      /\ p.Buf = r.Buf
  BY DEF Pop, RingBuffer
<1>4. After(r.RdIndex, 1) \in Index
  BY <1>1, AfterIndex, TivaAssumption
<1>5. p \in RingBuffer
  <2>1. p.Count \in 0 .. SIZE
    BY <1>1, <1>3, TivaAssumption
  <2>2. p = [Buf |-> p.Buf, Count |-> p.Count, RdIndex |-> p.RdIndex, WrIndex |-> p.WrIndex]
    BY DEF Pop
  <2> HIDE DEF p
  <2> QED
    BY <2>1, <2>2, <1>1, <1>3, <1>4 DEF RingBuffer
<1>6. ASSUME NEW k \in 0 .. r.Count - 1
      PROVE  After(p.RdIndex, k) = After(r.RdIndex, k + 1)
  BY <1>1, <1>3, AfterStep, TivaAssumption
<1>7. p.WrIndex = After(p.RdIndex, p.Count)
  BY <1>1, <1>2, <1>3, <1>6, TivaAssumption
<1>8. ASSUME NEW i \in 1 .. p.Count
      PROVE  /\ i + 1 \in 1 .. r.Count
             /\ p.Buf[After(p.RdIndex, i - 1)] = r.Buf[After(r.RdIndex, (i + 1) - 1)]
  <2>1. /\ i - 1 \in 0 .. r.Count - 1
        /\ (i - 1) + 1 = (i + 1) - 1
        /\ i + 1 \in 1 .. r.Count
    BY <1>1, <1>3, TivaAssumption
  <2> QED
    BY <2>1, <1>3, <1>6
<1>9. RingOK(p)
  BY <1>2, <1>7, <1>8 DEF RingOK
<1>10. /\ Contents(r) \in Seq(Frame)
       /\ Len(Contents(r)) = r.Count
       /\ r.Count \in Nat
  BY ContentsType
<1>11. Contents(r) # <<>>
  BY <1>10
<1>12. /\ Front(r) \in Frame
       /\ Front(r) = Head(Contents(r))
  <2>1. After(r.RdIndex, 1 - 1) = r.RdIndex
    BY <1>1, TivaAssumption DEF After, Index
  <2>2. 1 \in 1 .. r.Count
    BY <1>1, TivaAssumption
  <2>3. r.Buf[After(r.RdIndex, 1 - 1)] = Front(r)
    BY <2>1 DEF Front
  <2>4. Head(Contents(r)) = Contents(r)[1]
    BY <1>10, <1>11
  <2>5. Contents(r)[1] = Front(r)
    BY <2>2, <2>3 DEF Contents
  <2> QED
    BY <2>2, <2>3, <2>4, <2>5, <1>2
<1>13. Contents(p) = Tail(Contents(r))
  <2>1. /\ Contents(p) \in Seq(Frame)
        /\ Len(Contents(p)) = r.Count - 1
    BY <1>3, <1>5, <1>9, ContentsType
  <2>2. /\ Tail(Contents(r)) \in Seq(Frame)
        /\ Len(Tail(Contents(r))) = r.Count - 1
        /\ \A i \in 1 .. r.Count - 1 : Tail(Contents(r))[i] = Contents(r)[i + 1]
    BY <1>10, <1>11, HeadTailProperties
  <2>3. ASSUME NEW i \in 1 .. r.Count - 1
        PROVE  Contents(p)[i] = Tail(Contents(r))[i]
    BY <2>2, <1>3, <1>8 DEF Contents
  <2> HIDE DEF p
  <2> QED
    BY <2>1, <2>2, <2>3, SeqEqual
<1> QED
  BY <1>5, <1>9, <1>11, <1>12, <1>13

\* A cleared ring, like a new one, is in order and holds nothing.
LEMMA ClearedContents ==
  ASSUME NEW r \in RingBuffer, r.Count = 0, r.RdIndex = 0, r.WrIndex = 0
  PROVE  /\ RingOK(r)
         /\ Contents(r) = <<>>
<1>1. 0 = After(0, 0)
  BY TivaAssumption DEF After
<1> QED
  BY <1>1 DEF RingOK, Contents

\* Clearing does not depend on what was in the ring.
LEMMA ClearedType ==
  ASSUME NEW r \in RingBuffer
  PROVE  /\ Cleared(r) \in RingBuffer
         /\ Cleared(r).Count = 0
         /\ Cleared(r).RdIndex = 0
         /\ Cleared(r).WrIndex = 0
<1> DEFINE c == Cleared(r)
<1>1. /\ c.Buf = r.Buf
      /\ c.Count = 0
      /\ c.RdIndex = 0
      /\ c.WrIndex = 0
  BY DEF Cleared, RingBuffer
<1>2. c = [Buf |-> c.Buf, Count |-> c.Count, RdIndex |-> c.RdIndex, WrIndex |-> c.WrIndex]
  BY DEF Cleared
<1>3. /\ r.Buf \in [Index -> Frame \cup {NoFrame}]
      /\ 0 \in Index
      /\ 0 \in 0 .. SIZE
  BY TivaAssumption DEF RingBuffer, Index
<1> HIDE DEF c
<1>4. c \in RingBuffer
  BY <1>1, <1>2, <1>3 DEF RingBuffer
<1> QED
  BY <1>1, <1>4 DEF c

-----------------------------------------------------------------------------
(* The inductive invariant                                                 *)

IInv == TypeOK /\ DriverInv /\ FreeStaysFree

\* The driver starts in order.
LEMMA InitInductive == Init => IInv
<1> SUFFICES ASSUME Init PROVE IInv
  OBVIOUS
<1>1. EmptyRing \in RingBuffer
  BY TivaAssumption DEF EmptyRing, RingBuffer, Index
<1>2. RingOK(EmptyRing)
  BY <1>1, ClearedContents DEF EmptyRing
<1> QED
  BY <1>1, <1>2 DEF Init, IInv, TypeOK, DriverInv, FreeStaysFree, EmptyRing

\* Handing a frame to the driver keeps it in order, whoever does it.
LEMMA WriteInductive ==
  ASSUME IInv, NEW f \in Frame, write(f), UNCHANGED <<rxObj, rxInt, RxBuffer>>,
         sawFree' = FALSE
  PROVE  IInv'
<1> USE DEF IInv, TypeOK, DriverInv, FreeStaysFree
<1>0. /\ TxBuffer.Count \in 0 .. SIZE
      /\ f # NoFrame
  BY TivaAssumption DEF RingBuffer
<1>1. CASE ~TxPending
  <2>1. /\ TxPending' = TRUE
        /\ txObj' = f
        /\ txInt' = FALSE
        /\ UNCHANGED TxBuffer
    BY <1>1 DEF write
  <2> QED
    BY <2>1, <1>0
<1>2. CASE TxPending /\ TxBuffer.Count < SIZE
  <2>1. /\ TxBuffer' = Push(TxBuffer, f)
        /\ UNCHANGED <<TxPending, txObj, txInt>>
    <3>1. TxBuffer.Count # SIZE
      BY <1>0, <1>2, TivaAssumption
    <3> QED
      BY <3>1, <1>2 DEF write
  <2>2. /\ Push(TxBuffer, f) \in RingBuffer
        /\ RingOK(Push(TxBuffer, f))
    BY <1>2, PushContents
  <2> QED
    BY <1>2, <2>1, <2>2
<1>3. CASE TxPending /\ ~(TxBuffer.Count < SIZE)
  <2>1. UNCHANGED <<TxPending, txObj, txInt, TxBuffer>>
    BY <1>3 DEF write
  <2> QED
    BY <2>1
<1> QED
  BY <1>1, <1>2, <1>3

\* Every step keeps the driver in order.
LEMMA NextInductive == IInv /\ [Next]_vars => IInv'
<1> SUFFICES ASSUME IInv, [Next]_vars PROVE IInv'
  OBVIOUS
<1> USE DEF IInv, TypeOK, DriverInv, FreeStaysFree
<1>1. CASE CheckFreeBuffer
  BY <1>1 DEF CheckFreeBuffer, tx_idle
<1>2. CASE GetMessage
  <2>1. /\ Pop(RxBuffer) \in RingBuffer
        /\ RingOK(Pop(RxBuffer))
    BY <1>2, PopContents DEF GetMessage
  <2> QED
    BY <1>2, <2>1 DEF GetMessage
<1>3. CASE ErrorWarning
  <2>1. /\ Cleared(TxBuffer) \in RingBuffer
        /\ RingOK(Cleared(TxBuffer))
        /\ Cleared(TxBuffer).Count = 0
    BY ClearedType, ClearedContents
  <2> QED
    BY <1>3, <2>1 DEF ErrorWarning
<1>4. CASE RxInterrupt
  <2>1. CASE RxBuffer.Count < SIZE
    <3>1. /\ Push(RxBuffer, rxObj) \in RingBuffer
          /\ RingOK(Push(RxBuffer, rxObj))
      BY <1>4, <2>1, PushContents DEF RxInterrupt
    <3> QED
      BY <1>4, <2>1, <3>1 DEF RxInterrupt
  <2>2. CASE ~(RxBuffer.Count < SIZE)
    BY <1>4, <2>2 DEF RxInterrupt
  <2> QED
    BY <2>1, <2>2
<1>5. CASE TxInterrupt
  <2>1. CASE TxBuffer.Count # 0
    <3>1. /\ Pop(TxBuffer) \in RingBuffer
          /\ RingOK(Pop(TxBuffer))
          /\ Front(TxBuffer) \in Frame
      BY <2>1, PopContents
    <3>2. Front(TxBuffer) # NoFrame
      BY <3>1, TivaAssumption
    <3>3. /\ txObj' = Front(TxBuffer)
          /\ txInt' = FALSE
          /\ TxBuffer' = Pop(TxBuffer)
          /\ UNCHANGED <<TxPending, rxObj, rxInt, RxBuffer, sawFree>>
      BY <1>5, <2>1 DEF TxInterrupt
    <3>4. TxPending
      BY <2>1
    <3> QED
      BY <3>1, <3>2, <3>3, <3>4
  <2>2. CASE TxBuffer.Count = 0
    BY <1>5, <2>2 DEF TxInterrupt
  <2> QED
    BY <2>1, <2>2
<1>6. CASE FrameSent
  BY <1>6 DEF FrameSent
<1>7. ASSUME NEW f \in Frame, SendMessage(f)
      PROVE  IInv'
  BY <1>7, WriteInductive DEF SendMessage
<1>8. ASSUME NEW f \in Frame, DirectWrite(f)
      PROVE  IInv'
  BY <1>8, WriteInductive DEF DirectWrite
<1>9. ASSUME NEW f \in Frame, FrameArrives(f)
      PROVE  IInv'
  BY <1>9 DEF FrameArrives
<1>10. CASE UNCHANGED vars
  BY <1>10 DEF vars
<1> QED
  BY <1>1, <1>2, <1>3, <1>4, <1>5, <1>6, <1>7, <1>8, <1>9, <1>10 DEF Next

\* The inductive invariant holds in every reachable state.
THEOREM Inductive == Spec => []IInv
BY InitInductive, NextInductive, PTL DEF Spec

\* The driver's variables keep their types, for a ring of any size.
THEOREM TypeCorrect == Spec => []TypeOK
<1>1. IInv => TypeOK
  BY DEF IInv
<1> QED
  BY <1>1, Inductive, PTL

\* The indices of the rings agree with their counts, no frame is left behind
\* in the ring, and an idle driver has nothing under way.
THEOREM DriverInOrder == Spec => []DriverInv
<1>1. IInv => DriverInv
  BY DEF IInv
<1> QED
  BY <1>1, Inductive, PTL

\* What can_check_free_buffer() said stays true until the next frame is sent:
\* the result of can_send_message() may be ignored.
THEOREM FreeIsStable == Spec => []FreeStaysFree
<1>1. IInv => FreeStaysFree
  BY DEF IInv
<1> QED
  BY <1>1, Inductive, PTL

-----------------------------------------------------------------------------
(* The driver implements a pair of bounded queues                          *)

\* What is not yet sent is a sequence, longer by one than the ring at most.
LEMMA UnsentType ==
  ASSUME IInv
  PROVE  /\ Contents(TxBuffer) \in Seq(Frame)
         /\ Len(Contents(TxBuffer)) = TxBuffer.Count
         /\ txObj # NoFrame => <<txObj>> \in Seq(Frame) /\ Unsent = <<txObj>> \o Contents(TxBuffer)
         /\ txObj = NoFrame => Unsent = Contents(TxBuffer)
<1>1. /\ Contents(TxBuffer) \in Seq(Frame)
      /\ Len(Contents(TxBuffer)) = TxBuffer.Count
  BY ContentsType DEF IInv, TypeOK, DriverInv
<1>2. CASE txObj # NoFrame
  BY <1>1, <1>2 DEF Unsent, IInv, TypeOK
<1>3. CASE txObj = NoFrame
  BY <1>1, <1>3, ConcatEmptySeq DEF Unsent
<1> QED
  BY <1>1, <1>2, <1>3

\* Taking the first frame off gives back what follows it.
LEMMA TailOfConcat ==
  ASSUME NEW f \in Frame, NEW s \in Seq(Frame)
  PROVE  /\ <<f>> \o s \in Seq(Frame)
         /\ <<f>> \o s # <<>>
         /\ Len(<<f>> \o s) = Len(s) + 1
         /\ Tail(<<f>> \o s) = s
<1> DEFINE t == <<f>> \o s
<1>1. /\ <<f>> \in Seq(Frame)
      /\ Len(<<f>>) = 1
      /\ Len(s) \in Nat
  BY LenProperties
<1>2. /\ t \in Seq(Frame)
      /\ Len(t) = 1 + Len(s)
      /\ \A i \in 1 .. 1 + Len(s) : t[i] = IF i <= 1 THEN <<f>>[i] ELSE s[i - 1]
  BY <1>1, ConcatProperties
<1> HIDE DEF t
<1>3. t # <<>>
  BY <1>1, <1>2
<1>4. /\ Tail(t) \in Seq(Frame)
      /\ Len(Tail(t)) = Len(s)
      /\ \A i \in 1 .. Len(s) : Tail(t)[i] = t[i + 1]
  BY <1>1, <1>2, <1>3, HeadTailProperties
<1>5. ASSUME NEW i \in 1 .. Len(s)
      PROVE  Tail(t)[i] = s[i]
  <2>1. /\ i + 1 \in 1 .. 1 + Len(s)
        /\ ~(i + 1 <= 1)
        /\ (i + 1) - 1 = i
    BY <1>1
  <2> QED
    BY <2>1, <1>2, <1>4
<1>6. Tail(t) = s
  BY <1>4, <1>5, SeqEqual
<1> QED
  BY <1>1, <1>2, <1>3, <1>6 DEF t

\* Writing a frame accepts it, or drops it when the ring is full.
LEMMA WriteImplements ==
  ASSUME IInv, NEW f \in Frame, write(f), UNCHANGED RxBuffer
  PROVE  Channel!Accept(f) \/ UNCHANGED Channel!chan
<1> USE DEF IInv, TypeOK, DriverInv
<1>0. /\ UNCHANGED Contents(RxBuffer)
      /\ TxBuffer.Count \in 0 .. SIZE
  BY DEF RingBuffer
<1>1. CASE ~TxPending
  <2>1. /\ Unsent = Contents(TxBuffer)
        /\ Contents(TxBuffer) \in Seq(Frame)
        /\ Len(Contents(TxBuffer)) = 0
    BY <1>1, UnsentType
  <2>2. Unsent = <<>>
    BY <2>1, EmptySeq
  <2>3. Unsent' = <<f>>
    <3>1. /\ txObj' = f
          /\ UNCHANGED TxBuffer
          /\ f # NoFrame
      BY <1>1, TivaAssumption DEF write
    <3>2. Unsent' = <<f>> \o Contents(TxBuffer)
      BY <3>1 DEF Unsent
    <3> QED
      BY <3>2, <2>1, <2>2, ConcatEmptySeq
  <2>4. Append(<<>>, f) = <<f>>
    OBVIOUS
  <2>5. Len(Unsent) <= SIZE
    BY <2>1, TivaAssumption
  <2> QED
    BY <2>2, <2>3, <2>4, <2>5, <1>0 DEF Channel!Accept
<1>2. CASE TxPending /\ TxBuffer.Count < SIZE
  <2>1. /\ TxBuffer' = Push(TxBuffer, f)
        /\ UNCHANGED txObj
    <3>1. TxBuffer.Count # SIZE
      BY <1>0, <1>2, TivaAssumption
    <3> QED
      BY <3>1, <1>2 DEF write
  <2>2. Contents(TxBuffer)' = Append(Contents(TxBuffer), f)
    BY <1>2, <2>1, PushContents
  <2>3. /\ Contents(TxBuffer) \in Seq(Frame)
        /\ Len(Contents(TxBuffer)) = TxBuffer.Count
    BY UnsentType
  <2>4. CASE txObj = NoFrame
    <3>1. /\ Unsent = Contents(TxBuffer)
          /\ Unsent' = Append(Contents(TxBuffer), f)
      <4>1. Append(Contents(TxBuffer), f) \in Seq(Frame)
        BY <2>3, AppendProperties
      <4> QED
        BY <4>1, <2>1, <2>2, <2>3, <2>4, ConcatEmptySeq, UnsentType DEF Unsent
    <3> QED
      BY <3>1, <2>3, <1>0, <1>2, TivaAssumption DEF Channel!Accept
  <2>5. CASE txObj # NoFrame
    <3>1. /\ txObj \in Frame
          /\ <<txObj>> \in Seq(Frame)
          /\ <<f>> \in Seq(Frame)
      BY <2>5
    <3>2. /\ Unsent = <<txObj>> \o Contents(TxBuffer)
          /\ Unsent' = <<txObj>> \o Append(Contents(TxBuffer), f)
      BY <2>1, <2>2, <2>5 DEF Unsent
    <3>3. /\ Unsent \in Seq(Frame)
          /\ Len(Unsent) = TxBuffer.Count + 1
      BY <3>1, <3>2, <2>3, TailOfConcat
    <3>4. /\ Append(Contents(TxBuffer), f) = Contents(TxBuffer) \o <<f>>
          /\ Append(Unsent, f) = Unsent \o <<f>>
      BY <2>3, <3>3, AppendIsConcat
    <3>5. Unsent' = Append(Unsent, f)
      BY <3>1, <3>2, <3>4, <2>3, ConcatAssociative
    <3>6. Len(Unsent) <= SIZE
      BY <3>3, <1>0, <1>2, TivaAssumption
    <3> QED
      BY <3>5, <3>6, <1>0 DEF Channel!Accept
  <2> QED
    BY <2>4, <2>5
<1>3. CASE TxPending /\ ~(TxBuffer.Count < SIZE)
  <2>1. UNCHANGED <<txObj, TxBuffer>>
    BY <1>0, <1>3 DEF write
  <2> QED
    BY <2>1, <1>0 DEF Channel!chan, Unsent
<1> QED
  BY <1>1, <1>2, <1>3

\* Every step of the driver is a step of the channel, or changes nothing of it.
LEMMA StepImplements ==
  ASSUME IInv, [Next]_vars
  PROVE  [Channel!Next]_(Channel!chan)
<1> USE DEF IInv, TypeOK, DriverInv
<1>1. CASE CheckFreeBuffer
  BY <1>1 DEF CheckFreeBuffer, Channel!chan, Unsent
<1>2. CASE GetMessage
  <2>1. /\ Contents(RxBuffer) # <<>>
        /\ Contents(RxBuffer)' = Tail(Contents(RxBuffer))
    BY <1>2, PopContents DEF GetMessage
  <2>2. UNCHANGED Unsent
    BY <1>2 DEF GetMessage, Unsent
  <2> QED
    BY <2>1, <2>2 DEF Channel!Next, Channel!Take
<1>3. CASE ErrorWarning
  <2>1. Contents(TxBuffer)' = <<>>
    BY <1>3, ClearedType, ClearedContents DEF ErrorWarning
  <2>2. Unsent' = <<>>
    BY <1>3, <2>1, ConcatEmptySeq, EmptySeq DEF ErrorWarning, Unsent
  <2>3. UNCHANGED Contents(RxBuffer)
    BY <1>3 DEF ErrorWarning
  <2> QED
    BY <2>2, <2>3 DEF Channel!Next, Channel!Flush
<1>4. CASE RxInterrupt
  <2>1. UNCHANGED Unsent
    BY <1>4 DEF RxInterrupt, Unsent
  <2>2. CASE RxBuffer.Count < SIZE
    <3>1. /\ rxObj \in Frame
          /\ Contents(RxBuffer)' = Append(Contents(RxBuffer), rxObj)
          /\ Len(Contents(RxBuffer)) < SIZE
      BY <1>4, <2>2, PushContents, ContentsType DEF RxInterrupt
    <3> QED
      BY <3>1, <2>1 DEF Channel!Next, Channel!Arrive
  <2>3. CASE ~(RxBuffer.Count < SIZE)
    <3>1. UNCHANGED Contents(RxBuffer)
      BY <1>4, <2>3 DEF RxInterrupt
    <3> QED
      BY <3>1, <2>1 DEF Channel!chan
  <2> QED
    BY <2>2, <2>3
<1>5. CASE TxInterrupt
  <2>1. txObj = NoFrame
    BY <1>5 DEF TxInterrupt
  <2>2. UNCHANGED Contents(RxBuffer)
    BY <1>5 DEF TxInterrupt
  <2>3. CASE TxBuffer.Count # 0
    <3>1. /\ Front(TxBuffer) \in Frame
          /\ Contents(TxBuffer) # <<>>
          /\ Front(TxBuffer) = Head(Contents(TxBuffer))
          /\ Contents(TxBuffer)' = Tail(Contents(TxBuffer))
      BY <1>5, <2>3, PopContents DEF TxInterrupt
    <3>2. Unsent' = <<Head(Contents(TxBuffer))>> \o Tail(Contents(TxBuffer))
      BY <3>1, <1>5, <2>3, TivaAssumption DEF TxInterrupt, Unsent
    <3>3. Unsent = <<Head(Contents(TxBuffer))>> \o Tail(Contents(TxBuffer))
      <4> DEFINE s == Contents(TxBuffer)
      <4>1. /\ s \in Seq(Frame)
            /\ Unsent = s
        BY <2>1, UnsentType
      <4> HIDE DEF s
      <4>2. /\ Head(s) \in Frame
            /\ Tail(s) \in Seq(Frame)
            /\ Len(Tail(s)) = Len(s) - 1
            /\ \A i \in 1 .. Len(s) - 1 : Tail(s)[i] = s[i + 1]
            /\ Len(s) \in Nat \ {0}
        BY <3>1, <4>1, HeadTailProperties, EmptySeq DEF s
      <4> DEFINE t == <<Head(s)>> \o Tail(s)
      <4>3. /\ t \in Seq(Frame)
            /\ Len(t) = Len(s)
            /\ \A i \in 1 .. Len(s) : t[i] = IF i <= 1 THEN <<Head(s)>>[i] ELSE Tail(s)[i - 1]
        <5>1. /\ <<Head(s)>> \in Seq(Frame)
              /\ Len(<<Head(s)>>) = 1
          BY <4>2
        <5> QED
          BY <5>1, <4>2, ConcatProperties
      <4> HIDE DEF t
      <4>4. ASSUME NEW i \in 1 .. Len(s)
            PROVE  s[i] = t[i]
        <5>1. CASE i = 1
          <6>1. Head(s) = s[1]
            BY <4>1, <4>2
          <6> QED
            BY <5>1, <6>1, <4>2, <4>3
        <5>2. CASE i # 1
          <6>1. /\ i - 1 \in 1 .. Len(s) - 1
                /\ (i - 1) + 1 = i
                /\ ~(i <= 1)
            BY <5>2, <4>2
          <6> QED
            BY <6>1, <4>2, <4>3
        <5> QED
          BY <5>1, <5>2
      <4>5. s = t
        BY <4>1, <4>3, <4>4, SeqEqual
      <4> QED
        BY <4>1, <4>5 DEF s, t
    <3> QED
      BY <3>2, <3>3, <2>2 DEF Channel!chan
  <2>4. CASE TxBuffer.Count = 0
    BY <1>5, <2>2, <2>4 DEF TxInterrupt, Unsent, Channel!chan
  <2> QED
    BY <2>3, <2>4
<1>6. CASE FrameSent
  <2>1. /\ Contents(TxBuffer) \in Seq(Frame)
        /\ txObj \in Frame
        /\ Unsent = <<txObj>> \o Contents(TxBuffer)
    BY <1>6, UnsentType DEF FrameSent
  <2>2. /\ UNCHANGED Contents(TxBuffer)
        /\ UNCHANGED Contents(RxBuffer)
        /\ txObj' = NoFrame
    BY <1>6 DEF FrameSent
  <2>3. Unsent' = Contents(TxBuffer)
    BY <2>1, <2>2, ConcatEmptySeq DEF Unsent
  <2>4. /\ Unsent # <<>>
        /\ Unsent' = Tail(Unsent)
    BY <2>1, <2>3, TailOfConcat
  <2> QED
    BY <2>2, <2>4 DEF Channel!Next, Channel!Transmit
<1>7. ASSUME NEW f \in Frame, SendMessage(f)
      PROVE  Channel!Next \/ UNCHANGED Channel!chan
  BY <1>7, WriteImplements DEF SendMessage, Channel!Next
<1>8. ASSUME NEW f \in Frame, DirectWrite(f)
      PROVE  Channel!Next \/ UNCHANGED Channel!chan
  BY <1>8, WriteImplements DEF DirectWrite, Channel!Next
<1>9. ASSUME NEW f \in Frame, FrameArrives(f)
      PROVE  UNCHANGED Channel!chan
  BY <1>9 DEF FrameArrives, Unsent, Channel!chan
<1>10. CASE UNCHANGED vars
  BY <1>10 DEF vars, Unsent, Channel!chan
<1> QED
  BY <1>1, <1>2, <1>3, <1>4, <1>5, <1>6, <1>7, <1>8, <1>9, <1>10 DEF Next

\* The driver implements the pair of bounded queues: frames leave in the order
\* they were accepted, each once, and are handed over in the order they came.
THEOREM DriverImplementsChannel == Spec => ImplementsChannel
<1>1. Init => Channel!Init
  <2> SUFFICES ASSUME Init PROVE Channel!Init
    OBVIOUS
  <2>1. IInv
    BY InitInductive
  <2>2. /\ Contents(TxBuffer) = <<>>
        /\ Contents(RxBuffer) = <<>>
    BY <2>1, ClearedContents DEF Init, EmptyRing, IInv, TypeOK
  <2>3. Unsent = <<>>
    BY <2>1, <2>2, UnsentType DEF Init
  <2> QED
    BY <2>2, <2>3 DEF Channel!Init
<1>2. IInv /\ [Next]_vars => [Channel!Next]_(Channel!chan)
  BY StepImplements
<1> QED
  BY <1>1, <1>2, Inductive, PTL DEF Spec, ImplementsChannel, Channel!Spec
=============================================================================
