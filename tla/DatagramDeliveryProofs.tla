----------------------- MODULE DatagramDeliveryProofs -----------------------
(***************************************************************************)
(* Proofs about what becomes of a datagram on its way, for any nodes,      *)
(* datagrams and lengths: who answers it, what its receiver hands to the   *)
(* callback, and that the whole is a mailbox.                              *)
(***************************************************************************)
EXTENDS DatagramProofs

-----------------------------------------------------------------------------
(* Frames under way                                                        *)

IsSegment(f) == f.kind \in SegmentKind
IsReply(f) == f.kind \in {"Ack", "Reject"}
Announces(f) == f.kind = "AMD"

\* What is known of two frames when f is ahead of g.
Before(f, g) ==
  f.src[1] = g.src[1] =>
    /\ IsSegment(f) /\ IsSegment(g) => f.part[3] < g.part[3]
    /\ Announces(f) /\ IsSegment(g) => f.src = g.src
    /\ IsReply(f) /\ IsReply(g) => f.dst[1] # g.dst[1]

Sorted(q) == \A i, j \in DOMAIN q : i < j => Before(q[i], q[j])

Order(R, T) ==
  /\ \A n \in Node : Sorted(R[n]) /\ Sorted(T[n])
  /\ \A m, r \in Node : \A f \in ToSet(R[r]), g \in ToSet(T[m]) : Before(f, g)

\* Segments for r and announcements of aliases, from m.
Way(m, r) ==
  {f \in ToSet(rxq[r]) \cup ToSet(txq[m]) :
     /\ f.src[1] = m
     /\ IsSegment(f) => f.dst[1] = r
     /\ IsSegment(f) \/ Announces(f)}

Segments(m, r) == {f \in Way(m, r) : IsSegment(f)}

\* Replies to m.
Replies(m) ==
  {f \in ToSet(rxq[m]) \cup UNION {ToSet(txq[x]) : x \in Node} : IsReply(f) /\ f.dst[1] = m}

LEMMA Kinds ==
  ASSUME NEW f
  PROVE  /\ IsSegment(f) => ~IsReply(f) /\ ~Announces(f) /\ f.kind # "AMR"
         /\ IsReply(f) => ~Announces(f) /\ f.kind # "AMR"
BY DEF IsSegment, IsReply, Announces, SegmentKind

LEMMA SetOfAppend ==
  ASSUME NEW S, NEW q \in Seq(S), NEW f
  PROVE  ToSet(Append(q, f)) = ToSet(q) \cup {f}
<1> DEFINE p == Append(q, f)
<1>1. /\ DOMAIN q = 1 .. Len(q) /\ DOMAIN p = 1 .. Len(q) + 1 /\ Len(q) \in Nat
      /\ \A i \in 1 .. Len(q) : p[i] = q[i]
      /\ p[Len(q) + 1] = f
  OBVIOUS
<1> HIDE DEF p
<1>2. \A i \in DOMAIN p : p[i] \in ToSet(q) \cup {f}
  BY <1>1 DEF ToSet
<1>3. \A i \in DOMAIN q : q[i] \in ToSet(p)
  BY <1>1 DEF ToSet
<1>4. f \in ToSet(p)
  BY <1>1 DEF ToSet
<1>5. ToSet(p) \subseteq ToSet(q) \cup {f}
  BY <1>2 DEF ToSet
<1>6. ToSet(q) \subseteq ToSet(p)
  BY <1>3 DEF ToSet
<1> QED
  BY <1>4, <1>5, <1>6 DEF p

LEMMA SetOfTail ==
  ASSUME NEW S, NEW q \in Seq(S), q # <<>>
  PROVE  ToSet(q) = ToSet(Tail(q)) \cup {Head(q)}
<1> DEFINE p == Tail(q)
<1>1. /\ DOMAIN q = 1 .. Len(q) /\ DOMAIN p = 1 .. Len(q) - 1 /\ Len(q) \in Nat
      /\ Len(q) > 0
      /\ \A i \in 1 .. Len(q) - 1 : p[i] = q[i + 1]
      /\ q[1] = Head(q)
  OBVIOUS
<1> HIDE DEF p
<1>2. ASSUME NEW i \in DOMAIN q PROVE q[i] \in ToSet(p) \cup {Head(q)}
  <2>1. CASE i = 1
    BY <1>1, <2>1
  <2>2. CASE i # 1
    <3>1. i - 1 \in DOMAIN p /\ p[i - 1] = q[i]
      BY <1>1, <2>2
    <3> QED
      BY <3>1 DEF ToSet
  <2> QED
    BY <2>1, <2>2
<1>3. \A i \in DOMAIN p : p[i] \in ToSet(q)
  BY <1>1 DEF ToSet
<1>4. Head(q) \in ToSet(q)
  BY <1>1 DEF ToSet
<1>5. ToSet(q) \subseteq ToSet(p) \cup {Head(q)}
  BY <1>2 DEF ToSet
<1>6. ToSet(p) \subseteq ToSet(q)
  BY <1>3 DEF ToSet
<1> QED
  BY <1>4, <1>5, <1>6 DEF p

LEMMA SetOfEmpty == ToSet(<<>>) = {}
BY DEF ToSet

LEMMA SortedAppend ==
  ASSUME NEW S, NEW q \in Seq(S), NEW f, Sorted(q), \A g \in ToSet(q) : Before(g, f)
  PROVE  Sorted(Append(q, f))
<1> DEFINE p == Append(q, f)
<1>1. /\ DOMAIN q = 1 .. Len(q) /\ DOMAIN p = 1 .. Len(q) + 1 /\ Len(q) \in Nat
      /\ \A i \in 1 .. Len(q) : p[i] = q[i]
      /\ p[Len(q) + 1] = f
  OBVIOUS
<1> HIDE DEF p
<1>2. \A i \in DOMAIN q : Before(q[i], f)
  BY DEF ToSet
<1>3. ASSUME NEW i \in DOMAIN p, NEW j \in DOMAIN p, i < j
      PROVE  Before(p[i], p[j])
  <2>1. i \in DOMAIN q /\ p[i] = q[i]
    BY <1>1, <1>3
  <2>2. CASE j = Len(q) + 1
    BY <1>1, <1>2, <2>1, <2>2
  <2>3. CASE j # Len(q) + 1
    <3>1. j \in DOMAIN q /\ p[j] = q[j]
      BY <1>1, <2>3
    <3> QED
      BY <1>3, <2>1, <3>1 DEF Sorted
  <2> QED
    BY <2>2, <2>3
<1> QED
  BY <1>3 DEF Sorted, p

LEMMA SortedTail ==
  ASSUME NEW S, NEW q \in Seq(S), q # <<>>, Sorted(q)
  PROVE  Sorted(Tail(q)) /\ \A g \in ToSet(Tail(q)) : Before(Head(q), g)
<1> DEFINE p == Tail(q)
<1>1. /\ DOMAIN q = 1 .. Len(q) /\ DOMAIN p = 1 .. Len(q) - 1 /\ Len(q) \in Nat
      /\ Len(q) > 0
      /\ \A i \in 1 .. Len(q) - 1 : p[i] = q[i + 1]
      /\ q[1] = Head(q)
  OBVIOUS
<1> HIDE DEF p
<1>2. ASSUME NEW i \in DOMAIN p, NEW j \in DOMAIN p, i < j
      PROVE  Before(p[i], p[j])
  <2>1. i + 1 \in DOMAIN q /\ j + 1 \in DOMAIN q /\ i + 1 < j + 1
    BY <1>1, <1>2
  <2>2. p[i] = q[i + 1] /\ p[j] = q[j + 1]
    BY <1>1
  <2> QED
    BY <2>1, <2>2 DEF Sorted
<1>3. ASSUME NEW i \in DOMAIN p PROVE Before(Head(q), p[i])
  <2>1. 1 \in DOMAIN q /\ i + 1 \in DOMAIN q /\ 1 < i + 1 /\ p[i] = q[i + 1]
    BY <1>1
  <2> QED
    BY <1>1, <2>1 DEF Sorted
<1>4. \A g \in ToSet(p) : Before(Head(q), g)
  BY <1>3 DEF ToSet
<1> QED
  BY <1>2, <1>4 DEF Sorted, p

LEMMA SortedEmpty == Sorted(<<>>)
BY DEF Sorted

LEMMA OrderRead ==
  ASSUME NEW R \in [Node -> Seq(Frame)], NEW T, NEW n \in Node, R[n] # <<>>, Order(R, T)
  PROVE  Order([R EXCEPT ![n] = Tail(@)], T)
<1> DEFINE R2 == [R EXCEPT ![n] = Tail(@)]
<1>1. ASSUME NEW r \in Node
      PROVE  Sorted(R2[r]) /\ ToSet(R2[r]) \subseteq ToSet(R[r])
  <2>1. CASE r = n
    <3>1. R2[r] = Tail(R[n]) /\ R[n] \in Seq(Frame) /\ Sorted(R[n])
      BY <2>1 DEF Order
    <3> HIDE DEF R2
    <3>2. Sorted(Tail(R[n])) /\ ToSet(R[n]) = ToSet(Tail(R[n])) \cup {Head(R[n])}
      BY <3>1, SortedTail, SetOfTail
    <3> QED
      BY <2>1, <3>1, <3>2
  <2>2. CASE r # n
    BY <2>2 DEF Order
  <2> QED
    BY <2>1, <2>2
<1> HIDE DEF R2
<1> QED
  BY <1>1 DEF Order, R2

LEMMA OrderSend ==
  ASSUME NEW R, NEW T \in [Node -> Seq(Frame)], NEW n \in Node, NEW f,
         \A g \in ToSet(T[n]) : Before(g, f),
         \A r \in Node : \A g \in ToSet(R[r]) : Before(g, f),
         Order(R, T)
  PROVE  Order(R, [T EXCEPT ![n] = Append(@, f)])
<1> DEFINE T2 == [T EXCEPT ![n] = Append(@, f)]
<1>1. ASSUME NEW m \in Node
      PROVE  Sorted(T2[m]) /\ ToSet(T2[m]) \subseteq ToSet(T[m]) \cup {f}
  <2>1. CASE m = n
    <3>1. T2[m] = Append(T[n], f) /\ T[n] \in Seq(Frame) /\ Sorted(T[n])
      BY <2>1 DEF Order
    <3> HIDE DEF T2
    <3>2. Sorted(Append(T[n], f)) /\ ToSet(Append(T[n], f)) = ToSet(T[n]) \cup {f}
      BY <3>1, SortedAppend, SetOfAppend
    <3> QED
      BY <2>1, <3>1, <3>2
  <2>2. CASE m # n
    BY <2>2 DEF Order
  <2> QED
    BY <2>1, <2>2
<1> HIDE DEF T2
<1> QED
  BY <1>1 DEF Order, T2

LEMMA OrderClear ==
  ASSUME NEW R \in [Node -> Seq(Frame)], NEW T \in [Node -> Seq(Frame)], NEW n \in Node,
         Order(R, T)
  PROVE  Order([R EXCEPT ![n] = <<>>], [T EXCEPT ![n] = <<>>])
<1> DEFINE R2 == [R EXCEPT ![n] = <<>>]
           T2 == [T EXCEPT ![n] = <<>>]
<1>1. ASSUME NEW m \in Node
      PROVE  /\ R2[m] = R[m] \/ R2[m] = <<>>
             /\ T2[m] = T[m] \/ T2[m] = <<>>
  OBVIOUS
<1> HIDE DEF R2, T2
<1> QED
  BY <1>1, SortedEmpty, SetOfEmpty DEF Order, R2, T2

\* A node's frame goes out, to some of the others.
LEMMA OrderTransmit ==
  ASSUME NEW R \in [Node -> Seq(Frame)], NEW T \in [Node -> Seq(Frame)], NEW n \in Node,
         T[n] # <<>>, Order(R, T),
         \A m \in Node : \A g \in ToSet(T[m]) : g.src[1] = m,
         NEW R2, \A x \in Node : R2[x] = R[x] \/ R2[x] = Append(R[x], Head(T[n]))
  PROVE  Order(R2, [T EXCEPT ![n] = Tail(@)])
<1> DEFINE T2 == [T EXCEPT ![n] = Tail(@)]
           f == Head(T[n])
<1>1. /\ T[n] \in Seq(Frame) /\ Sorted(T[n])
      /\ ToSet(T[n]) = ToSet(Tail(T[n])) \cup {f}
      /\ Sorted(Tail(T[n]))
      /\ \A g \in ToSet(Tail(T[n])) : Before(f, g)
  <2>1. T[n] \in Seq(Frame) /\ Sorted(T[n])
    BY DEF Order
  <2> QED
    BY <2>1, SortedTail, SetOfTail
<1>2. T2[n] = Tail(T[n]) /\ \A m \in Node \ {n} : T2[m] = T[m]
  OBVIOUS
<1> HIDE DEF T2, f
<1>3. ASSUME NEW r \in Node
      PROVE  Sorted(R2[r]) /\ ToSet(R2[r]) \subseteq ToSet(R[r]) \cup {f}
  <2>1. CASE R2[r] = R[r]
    BY <2>1 DEF Order
  <2>2. CASE R2[r] = Append(R[r], f)
    <3>1. R[r] \in Seq(Frame) /\ Sorted(R[r]) /\ \A g \in ToSet(R[r]) : Before(g, f)
      BY <1>1 DEF Order
    <3>2. Sorted(Append(R[r], f)) /\ ToSet(Append(R[r], f)) = ToSet(R[r]) \cup {f}
      BY <3>1, SortedAppend, SetOfAppend
    <3> QED
      BY <2>2, <3>2
  <2> QED
    BY <2>1, <2>2 DEF f
<1>4. ASSUME NEW m \in Node
      PROVE  /\ Sorted(T2[m]) /\ ToSet(T2[m]) \subseteq ToSet(T[m])
             /\ \A g \in ToSet(T2[m]) : Before(f, g)
  <2>1. CASE m = n
    BY <1>1, <1>2, <2>1
  <2>2. CASE m # n
    <3>1. f.src[1] = n
      BY <1>1
    <3>2. \A g \in ToSet(T[m]) : g.src[1] = m
      OBVIOUS
    <3>3. Sorted(T[m])
      BY DEF Order
    <3> QED
      BY <1>2, <2>2, <3>1, <3>2, <3>3 DEF Before
  <2> QED
    BY <2>1, <2>2
<1>5. ASSUME NEW m \in Node, NEW r \in Node, NEW e \in ToSet(R2[r]), NEW g \in ToSet(T2[m])
      PROVE  Before(e, g)
  <2>1. CASE e = f
    BY <1>4, <2>1
  <2>2. CASE e \in ToSet(R[r])
    BY <1>4, <2>2 DEF Order
  <2> QED
    BY <1>3, <2>1, <2>2
<1>6. Order(R2, T2)
  BY <1>3, <1>4, <1>5 DEF Order
<1> QED
  BY <1>6 DEF T2

-----------------------------------------------------------------------------
(* The sender's buffer, its segments under way, and the replies            *)

Total(m) == Size[letter[m].says]

Sent(m) == Total(m) - sendcount[m]

\* A datagram that is posted keeps the buffer reserved, and a reserved
\* buffer has been filled with something that is to be posted.
SenderOK(m) ==
  /\ letter[m] # Nothing => <<m, letter[m].to[1], letter[m].says>> \in Posts
  /\ reservedXmt[m] => letter[m] # Nothing
  /\ ~reservedXmt[m] => sendcount[m] = 0
  /\ m \notin Fickle => link[m] # "off"

\* Segments of m that are under way to r were sent under one alias, and none
\* is when m's link layer has claimed another and is not yet up. Whatever
\* else announces an alias of m then, it is the present one.
AliasOK(m, r) ==
  /\ \A f, g \in Segments(m, r) : f.src = g.src
  /\ link[m] = "claiming" => \A f \in Segments(m, r) : f.src[2] < changes[m]
  /\ link[m] \in {"assigned", "permitted", "unannounced"} => Segments(m, r) = {}
  /\ link[m] \notin {"off", "claiming"} => \A f \in Way(m, r) : f.src = getAlias(m)

\* A segment under way is of the datagram in its sender's buffer.
SegmentOK(m, r) ==
  \A f \in Segments(m, r) :
    /\ reservedXmt[m]
    /\ f.dst = letter[m].to
    /\ f.part = <<m, letter[m].says, f.part[3]>>
    /\ f.part[3] \in 1 .. Sent(m)
    /\ f.kind = KindOf(Total(m) - f.part[3] + 1, Total(m))

FlowOK(m, r) == AliasOK(m, r) /\ SegmentOK(m, r)

\* A reply under way answers the datagram in the buffer, which is sent and
\* received to the end.
ReplyOK(m) ==
  \A f \in Replies(m) :
    /\ reservedXmt[m]
    /\ sendcount[m] = 0
    /\ f.src = letter[m].to
    /\ \A r \in Node : Segments(m, r) = {}

Flow ==
  /\ Order(rxq, txq)
  /\ \A m \in Node : SenderOK(m) /\ ReplyOK(m)
  /\ \A m, r \in Node : FlowOK(m, r)

LEMMA Lengths ==
  ASSUME TypeInv, NEW m \in Node, letter[m] # Nothing
  PROVE  /\ letter[m].to \in Alias /\ letter[m].says \in Content
         /\ Total(m) \in Nat \ {0} /\ sendcount[m] \in Nat /\ sendcount[m] <= Total(m)
         /\ Sent(m) \in Nat /\ Sent(m) <= Total(m)
<1>1. letter[m].to \in Alias /\ letter[m].says \in Content /\ Total(m) \in Nat \ {0}
  BY LetterTyped DEF TypeInv, TypeOK, Total
<1>2. sendcount[m] \in Nat /\ sendcount[m] <= Total(m)
  BY DEF TypeInv, TypeOK, Total
<1> QED
  BY <1>1, <1>2 DEF Sent

\* The sender has done nothing, and something of what was under way is gone.
LEMMA Fewer ==
  ASSUME NEW m \in Node, NEW r \in Node, FlowOK(m, r),
         reservedXmt'[m] = reservedXmt[m], letter'[m] = letter[m],
         sendcount'[m] = sendcount[m], link'[m] = link[m], changes'[m] = changes[m],
         Way(m, r)' \subseteq Way(m, r)
  PROVE  FlowOK(m, r)'
<1>1. Total(m)' = Total(m) /\ Sent(m)' = Sent(m) /\ getAlias(m)' = getAlias(m)
  BY DEF Total, Sent, getAlias
<1>2. Segments(m, r)' = {f \in Way(m, r)' : IsSegment(f)} /\ Segments(m, r)' \subseteq Segments(m, r)
  BY DEF Segments
<1>3. AliasOK(m, r)'
  BY <1>1, <1>2 DEF AliasOK, FlowOK
<1>4. SegmentOK(m, r)'
  BY <1>1, <1>2 DEF SegmentOK, FlowOK
<1> QED
  BY <1>3, <1>4 DEF FlowOK

\* Nothing of a datagram is under way.
LEMMA NoSegments ==
  ASSUME NEW m \in Node, NEW r \in Node, AliasOK(m, r)', Segments(m, r)' = {}
  PROVE  FlowOK(m, r)'
BY DEF FlowOK, SegmentOK

\* The queue a frame was read from.
LEMMA ReadQueue ==
  ASSUME TypeInv, Order(rxq, txq), NEW n \in Node, rxq[n] # <<>>,
         rxq' = [rxq EXCEPT ![n] = Tail(@)]
  PROVE  /\ Order(rxq', txq)
         /\ ToSet(rxq[n]) = ToSet(rxq'[n]) \cup {Head(rxq[n])}
         /\ \A r \in Node \ {n} : rxq'[r] = rxq[r]
         /\ \A g \in ToSet(rxq'[n]) : Before(Head(rxq[n]), g)
         /\ \A m \in Node : \A g \in ToSet(txq[m]) : Before(Head(rxq[n]), g)
         /\ Head(rxq[n]) \in Incoming(n)
<1>1. rxq \in [Node -> Seq(Frame)] /\ rxq[n] \in Seq(Frame)
  BY DEF TypeInv, TypeOK
<1>2. rxq'[n] = Tail(rxq[n]) /\ \A r \in Node \ {n} : rxq'[r] = rxq[r]
  BY <1>1
<1>3. Order(rxq', txq)
  BY <1>1, OrderRead
<1>4. ToSet(rxq[n]) = ToSet(Tail(rxq[n])) \cup {Head(rxq[n])}
  BY <1>1, SetOfTail
<1>5. \A g \in ToSet(Tail(rxq[n])) : Before(Head(rxq[n]), g)
  <2>1. Sorted(rxq[n])
    BY DEF Order
  <2> QED
    BY <1>1, <2>1, SortedTail
<1>6. \A m \in Node : \A g \in ToSet(txq[m]) : Before(Head(rxq[n]), g)
  BY <1>4 DEF Order
<1>7. Head(rxq[n]) \in Incoming(n)
  BY HeadTyped
<1> QED
  BY <1>2, <1>3, <1>4, <1>5, <1>6, <1>7

\* The queue a frame was accepted into.
LEMMA SendQueue ==
  ASSUME TypeInv, NEW n \in Node, NEW e, txq' = [txq EXCEPT ![n] = Append(@, e)]
  PROVE  /\ ToSet(txq'[n]) = ToSet(txq[n]) \cup {e}
         /\ \A m \in Node \ {n} : txq'[m] = txq[m]
<1>1. txq \in [Node -> Seq(Frame)] /\ txq[n] \in Seq(Frame)
  BY DEF TypeInv, TypeOK
<1>2. txq'[n] = Append(txq[n], e)
  BY <1>1
<1> QED
  BY <1>1, <1>2, SetOfAppend

\* Who is where: frames in a driver's queues.
LEMMA Placed ==
  ASSUME TypeInv, NEW n \in Node
  PROVE  /\ \A g \in ToSet(txq[n]) : g \in Outgoing(n) /\ g.src[1] = n
         /\ \A g \in ToSet(rxq[n]) : /\ g \in Incoming(n)
                                     /\ g.src[1] # n
                                     /\ IsSegment(g) \/ IsReply(g) => g.dst[1] = n
<1>1. txq[n] \in Seq(Outgoing(n)) /\ rxq[n] \in Seq(Incoming(n))
  BY DEF TypeInv
<1>2. \A g \in ToSet(txq[n]) : g \in Outgoing(n)
  BY <1>1 DEF ToSet
<1>3. \A g \in ToSet(rxq[n]) : g \in Incoming(n)
  BY <1>1 DEF ToSet
<1>4. \A g : IsSegment(g) \/ IsReply(g) => g.kind \notin {"AMD", "AMR"}
  BY DEF IsSegment, IsReply, SegmentKind
<1> QED
  BY <1>2, <1>3, <1>4 DEF Outgoing, Incoming

\* Reading a frame, and perhaps replying, takes that frame off its way.
LEMMA ReadWay ==
  ASSUME TypeInv, Order(rxq, txq), NEW n \in Node, rxq[n] # <<>>,
         rxq' = [rxq EXCEPT ![n] = Tail(@)],
         \/ UNCHANGED txq
         \/ \E e : IsReply(e) /\ txq' = [txq EXCEPT ![n] = Append(@, e)],
         NEW m \in Node, NEW r \in Node
  PROVE  /\ Way(m, r)' \subseteq Way(m, r)
         /\ r # n => Way(m, r)' = Way(m, r)
         /\ r = n => Way(m, r) \subseteq Way(m, r)' \cup {Head(rxq[n])}
         /\ r = n => \A f \in Way(m, r)' : Before(Head(rxq[n]), f)
<1> DEFINE h == Head(rxq[n])
<1>1. /\ ToSet(rxq[n]) = ToSet(rxq'[n]) \cup {h}
      /\ \A x \in Node \ {n} : rxq'[x] = rxq[x]
      /\ \A g \in ToSet(rxq'[n]) : Before(h, g)
      /\ \A x \in Node : \A g \in ToSet(txq[x]) : Before(h, g)
  BY ReadQueue
<1> HIDE DEF h
<1>2. ASSUME NEW f, IsSegment(f) \/ Announces(f)
      PROVE  f \in ToSet(txq'[m]) <=> f \in ToSet(txq[m])
  <2>1. CASE UNCHANGED txq
    BY <2>1
  <2>2. ASSUME NEW e, IsReply(e), txq' = [txq EXCEPT ![n] = Append(@, e)]
        PROVE  f \in ToSet(txq'[m]) <=> f \in ToSet(txq[m])
    <3>1. ToSet(txq'[n]) = ToSet(txq[n]) \cup {e} /\ \A x \in Node \ {n} : txq'[x] = txq[x]
      BY <2>2, SendQueue
    <3>2. f # e
      BY <1>2, <2>2, Kinds
    <3> QED
      BY <3>1, <3>2
  <2> QED
    BY <2>1, <2>2
<1>3. Way(m, r) = {f \in ToSet(rxq[r]) \cup ToSet(txq[m]) :
                     f.src[1] = m /\ (IsSegment(f) => f.dst[1] = r)
                     /\ (IsSegment(f) \/ Announces(f))}
  BY DEF Way
<1>4. Way(m, r)' = {f \in ToSet(rxq'[r]) \cup ToSet(txq'[m]) :
                     f.src[1] = m /\ (IsSegment(f) => f.dst[1] = r)
                     /\ (IsSegment(f) \/ Announces(f))}
  BY DEF Way
<1>5. CASE r = n
  <2>1. Way(m, r)' \subseteq Way(m, r)
    BY <1>1, <1>2, <1>3, <1>4, <1>5
  <2>2. Way(m, r) \subseteq Way(m, r)' \cup {h}
    BY <1>1, <1>2, <1>3, <1>4, <1>5
  <2>3. ASSUME NEW f \in Way(m, r)' PROVE Before(h, f)
    <3>1. f \in ToSet(rxq'[n]) \/ f \in ToSet(txq[m])
      BY <1>2, <1>4, <1>5
    <3> QED
      BY <1>1, <3>1
  <2> QED
    BY <1>5, <2>1, <2>2, <2>3 DEF h
<1>6. CASE r # n
  <2>1. rxq'[r] = rxq[r]
    BY <1>1, <1>6
  <2>2. Way(m, r)' = Way(m, r)
    BY <1>2, <1>3, <1>4, <2>1
  <2> QED
    BY <1>6, <2>2
<1> QED
  BY <1>5, <1>6

LEMMA ReadFlow ==
  ASSUME TypeInv, Flow, NEW n \in Node, rxq[n] # <<>>,
         rxq' = [rxq EXCEPT ![n] = Tail(@)],
         \/ UNCHANGED txq
         \/ \E e : IsReply(e) /\ txq' = [txq EXCEPT ![n] = Append(@, e)],
         NEW m \in Node, NEW r \in Node,
         reservedXmt'[m] = reservedXmt[m], letter'[m] = letter[m],
         sendcount'[m] = sendcount[m], link'[m] = link[m], changes'[m] = changes[m]
  PROVE  FlowOK(m, r)'
<1>1. FlowOK(m, r) /\ Order(rxq, txq)
  BY DEF Flow
<1>2. Way(m, r)' \subseteq Way(m, r)
  BY <1>1, ReadWay
<1> QED
  BY <1>1, <1>2, Fewer

\* Segments for r are on the way there only.
LEMMA SegmentsShrink ==
  ASSUME NEW m, NEW r, Way(m, r)' \subseteq Way(m, r)
  PROVE  Segments(m, r)' \subseteq Segments(m, r)
BY DEF Segments

\* A frame is read and nothing done but with what is received.
LEMMA QuietFlow ==
  ASSUME TypeInv, Flow, NEW n \in Node, rxq[n] # <<>>,
         rxq' = [rxq EXCEPT ![n] = Tail(@)],
         UNCHANGED <<link, changes, txq, reservedXmt, letter, sendcount>>
  PROVE  Flow'
<1>1. Order(rxq, txq) /\ Order(rxq', txq')
  BY ReadQueue DEF Flow
<1>2. ASSUME NEW m \in Node, NEW r \in Node PROVE FlowOK(m, r)'
  BY ReadFlow
<1>3. ASSUME NEW m \in Node PROVE SenderOK(m)' /\ ReplyOK(m)'
  <2>1. SenderOK(m) /\ ReplyOK(m)
    BY DEF Flow
  <2>2. SenderOK(m)'
    BY <2>1 DEF SenderOK
  <2>3. ToSet(rxq'[m]) \subseteq ToSet(rxq[m])
    BY <1>1, ReadQueue
  <2>4. Replies(m)' \subseteq Replies(m)
    BY <2>3 DEF Replies
  <2>5. \A r \in Node : Segments(m, r)' \subseteq Segments(m, r)
    BY <1>1, ReadWay, SegmentsShrink
  <2>6. ReplyOK(m)'
    BY <2>1, <2>4, <2>5 DEF ReplyOK
  <2> QED
    BY <2>2, <2>6
<1> QED
  BY <1>1, <1>2, <1>3 DEF Flow

\* A segment that is read is of the datagram its sender has in the buffer,
\* and its later segments come after it.
LEMMA HeadSegment ==
  ASSUME TypeInv, Flow, NEW n \in Node, ReceiveSegment(n), NEW h, h = Head(rxq[n]),
         NEW m, m = h.src[1]
  PROVE  /\ m \in Node /\ m # n
         /\ h \in Segments(m, n)
         /\ reservedXmt[m] /\ letter[m] # Nothing
         /\ letter[m].to = getAlias(n) /\ letter[m].to[1] = n
         /\ h.dst = letter[m].to
         /\ h.part = <<m, letter[m].says, h.part[3]>>
         /\ h.part[3] \in 1 .. Sent(m)
         /\ h.kind = KindOf(Total(m) - h.part[3] + 1, Total(m))
         /\ \A g \in Segments(m, n) : g = h \/ h.part[3] < g.part[3]
<1>1. /\ rxq[n] # <<>> /\ link[n] = "up" /\ IsSegment(h) /\ h.dst = getAlias(n)
      /\ rxq' = [rxq EXCEPT ![n] = Tail(@)]
  BY DEF ReceiveSegment, GetFrame, IsForHere, IsSegment
<1>2. /\ ToSet(rxq[n]) = ToSet(rxq'[n]) \cup {h}
      /\ \A g \in ToSet(rxq'[n]) : Before(h, g)
      /\ \A x \in Node : \A g \in ToSet(txq[x]) : Before(h, g)
      /\ h \in Incoming(n)
  BY <1>1, ReadQueue DEF Flow
<1>3. h.src \in Alias
  BY <1>1, HeadTyped
<1>4. m \in Node
  BY <1>3 DEF Alias
<1>5. h \in ToSet(rxq[n]) /\ m # n /\ h.dst[1] = n
  BY <1>1, <1>2, Placed
<1>6. h \in Segments(m, n)
  BY <1>1, <1>5 DEF Segments, Way
<1>7. FlowOK(m, n) /\ SenderOK(m)
  BY <1>4 DEF Flow
<1>8. /\ reservedXmt[m] /\ letter[m] # Nothing
      /\ h.dst = letter[m].to
      /\ h.part = <<m, letter[m].says, h.part[3]>>
      /\ h.part[3] \in 1 .. Sent(m)
      /\ h.kind = KindOf(Total(m) - h.part[3] + 1, Total(m))
  BY <1>6, <1>7 DEF FlowOK, SegmentOK, SenderOK
<1>9. ASSUME NEW g \in Way(m, n) PROVE g = h \/ Before(h, g)
  BY <1>2, <1>4 DEF Way
<1>11. ASSUME NEW g \in Segments(m, n) PROVE g = h \/ h.part[3] < g.part[3]
  <2>1. g \in Way(m, n) /\ IsSegment(g) /\ g.src[1] = m
    BY DEF Segments, Way
  <2> QED
    BY <1>1, <1>9, <2>1 DEF Before
<1> QED
  BY <1>1, <1>4, <1>5, <1>6, <1>8, <1>11

LEMMA KindIs ==
  ASSUME NEW s \in Nat \ {0}, NEW k \in 1 .. s
  PROVE  /\ KindOf(k, s) \in SegmentKind
         /\ KindOf(k, s) \in {"Last", "All"} <=> k = 1
         /\ KindOf(k, s) \in {"First", "All"} <=> k = s
<1>1. CASE k = s /\ k = 1
  BY <1>1 DEF KindOf, SegmentKind
<1>2. CASE k = s /\ k > 1
  BY <1>2 DEF KindOf, SegmentKind
<1>3. CASE k < s /\ k > 1
  BY <1>3 DEF KindOf, SegmentKind
<1>4. CASE k < s /\ k = 1
  BY <1>4 DEF KindOf, SegmentKind
<1> QED
  BY <1>1, <1>2, <1>3, <1>4

\* A segment is the only one of its sender under way.
Alone(m, n, h) == \A r \in Node : \A g \in Segments(m, r) : r = n /\ g = h

\* The final segment is the only one left: the whole datagram is sent, and
\* all but this segment received.
LEMMA FinalSegment ==
  ASSUME TypeInv, Flow, NEW n \in Node, ReceiveSegment(n), NEW h, h = Head(rxq[n]),
         NEW m, m = h.src[1], Final(h)
  PROVE  /\ sendcount[m] = 0
         /\ h.part[3] = Total(m)
         /\ Alone(m, n, h)
<1>1. /\ m \in Node /\ h \in Segments(m, n) /\ letter[m] # Nothing
      /\ h.part[3] \in 1 .. Sent(m)
      /\ h.kind = KindOf(Total(m) - h.part[3] + 1, Total(m))
      /\ letter[m].to[1] = n
      /\ \A g \in Segments(m, n) : g = h \/ h.part[3] < g.part[3]
  BY HeadSegment
<1>2. /\ Total(m) \in Nat \ {0} /\ sendcount[m] \in Nat /\ sendcount[m] <= Total(m)
      /\ Sent(m) \in Nat /\ Sent(m) <= Total(m)
  BY <1>1, Lengths
<1>3. Total(m) - h.part[3] + 1 \in 1 .. Total(m)
  BY <1>1, <1>2
<1>4. Total(m) - h.part[3] + 1 = 1
  BY <1>1, <1>2, <1>3, KindIs DEF Final
<1>5. h.part[3] = Total(m) /\ sendcount[m] = 0
  BY <1>1, <1>2, <1>4 DEF Sent
<1>6. \A r \in Node : FlowOK(m, r)
  BY <1>1 DEF Flow
<1>7. \A g \in Segments(m, n) : g.part[3] \in 1 .. Sent(m)
  BY <1>6 DEF FlowOK, SegmentOK
<1>8. \A g \in Segments(m, n) : g = h
  BY <1>1, <1>2, <1>5, <1>7
<1>9. ASSUME NEW r \in Node \ {n}, NEW g \in Segments(m, r) PROVE FALSE
  <2>1. g.dst = letter[m].to /\ g.dst[1] = r
    BY <1>6 DEF FlowOK, SegmentOK, Segments, Way
  <2> QED
    BY <1>1, <2>1
<1> QED
  BY <1>5, <1>8, <1>9 DEF Alone

\* Nothing of m's datagram is under way.
Quiet(m) == \A r \in Node : Segments(m, r) = {}

\* The reply e to k is under way, and no other, nor any segment of k.
Answered(k, e) ==
  /\ Replies(k) = {} /\ Quiet(k)'
  /\ \A m \in Node : \A f \in Replies(m)' : f \in Replies(m) \/ (f = e /\ m = k)

\* The final segment of a datagram is answered.
LEMMA AnswerFlow ==
  ASSUME TypeInv, Flow, NEW n \in Node, ReceiveSegment(n), NEW h, h = Head(rxq[n]),
         NEW k, k = h.src[1], Final(h),
         NEW e, IsReply(e), e.src = getAlias(n), e.dst = h.src,
         txq' = [txq EXCEPT ![n] = Append(@, e)],
         UNCHANGED <<reservedXmt, letter, sendcount>>
  PROVE  Flow' /\ Answered(k, e)
<1>1. /\ rxq[n] # <<>> /\ link[n] = "up"
      /\ rxq' = [rxq EXCEPT ![n] = Tail(@)]
      /\ UNCHANGED <<link, changes>>
  BY DEF ReceiveSegment, GetFrame
<1>2. /\ k \in Node /\ k # n /\ h \in Segments(k, n) /\ reservedXmt[k]
      /\ letter[k].to = getAlias(n)
  BY HeadSegment
<1>3. /\ sendcount[k] = 0
      /\ h.part[3] = Total(k)
      /\ \A r \in Node : \A g \in Segments(k, r) : r = n /\ g = h
  <2>1. sendcount[k] = 0 /\ h.part[3] = Total(k) /\ Alone(k, n, h)
    BY FinalSegment
  <2> QED
    BY <2>1 DEF Alone
<1>4. /\ Order(rxq, txq) /\ Order(rxq', txq)
      /\ ToSet(rxq[n]) = ToSet(rxq'[n]) \cup {h}
      /\ \A r \in Node \ {n} : rxq'[r] = rxq[r]
      /\ \A g \in ToSet(rxq'[n]) : Before(h, g)
      /\ \A x \in Node : \A g \in ToSet(txq[x]) : Before(h, g)
  BY <1>1, ReadQueue DEF Flow
<1>5. ToSet(txq'[n]) = ToSet(txq[n]) \cup {e} /\ \A m \in Node \ {n} : txq'[m] = txq[m]
  BY SendQueue
<1>6. e.src[1] = n /\ e.dst[1] = k
  BY DEF getAlias
\* No other reply to k is under way: a segment of k was.
<1>7. Replies(k) = {}
  <2>1. ReplyOK(k)
    BY <1>2 DEF Flow
  <2> QED
    BY <1>2, <2>1 DEF ReplyOK
<1>8. ASSUME NEW g, IsReply(g), g.dst[1] = k,
             g \in ToSet(txq[n]) \/ \E r \in Node : g \in ToSet(rxq[r])
      PROVE  FALSE
  <2>1. CASE g \in ToSet(txq[n])
    BY <1>7, <1>8, <2>1 DEF Replies
  <2>2. ASSUME NEW r \in Node, g \in ToSet(rxq[r]) PROVE FALSE
    <3>1. r = k
      BY <1>8, <2>2, Placed
    <3> QED
      BY <1>7, <1>8, <2>2, <3>1 DEF Replies
  <2> QED
    BY <1>8, <2>1, <2>2
<1>9. Order(rxq', txq')
  <2>1. ASSUME NEW g, g \in ToSet(txq[n]) \/ \E r \in Node : g \in ToSet(rxq[r])
        PROVE  Before(g, e)
    <3>1. ~IsSegment(e) /\ ~Announces(e)
      BY Kinds
    <3>2. IsReply(g) => g.dst[1] # k
      BY <1>8, <2>1
    <3> QED
      BY <1>6, <3>1, <3>2 DEF Before
  <2>2. \A r \in Node : ToSet(rxq'[r]) \subseteq ToSet(rxq[r])
    BY <1>4
  <2>3. \A g \in ToSet(txq[n]) : Before(g, e)
    BY <2>1
  <2>4. \A r \in Node : \A g \in ToSet(rxq'[r]) : Before(g, e)
    BY <2>1, <2>2
  <2>5. txq \in [Node -> Seq(Frame)]
    BY DEF TypeInv, TypeOK
  <2> QED
    BY <1>4, <2>3, <2>4, <2>5, OrderSend
<1>10. ASSUME NEW m \in Node, NEW r \in Node PROVE FlowOK(m, r)'
  BY <1>1, ReadFlow
<1>11. ASSUME NEW m \in Node
       PROVE  /\ SenderOK(m)' /\ ReplyOK(m)'
              /\ \A f \in Replies(m)' : f \in Replies(m) \/ (f = e /\ m = k)
              /\ \A r \in Node : m = k => Segments(m, r)' = {}
  <2>1. SenderOK(m) /\ ReplyOK(m)
    BY DEF Flow
  <2>2. SenderOK(m)'
    BY <1>1, <2>1 DEF SenderOK
  <2>3. \A x \in Node : ToSet(rxq'[x]) \subseteq ToSet(rxq[x])
                        /\ ToSet(txq'[x]) \subseteq ToSet(txq[x]) \cup {e}
    BY <1>4, <1>5
  <2>4. ASSUME NEW f \in Replies(m)' PROVE f \in Replies(m) \/ (f = e /\ m = k)
    <3>1. /\ IsReply(f) /\ f.dst[1] = m
          /\ f \in ToSet(rxq'[m]) \/ \E x \in Node : f \in ToSet(txq'[x])
      BY DEF Replies
    <3>2. CASE f = e
      BY <1>6, <3>1, <3>2
    <3>3. CASE f # e
      <4>1. CASE f \in ToSet(rxq'[m])
        BY <2>3, <3>1, <4>1 DEF Replies
      <4>2. ASSUME NEW x \in Node, f \in ToSet(txq'[x]) PROVE f \in Replies(m)
        BY <2>3, <3>1, <3>3, <4>2 DEF Replies
      <4> QED
        BY <3>1, <4>1, <4>2
    <3> QED
      BY <3>2, <3>3
  <2>5. \A r \in Node : Way(m, r)' \subseteq Way(m, r)
    BY <1>1, <1>4, ReadWay
  <2>6. \A r \in Node : Segments(m, r)' \subseteq Segments(m, r)
    BY <2>5, SegmentsShrink
  <2>7. ASSUME m = k, NEW r \in Node PROVE Segments(m, r)' = {}
    <3>1. CASE r = n
      <4>1. \A f \in Way(k, n)' : Before(h, f)
        BY <1>1, <1>2, <1>4, ReadWay
      <4>2. \A f \in Segments(k, n)' : f = h /\ Before(h, f)
        BY <1>3, <2>6, <2>7, <3>1, <4>1 DEF Segments
      <4>3. ~Before(h, h)
        <5>1. IsSegment(h) /\ h.part[3] \in 1 .. Sent(k)
          BY <1>2, HeadSegment DEF Segments
        <5> QED
          BY <5>1 DEF Before
      <4> QED
        BY <2>7, <3>1, <4>2, <4>3
    <3>2. CASE r # n
      BY <1>3, <2>6, <2>7, <3>2
    <3> QED
      BY <3>1, <3>2
  <2>8. ReplyOK(m)'
    <3>1. ASSUME NEW f \in Replies(m)'
          PROVE  /\ reservedXmt'[m]
                 /\ sendcount'[m] = 0
                 /\ f.src = letter'[m].to
                 /\ \A r \in Node : Segments(m, r)' = {}
      <4>1. CASE f \in Replies(m)
        BY <2>1, <2>6, <4>1 DEF ReplyOK
      <4>2. CASE f = e /\ m = k
        BY <1>2, <1>3, <2>7, <4>2
      <4> QED
        BY <2>4, <4>1, <4>2
    <3> QED
      BY <3>1 DEF ReplyOK
  <2> QED
    BY <2>2, <2>4, <2>7, <2>8
<1>12. Quiet(k)'
  BY <1>2, <1>11 DEF Quiet
<1> QED
  BY <1>7, <1>9, <1>10, <1>11, <1>12 DEF Flow, Answered

\* A reply that is read is the only one to this node, and answers the
\* datagram it has sent.
LEMMA HeadReply ==
  ASSUME TypeInv, Flow, NEW n \in Node, rxq[n] # <<>>, NEW h, h = Head(rxq[n]), IsReply(h)
  PROVE  /\ h \in Replies(n)
         /\ reservedXmt[n] /\ letter[n] # Nothing
         /\ sendcount[n] = 0
         /\ h.src = letter[n].to
         /\ Quiet(n)
<1>1. h \in ToSet(rxq[n])
  <2>1. rxq[n] \in Seq(Frame)
    BY DEF TypeInv, TypeOK
  <2> QED
    BY <2>1, SetOfTail
<1>2. h.dst[1] = n
  BY <1>1, Placed
<1>3. h \in Replies(n)
  BY <1>1, <1>2 DEF Replies
<1>4. ReplyOK(n) /\ SenderOK(n)
  BY DEF Flow
<1> QED
  BY <1>3, <1>4 DEF ReplyOK, SenderOK, Quiet

LEMMA ReplyFlow ==
  ASSUME TypeInv, Flow, NEW n \in Node, rxq[n] # <<>>, NEW h, h = Head(rxq[n]), IsReply(h),
         rxq' = [rxq EXCEPT ![n] = Tail(@)],
         UNCHANGED <<link, changes, txq, letter>>,
         \A m \in Node \ {n} : reservedXmt'[m] = reservedXmt[m] /\ sendcount'[m] = sendcount[m],
         \/ reservedXmt'[n] = reservedXmt[n]
         \/ ~reservedXmt'[n] /\ sendcount'[n] = 0
  PROVE  Flow' /\ Replies(n)' = {}
<1>1. /\ Order(rxq, txq) /\ Order(rxq', txq')
      /\ ToSet(rxq[n]) = ToSet(rxq'[n]) \cup {h}
      /\ \A r \in Node \ {n} : rxq'[r] = rxq[r]
      /\ \A g \in ToSet(rxq'[n]) : Before(h, g)
      /\ \A x \in Node : \A g \in ToSet(txq[x]) : Before(h, g)
  BY ReadQueue DEF Flow
<1>2. h \in Replies(n) /\ reservedXmt[n] /\ h.src = letter[n].to /\ Quiet(n)
  BY HeadReply
<1>3. Replies(n)' = {}
  <2>1. ASSUME NEW g \in Replies(n)' PROVE FALSE
    <3>1. /\ IsReply(g) /\ g.dst[1] = n
          /\ g \in ToSet(rxq'[n]) \/ \E x \in Node : g \in ToSet(txq[x])
      BY DEF Replies
    <3>2. Before(h, g)
      BY <1>1, <3>1
    <3>3. g \in Replies(n)
      BY <1>1, <3>1 DEF Replies
    <3>4. ReplyOK(n)
      BY DEF Flow
    <3>5. g.src = h.src
      BY <1>2, <3>3, <3>4 DEF ReplyOK
    <3>6. h.dst[1] = n
      BY <1>2 DEF Replies
    <3> QED
      BY <3>1, <3>2, <3>5, <3>6 DEF Before
  <2> QED
    BY <2>1
<1>4. ASSUME NEW m \in Node, NEW r \in Node
      PROVE  Way(m, r)' \subseteq Way(m, r) /\ Segments(m, r)' \subseteq Segments(m, r)
  BY <1>1, ReadWay, SegmentsShrink
<1>5. ASSUME NEW m \in Node, NEW r \in Node PROVE FlowOK(m, r)'
  <2>1. CASE m = n
    <3>1. Segments(m, r)' = {}
      BY <1>2, <1>4, <2>1 DEF Quiet
    <3>2. FlowOK(m, r)
      BY DEF Flow
    <3>3. AliasOK(m, r)'
      BY <1>4, <3>2 DEF FlowOK, AliasOK, getAlias
    <3> QED
      BY <3>1, <3>3, NoSegments
  <2>2. CASE m # n
    BY <2>2, ReadFlow
  <2> QED
    BY <2>1, <2>2
<1>6. ASSUME NEW m \in Node PROVE SenderOK(m)' /\ ReplyOK(m)'
  <2>1. SenderOK(m) /\ ReplyOK(m)
    BY DEF Flow
  <2>2. CASE m = n
    <3>1. SenderOK(m)'
      BY <1>2, <2>1, <2>2 DEF SenderOK
    <3> QED
      BY <1>3, <2>2, <3>1 DEF ReplyOK
  <2>3. CASE m # n
    <3>1. SenderOK(m)'
      BY <2>1, <2>3 DEF SenderOK
    <3>2. rxq'[m] = rxq[m]
      BY <1>1, <2>3
    <3>3. Replies(m)' \subseteq Replies(m)
      BY <3>2 DEF Replies
    <3>4. reservedXmt'[m] = reservedXmt[m] /\ sendcount'[m] = sendcount[m]
      BY <2>3
    <3>5. ReplyOK(m)'
      BY <1>4, <2>1, <3>3, <3>4 DEF ReplyOK
    <3> QED
      BY <3>1, <3>5
  <2> QED
    BY <2>2, <2>3
<1> QED
  BY <1>1, <1>3, <1>5, <1>6 DEF Flow

\* The frames that count as under way from m to r.
Takes(f, m, r) ==
  f.src[1] = m /\ (IsSegment(f) => f.dst[1] = r) /\ (IsSegment(f) \/ Announces(f))

\* A frame that is accepted by the driver takes the way of its kind.
LEMMA SendWay ==
  ASSUME TypeInv, NEW n \in Node, NEW e, e.src[1] = n,
         txq' = [txq EXCEPT ![n] = Append(@, e)], UNCHANGED rxq,
         NEW m \in Node, NEW r \in Node
  PROVE  /\ Way(m, r) \subseteq Way(m, r)'
         /\ \A f \in Way(m, r)' : f \in Way(m, r) \/ (f = e /\ Takes(e, m, r))
         /\ Takes(e, m, r) => e \in Way(m, r)'
<1>1. ToSet(txq'[n]) = ToSet(txq[n]) \cup {e} /\ \A x \in Node \ {n} : txq'[x] = txq[x]
  BY SendQueue
<1>2. Way(m, r) = {f \in ToSet(rxq[r]) \cup ToSet(txq[m]) : Takes(f, m, r)}
  BY DEF Way, Takes
<1>3. Way(m, r)' = {f \in ToSet(rxq[r]) \cup ToSet(txq'[m]) : Takes(f, m, r)}
  BY DEF Way, Takes
<1>4. Takes(e, m, r) => m = n
  BY DEF Takes
<1> QED
  BY <1>1, <1>2, <1>3, <1>4

\* The replies under way, when a frame that is none is sent.
LEMMA SendReplies ==
  ASSUME TypeInv, NEW n \in Node, NEW e, ~IsReply(e),
         txq' = [txq EXCEPT ![n] = Append(@, e)], UNCHANGED rxq, NEW m \in Node
  PROVE  Replies(m)' \subseteq Replies(m)
<1>1. ToSet(txq'[n]) = ToSet(txq[n]) \cup {e} /\ \A x \in Node \ {n} : txq'[x] = txq[x]
  BY SendQueue
<1>2. ASSUME NEW f \in Replies(m)' PROVE f \in Replies(m)
  <2>1. /\ IsReply(f) /\ f.dst[1] = m
        /\ f \in ToSet(rxq[m]) \/ \E x \in Node : f \in ToSet(txq'[x])
    BY DEF Replies
  <2>2. CASE f \in ToSet(rxq[m])
    BY <2>1, <2>2 DEF Replies
  <2>3. ASSUME NEW x \in Node, f \in ToSet(txq'[x]) PROVE f \in Replies(m)
    <3>1. f \in ToSet(txq[x])
      BY <1>1, <2>1, <2>3
    <3> QED
      BY <2>1, <3>1 DEF Replies
  <2> QED
    BY <2>1, <2>2, <2>3
<1> QED
  BY <1>2

\* Segments of a node are under way to the receiver of its datagram.
LEMMA SegmentPlaced ==
  ASSUME TypeInv, Flow, NEW n \in Node, NEW g, IsSegment(g), g.src[1] = n,
         g \in ToSet(txq[n]) \/ \E r \in Node : g \in ToSet(rxq[r])
  PROVE  /\ letter[n] # Nothing /\ reservedXmt[n]
         /\ letter[n].to[1] \in Node
         /\ g \in Segments(n, letter[n].to[1])
         /\ g.part[3] \in 1 .. Sent(n)
<1>1. PICK r \in Node : g \in Segments(n, r)
  <2>1. CASE g \in ToSet(txq[n])
    <3>1. g \in Frame
      BY <2>1, Placed DEF Outgoing
    <3>2. g \in Segment
      BY <3>1 DEF Frame, Reply, LinkFrame, IsSegment, SegmentKind
    <3>3. g.dst \in Alias
      BY <3>2 DEF Segment
    <3>4. g.dst[1] \in Node
      BY <3>3 DEF Alias
    <3> QED
      BY <2>1, <3>4 DEF Segments, Way
  <2>2. ASSUME NEW r \in Node, g \in ToSet(rxq[r]) PROVE g \in Segments(n, r)
    <3>1. g.dst[1] = r
      BY <2>2, Placed
    <3> QED
      BY <2>2, <3>1 DEF Segments, Way
  <2> QED
    BY <2>1, <2>2
<1>2. FlowOK(n, r) /\ SenderOK(n)
  BY DEF Flow
<1>3. reservedXmt[n] /\ g.dst = letter[n].to /\ g.part[3] \in 1 .. Sent(n)
  BY <1>1, <1>2 DEF FlowOK, SegmentOK
<1>4. g.dst[1] = r /\ letter[n] # Nothing
  BY <1>1, <1>2, <1>3 DEF Segments, Way, SenderOK
<1> QED
  BY <1>1, <1>3, <1>4

\* n's next segment joins the others, or is lost.
Joins(n) ==
  /\ \A m \in Node \ {n} : \A r \in Node : Segments(m, r)' = Segments(m, r)
  /\ \A r \in Node :
       /\ Segments(n, r) \subseteq Segments(n, r)'
       /\ \A f \in Segments(n, r)' : f \in Segments(n, r) \/ f.part[3] = Sent(n) + 1
  /\ Sent(n)' = Sent(n) + 1
  /\ \A m \in Node : Replies(m)' \subseteq Replies(m)

\* The next segment.
LEMMA NextIs ==
  ASSUME TypeInv, Flow, NEW n \in Node, link[n] = "up", sendcount[n] > 0
  PROVE  /\ letter[n] # Nothing /\ reservedXmt[n] /\ letter[n].to \in Alias
         /\ Total(n) \in Nat \ {0} /\ Sent(n) \in Nat /\ Sent(n) < Total(n)
         /\ IsSegment(segment(n)) /\ ~IsReply(segment(n)) /\ ~Announces(segment(n))
         /\ segment(n).src = getAlias(n) /\ segment(n).src[1] = n
         /\ segment(n).dst = letter[n].to
         /\ segment(n).part = <<n, letter[n].says, Sent(n) + 1>>
         /\ segment(n).part[3] = Sent(n) + 1
         /\ segment(n).kind = KindOf(Total(n) - segment(n).part[3] + 1, Total(n))
<1> DEFINE s == Size[letter[n].says]
           k == sendcount[n]
           e == segment(n)
<1>1. letter[n] # Nothing
  BY DEF TypeInv
<1>2. /\ letter[n].to \in Alias
      /\ Total(n) \in Nat \ {0} /\ s = Total(n)
      /\ k \in Nat /\ k <= Total(n) /\ Sent(n) \in Nat /\ Sent(n) = Total(n) - k
  BY <1>1, Lengths DEF Sent, Total
<1>3. KindOf(k, s) \in SegmentKind
  BY <1>2, KindIs
<1>4. /\ e.kind = KindOf(k, s) /\ e.src = getAlias(n) /\ e.dst = letter[n].to
      /\ e.part = <<n, letter[n].says, s - k + 1>>
  BY DEF segment
<1> HIDE DEF e, s, k
<1>5. e.part[3] = s - k + 1 /\ Total(n) - e.part[3] + 1 = k /\ s - k + 1 = Sent(n) + 1
  BY <1>2, <1>4
<1>6. IsSegment(e) /\ ~IsReply(e) /\ ~Announces(e)
  BY <1>3, <1>4, Kinds DEF IsSegment
<1>7. reservedXmt[n]
  <2>1. SenderOK(n)
    BY DEF Flow
  <2> QED
    BY <2>1 DEF SenderOK
<1>8. Sent(n) < Total(n)
  BY <1>2 DEF k
<1> QED
  BY <1>1, <1>2, <1>4, <1>5, <1>6, <1>7, <1>8 DEF e, getAlias

LEMMA CheckFlow ==
  ASSUME TypeInv, Flow, NEW n \in Node, check(n)
  PROVE  Flow' /\ Joins(n)
<1> DEFINE e == IF txType[n] = "OpenLcb" THEN segment(n) ELSE linkFrame(n, "Other")
           d == letter[n].to[1]
<1>1. /\ link[n] = "up" /\ sendcount[n] > 0
      /\ txq' = [txq EXCEPT ![n] = Append(@, e)]
      /\ sendcount' = [sendcount EXCEPT ![n] = @ - 1]
      /\ UNCHANGED <<link, changes, rxq, reservedXmt, letter>>
  BY DEF check, sendWait
<1>2. /\ letter[n] # Nothing /\ reservedXmt[n]
      /\ Total(n) \in Nat \ {0} /\ Sent(n) \in Nat /\ Sent(n) < Total(n)
  BY <1>1, NextIs
<1>3. /\ e.src[1] = n /\ e.src = getAlias(n) /\ ~IsReply(e) /\ ~Announces(e)
      /\ IsSegment(e) => /\ e.dst = letter[n].to
                         /\ e.part = <<n, letter[n].says, Sent(n) + 1>>
                         /\ e.part[3] = Sent(n) + 1
                         /\ e.kind = KindOf(Total(n) - e.part[3] + 1, Total(n))
  <2>1. CASE txType[n] = "OpenLcb"
    BY <1>1, <2>1, NextIs
  <2>2. CASE txType[n] # "OpenLcb"
    BY <2>2 DEF linkFrame, getAlias, IsSegment, SegmentKind, IsReply, Announces
  <2> QED
    BY <2>1, <2>2
<1> HIDE DEF e
<1>4. /\ sendcount'[n] = sendcount[n] - 1 /\ sendcount[n] \in Nat
      /\ \A m \in Node \ {n} : sendcount'[m] = sendcount[m]
  BY <1>1 DEF TypeInv, TypeOK
<1>5. Order(rxq', txq')
  <2>1. ASSUME NEW g, g \in ToSet(txq[n]) \/ \E r \in Node : g \in ToSet(rxq[r])
        PROVE  Before(g, e)
    <3>1. IsSegment(g) /\ g.src[1] = n => g.part[3] \in 1 .. Sent(n)
      BY <2>1, SegmentPlaced
    <3>2. IsSegment(e) /\ IsSegment(g) /\ g.src[1] = n => g.part[3] < e.part[3]
      BY <1>2, <1>3, <3>1
    <3>3. Announces(g) /\ g.src[1] = n => g.src = e.src
      <4>1. ASSUME Announces(g), g.src[1] = n, NEW r \in Node,
                   g \in ToSet(txq[n]) \/ g \in ToSet(rxq[r])
            PROVE  g.src = e.src
        <5>1. ~IsSegment(g)
          BY <4>1, Kinds
        <5>2. g \in Way(n, r)
          BY <4>1, <5>1 DEF Way
        <5>3. AliasOK(n, r)
          BY DEF Flow, FlowOK
        <5> QED
          BY <1>1, <1>3, <5>2, <5>3 DEF AliasOK
      <4> QED
        BY <2>1, <4>1
    <3> QED
      BY <1>3, <3>2, <3>3 DEF Before
  <2>2. \A g \in ToSet(txq[n]) : Before(g, e)
    BY <2>1
  <2>3. \A r \in Node : \A g \in ToSet(rxq[r]) : Before(g, e)
    BY <2>1
  <2>4. txq \in [Node -> Seq(Frame)]
    BY DEF TypeInv, TypeOK
  <2>5. Order(rxq, txq)
    BY DEF Flow
  <2> QED
    BY <1>1, <2>2, <2>3, <2>4, <2>5, OrderSend
<1>6. ASSUME NEW m \in Node, NEW r \in Node
      PROVE  /\ Way(m, r) \subseteq Way(m, r)'
             /\ \A f \in Way(m, r)' : f \in Way(m, r) \/ (f = e /\ m = n /\ IsSegment(e))
             /\ Segments(m, r) \subseteq Segments(m, r)'
             /\ \A f \in Segments(m, r)' : f \in Segments(m, r) \/ (f = e /\ m = n)
  <2>a. UNCHANGED rxq /\ e.src[1] = n /\ txq' = [txq EXCEPT ![n] = Append(@, e)]
    BY <1>1, <1>3
  <2>1. /\ Way(m, r) \subseteq Way(m, r)'
        /\ \A f \in Way(m, r)' : f \in Way(m, r) \/ (f = e /\ Takes(e, m, r))
    BY <2>a, SendWay
  <2>2. Takes(e, m, r) => m = n /\ IsSegment(e)
    BY <1>3 DEF Takes
  <2> QED
    BY <2>1, <2>2 DEF Segments
<1>7. ASSUME NEW m \in Node \ {n}, NEW r \in Node
      PROVE  FlowOK(m, r)' /\ Segments(m, r)' = Segments(m, r)
  <2>1. Way(m, r)' \subseteq Way(m, r) /\ Segments(m, r)' = Segments(m, r)
    BY <1>6
  <2>2. FlowOK(m, r)
    BY DEF Flow
  <2> QED
    BY <1>1, <1>4, <2>1, <2>2, Fewer
<1>8. Total(n)' = Total(n) /\ Sent(n)' = Sent(n) + 1 /\ getAlias(n)' = getAlias(n)
  BY <1>1, <1>2, <1>4 DEF Total, Sent, getAlias
<1>9. ASSUME NEW r \in Node PROVE FlowOK(n, r)'
  <2>1. FlowOK(n, r)
    BY DEF Flow
  <2>2. \A f \in Way(n, r)' : f.src = getAlias(n)
    BY <1>1, <1>3, <1>6, <2>1 DEF FlowOK, AliasOK
  <2>3. \A f \in Segments(n, r)' : f.src = getAlias(n)
    BY <2>2 DEF Segments
  <2>4. AliasOK(n, r)'
    BY <1>1, <1>8, <2>2, <2>3 DEF AliasOK
  <2>5. ASSUME NEW f \in Segments(n, r)'
        PROVE  /\ reservedXmt[n]
               /\ f.dst = letter[n].to
               /\ f.part = <<n, letter[n].says, f.part[3]>>
               /\ f.part[3] \in 1 .. Sent(n) + 1
               /\ f.kind = KindOf(Total(n) - f.part[3] + 1, Total(n))
    <3>1. CASE f \in Segments(n, r)
      <4>1. f.part[3] \in 1 .. Sent(n)
        BY <2>1, <3>1 DEF FlowOK, SegmentOK
      <4>2. f.part[3] \in 1 .. Sent(n) + 1
        BY <1>2, <4>1
      <4> QED
        BY <2>1, <3>1, <4>2 DEF FlowOK, SegmentOK
    <3>2. CASE f \notin Segments(n, r)
      <4>1. f = e /\ IsSegment(f)
        BY <1>6, <3>2 DEF Segments
      <4> QED
        BY <1>2, <1>3, <4>1
    <3> QED
      BY <3>1, <3>2
  <2>6. SegmentOK(n, r)'
    BY <1>1, <1>8, <2>5 DEF SegmentOK
  <2> QED
    BY <2>4, <2>6 DEF FlowOK
<1>10. \A m \in Node : Replies(m)' \subseteq Replies(m)
  BY <1>1, <1>3, SendReplies
<1>11. ASSUME NEW m \in Node PROVE SenderOK(m)' /\ ReplyOK(m)'
  <2>1. SenderOK(m) /\ ReplyOK(m)
    BY DEF Flow
  <2>2. SenderOK(m)'
    BY <1>1, <1>2, <1>4, <2>1 DEF SenderOK
  <2>3. CASE m = n
    <3>1. Replies(n) = {}
      BY <1>1, <2>1, <2>3 DEF ReplyOK
    <3> QED
      BY <1>10, <2>2, <2>3, <3>1 DEF ReplyOK
  <2>4. CASE m # n
    <3>1. \A r \in Node : Segments(m, r)' = Segments(m, r)
      BY <1>7, <2>4
    <3>2. ReplyOK(m)'
      BY <1>1, <1>4, <1>10, <2>1, <2>4, <3>1 DEF ReplyOK
    <3> QED
      BY <2>2, <3>2
  <2> QED
    BY <2>3, <2>4
<1>12. Flow'
  BY <1>5, <1>7, <1>9, <1>11 DEF Flow
<1>13. ASSUME NEW r \in Node, NEW f \in Segments(n, r)'
       PROVE  f \in Segments(n, r) \/ f.part[3] = Sent(n) + 1
  <2>1. IsSegment(f)
    BY DEF Segments
  <2> QED
    BY <1>3, <1>6, <2>1
<1>14. Joins(n)
  BY <1>6, <1>7, <1>8, <1>10, <1>13 DEF Joins
<1> QED
  BY <1>12, <1>14

\* A frame on its way is in one of two queues.
LEMMA WayIs ==
  ASSUME NEW m, NEW r, NEW f
  PROVE  /\ f \in Way(m, r) <=> (f \in ToSet(rxq[r]) \/ f \in ToSet(txq[m])) /\ Takes(f, m, r)
         /\ f \in Way(m, r)' <=> (f \in ToSet(rxq'[r]) \/ f \in ToSet(txq'[m])) /\ Takes(f, m, r)
BY DEF Way, Takes

LEMMA ReplyIs ==
  ASSUME NEW m, NEW f
  PROVE  /\ f \in Replies(m) <=> /\ IsReply(f) /\ f.dst[1] = m
                                 /\ \/ f \in ToSet(rxq[m])
                                    \/ \E x \in Node : f \in ToSet(txq[x])
         /\ f \in Replies(m)' <=> /\ IsReply(f) /\ f.dst[1] = m
                                  /\ \/ f \in ToSet(rxq'[m])
                                     \/ \E x \in Node : f \in ToSet(txq'[x])
BY DEF Replies

\* Replies stay right when fewer frames are under way.
LEMMA FewerReplies ==
  ASSUME NEW m \in Node, ReplyOK(m), Replies(m)' \subseteq Replies(m),
         \A r \in Node : Segments(m, r)' \subseteq Segments(m, r),
         reservedXmt'[m] = reservedXmt[m], letter'[m] = letter[m], sendcount'[m] = sendcount[m]
  PROVE  ReplyOK(m)'
BY DEF ReplyOK

\* Frames move on, or are lost.
Arrives ==
  /\ \A m, r \in Node : Way(m, r)' \subseteq Way(m, r)
  /\ \A m \in Node : Replies(m)' \subseteq Replies(m)

LEMMA TransmitFlow ==
  ASSUME TypeInv, Flow, NEW n \in Node, Transmit(n)
  PROVE  Flow' /\ Arrives
<1> DEFINE f == Head(txq[n])
<1>1. /\ txq[n] # <<>>
      /\ txq' = [txq EXCEPT ![n] = Tail(@)]
      /\ rxq' = [m \in Node |-> IF Hears(n, m, f) THEN Append(rxq[m], f) ELSE rxq[m]]
      /\ UNCHANGED <<link, changes, reservedXmt, letter, sendcount>>
  BY DEF Transmit, sending
<1>2. txq \in [Node -> Seq(Frame)] /\ rxq \in [Node -> Seq(Frame)] /\ Order(rxq, txq)
  BY DEF TypeInv, TypeOK, Flow
<1>3. /\ txq[n] \in Seq(Frame) /\ Sorted(txq[n])
      /\ txq'[n] = Tail(txq[n])
      /\ \A m \in Node \ {n} : txq'[m] = txq[m]
  BY <1>1, <1>2 DEF Order
<1>4. /\ ToSet(txq[n]) = ToSet(txq'[n]) \cup {f}
      /\ \A g \in ToSet(txq'[n]) : Before(f, g)
  BY <1>1, <1>3, SetOfTail, SortedTail
<1>5. f \in Outgoing(n) /\ f.src[1] = n
  BY <1>4, Placed
<1> HIDE DEF f
<1>6. ASSUME NEW m \in Node
      PROVE  /\ Hears(n, m, f) => rxq'[m] = Append(rxq[m], f) /\ ToSet(rxq'[m]) = ToSet(rxq[m]) \cup {f}
             /\ ~Hears(n, m, f) => rxq'[m] = rxq[m]
  <2>1. /\ Hears(n, m, f) => rxq'[m] = Append(rxq[m], f)
        /\ ~Hears(n, m, f) => rxq'[m] = rxq[m]
    BY <1>1
  <2>2. ToSet(Append(rxq[m], f)) = ToSet(rxq[m]) \cup {f}
    BY <1>2, SetOfAppend
  <2> QED
    BY <2>1, <2>2
<1>7. Order(rxq', txq')
  <2>1. \A m \in Node : \A g \in ToSet(txq[m]) : g.src[1] = m
    BY Placed
  <2>2. \A x \in Node : rxq'[x] = rxq[x] \/ rxq'[x] = Append(rxq[x], Head(txq[n]))
    BY <1>6 DEF f
  <2> QED
    BY <1>1, <1>2, <2>1, <2>2, OrderTransmit
<1>8. ASSUME NEW m \in Node, NEW r \in Node, NEW g \in Way(m, r)' PROVE g \in Way(m, r)
  <2>1. Takes(g, m, r) /\ (g \in ToSet(rxq'[r]) \/ g \in ToSet(txq'[m]))
    BY <1>8, WayIs
  <2>2. CASE g \in ToSet(txq'[m])
    <3>1. g \in ToSet(txq[m])
      BY <1>3, <1>4, <2>2
    <3> QED
      BY <2>1, <3>1, WayIs
  <2>3. CASE g \in ToSet(rxq'[r])
    <3>1. g \in ToSet(rxq[r]) \/ g = f
      BY <1>6, <2>3
    <3>2. g = f => m = n
      BY <1>5, <2>1 DEF Takes
    <3>3. g \in ToSet(rxq[r]) \/ g \in ToSet(txq[m])
      BY <1>4, <3>1, <3>2
    <3> QED
      BY <2>1, <3>3, WayIs
  <2> QED
    BY <2>1, <2>2, <2>3
<1>9. ASSUME NEW m \in Node, NEW r \in Node PROVE FlowOK(m, r)'
  <2>1. FlowOK(m, r) /\ Way(m, r)' \subseteq Way(m, r)
    BY <1>8 DEF Flow
  <2> QED
    BY <1>1, <2>1, Fewer
<1>10. ASSUME NEW m \in Node
       PROVE  SenderOK(m)' /\ ReplyOK(m)' /\ Replies(m)' \subseteq Replies(m)
  <2>1. SenderOK(m) /\ ReplyOK(m)
    BY DEF Flow
  <2>2. SenderOK(m)'
    BY <1>1, <2>1 DEF SenderOK
  <2>3. \A r \in Node : Segments(m, r)' \subseteq Segments(m, r)
    BY <1>8, SegmentsShrink
  <2>4. ASSUME NEW g \in Replies(m)' PROVE g \in Replies(m)
    <3>1. /\ IsReply(g) /\ g.dst[1] = m
          /\ g \in ToSet(rxq'[m]) \/ \E x \in Node : g \in ToSet(txq'[x])
      BY ReplyIs
    <3>2. ASSUME NEW x \in Node, g \in ToSet(txq'[x]) PROVE g \in ToSet(txq[x])
      BY <1>3, <1>4, <3>2
    <3>3. g \in ToSet(rxq'[m]) => g \in ToSet(rxq[m]) \/ g \in ToSet(txq[n])
      BY <1>4, <1>6
    <3> QED
      BY <3>1, <3>2, <3>3, ReplyIs
  <2> QED
    BY <1>1, <2>1, <2>2, <2>3, <2>4, FewerReplies
<1>12. \A m, r \in Node : Way(m, r)' \subseteq Way(m, r)
  BY <1>8
<1> QED
  BY <1>7, <1>9, <1>10, <1>12 DEF Flow, Arrives

\* No frame of n is under way.
LEMMA WayForgotten ==
  ASSUME TypeInv, NEW n \in Node, Forgotten(n), txq[n] = <<>>, NEW r \in Node
  PROVE  /\ \A f \in ToSet(rxq[r]) : f.src[1] # n
         /\ Way(n, r) = {}
<1>1. ASSUME NEW f \in ToSet(rxq[r]) PROVE f.src[1] # n
  <2>1. CASE r = n
    BY <2>1, Placed
  <2>2. CASE r # n
    BY <2>2 DEF Forgotten
  <2> QED
    BY <2>1, <2>2
<1>2. ASSUME NEW f \in Way(n, r) PROVE FALSE
  BY <1>1, SetOfEmpty, WayIs DEF Takes
<1> QED
  BY <1>1, <1>2

\* Frames that are neither segments nor replies are sent by n's link layer
\* and by its other handlers.
Links(n) ==
  \/ ChangeAlias(n) \/ Claimed(n) \/ SendAMD(n) \/ SendInitComplete(n)
  \/ AnswerAME(n) \/ AnswerCIM(n) \/ SendMessage(n)

\* The driver takes such a frame, or has no room for it.
Offers(n, kind) ==
  \/ UNCHANGED txq
  \/ txq' = [txq EXCEPT ![n] = Append(@, linkFrame(n, kind))]

LEMMA LinkFrameSent ==
  ASSUME TypeInv, Order(rxq, txq), NEW n \in Node, NEW kind \in {"AMD", "AMR", "Other"},
         Offers(n, kind), UNCHANGED rxq
  PROVE  /\ Order(rxq', txq')
         /\ \A m \in Node : Replies(m)' \subseteq Replies(m)
         /\ \A m, r \in Node :
              /\ Segments(m, r)' = Segments(m, r)
              /\ \A f \in Way(m, r)' : \/ f \in Way(m, r)
                                       \/ m = n /\ kind = "AMD" /\ f.src = getAlias(n)
<1> DEFINE e == linkFrame(n, kind)
<1>1. /\ ~IsSegment(e) /\ ~IsReply(e) /\ e.src = getAlias(n) /\ e.src[1] = n
      /\ Announces(e) => kind = "AMD"
  BY DEF linkFrame, getAlias, IsSegment, SegmentKind, IsReply, Announces
<1>2. UNCHANGED txq \/ txq' = [txq EXCEPT ![n] = Append(@, e)]
  BY DEF Offers
<1> HIDE DEF e
<1>3. CASE UNCHANGED txq
  BY <1>3 DEF Replies, Segments, Way
<1>4. CASE txq' = [txq EXCEPT ![n] = Append(@, e)]
  <2>1. \A g : Before(g, e)
    BY <1>1 DEF Before
  <2>2. txq \in [Node -> Seq(Frame)]
    BY DEF TypeInv, TypeOK
  <2>3. Order(rxq, [txq EXCEPT ![n] = Append(@, e)])
    BY <2>1, <2>2, OrderSend
  <2>4. Order(rxq', txq')
    BY <1>4, <2>3
  <2>5. \A m \in Node : Replies(m)' \subseteq Replies(m)
    BY <1>1, <1>4, SendReplies
  <2>6. ASSUME NEW m \in Node, NEW r \in Node
        PROVE  /\ Segments(m, r)' = Segments(m, r)
               /\ \A f \in Way(m, r)' : \/ f \in Way(m, r)
                                        \/ m = n /\ kind = "AMD" /\ f.src = getAlias(n)
    <3>1. /\ Way(m, r) \subseteq Way(m, r)'
          /\ \A f \in Way(m, r)' : f \in Way(m, r) \/ (f = e /\ Takes(e, m, r))
      BY <1>1, <1>4, SendWay
    <3>2. Takes(e, m, r) => m = n /\ kind = "AMD"
      BY <1>1 DEF Takes
    <3>3. \A f \in Way(m, r)' : \/ f \in Way(m, r)
                                \/ m = n /\ kind = "AMD" /\ f.src = getAlias(n)
      BY <1>1, <3>1, <3>2
    <3>4. Segments(m, r)' = Segments(m, r)
      BY <1>1, <3>1 DEF Segments
    <3> QED
      BY <3>3, <3>4
  <2> QED
    BY <2>4, <2>5, <2>6
<1> QED
  BY <1>2, <1>3, <1>4

\* What such a step leaves as it is.
LEMMA LinksIs ==
  ASSUME TypeInv, NEW n \in Node, Links(n)
  PROVE  /\ link[n] # "off" /\ link'[n] # "off"
         /\ \A m \in Node \ {n} : link'[m] = link[m] /\ changes'[m] = changes[m]
         /\ changes'[n] = changes[n] \/ (ChangeAlias(n) /\ changes'[n] = changes[n] + 1)
         /\ UNCHANGED <<rxq, reservedXmt, letter, sendcount, fromAlias, rbuf, taken>>
<1>1. link \in [Node -> LinkState] /\ changes \in [Node -> Nat]
  BY DEF TypeInv, TypeOK
<1>2. CASE ChangeAlias(n)
  BY <1>1, <1>2 DEF ChangeAlias, sending, receiver, Joining
<1>3. CASE Claimed(n)
  BY <1>1, <1>3 DEF Claimed, sending, receiver
<1>4. CASE SendAMD(n)
  BY <1>1, <1>4 DEF SendAMD, sending, receiver
<1>5. CASE SendInitComplete(n)
  <2>1. link'[n] \in {"up", "permitted", "assigned"}
    BY <1>1, <1>5 DEF SendInitComplete
  <2>2. \A m \in Node \ {n} : link'[m] = link[m]
    BY <1>1, <1>5 DEF SendInitComplete
  <2>3. link[n] \in {"permitted", "unannounced"}
    BY <1>5 DEF SendInitComplete
  <2> QED
    BY <1>5, <2>1, <2>2, <2>3 DEF SendInitComplete, sending, receiver
<1>6. CASE AnswerAME(n) \/ AnswerCIM(n) \/ SendMessage(n)
  BY <1>6 DEF AnswerAME, AnswerCIM, SendMessage, sending, receiver, Joining
<1> QED
  BY <1>2, <1>3, <1>4, <1>5, <1>6 DEF Links

LEMMA LinkAlias ==
  ASSUME TypeInv, Flow, NEW n \in Node, Links(n), NEW r \in Node
  PROVE  /\ Order(rxq', txq')
         /\ \A m \in Node : Replies(m)' \subseteq Replies(m)
         /\ \A m, x \in Node : Segments(m, x)' = Segments(m, x)
         /\ \A m, x \in Node : m # n => Way(m, x)' \subseteq Way(m, x)
         /\ AliasOK(n, r)'
<1> DEFINE Sent2 ==
             /\ Order(rxq', txq')
             /\ \A m \in Node : Replies(m)' \subseteq Replies(m)
             /\ \A m, x \in Node : Segments(m, x)' = Segments(m, x)
             /\ \A m, x \in Node : m # n => Way(m, x)' \subseteq Way(m, x)
<1>1. AliasOK(n, r) /\ Order(rxq, txq)
  BY DEF Flow, FlowOK
<1>2. link \in [Node -> LinkState] /\ changes \in [Node -> Nat] /\ UNCHANGED rxq
  BY LinksIs DEF TypeInv, TypeOK
<1>3. ASSUME NEW kind \in {"AMD", "AMR", "Other"}, Offers(n, kind)
      PROVE  /\ Sent2
             /\ \A f \in Way(n, r)' : f \in Way(n, r) \/ (kind = "AMD" /\ f.src = getAlias(n))
  <2>1. /\ Order(rxq', txq')
        /\ \A m \in Node : Replies(m)' \subseteq Replies(m)
        /\ \A m, x \in Node :
             /\ Segments(m, x)' = Segments(m, x)
             /\ \A f \in Way(m, x)' : \/ f \in Way(m, x)
                                      \/ m = n /\ kind = "AMD" /\ f.src = getAlias(n)
    BY <1>1, <1>2, <1>3, LinkFrameSent
  <2> QED
    BY <2>1
<1>4. CASE ChangeAlias(n)
  <2>1. Offers(n, "AMR")
    BY <1>4 DEF ChangeAlias, sendIfReady, Offers
  <2>2. Sent2
    BY <1>3, <2>1
  <2>3. /\ link[n] \in Joining \cup {"up"} /\ link'[n] = "claiming"
        /\ changes'[n] = changes[n] + 1 /\ changes[n] \in Nat
    BY <1>2, <1>4 DEF ChangeAlias
  <2>4. ASSUME NEW f \in Segments(n, r) PROVE f.src[2] < changes'[n]
    <3>1. CASE link[n] = "up"
      <4>1. f.src = getAlias(n)
        BY <1>1, <3>1 DEF AliasOK, Segments
      <4>2. f.src[2] = changes[n]
        BY <4>1 DEF getAlias
      <4> QED
        BY <2>3, <4>2
    <3>2. CASE link[n] = "claiming"
      <4>1. f.src[2] < changes[n]
        BY <1>1, <3>2 DEF AliasOK
      <4>2. f \in Way(n, r) /\ IsSegment(f)
        BY DEF Segments
      <4>3. f \in Segment
        <5>1. f \in Frame
          <6>1. f \in ToSet(rxq[r]) \/ f \in ToSet(txq[n])
            BY <4>2, WayIs
          <6> QED
            BY <6>1, Placed DEF Incoming, Outgoing
        <5> QED
          BY <4>2, <5>1 DEF Frame, Reply, LinkFrame, IsSegment, SegmentKind
      <4>4. f.src \in Alias
        BY <4>3 DEF Segment
      <4>5. f.src[2] \in Nat
        BY <4>4, DatagramAssumption DEF Alias
      <4> QED
        BY <2>3, <4>1, <4>5
    <3>3. CASE link[n] \in {"assigned", "permitted"}
      BY <1>1, <3>3 DEF AliasOK
    <3> QED
      BY <2>3, <3>1, <3>2, <3>3 DEF Joining
  <2>5. Segments(n, r)' = Segments(n, r)
    BY <2>2
  <2>6. AliasOK(n, r)'
    BY <1>1, <2>3, <2>4, <2>5 DEF AliasOK
  <2> QED
    BY <2>2, <2>6
<1>5. CASE Claimed(n)
  <2>1. Offers(n, "Other")
    BY <1>5 DEF Claimed, sendWait, Offers
  <2>2. /\ Sent2
        /\ \A f \in Way(n, r)' : f \in Way(n, r)
    BY <1>3, <2>1
  <2>3. Way(n, r) = {}
    BY <1>5, WayForgotten DEF Claimed
  <2>4. Way(n, r)' = {} /\ Segments(n, r)' = {}
    BY <2>2, <2>3 DEF Segments
  <2>5. AliasOK(n, r)'
    BY <2>4 DEF AliasOK
  <2> QED
    BY <2>2, <2>5
<1>6. CASE SendAMD(n)
  <2>1. Offers(n, "AMD")
    BY <1>6 DEF SendAMD, sendIfReady, Offers
  <2>2. /\ Sent2
        /\ \A f \in Way(n, r)' : f \in Way(n, r) \/ f.src = getAlias(n)
    BY <1>3, <2>1
  <2>3. link[n] = "assigned" /\ link'[n] \in {"permitted", "unannounced"} /\ UNCHANGED changes
    BY <1>2, <1>6 DEF SendAMD
  <2>4. AliasOK(n, r)'
    BY <1>1, <2>2, <2>3 DEF AliasOK, getAlias
  <2> QED
    BY <2>2, <2>4
<1>7. CASE SendInitComplete(n)
  <2>1. Offers(n, "Other")
    BY <1>7 DEF SendInitComplete, sendIfReady, Offers
  <2>2. /\ Sent2
        /\ \A f \in Way(n, r)' : f \in Way(n, r)
    BY <1>3, <2>1
  <2>3. link[n] \in {"permitted", "unannounced"} /\ UNCHANGED changes
    BY <1>7 DEF SendInitComplete
  <2>4. Segments(n, r)' = {} /\ \A f \in Way(n, r)' : f.src = getAlias(n)'
    BY <1>1, <2>2, <2>3 DEF AliasOK, getAlias
  <2>5. link'[n] # "claiming"
    BY <1>2, <1>7 DEF SendInitComplete
  <2>6. AliasOK(n, r)'
    BY <2>4, <2>5 DEF AliasOK
  <2> QED
    BY <2>2, <2>6
<1>8. CASE AnswerAME(n) \/ AnswerCIM(n) \/ SendMessage(n)
  <2>1. Offers(n, "AMD") \/ Offers(n, "Other")
    BY <1>8 DEF AnswerAME, AnswerCIM, SendMessage, sendWait, Offers
  <2>2. /\ Sent2
        /\ \A f \in Way(n, r)' : f \in Way(n, r) \/ f.src = getAlias(n)
    BY <1>3, <2>1
  <2>3. UNCHANGED <<link, changes>>
    BY <1>8 DEF AnswerAME, AnswerCIM, SendMessage
  <2>4. AliasOK(n, r)'
    BY <1>1, <2>2, <2>3 DEF AliasOK, getAlias
  <2> QED
    BY <2>2, <2>4
<1> QED
  BY <1>4, <1>5, <1>6, <1>7, <1>8 DEF Links

LEMMA LinkFlow ==
  ASSUME TypeInv, Flow, NEW n \in Node, Links(n)
  PROVE  /\ Flow'
         /\ \A m, r \in Node : Segments(m, r)' = Segments(m, r)
         /\ \A m \in Node : Replies(m)' \subseteq Replies(m)
<1>1. /\ Order(rxq', txq')
      /\ \A m \in Node : Replies(m)' \subseteq Replies(m)
      /\ \A m, x \in Node : Segments(m, x)' = Segments(m, x)
      /\ \A m, x \in Node : m # n => Way(m, x)' \subseteq Way(m, x)
      /\ \A r \in Node : AliasOK(n, r)'
  BY LinkAlias
<1>2. /\ link[n] # "off" /\ link'[n] # "off"
      /\ \A m \in Node \ {n} : link'[m] = link[m] /\ changes'[m] = changes[m]
      /\ UNCHANGED <<reservedXmt, letter, sendcount>>
  BY LinksIs
<1>3. ASSUME NEW m \in Node, NEW r \in Node PROVE FlowOK(m, r)'
  <2>1. FlowOK(m, r)
    BY DEF Flow
  <2>2. CASE m = n
    <3>1. Total(m)' = Total(m) /\ Sent(m)' = Sent(m)
      BY <1>2 DEF Total, Sent
    <3>2. SegmentOK(m, r)'
      BY <1>1, <1>2, <2>1, <3>1 DEF FlowOK, SegmentOK
    <3> QED
      BY <1>1, <2>2, <3>2 DEF FlowOK
  <2>3. CASE m # n
    BY <1>1, <1>2, <2>1, <2>3, Fewer
  <2> QED
    BY <2>2, <2>3
<1>4. ASSUME NEW m \in Node PROVE SenderOK(m)' /\ ReplyOK(m)'
  <2>1. SenderOK(m) /\ ReplyOK(m)
    BY DEF Flow
  <2>2. SenderOK(m)'
    BY <1>2, <2>1 DEF SenderOK
  <2>3. ReplyOK(m)'
    BY <1>1, <1>2, <2>1, FewerReplies
  <2> QED
    BY <2>2, <2>3
<1> QED
  BY <1>1, <1>3, <1>4 DEF Flow

\* A node comes back with nothing under way but a frame that says nothing.
LEMMA OnFlow ==
  ASSUME TypeInv, Flow, NEW n \in Node, PowerOn(n)
  PROVE  /\ Flow'
         /\ \A r \in Node : Way(n, r) = {} /\ Way(n, r)' = {}
         /\ \A m \in Node \ {n} : \A r \in Node : Segments(m, r)' \subseteq Segments(m, r)
         /\ \A m \in Node : Replies(m)' \subseteq Replies(m)
         /\ Replies(n)' = {}
<1> DEFINE e == [kind |-> "Other", src |-> <<n, 0>>]
<1>1. /\ link[n] = "off" /\ Forgotten(n)
      /\ link' = [link EXCEPT ![n] = "assigned"]
      /\ changes' = [changes EXCEPT ![n] = 0]
      /\ txq' = [txq EXCEPT ![n] = <<e>>]
      /\ reservedXmt' = [reservedXmt EXCEPT ![n] = FALSE]
      /\ letter' = [letter EXCEPT ![n] = Nothing]
      /\ sendcount' = [sendcount EXCEPT ![n] = 0]
      /\ UNCHANGED rxq
  BY DEF PowerOn
<1>2. /\ link \in [Node -> LinkState] /\ changes \in [Node -> Nat]
      /\ reservedXmt \in [Node -> BOOLEAN] /\ sendcount \in [Node -> Nat]
      /\ letter \in [Node -> [to : Alias, says : Content] \cup {Nothing}]
      /\ txq \in [Node -> Seq(Frame)]
  BY DEF TypeInv, TypeOK
<1>3. txq[n] = <<>> /\ rxq[n] = <<>>
  BY <1>1 DEF TypeInv
<1>4. /\ link'[n] = "assigned" /\ changes'[n] = 0 /\ ~reservedXmt'[n] /\ letter'[n] = Nothing
      /\ sendcount'[n] = 0
  BY <1>1, <1>2
<1>5. \A m \in Node \ {n} :
        /\ link'[m] = link[m] /\ changes'[m] = changes[m]
        /\ reservedXmt'[m] = reservedXmt[m] /\ letter'[m] = letter[m]
        /\ sendcount'[m] = sendcount[m]
  BY <1>1, <1>2
<1>6. /\ ~IsSegment(e) /\ ~IsReply(e) /\ ~Announces(e) /\ e.src[1] = n
  BY DEF IsSegment, SegmentKind, IsReply, Announces
<1> HIDE DEF e
<1>7. txq' = [txq EXCEPT ![n] = Append(@, e)]
  <2>1. Append(<<>>, e) = <<e>>
    OBVIOUS
  <2>2. Append(txq[n], e) = <<e>>
    BY <1>3, <2>1
  <2> QED
    BY <1>1, <2>2
<1>8. Order(rxq', txq')
  <2>1. \A g : Before(g, e)
    BY <1>6 DEF Before
  <2>2. Order(rxq, txq)
    BY DEF Flow
  <2>3. Order(rxq, [txq EXCEPT ![n] = Append(@, e)])
    BY <1>2, <2>1, <2>2, OrderSend
  <2> QED
    BY <1>1, <1>7, <2>3
<1>9. ASSUME NEW m \in Node, NEW r \in Node PROVE Way(m, r)' \subseteq Way(m, r)
  <2>1. \A f \in Way(m, r)' : f \in Way(m, r) \/ (f = e /\ Takes(e, m, r))
    BY <1>1, <1>6, <1>7, SendWay
  <2>2. ~Takes(e, m, r)
    BY <1>6 DEF Takes
  <2> QED
    BY <2>1, <2>2
<1>10. ASSUME NEW r \in Node PROVE Way(n, r) = {} /\ Way(n, r)' = {}
  <2>1. Way(n, r) = {}
    BY <1>1, <1>3, WayForgotten
  <2> QED
    BY <1>9, <2>1
<1>11. \A m \in Node : Replies(m)' \subseteq Replies(m)
  BY <1>1, <1>6, <1>7, SendReplies
<1>12. Replies(n)' = {}
  <2>1. ASSUME NEW f \in Replies(n) PROVE FALSE
    <3>1. /\ IsReply(f) /\ f.dst[1] = n
          /\ f \in ToSet(rxq[n]) \/ \E x \in Node : f \in ToSet(txq[x])
      BY ReplyIs
    <3>2. f \notin ToSet(rxq[n]) /\ f \notin ToSet(txq[n])
      BY <1>3, SetOfEmpty
    <3>3. PICK x \in Node \ {n} : f \in ToSet(txq[x])
      BY <3>1, <3>2
    <3>4. ~(f.kind \in {"Ack", "Reject"} /\ f.dst[1] = n)
      BY <1>1, <3>3 DEF Forgotten
    <3> QED
      BY <3>1, <3>4 DEF IsReply
  <2> QED
    BY <1>11, <2>1
<1>13. ASSUME NEW m \in Node, NEW r \in Node PROVE FlowOK(m, r)'
  <2>1. CASE m = n
    <3>1. Way(n, r)' = {} /\ Segments(n, r)' = {}
      BY <1>10 DEF Segments
    <3>2. AliasOK(n, r)'
      BY <3>1 DEF AliasOK
    <3> QED
      BY <2>1, <3>1, <3>2, NoSegments
  <2>2. CASE m # n
    <3>1. FlowOK(m, r)
      BY DEF Flow
    <3> QED
      BY <1>5, <1>9, <2>2, <3>1, Fewer
  <2> QED
    BY <2>1, <2>2
<1>14. ASSUME NEW m \in Node PROVE SenderOK(m)' /\ ReplyOK(m)'
  <2>1. CASE m = n
    BY <1>4, <1>12, <2>1 DEF SenderOK, ReplyOK
  <2>2. CASE m # n
    <3>1. SenderOK(m) /\ ReplyOK(m)
      BY DEF Flow
    <3>2. SenderOK(m)'
      BY <1>5, <2>2, <3>1 DEF SenderOK
    <3>3. \A r \in Node : Segments(m, r)' \subseteq Segments(m, r)
      BY <1>9, SegmentsShrink
    <3>4. ReplyOK(m)'
      BY <1>5, <1>11, <2>2, <3>1, <3>3, FewerReplies
    <3> QED
      BY <3>2, <3>4
  <2> QED
    BY <2>1, <2>2
<1>15. Flow'
  BY <1>8, <1>13, <1>14 DEF Flow
<1>16. \A m \in Node \ {n} : \A r \in Node : Segments(m, r)' \subseteq Segments(m, r)
  BY <1>9, SegmentsShrink
<1> QED
  BY <1>10, <1>11, <1>12, <1>15, <1>16

LEMMA OffFlow ==
  ASSUME TypeInv, Flow, NEW n \in Node, PowerOff(n)
  PROVE  /\ Flow'
         /\ \A m, r \in Node : Way(m, r)' \subseteq Way(m, r)
         /\ \A m \in Node : Replies(m)' \subseteq Replies(m)
<1>1. /\ n \in Fickle
      /\ link' = [link EXCEPT ![n] = "off"]
      /\ txq' = [txq EXCEPT ![n] = <<>>]
      /\ rxq' = [rxq EXCEPT ![n] = <<>>]
      /\ UNCHANGED <<changes, reservedXmt, letter, sendcount>>
  BY DEF PowerOff, sending
<1>2. /\ link \in [Node -> LinkState]
      /\ txq \in [Node -> Seq(Frame)] /\ rxq \in [Node -> Seq(Frame)]
  BY DEF TypeInv, TypeOK
<1>3. /\ link'[n] = "off" /\ ToSet(txq'[n]) = {} /\ ToSet(rxq'[n]) = {}
      /\ \A m \in Node \ {n} : link'[m] = link[m] /\ txq'[m] = txq[m] /\ rxq'[m] = rxq[m]
  BY <1>1, <1>2, SetOfEmpty
<1>4. Order(rxq, txq) /\ Order(rxq', txq')
  BY <1>1, <1>2, OrderClear DEF Flow
<1>5. ASSUME NEW m \in Node, NEW r \in Node
      PROVE  Way(m, r)' \subseteq Way(m, r) /\ Segments(m, r)' \subseteq Segments(m, r)
  <2>1. ASSUME NEW f \in Way(m, r)' PROVE f \in Way(m, r)
    BY <1>3, WayIs
  <2> QED
    BY <2>1 DEF Segments
<1>6. ASSUME NEW m \in Node PROVE Replies(m)' \subseteq Replies(m)
  <2>1. ASSUME NEW f \in Replies(m)' PROVE f \in Replies(m)
    BY <1>3, ReplyIs
  <2> QED
    BY <2>1
<1>7. ASSUME NEW m \in Node, NEW r \in Node PROVE FlowOK(m, r)'
  <2>1. FlowOK(m, r) /\ SenderOK(m)
    BY DEF Flow
  <2>2. CASE m # n
    BY <1>1, <1>3, <1>5, <2>1, <2>2, Fewer
  \* The segments that remain of n are the ones its driver has sent.
  <2>3. CASE m = n
    <3>1. Total(m)' = Total(m) /\ Sent(m)' = Sent(m)
      BY <1>1 DEF Total, Sent
    <3>2. AliasOK(m, r)'
      BY <1>3, <1>5, <2>1, <2>3 DEF FlowOK, AliasOK
    <3>3. SegmentOK(m, r)'
      BY <1>1, <1>5, <2>1, <3>1 DEF FlowOK, SegmentOK
    <3> QED
      BY <3>2, <3>3 DEF FlowOK
  <2> QED
    BY <2>2, <2>3
<1>8. ASSUME NEW m \in Node PROVE SenderOK(m)' /\ ReplyOK(m)'
  <2>1. SenderOK(m) /\ ReplyOK(m)
    BY DEF Flow
  <2>2. SenderOK(m)'
    BY <1>1, <1>3, <2>1 DEF SenderOK
  <2>3. ReplyOK(m)'
    BY <1>1, <1>5, <1>6, <2>1, FewerReplies
  <2> QED
    BY <2>2, <2>3
<1> QED
  BY <1>4, <1>5, <1>6, <1>7, <1>8 DEF Flow

LEMMA PostFlow ==
  ASSUME TypeInv, Flow, NEW n \in Node, NEW d \in Node, NEW c \in Content,
         <<n, d, c>> \in Posts, sendTransmitBuffer(n, d, c)
  PROVE  Flow' /\ Quiet(n) /\ Replies(n) = {}
<1>1. /\ ~reservedXmt[n]
      /\ reservedXmt' = [reservedXmt EXCEPT ![n] = TRUE]
      /\ letter' = [letter EXCEPT ![n] = [to |-> getAlias(d), says |-> c]]
      /\ sendcount' = [sendcount EXCEPT ![n] = Size[c]]
      /\ UNCHANGED <<link, changes, txq, rxq>>
  BY DEF sendTransmitBuffer
<1>2. /\ reservedXmt'[n] /\ letter'[n] = [to |-> getAlias(d), says |-> c]
      /\ \A m \in Node \ {n} : /\ reservedXmt'[m] = reservedXmt[m]
                               /\ letter'[m] = letter[m]
                               /\ sendcount'[m] = sendcount[m]
  BY <1>1 DEF TypeInv, TypeOK
<1>3. \A r \in Node : Segments(n, r) = {}
  <2>1. ASSUME NEW r \in Node, NEW f \in Segments(n, r) PROVE FALSE
    BY <1>1 DEF Flow, FlowOK, SegmentOK
  <2> QED
    BY <2>1
<1>4. Replies(n) = {}
  <2>1. ASSUME NEW f \in Replies(n) PROVE FALSE
    BY <1>1 DEF Flow, ReplyOK
  <2> QED
    BY <2>1
<1>5. ASSUME NEW m \in Node, NEW r \in Node
      PROVE  Way(m, r)' = Way(m, r) /\ Segments(m, r)' = Segments(m, r)
  BY <1>1 DEF Way, Segments
<1>6. ASSUME NEW m \in Node PROVE Replies(m)' = Replies(m)
  BY <1>1 DEF Replies
<1>7. ASSUME NEW m \in Node, NEW r \in Node PROVE FlowOK(m, r)'
  <2>1. FlowOK(m, r) /\ SenderOK(m)
    BY DEF Flow
  <2>2. CASE m = n
    <3>1. AliasOK(m, r)'
      BY <1>1, <1>5, <2>1 DEF FlowOK, AliasOK, getAlias
    <3>2. Segments(m, r)' = {}
      BY <1>3, <1>5, <2>2
    <3> QED
      BY <3>1, <3>2, NoSegments
  <2>3. CASE m # n
    BY <1>1, <1>2, <1>5, <2>1, <2>3, Fewer
  <2> QED
    BY <2>2, <2>3
<1>8. ASSUME NEW m \in Node PROVE SenderOK(m)' /\ ReplyOK(m)'
  <2>1. SenderOK(m) /\ ReplyOK(m)
    BY DEF Flow
  <2>2. CASE m = n
    <3>1. letter'[n].to[1] = d /\ letter'[n].says = c
      BY <1>2 DEF getAlias
    <3>2. letter'[n] # Nothing
      <4>1. getAlias(d) \in Alias
        BY DEF TypeInv, TypeOK
      <4> QED
        BY <1>2, <4>1, DatagramAssumption
    <3>3. SenderOK(n)'
      BY <1>1, <1>2, <2>1, <2>2, <3>1, <3>2 DEF SenderOK
    <3> QED
      BY <1>4, <1>6, <2>2, <3>3 DEF ReplyOK
  <2>3. CASE m # n
    <3>1. SenderOK(m)'
      BY <1>1, <1>2, <2>1, <2>3 DEF SenderOK
    <3>2. ReplyOK(m)'
      BY <1>2, <1>5, <1>6, <2>1, <2>3, FewerReplies
    <3> QED
      BY <3>1, <3>2
  <2> QED
    BY <2>2, <2>3
<1> QED
  BY <1>1, <1>3, <1>4, <1>7, <1>8 DEF Flow, Quiet

LEMMA SegmentFlow ==
  ASSUME TypeInv, Flow, NEW n \in Node,
         RefuseSegment(n) \/ StoreSegment(n) \/ DeliverDatagram(n)
  PROVE  Flow'
<1> DEFINE h == Head(rxq[n])
           ack == setDatagramAck(n, h.src)
           again == setDatagramNak(n, h.src, TRUE)
           never == setDatagramNak(n, h.src, FALSE)
<1>1. /\ ReceiveSegment(n)
      /\ UNCHANGED <<reservedXmt, letter, sendcount>>
      /\ \/ UNCHANGED txq
         \/ Final(h) /\ \E e \in {ack, again, never} : txq' = [txq EXCEPT ![n] = Append(@, e)]
  BY DEF RefuseSegment, StoreSegment, DeliverDatagram, reply, sendWait, sending
<1>2. /\ rxq[n] # <<>>
      /\ rxq' = [rxq EXCEPT ![n] = Tail(@)]
      /\ UNCHANGED <<link, changes>>
  BY <1>1 DEF ReceiveSegment, GetFrame
<1>3. \A e \in {ack, again, never} : IsReply(e) /\ e.src = getAlias(n) /\ e.dst = h.src
  BY DEF setDatagramAck, setDatagramNak, IsReply
<1> HIDE DEF h, ack, again, never
<1>4. CASE UNCHANGED txq
  BY <1>1, <1>2, <1>4, QuietFlow
<1>5. ASSUME NEW e \in {ack, again, never}, Final(h), txq' = [txq EXCEPT ![n] = Append(@, e)]
      PROVE  Flow'
  <2>1. IsReply(e) /\ e.src = getAlias(n) /\ e.dst = h.src
    BY <1>3
  <2>2. UNCHANGED <<reservedXmt, letter, sendcount>>
    BY <1>1
  <2> QED
    BY <1>1, <1>5, <2>1, <2>2, AnswerFlow DEF h
<1> QED
  BY <1>1, <1>4, <1>5

LEMMA AnswerRead ==
  ASSUME TypeInv, Flow, NEW n \in Node, ReceiveAck(n) \/ ReceiveReject(n)
  PROVE  Flow' /\ Replies(n)' = {}
<1> DEFINE h == Head(rxq[n])
<1>1. /\ rxq[n] # <<>> /\ IsReply(h)
      /\ rxq' = [rxq EXCEPT ![n] = Tail(@)]
      /\ UNCHANGED <<link, changes, txq, letter>>
  BY DEF ReceiveAck, ReceiveReject, Released, GetFrame, IsReply
<1>2. reservedXmt \in [Node -> BOOLEAN] /\ sendcount \in [Node -> Nat]
  BY DEF TypeInv, TypeOK
<1>3. sendcount[n] = 0
  BY <1>1, HeadReply
<1>4. \/ /\ reservedXmt' = [reservedXmt EXCEPT ![n] = FALSE]
         /\ UNCHANGED sendcount
      \/ /\ UNCHANGED reservedXmt
         /\ sendcount' = [sendcount EXCEPT ![n] = Size[letter[n].says]]
  BY DEF ReceiveAck, ReceiveReject, Released
<1>5. /\ \A m \in Node \ {n} : reservedXmt'[m] = reservedXmt[m] /\ sendcount'[m] = sendcount[m]
      /\ \/ reservedXmt'[n] = reservedXmt[n]
         \/ ~reservedXmt'[n] /\ sendcount'[n] = 0
  BY <1>2, <1>3, <1>4
<1> QED
  BY <1>1, <1>5, ReplyFlow

LEMMA FlowStep == TypeInv /\ Flow /\ [Next]_vars => Flow'
<1> SUFFICES ASSUME TypeInv, Flow, [Next]_vars PROVE Flow'
  OBVIOUS
<1>1. ASSUME NEW n \in Node, check(n) PROVE Flow'
  BY <1>1, CheckFlow
<1>2. ASSUME NEW n \in Node, AbortReception(n) \/ IgnoreFrame(n) PROVE Flow'
  <2>1. /\ rxq[n] # <<>>
        /\ rxq' = [rxq EXCEPT ![n] = Tail(@)]
        /\ UNCHANGED <<link, changes, txq, reservedXmt, letter, sendcount>>
    BY <1>2 DEF AbortReception, IgnoreFrame, GetFrame, sending
  <2> QED
    BY <2>1, QuietFlow
<1>3. ASSUME NEW n \in Node, DiscardFrame(n) PROVE Flow'
  BY <1>3, QuietFlow DEF DiscardFrame, sending
<1>4. ASSUME NEW n \in Node, receivedFrame(n) PROVE Flow'
  BY <1>2, <1>4, AnswerRead, SegmentFlow DEF receivedFrame
<1>5. ASSUME NEW n \in Node, Transmit(n) \/ Links(n) \/ PowerOff(n) \/ PowerOn(n)
      PROVE  Flow'
  BY <1>5, TransmitFlow, LinkFlow, OffFlow, OnFlow
<1>6. ASSUME NEW p \in Posts, sendTransmitBuffer(p[1], p[2], p[3])
      PROVE  Flow'
  <2>1. p[1] \in Node /\ p[2] \in Node /\ p[3] \in Content /\ <<p[1], p[2], p[3]>> \in Posts
    BY DatagramAssumption
  <2> QED
    BY <1>6, <2>1, PostFlow
<1>7. CASE UNCHANGED vars
  <2>1. UNCHANGED <<link, changes, txq, rxq, reservedXmt, letter, sendcount>>
    BY <1>7 DEF vars, sending
  <2>2. \A m, r \in Node : Way(m, r)' = Way(m, r) /\ Segments(m, r)' = Segments(m, r)
    BY <2>1 DEF Way, Segments
  <2>3. ASSUME NEW m \in Node PROVE SenderOK(m)' /\ ReplyOK(m)'
    <3>1. SenderOK(m) /\ ReplyOK(m)
      BY DEF Flow
    <3>2. Replies(m)' \subseteq Replies(m)
      BY <2>1 DEF Replies
    <3>3. ReplyOK(m)'
      BY <2>1, <2>2, <3>1, <3>2, FewerReplies
    <3> QED
      BY <2>1, <3>1, <3>3 DEF SenderOK
  <2>4. ASSUME NEW m \in Node, NEW r \in Node PROVE FlowOK(m, r)'
    BY <2>1, <2>2, Fewer DEF Flow
  <2>5. Order(rxq', txq')
    BY <2>1 DEF Flow
  <2> QED
    BY <2>3, <2>4, <2>5 DEF Flow
<1> QED
  BY <1>1, <1>3, <1>4, <1>5, <1>6, <1>7 DEF Next, Links

LEMMA FlowInit == Init => Flow
<1> SUFFICES ASSUME Init PROVE Flow
  OBVIOUS
<1>1. \A n \in Node : ToSet(rxq[n]) = {} /\ ToSet(txq[n]) = {} /\ Sorted(rxq[n]) /\ Sorted(txq[n])
  BY SetOfEmpty, SortedEmpty DEF Init
<1>2. \A m, r \in Node : Way(m, r) = {} /\ Segments(m, r) = {}
  BY <1>1 DEF Way, Segments
<1>3. \A m \in Node : Replies(m) = {}
  BY <1>1 DEF Replies
<1>4. \A m \in Node : SenderOK(m)
  BY DEF Init, SenderOK
<1>5. \A m \in Node : ReplyOK(m)
  BY <1>3 DEF ReplyOK
<1>6. \A m, r \in Node : FlowOK(m, r)
  BY <1>2 DEF FlowOK, AliasOK, SegmentOK
<1>7. Order(rxq, txq)
  BY <1>1 DEF Order
<1> QED
  BY <1>4, <1>5, <1>6, <1>7 DEF Flow

LEMMA TypeHolds == Spec => []TypeInv
<1>1. Init => TypeInv
  BY TypeInit
<1>2. TypeInv /\ [Next]_vars => TypeInv'
  <2>1. TypeInv /\ [Next]_vars => Queues' /\ Locals'
    BY StepKeeps
  <2> QED
    BY <2>1, Split, PTL
<1> QED
  BY <1>1, <1>2, PTL DEF Spec

LEMMA FlowHolds == Spec => [](TypeInv /\ Flow)
<1>1. Spec => []TypeInv
  BY TypeHolds
<1>2. Init => Flow
  BY FlowInit
<1>3. TypeInv /\ Flow /\ [Next]_vars => Flow'
  BY FlowStep
<1> QED
  BY <1>1, <1>2, <1>3, PTL DEF Spec

\* Datagram.cpp:102 releases the buffer whoever a reply is from. That does no
\* harm: when one arrives, the whole datagram is sent, and the reply is from
\* the alias it was sent to, although receivers lose power and change aliases.
THEOREM RepliesRight == Spec => RepliesFromDest
<1>1. ASSUME TypeInv, Flow
      PROVE  \A n \in Node :
               LET f == Head(rxq[n]) IN
               Works(n) /\ IsForHere(n, f) /\ f.kind \in {"Ack", "Reject"}
                 => reservedXmt[n] /\ sendcount[n] = 0 /\ letter[n].to = f.src
  <2> SUFFICES ASSUME NEW n \in Node, Works(n), Head(rxq[n]).kind \in {"Ack", "Reject"}
               PROVE  /\ reservedXmt[n] /\ sendcount[n] = 0
                      /\ letter[n].to = Head(rxq[n]).src
    OBVIOUS
  <2>1. rxq[n] # <<>> /\ IsReply(Head(rxq[n]))
    BY DEF Works, IsReply
  <2> QED
    BY <1>1, <2>1, HeadReply
<1>2. TypeInv /\ Flow /\ [Next]_vars =>
        [\A n \in Node :
           LET f == Head(rxq[n]) IN
           Works(n) /\ IsForHere(n, f) /\ f.kind \in {"Ack", "Reject"}
             => reservedXmt[n] /\ sendcount[n] = 0 /\ letter[n].to = f.src]_vars
  BY <1>1
<1>3. Spec => [](TypeInv /\ Flow)
  BY FlowHolds
<1> QED
  BY <1>2, <1>3, PTL DEF Spec, RepliesFromDest

-----------------------------------------------------------------------------
(* The receiver's buffer                                                   *)

\* The power of nodes that send datagrams of several segments does not fail.
\* One that comes back uses its first alias again. If its AMD finds the driver
\* busy nobody is told, and a receiver takes what it sends next for the rest
\* of the datagram that power ended, and past the end of the buffer.
LongSendersSteady == \A p \in Posts : Size[p[3]] > 1 => p[1] \notin Fickle

\* What the datagram being received says, and the last part there is of it.
Says(r) == rbuf[r][1][2]
Got(r) == rbuf[r][Len(rbuf[r])][3]

\* The buffer holds parts of one datagram, each of which came after those in
\* front of it, and none of which is the last. Its sender has not used the
\* alias for another node's life.
RbufOK(r) ==
  /\ receiving(r) <=> rbuf[r] # <<>>
  /\ receiving(r) =>
       LET m == fromAlias[r][1] IN
       /\ <<m, r, Says(r)>> \in Posts
       /\ fromAlias[r][2] < changes[m] \/ (fromAlias[r][2] = changes[m] /\ link[m] = "up")
       /\ \A i \in 1 .. Len(rbuf[r]) : rbuf[r][i] = <<m, Says(r), rbuf[r][i][3]>>
       /\ Got(r) \in Nat /\ Len(rbuf[r]) <= Got(r) /\ Got(r) < Size[Says(r)]

\* r is receiving under the alias m sends under.
Continuing(m, r) ==
  \/ fromAlias[r] = getAlias(m)
  \/ \E g \in Segments(m, r) : g.src = fromAlias[r]

\* What r has received then is of the datagram m has in the buffer, m has sent
\* so much of it, and what is under way goes on from there.
ContinueOK(m, r) ==
  Continuing(m, r) =>
    /\ reservedXmt[m] /\ letter[m].says = Says(r) /\ letter[m].to[1] = r
    /\ Replies(m) = {}
    /\ Got(r) <= Sent(m)
    /\ \A g \in Segments(m, r) : Got(r) < g.part[3]

Reception ==
  /\ \A r \in Node : RbufOK(r)
  /\ \A m, r \in Node : ContinueOK(m, r)

\* Who is received from.
LEMMA Receiving ==
  ASSUME LongSendersSteady, TypeInv, NEW r \in Node, RbufOK(r), receiving(r)
  PROVE  /\ fromAlias[r] \in Alias /\ fromAlias[r][1] \in Node
         /\ fromAlias[r][1] \notin Fickle /\ fromAlias[r][1] # r
         /\ fromAlias[r] = <<fromAlias[r][1], fromAlias[r][2]>> /\ fromAlias[r][2] \in Nat
         /\ Len(rbuf[r]) \in Nat \ {0} /\ Size[Says(r)] \in Nat
         /\ Len(rbuf[r]) < Size[Says(r)]
<1> DEFINE m == fromAlias[r][1]
<1>1. fromAlias[r] \in Alias
  BY DEF TypeInv, TypeOK, receiving
<1>2. m \in Node /\ fromAlias[r] = <<m, fromAlias[r][2]>> /\ fromAlias[r][2] \in Nat
  BY <1>1, DatagramAssumption DEF Alias
<1>3. /\ <<m, r, Says(r)>> \in Posts
      /\ Got(r) \in Nat /\ Len(rbuf[r]) <= Got(r) /\ Got(r) < Size[Says(r)]
      /\ rbuf[r] # <<>>
  BY DEF RbufOK
<1>4. Len(rbuf[r]) \in Nat \ {0}
  BY <1>3 DEF TypeInv, TypeOK
<1> HIDE DEF m
<1>5. Size[Says(r)] \in Nat /\ m # r
  BY <1>3, DatagramAssumption
<1>6. Len(rbuf[r]) < Size[Says(r)] /\ Size[Says(r)] > 1
  BY <1>3, <1>4, <1>5
<1>7. m \notin Fickle
  BY <1>3, <1>6 DEF LongSendersSteady
<1> QED
  BY <1>1, <1>2, <1>4, <1>5, <1>6, <1>7 DEF m

\* An alias that segments carry is their sender's.
LEMMA SegmentFrom ==
  ASSUME TypeInv, NEW m \in Node, NEW r \in Node, NEW g \in Segments(m, r)
  PROVE  g \in Segment /\ g.src \in Alias /\ g.src[1] = m /\ g.src # Nothing
<1>1. IsSegment(g) /\ g.src[1] = m /\ (g \in ToSet(rxq[r]) \/ g \in ToSet(txq[m]))
  BY WayIs DEF Segments, Takes
<1>2. g \in Frame
  BY <1>1, Placed DEF Incoming, Outgoing
<1>3. g \in Segment
  BY <1>1, <1>2 DEF Frame, Reply, LinkFrame, IsSegment, SegmentKind
<1> QED
  BY <1>1, <1>3, DatagramAssumption DEF Segment

LEMMA ContinuingIs ==
  ASSUME TypeInv, NEW m \in Node, NEW r \in Node, Continuing(m, r)
  PROVE  fromAlias[r][1] = m /\ receiving(r)
<1>1. getAlias(m) \in Alias /\ getAlias(m)[1] = m /\ getAlias(m) # Nothing
  BY DatagramAssumption DEF TypeInv, TypeOK, getAlias
<1> QED
  BY <1>1, SegmentFrom DEF Continuing, receiving

SenderSame(m) ==
  /\ reservedXmt'[m] = reservedXmt[m] /\ letter'[m] = letter[m]
  /\ sendcount'[m] = sendcount[m]

ReceiverSame(r) == fromAlias'[r] = fromAlias[r] /\ rbuf'[r] = rbuf[r]

\* Nothing concerns m and r, but that frames may be read or lost.
LEMMA ContinueSame ==
  ASSUME NEW m \in Node, NEW r \in Node, ContinueOK(m, r),
         SenderSame(m), ReceiverSame(r),
         getAlias(m)' = getAlias(m) \/ fromAlias[r] # getAlias(m)',
         Segments(m, r)' \subseteq Segments(m, r),
         Replies(m)' \subseteq Replies(m) \/ ~Continuing(m, r)
  PROVE  ContinueOK(m, r)'
<1>1. /\ Sent(m)' = Sent(m) /\ Got(r)' = Got(r) /\ Says(r)' = Says(r)
  BY DEF Sent, Total, Got, Says, SenderSame, ReceiverSame
<1>2. Continuing(m, r)' => Continuing(m, r)
  BY DEF Continuing, ReceiverSame
<1> QED
  BY <1>1, <1>2 DEF ContinueOK, SenderSame, ReceiverSame

\* The buffer is as it was, and its sender has not come up again.
LEMMA RbufSame ==
  ASSUME NEW r \in Node, RbufOK(r), ReceiverSame(r),
         receiving(r) =>
           LET m == fromAlias[r][1] IN
           changes'[m] = changes[m] /\ (link[m] = "up" => link'[m] = "up")
  PROVE  RbufOK(r)'
<1>1. Got(r)' = Got(r) /\ Says(r)' = Says(r) /\ (receiving(r)' <=> receiving(r))
  BY DEF Got, Says, receiving, ReceiverSame
<1> QED
  BY <1>1 DEF RbufOK, ReceiverSame

\* Nothing is being received.
LEMMA ReceiverIdle ==
  ASSUME TypeInv, TypeInv', NEW r \in Node, fromAlias'[r] = Nothing, rbuf'[r] = <<>>
  PROVE  RbufOK(r)' /\ \A m \in Node : ContinueOK(m, r)'
<1>1. ~receiving(r)'
  BY DEF receiving
<1>2. RbufOK(r)'
  BY <1>1 DEF RbufOK
<1>3. ASSUME NEW m \in Node PROVE ~Continuing(m, r)'
  <2>1. getAlias(m)' \in Alias
    BY DEF TypeInv, TypeOK
  <2>2. ASSUME NEW g \in Segments(m, r)' PROVE g.src # Nothing
    <3>1. IsSegment(g) /\ (g \in ToSet(rxq'[r]) \/ g \in ToSet(txq'[m]))
      BY WayIs DEF Segments
    <3>2. rxq'[r] \in Seq(Frame) /\ txq'[m] \in Seq(Frame)
      BY DEF TypeInv, TypeOK
    <3>3. g \in Frame
      BY <3>1, <3>2 DEF ToSet
    <3>4. g \in Segment
      BY <3>1, <3>3 DEF Frame, Reply, LinkFrame, IsSegment, SegmentKind
    <3> QED
      BY <3>4, DatagramAssumption DEF Segment
  <2> QED
    BY <2>1, <2>2, DatagramAssumption DEF Continuing
<1> QED
  BY <1>2, <1>3 DEF ContinueOK

\* Fewer frames under way to a receiver that does what it did.
LEMMA ContinuesStill ==
  ASSUME NEW m \in Node, NEW r \in Node, ReceiverSame(r),
         getAlias(m)' = getAlias(m) \/ fromAlias[r] # getAlias(m)',
         Segments(m, r)' \subseteq Segments(m, r), Continuing(m, r)'
  PROVE  Continuing(m, r)
BY DEF Continuing, ReceiverSame

\* The segments of a datagram that is being received come under the alias it
\* is received from.
LEMMA ContinuedSource ==
  ASSUME LongSendersSteady, TypeInv, Flow, Reception, NEW m \in Node, NEW r \in Node,
         Continuing(m, r), NEW h \in Segments(m, r)
  PROVE  fromAlias[r] = h.src
<1>1. fromAlias[r][1] = m /\ receiving(r)
  BY ContinuingIs
<1>2. RbufOK(r) /\ AliasOK(m, r) /\ SenderOK(m)
  BY DEF Reception, Flow, FlowOK
<1>3. m \notin Fickle /\ fromAlias[r][2] \in Nat
  BY <1>1, <1>2, Receiving
<1>4. link[m] # "off"
  BY <1>2, <1>3 DEF SenderOK
<1>5. CASE fromAlias[r] = getAlias(m)
  <2>1. fromAlias[r][2] = changes[m]
    BY <1>5 DEF getAlias
  <2>2. link[m] = "up"
    BY <1>1, <1>2, <1>3, <2>1 DEF RbufOK
  <2>3. h \in Way(m, r)
    BY DEF Segments
  <2> QED
    BY <1>2, <1>5, <2>2, <2>3 DEF AliasOK
<1>6. CASE \E g \in Segments(m, r) : g.src = fromAlias[r]
  BY <1>2, <1>6 DEF AliasOK
<1> QED
  BY <1>5, <1>6 DEF Continuing

\* A segment that does not fit is not one of a datagram being received.
LEMMA RefusedIsNew ==
  ASSUME LongSendersSteady, TypeInv, Flow, Reception, NEW n \in Node, ReceiveSegment(n),
         NEW h, h = Head(rxq[n]), ~Fits(n, h)
  PROVE  ~Continuing(h.src[1], n)
<1> DEFINE k == h.src[1]
<1>1. /\ k \in Node /\ h \in Segments(k, n) /\ letter[k] # Nothing
      /\ h.part[3] \in 1 .. Sent(k)
      /\ h.kind = KindOf(Total(k) - h.part[3] + 1, Total(k))
  BY HeadSegment
<1>2. Total(k) \in Nat \ {0} /\ Sent(k) \in Nat /\ Sent(k) <= Total(k)
  BY <1>1, Lengths
<1> HIDE DEF k
<1>3. SUFFICES ASSUME Continuing(k, n) PROVE FALSE
  BY DEF k
<1>4. fromAlias[n] = h.src
  BY <1>1, <1>3, ContinuedSource
<1>5. h.kind \in {"First", "All"}
  BY <1>4 DEF Fits
<1>6. Total(k) - h.part[3] + 1 \in 1 .. Total(k)
  BY <1>1, <1>2
<1>7. Total(k) - h.part[3] + 1 = Total(k)
  BY <1>1, <1>2, <1>5, <1>6, KindIs
<1>8. h.part[3] = 1
  BY <1>1, <1>2, <1>7
<1>9. receiving(n) /\ RbufOK(n) /\ ContinueOK(k, n)
  BY <1>1, <1>3, ContinuingIs DEF Reception
<1>10. Len(rbuf[n]) \in Nat \ {0} /\ Got(n) \in Nat /\ Len(rbuf[n]) <= Got(n)
  BY <1>9, Receiving DEF RbufOK
<1>11. Got(n) < h.part[3]
  BY <1>1, <1>3, <1>9 DEF ContinueOK
<1> QED
  BY <1>8, <1>10, <1>11

LEMMA CheckReception ==
  ASSUME TypeInv, Flow, Reception, NEW n \in Node, check(n)
  PROVE  Reception'
<1>1. Flow' /\ Joins(n)
  BY CheckFlow
<1>2. /\ link[n] = "up"
      /\ sendcount' = [sendcount EXCEPT ![n] = @ - 1]
      /\ UNCHANGED <<link, changes, reservedXmt, letter, fromAlias, rbuf>>
  BY DEF check, receiver
<1>3. \A r \in Node : RbufOK(r) /\ ReceiverSame(r)
  BY <1>2 DEF Reception, ReceiverSame
<1>4. ASSUME NEW r \in Node PROVE RbufOK(r)'
  BY <1>2, <1>3, RbufSame
<1>5. ASSUME NEW m \in Node, NEW r \in Node PROVE ContinueOK(m, r)'
  <2>1. ContinueOK(m, r) /\ Replies(m)' \subseteq Replies(m)
    BY <1>1 DEF Reception, Joins
  <2>2. CASE m # n
    <3>1. Segments(m, r)' = Segments(m, r)
      BY <1>1, <2>2 DEF Joins
    <3>2. SenderSame(m) /\ getAlias(m)' = getAlias(m)
      BY <1>2, <2>2 DEF SenderSame, TypeInv, TypeOK, getAlias
    <3> QED
      BY <1>3, <2>1, <3>1, <3>2, ContinueSame
  <2>3. CASE m = n
    <3> SUFFICES ASSUME Continuing(n, r)'
                 PROVE  /\ reservedXmt[n] /\ letter[n].says = Says(r) /\ letter[n].to[1] = r
                        /\ Replies(n)' = {}
                        /\ Got(r) <= Sent(n) + 1
                        /\ \A g \in Segments(n, r)' : Got(r) < g.part[3]
      <4>1. /\ Got(r)' = Got(r) /\ Says(r)' = Says(r) /\ Sent(n)' = Sent(n) + 1
        BY <1>1, <1>2 DEF Got, Says, Joins
      <4> QED
        BY <1>2, <2>3, <4>1 DEF ContinueOK
    <3>1. getAlias(n)' = getAlias(n) /\ link'[n] = "up"
      BY <1>2 DEF getAlias
    <3>2. AliasOK(n, r)'
      BY <1>1 DEF Flow, FlowOK
    <3>3. \A g \in Segments(n, r)' : g.src = getAlias(n)
      BY <3>1, <3>2 DEF AliasOK, Segments
    <3>4. Continuing(n, r)
      BY <1>3, <3>1, <3>3 DEF Continuing, ReceiverSame
    <3>5. receiving(r) /\ RbufOK(r)
      BY <1>3, <3>4, ContinuingIs
    <3>6. Got(r) \in Nat
      BY <3>5 DEF RbufOK
    <3>7. /\ reservedXmt[n] /\ letter[n].says = Says(r) /\ letter[n].to[1] = r
          /\ Replies(n) = {} /\ Got(r) <= Sent(n)
          /\ \A g \in Segments(n, r) : Got(r) < g.part[3]
      BY <2>1, <2>3, <3>4 DEF ContinueOK
    <3>8. Sent(n) \in Nat
      <4>1. letter[n] # Nothing
        BY <3>7 DEF Flow, SenderOK
      <4> QED
        BY <4>1, Lengths
    <3>9. \A g \in Segments(n, r)' : Got(r) < g.part[3]
      <4>1. \A g \in Segments(n, r)' : g \in Segments(n, r) \/ g.part[3] = Sent(n) + 1
        BY <1>1 DEF Joins
      <4> QED
        BY <3>6, <3>7, <3>8, <4>1
    <3> QED
      BY <2>1, <2>3, <3>6, <3>7, <3>8, <3>9
  <2> QED
    BY <2>2, <2>3
<1> QED
  BY <1>4, <1>5 DEF Reception

\* n passes a frame over, or stops receiving.
LEMMA PassReception ==
  ASSUME TypeInv, TypeInv', Flow, Reception, NEW n \in Node, rxq[n] # <<>>,
         rxq' = [rxq EXCEPT ![n] = Tail(@)],
         UNCHANGED <<link, changes, txq, reservedXmt, letter, sendcount>>,
         \A r \in Node \ {n} : ReceiverSame(r),
         ReceiverSame(n) \/ (fromAlias'[n] = Nothing /\ rbuf'[n] = <<>>)
  PROVE  Reception'
<1>1. \A m, r \in Node : Segments(m, r)' \subseteq Segments(m, r)
  BY ReadWay, SegmentsShrink DEF Flow
<1>2. \A m \in Node : Replies(m)' \subseteq Replies(m)
  <2>1. \A m \in Node : ToSet(rxq'[m]) \subseteq ToSet(rxq[m])
    BY ReadQueue DEF Flow
  <2> QED
    BY <2>1 DEF Replies
<1>3. \A m \in Node : SenderSame(m) /\ getAlias(m)' = getAlias(m)
  BY DEF SenderSame, getAlias
<1>4. ASSUME NEW r \in Node, ReceiverSame(r)
      PROVE  RbufOK(r)' /\ \A m \in Node : ContinueOK(m, r)'
  <2>1. RbufOK(r) /\ \A m \in Node : ContinueOK(m, r)
    BY DEF Reception
  <2>2. RbufOK(r)'
    BY <1>4, <2>1, RbufSame
  <2>3. ASSUME NEW m \in Node PROVE ContinueOK(m, r)'
    BY <1>1, <1>2, <1>3, <1>4, <2>1, ContinueSame
  <2> QED
    BY <2>2, <2>3
<1>5. ASSUME fromAlias'[n] = Nothing /\ rbuf'[n] = <<>>
      PROVE  RbufOK(n)' /\ \A m \in Node : ContinueOK(m, n)'
  BY <1>5, ReceiverIdle
<1>6. ASSUME NEW r \in Node PROVE RbufOK(r)' /\ \A m \in Node : ContinueOK(m, r)'
  BY <1>4, <1>5
<1> QED
  BY <1>6 DEF Reception

\* n answers the final segment of a datagram, and receives what it received,
\* or nothing.
LEMMA AnswerReception ==
  ASSUME LongSendersSteady, TypeInv, TypeInv', Flow, Reception, NEW n \in Node,
         ReceiveSegment(n), NEW h, h = Head(rxq[n]), Final(h),
         NEW e, IsReply(e), e.src = getAlias(n), e.dst = h.src,
         txq' = [txq EXCEPT ![n] = Append(@, e)],
         UNCHANGED <<reservedXmt, letter, sendcount>>,
         \A r \in Node \ {n} : ReceiverSame(r),
         \/ ReceiverSame(n) /\ ~Fits(n, h)
         \/ fromAlias'[n] = Nothing /\ rbuf'[n] = <<>>
  PROVE  Reception'
<1> DEFINE k == h.src[1]
<1>1. /\ rxq[n] # <<>>
      /\ rxq' = [rxq EXCEPT ![n] = Tail(@)]
      /\ UNCHANGED <<link, changes>>
  BY DEF ReceiveSegment, GetFrame
<1>2. k \in Node /\ letter[k].to[1] = n
  BY HeadSegment
<1>3. Answered(k, e)
  BY AnswerFlow
<1>4. ~Fits(n, h) => ~Continuing(k, n)
  BY RefusedIsNew
<1> HIDE DEF k
<1>5. \A m, r \in Node : Segments(m, r)' \subseteq Segments(m, r)
  BY <1>1, ReadWay, SegmentsShrink DEF Flow
<1>6. \A m \in Node : SenderSame(m) /\ getAlias(m)' = getAlias(m)
  BY <1>1 DEF SenderSame, getAlias
<1>7. ASSUME NEW r \in Node, ReceiverSame(r), r = n => ~Fits(n, h)
      PROVE  RbufOK(r)' /\ \A m \in Node : ContinueOK(m, r)'
  <2>1. RbufOK(r) /\ \A m \in Node : ContinueOK(m, r)
    BY DEF Reception
  <2>2. RbufOK(r)'
    BY <1>1, <1>7, <2>1, RbufSame
  <2>3. ASSUME NEW m \in Node PROVE ContinueOK(m, r)'
    <3>1. Replies(m)' \subseteq Replies(m) \/ m = k
      BY <1>3 DEF Answered
    <3>2. ~Continuing(k, r)
      <4>1. CASE r = n
        BY <1>4, <1>7, <4>1
      <4>2. CASE r # n
        BY <1>2, <2>1, <4>2 DEF ContinueOK
      <4> QED
        BY <4>1, <4>2
    <3> QED
      BY <1>5, <1>6, <1>7, <2>1, <3>1, <3>2, ContinueSame
  <2> QED
    BY <2>2, <2>3
<1>8. ASSUME fromAlias'[n] = Nothing /\ rbuf'[n] = <<>>
      PROVE  RbufOK(n)' /\ \A m \in Node : ContinueOK(m, n)'
  BY <1>8, ReceiverIdle
<1>9. ASSUME NEW r \in Node PROVE RbufOK(r)' /\ \A m \in Node : ContinueOK(m, r)'
  BY <1>7, <1>8
<1> QED
  BY <1>9 DEF Reception

LEMMA RefuseReception ==
  ASSUME LongSendersSteady, TypeInv, TypeInv', Flow, Reception, NEW n \in Node, RefuseSegment(n)
  PROVE  Reception'
<1> DEFINE h == Head(rxq[n])
           e == setDatagramNak(n, h.src, TRUE)
<1>1. /\ ReceiveSegment(n) /\ ~Fits(n, h)
      /\ \/ Final(h) /\ txq' = [txq EXCEPT ![n] = Append(@, e)]
         \/ UNCHANGED txq
      /\ UNCHANGED <<reservedXmt, letter, sendcount, fromAlias, rbuf>>
  BY DEF RefuseSegment, reply, sendWait, sending, receiver
<1>2. /\ rxq[n] # <<>>
      /\ rxq' = [rxq EXCEPT ![n] = Tail(@)]
      /\ UNCHANGED <<link, changes>>
  BY <1>1 DEF ReceiveSegment, GetFrame
<1>3. IsReply(e) /\ e.src = getAlias(n) /\ e.dst = h.src
  BY DEF setDatagramNak, IsReply
<1>4. \A r \in Node : ReceiverSame(r)
  BY <1>1 DEF ReceiverSame
<1> HIDE DEF h, e
<1>5. CASE UNCHANGED txq
  <2>1. UNCHANGED <<link, changes, txq, reservedXmt, letter, sendcount>>
    BY <1>1, <1>2, <1>5
  <2>2. ReceiverSame(n) /\ \A r \in Node \ {n} : ReceiverSame(r)
    BY <1>4
  <2>3. rxq[n] # <<>> /\ rxq' = [rxq EXCEPT ![n] = Tail(@)]
    BY <1>2
  <2> QED
    BY <2>1, <2>2, <2>3, PassReception
<1>6. CASE Final(h) /\ txq' = [txq EXCEPT ![n] = Append(@, e)]
  <2>1. UNCHANGED <<reservedXmt, letter, sendcount>>
    BY <1>1
  <2> QED
    BY <1>1, <1>3, <1>4, <1>6, <2>1, AnswerReception DEF h
<1> QED
  BY <1>1, <1>5, <1>6

LEMMA DeliverReception ==
  ASSUME LongSendersSteady, TypeInv, TypeInv', Flow, Reception, NEW n \in Node,
         DeliverDatagram(n)
  PROVE  Reception'
<1> DEFINE h == Head(rxq[n])
           ack == setDatagramAck(n, h.src)
           nak == setDatagramNak(n, h.src, FALSE)
<1>1. /\ ReceiveSegment(n) /\ Final(h)
      /\ \E e \in {ack, nak} : txq' = [txq EXCEPT ![n] = Append(@, e)]
      /\ fromAlias' = [fromAlias EXCEPT ![n] = Nothing]
      /\ rbuf' = [rbuf EXCEPT ![n] = <<>>]
      /\ UNCHANGED <<reservedXmt, letter, sendcount>>
  BY DEF DeliverDatagram, reply, sendWait, sending
<1>2. \A e \in {ack, nak} : IsReply(e) /\ e.src = getAlias(n) /\ e.dst = h.src
  BY DEF setDatagramAck, setDatagramNak, IsReply
<1> HIDE DEF h, ack, nak
<1>3. /\ fromAlias'[n] = Nothing /\ rbuf'[n] = <<>>
      /\ \A r \in Node \ {n} : ReceiverSame(r)
  BY <1>1 DEF TypeInv, TypeOK, ReceiverSame
<1>4. UNCHANGED <<reservedXmt, letter, sendcount>>
  BY <1>1
<1>5. ASSUME NEW e \in {ack, nak}, txq' = [txq EXCEPT ![n] = Append(@, e)] PROVE Reception'
  <2>1. IsReply(e) /\ e.src = getAlias(n) /\ e.dst = h.src
    BY <1>2
  <2> QED
    BY <1>1, <1>3, <1>4, <1>5, <2>1, AnswerReception DEF h
<1> QED
  BY <1>1, <1>5

\* What a segment that is stored is.
LEMMA StoreIs ==
  ASSUME LongSendersSteady, TypeInv, Flow, Reception, NEW n \in Node, StoreSegment(n),
         NEW h, h = Head(rxq[n]), NEW k, k = h.src[1]
  PROVE  /\ k \in Node /\ k # n /\ k \notin Fickle /\ h \in Segments(k, n)
         /\ rbuf'[n] = Append(rbuf[n], h.part) /\ fromAlias'[n] = h.src
         /\ \A r \in Node \ {n} : ReceiverSame(r)
         /\ h.part[3] \in Nat \ {0} /\ h.part[3] < Total(k)
         /\ \/ ~receiving(n) /\ rbuf[n] = <<>> /\ h.part[3] = 1
            \/ Continuing(k, n) /\ fromAlias[n] = h.src
<1>1. /\ ReceiveSegment(n) /\ Fits(n, h) /\ ~Final(h)
      /\ fromAlias' = [fromAlias EXCEPT ![n] = h.src]
      /\ rbuf' = [rbuf EXCEPT ![n] = Append(@, h.part)]
  BY DEF StoreSegment
<1>2. /\ k \in Node /\ k # n /\ h \in Segments(k, n) /\ letter[k] # Nothing
      /\ h.part[3] \in 1 .. Sent(k)
      /\ h.kind = KindOf(Total(k) - h.part[3] + 1, Total(k))
  BY <1>1, HeadSegment
<1>3. Total(k) \in Nat \ {0} /\ Sent(k) \in Nat /\ Sent(k) <= Total(k)
  BY <1>2, Lengths
<1>4. Total(k) - h.part[3] + 1 \in 1 .. Total(k)
  BY <1>2, <1>3
<1>5. Total(k) - h.part[3] + 1 # 1
  <2>1. h.kind \notin {"Last", "All"}
    BY <1>1 DEF Final
  <2> QED
    BY <1>2, <1>3, <1>4, <2>1, KindIs
<1>6. h.part[3] \in Nat \ {0} /\ h.part[3] < Total(k)
  BY <1>2, <1>3, <1>5
<1>7. k \notin Fickle
  <2>1. <<k, letter[k].to[1], letter[k].says>> \in Posts
    BY <1>2 DEF Flow, SenderOK
  <2>2. Total(k) > 1
    BY <1>3, <1>6
  <2> QED
    BY <2>1, <2>2 DEF LongSendersSteady, Total
<1>8. /\ rbuf'[n] = Append(rbuf[n], h.part) /\ fromAlias'[n] = h.src
      /\ \A r \in Node \ {n} : ReceiverSame(r)
  BY <1>1 DEF TypeInv, TypeOK, ReceiverSame
<1>9. CASE h.kind \in {"First", "All"}
  <2>1. ~receiving(n)
    BY <1>1, <1>9 DEF Fits
  <2>2. rbuf[n] = <<>>
    BY <2>1 DEF Reception, RbufOK
  <2>3. Total(k) - h.part[3] + 1 = Total(k)
    BY <1>2, <1>3, <1>4, <1>9, KindIs
  <2>4. h.part[3] = 1
    BY <1>3, <1>6, <2>3
  <2> QED
    BY <1>2, <1>6, <1>7, <1>8, <2>1, <2>2, <2>4
<1>10. CASE h.kind \notin {"First", "All"}
  <2>1. fromAlias[n] = h.src
    BY <1>1, <1>10 DEF Fits
  <2>2. Continuing(k, n)
    BY <1>2, <2>1 DEF Continuing
  <2> QED
    BY <1>2, <1>6, <1>7, <1>8, <2>1, <2>2
<1> QED
  BY <1>9, <1>10

LEMMA StoreReception ==
  ASSUME LongSendersSteady, TypeInv, Flow, Reception, NEW n \in Node, StoreSegment(n)
  PROVE  Reception'
<1>a. PICK h : h = Head(rxq[n])
  OBVIOUS
<1>b. PICK k : k = h.src[1]
  OBVIOUS
<1>1. /\ ReceiveSegment(n)
      /\ rxq[n] # <<>>
      /\ rxq' = [rxq EXCEPT ![n] = Tail(@)]
      /\ UNCHANGED <<link, changes, txq, reservedXmt, letter, sendcount>>
  BY DEF StoreSegment, ReceiveSegment, GetFrame, sending
<1>2. /\ k \in Node /\ k # n /\ k \notin Fickle /\ h \in Segments(k, n)
      /\ rbuf'[n] = Append(rbuf[n], h.part) /\ fromAlias'[n] = h.src
      /\ \A r \in Node \ {n} : ReceiverSame(r)
      /\ h.part[3] \in Nat \ {0} /\ h.part[3] < Total(k)
      /\ \/ ~receiving(n) /\ rbuf[n] = <<>> /\ h.part[3] = 1
         \/ Continuing(k, n) /\ fromAlias[n] = h.src
  BY <1>a, <1>b, StoreIs
<1>3. /\ reservedXmt[k] /\ letter[k] # Nothing /\ letter[k].to[1] = n
      /\ h.part = <<k, letter[k].says, h.part[3]>>
      /\ h.part[3] \in 1 .. Sent(k)
  <2>1. ReceiveSegment(n)
    BY <1>1
  <2> QED
    BY <1>a, <1>b, <2>1, HeadSegment
<1>4. h.src \in Alias /\ h.src # Nothing /\ h.src[1] = k
  BY <1>2, <1>b, SegmentFrom
<1>5. \A m, r \in Node : Segments(m, r)' \subseteq Segments(m, r)
  BY <1>1, ReadWay, SegmentsShrink DEF Flow
<1>6. \A m \in Node : Replies(m)' \subseteq Replies(m)
  <2>1. \A m \in Node : ToSet(rxq'[m]) \subseteq ToSet(rxq[m])
    BY <1>1, ReadQueue DEF Flow
  <2> QED
    BY <1>1, <2>1 DEF Replies
<1>7. \A m \in Node : SenderSame(m) /\ getAlias(m)' = getAlias(m)
  BY <1>1 DEF SenderSame, getAlias
<1>8. ASSUME NEW r \in Node \ {n}
      PROVE  RbufOK(r)' /\ \A m \in Node : ContinueOK(m, r)'
  <2>1. ReceiverSame(r) /\ RbufOK(r) /\ \A m \in Node : ContinueOK(m, r)
    BY <1>2 DEF Reception
  <2>2. RbufOK(r)'
    BY <1>1, <2>1, RbufSame
  <2> QED
    BY <1>5, <1>6, <1>7, <2>1, <2>2, ContinueSame
<1>9. rbuf[n] \in Seq(Part) /\ RbufOK(n) /\ ContinueOK(k, n)
  BY <1>2 DEF TypeInv, TypeOK, Reception
<1>10. /\ Len(rbuf'[n]) = Len(rbuf[n]) + 1 /\ Len(rbuf[n]) \in Nat
       /\ rbuf'[n][Len(rbuf[n]) + 1] = h.part
       /\ \A i \in 1 .. Len(rbuf[n]) : rbuf'[n][i] = rbuf[n][i]
  BY <1>2, <1>9
<1>11. /\ Got(n)' = h.part[3] /\ Says(n)' = letter[k].says /\ Len(rbuf[n]) < h.part[3]
       /\ \A i \in 1 .. Len(rbuf[n]) : rbuf[n][i] = <<k, letter[k].says, rbuf[n][i][3]>>
  <2>1. Got(n)' = h.part[3]
    BY <1>10 DEF Got
  <2>2. CASE ~receiving(n) /\ rbuf[n] = <<>> /\ h.part[3] = 1
    <3>1. Len(rbuf[n]) = 0 /\ rbuf'[n][1] = h.part
      BY <1>10, <2>2
    <3>2. Says(n)' = letter[k].says
      BY <1>3, <3>1 DEF Says
    <3> QED
      BY <2>1, <2>2, <3>1, <3>2
  <2>3. CASE Continuing(k, n) /\ fromAlias[n] = h.src
    <3>1. receiving(n) /\ fromAlias[n][1] = k
      BY <1>2, <2>3, ContinuingIs
    <3>2. Len(rbuf[n]) \in Nat \ {0}
      BY <1>9, <3>1, Receiving
    <3>3. /\ letter[k].says = Says(n) /\ Got(n) < h.part[3]
          /\ Got(n) \in Nat /\ Len(rbuf[n]) <= Got(n)
          /\ \A i \in 1 .. Len(rbuf[n]) : rbuf[n][i] = <<k, Says(n), rbuf[n][i][3]>>
      BY <1>2, <1>9, <2>3, <3>1 DEF ContinueOK, RbufOK
    <3>4. Says(n)' = Says(n)
      BY <1>10, <3>2 DEF Says
    <3> QED
      BY <1>2, <1>10, <2>1, <3>3, <3>4
  <2> QED
    BY <1>2, <2>2, <2>3
<1>12. RbufOK(n)'
  <2>1. fromAlias'[n][1] = k /\ fromAlias'[n] # Nothing
    BY <1>2, <1>4
  <2>2. <<k, n, letter[k].says>> \in Posts
    <3>1. SenderOK(k)
      BY <1>2 DEF Flow
    <3> QED
      BY <1>3, <3>1 DEF SenderOK
  <2>3. h.src[2] < changes[k] \/ (h.src[2] = changes[k] /\ link[k] = "up")
    <3>1. SenderOK(k) /\ AliasOK(k, n) /\ h \in Way(k, n)
      BY <1>2 DEF Flow, FlowOK, Segments
    <3>2. link[k] \in LinkState /\ link[k] # "off"
      BY <1>2, <3>1 DEF SenderOK, TypeInv, TypeOK
    <3>3. link[k] \notin {"assigned", "permitted", "unannounced"}
      BY <1>2, <3>1 DEF AliasOK
    <3>4. CASE link[k] = "claiming"
      BY <1>2, <3>1, <3>4 DEF AliasOK
    <3>5. CASE link[k] = "up"
      <4>1. h.src = getAlias(k)
        BY <3>1, <3>5 DEF AliasOK
      <4> QED
        BY <3>5, <4>1 DEF getAlias
    <3> QED
      BY <3>2, <3>3, <3>4, <3>5 DEF LinkState, Joining
  <2>4. rbuf'[n] # <<>>
    BY <1>10
  <2>5. ASSUME NEW i \in 1 .. Len(rbuf[n]) + 1
        PROVE  rbuf'[n][i] = <<k, letter[k].says, rbuf'[n][i][3]>>
    <3>1. CASE i = Len(rbuf[n]) + 1
      BY <1>3, <1>10, <3>1
    <3>2. CASE i \in 1 .. Len(rbuf[n])
      BY <1>10, <1>11, <3>2
    <3> QED
      BY <1>10, <3>1, <3>2
  <2>6. /\ Got(n)' \in Nat /\ Len(rbuf'[n]) <= Got(n)'
        /\ Got(n)' < Size[Says(n)']
    <3>1. Size[Says(n)'] = Total(k)
      BY <1>11 DEF Total
    <3>2. Len(rbuf[n]) + 1 <= h.part[3]
      BY <1>2, <1>10, <1>11
    <3> QED
      BY <1>2, <1>10, <1>11, <3>1, <3>2
  <2> QED
    BY <1>1, <1>2, <1>10, <1>11, <2>1, <2>2, <2>3, <2>4, <2>5, <2>6 DEF RbufOK, receiving
<1>13. ASSUME NEW m \in Node PROVE ContinueOK(m, n)'
  <2>1. CASE m # k
    <3>1. getAlias(m)' = getAlias(m) /\ getAlias(m)[1] = m
      BY <1>7 DEF getAlias
    <3>2. \A g \in Segments(m, n)' : g.src[1] = m
      BY <1>5, SegmentFrom
    <3>3. ~Continuing(m, n)'
      BY <1>2, <1>4, <2>1, <3>1, <3>2 DEF Continuing
    <3> QED
      BY <3>3 DEF ContinueOK
  <2>2. CASE m = k
    <3>1. Replies(k)' = {}
      <4>1. ReplyOK(k)
        BY <1>2 DEF Flow
      <4>2. Replies(k) = {}
        BY <1>2, <4>1 DEF ReplyOK
      <4> QED
        BY <1>2, <1>6, <4>2
    <3>2. Sent(k)' = Sent(k) /\ Sent(k) \in Nat
      BY <1>1, <1>3, <1>2, Lengths DEF Sent, Total
    <3>3. ASSUME NEW g \in Segments(k, n)' PROVE h.part[3] < g.part[3]
      <4>1. g \in Way(k, n)' /\ IsSegment(g) /\ g.src[1] = k
        BY DEF Segments, Way
      <4>2. Before(h, g)
        BY <1>1, <1>2, <1>a, <4>1, ReadWay DEF Flow
      <4>3. IsSegment(h) /\ h.src[1] = k
        BY <1>2, <1>4 DEF Segments
      <4> QED
        BY <4>1, <4>2, <4>3 DEF Before
    <3> QED
      BY <1>1, <1>2, <1>3, <1>11, <2>2, <3>1, <3>2, <3>3 DEF ContinueOK
  <2> QED
    BY <2>1, <2>2
<1> QED
  BY <1>8, <1>12, <1>13 DEF Reception

\* The rest of what n's link layer and bus do: all receivers stay.
LEMMA StayReception ==
  ASSUME Flow, Reception, UNCHANGED <<reservedXmt, letter, sendcount, fromAlias, rbuf>>,
         \A m, r \in Node : Segments(m, r)' \subseteq Segments(m, r),
         \A m \in Node : Replies(m)' \subseteq Replies(m),
         \A m \in Node : changes'[m] = changes[m] /\ (link[m] = "up" => link'[m] = "up")
  PROVE  Reception'
<1>1. \A r \in Node : ReceiverSame(r) /\ RbufOK(r) /\ \A m \in Node : ContinueOK(m, r)
  BY DEF Reception, ReceiverSame
<1>2. \A m \in Node : SenderSame(m) /\ getAlias(m)' = getAlias(m)
  BY DEF SenderSame, getAlias
<1>3. ASSUME NEW r \in Node PROVE RbufOK(r)'
  <2>1. receiving(r) => fromAlias[r][1] \in Node
    <3>1. receiving(r) => <<fromAlias[r][1], r, Says(r)>> \in Posts
      BY <1>1 DEF RbufOK
    <3> QED
      BY <3>1, DatagramAssumption
  <2> QED
    BY <1>1, <2>1, RbufSame
<1>4. ASSUME NEW m \in Node, NEW r \in Node PROVE ContinueOK(m, r)'
  BY <1>1, <1>2, ContinueSame
<1> QED
  BY <1>3, <1>4 DEF Reception

LEMMA TransmitReception ==
  ASSUME TypeInv, Flow, Reception, NEW n \in Node, Transmit(n)
  PROVE  Reception'
<1>1. Arrives
  BY TransmitFlow
<1>2. UNCHANGED <<link, changes, reservedXmt, letter, sendcount, fromAlias, rbuf>>
  BY DEF Transmit, sending, receiver
<1>3. \A m, r \in Node : Segments(m, r)' \subseteq Segments(m, r)
  BY <1>1, SegmentsShrink DEF Arrives
<1>4. \A m \in Node : changes'[m] = changes[m] /\ link'[m] = link[m]
  BY <1>2
<1>5. \A m \in Node : Replies(m)' \subseteq Replies(m)
  BY <1>1 DEF Arrives
<1>6. UNCHANGED <<reservedXmt, letter, sendcount, fromAlias, rbuf>>
  BY <1>2
<1> QED
  BY <1>3, <1>4, <1>5, <1>6, StayReception

\* A reply to n arrives: nobody is receiving from n.
LEMMA ReplyReception ==
  ASSUME TypeInv, Flow, Reception, NEW n \in Node, ReceiveAck(n) \/ ReceiveReject(n)
  PROVE  Reception'
<1> PICK h : h = Head(rxq[n])
  OBVIOUS
<1>1. /\ rxq[n] # <<>> /\ IsReply(Head(rxq[n]))
      /\ rxq' = [rxq EXCEPT ![n] = Tail(@)]
      /\ UNCHANGED <<link, changes, txq, letter, fromAlias, rbuf>>
  BY DEF ReceiveAck, ReceiveReject, Released, GetFrame, IsReply, receiver
<1>2. \A m \in Node \ {n} : reservedXmt'[m] = reservedXmt[m] /\ sendcount'[m] = sendcount[m]
  BY DEF ReceiveAck, ReceiveReject, Released, TypeInv, TypeOK
<1>3. Replies(n) # {}
  BY <1>1, HeadReply
<1>4. \A m, r \in Node : Segments(m, r)' \subseteq Segments(m, r)
  BY <1>1, ReadWay, SegmentsShrink DEF Flow
<1>5. \A m \in Node : Replies(m)' \subseteq Replies(m)
  <2>1. \A m \in Node : ToSet(rxq'[m]) \subseteq ToSet(rxq[m])
    BY <1>1, ReadQueue DEF Flow
  <2> QED
    BY <1>1, <2>1 DEF Replies
<1>6. \A r \in Node : ReceiverSame(r) /\ RbufOK(r) /\ \A m \in Node : ContinueOK(m, r)
  BY <1>1 DEF Reception, ReceiverSame
<1>7. ASSUME NEW r \in Node PROVE RbufOK(r)'
  BY <1>1, <1>6, RbufSame
<1>8. ASSUME NEW m \in Node, NEW r \in Node PROVE ContinueOK(m, r)'
  <2>1. getAlias(m)' = getAlias(m)
    BY <1>1 DEF getAlias
  <2>2. CASE m = n
    <3>1. ~Continuing(n, r)
      BY <1>3, <1>6 DEF ContinueOK
    <3>2. ~Continuing(n, r)'
      BY <1>4, <1>6, <2>1, <2>2, <3>1, ContinuesStill
    <3> QED
      BY <2>2, <3>2 DEF ContinueOK
  <2>3. CASE m # n
    <3>1. SenderSame(m)
      BY <1>1, <1>2, <2>3 DEF SenderSame
    <3> QED
      BY <1>4, <1>5, <1>6, <2>1, <3>1, ContinueSame
  <2> QED
    BY <2>2, <2>3
<1> QED
  BY <1>7, <1>8 DEF Reception

\* An alias n has given up is behind the present one.
LEMMA NewAlias ==
  ASSUME LongSendersSteady, TypeInv, TypeInv', Reception, NEW n \in Node, ChangeAlias(n),
         NEW r \in Node
  PROVE  /\ receiving(r) /\ fromAlias[r][1] = n => fromAlias[r][2] < changes'[n]
         /\ fromAlias[r] # getAlias(n)'
<1>1. changes[n] \in Nat /\ changes'[n] = changes[n] + 1
  BY DEF ChangeAlias, TypeInv, TypeOK
<1>2. RbufOK(r)
  BY DEF Reception
<1>3. ASSUME receiving(r), fromAlias[r][1] = n
      PROVE  fromAlias[r][2] \in Nat /\ fromAlias[r][2] < changes'[n]
  <2>1. fromAlias[r][2] \in Nat
    BY <1>2, <1>3, Receiving
  <2>2. fromAlias[r][2] < changes[n] \/ fromAlias[r][2] = changes[n]
    BY <1>2, <1>3 DEF RbufOK
  <2> QED
    BY <1>1, <2>1, <2>2
<1>4. ASSUME fromAlias[r] = getAlias(n)' PROVE FALSE
  <2>1. fromAlias[r][1] = n /\ fromAlias[r][2] = changes'[n]
    BY <1>4 DEF getAlias
  <2>2. getAlias(n)' \in Alias
    BY DEF TypeInv, TypeOK
  <2>3. receiving(r)
    BY <1>4, <2>2, DatagramAssumption DEF receiving
  <2> QED
    BY <1>1, <1>3, <2>1, <2>3
<1> QED
  BY <1>3, <1>4

LEMMA LinksReception ==
  ASSUME LongSendersSteady, TypeInv, TypeInv', Flow, Reception, NEW n \in Node, Links(n)
  PROVE  Reception'
<1>1. /\ \A m \in Node \ {n} : link'[m] = link[m] /\ changes'[m] = changes[m]
      /\ changes'[n] = changes[n] \/ (ChangeAlias(n) /\ changes'[n] = changes[n] + 1)
      /\ UNCHANGED <<reservedXmt, letter, sendcount, fromAlias, rbuf>>
  BY LinksIs
<1>2. /\ \A m, r \in Node : Segments(m, r)' = Segments(m, r)
      /\ \A m \in Node : Replies(m)' \subseteq Replies(m)
  BY LinkFlow
<1>3. \A r \in Node : ReceiverSame(r) /\ RbufOK(r) /\ \A m \in Node : ContinueOK(m, r)
  BY <1>1 DEF Reception, ReceiverSame
<1>4. CASE ~ChangeAlias(n)
  <2>1. link[n] = "up" => link'[n] = "up"
    BY <1>4 DEF Links, Claimed, SendAMD, SendInitComplete, AnswerAME, AnswerCIM, SendMessage
  <2>2. \A m \in Node : changes'[m] = changes[m] /\ (link[m] = "up" => link'[m] = "up")
    BY <1>1, <1>4, <2>1
  <2> QED
    BY <1>1, <1>2, <2>2, StayReception
<1>5. CASE ChangeAlias(n)
  <2>1. ASSUME NEW r \in Node PROVE RbufOK(r)'
    <3>1. CASE receiving(r) /\ fromAlias[r][1] = n
      <4>1. fromAlias[r][2] < changes'[n]
        BY <1>5, <3>1, NewAlias
      <4>2. Got(r)' = Got(r) /\ Says(r)' = Says(r) /\ (receiving(r)' <=> receiving(r))
        BY <1>1 DEF Got, Says, receiving
      <4> QED
        BY <1>1, <1>3, <3>1, <4>1, <4>2 DEF RbufOK
    <3>2. CASE receiving(r) /\ fromAlias[r][1] # n
      <4>1. fromAlias[r][1] \in Node
        BY <1>3, <3>2, Receiving
      <4> QED
        BY <1>1, <1>3, <3>2, <4>1, RbufSame
    <3>3. CASE ~receiving(r)
      BY <1>3, <3>3, RbufSame
    <3> QED
      BY <3>1, <3>2, <3>3
  <2>2. ASSUME NEW m \in Node, NEW r \in Node PROVE ContinueOK(m, r)'
    <3>1. getAlias(m)' = getAlias(m) \/ fromAlias[r] # getAlias(m)'
      <4>1. CASE m # n
        BY <1>1, <4>1 DEF getAlias
      <4>2. CASE m = n
        BY <1>5, <4>2, NewAlias
      <4> QED
        BY <4>1, <4>2
    <3>2. SenderSame(m)
      BY <1>1 DEF SenderSame
    <3> QED
      BY <1>2, <1>3, <3>1, <3>2, ContinueSame
  <2> QED
    BY <2>1, <2>2 DEF Reception
<1> QED
  BY <1>4, <1>5

\* A node whose power may fail is not received from.
LEMMA NotReceived ==
  ASSUME LongSendersSteady, TypeInv, Reception, NEW n \in Fickle, NEW r \in Node
  PROVE  /\ ~Continuing(n, r)
         /\ receiving(r) => fromAlias[r][1] \in Node \ {n}
<1>1. RbufOK(r) /\ n \in Node
  BY DatagramAssumption DEF Reception
<1>2. receiving(r) => fromAlias[r][1] \in Node \ {n}
  BY <1>1, Receiving
<1> QED
  BY <1>1, <1>2, ContinuingIs

LEMMA OffReception ==
  ASSUME LongSendersSteady, TypeInv, Flow, Reception, NEW n \in Node, PowerOff(n)
  PROVE  Reception'
<1>1. /\ n \in Fickle /\ \A m \in Node \ {n} : link'[m] = link[m]
      /\ UNCHANGED <<changes, reservedXmt, letter, sendcount, fromAlias, rbuf>>
  BY DEF PowerOff, sending, receiver, TypeInv, TypeOK
<1>2. /\ \A m, r \in Node : Segments(m, r)' \subseteq Segments(m, r)
      /\ \A m \in Node : Replies(m)' \subseteq Replies(m)
  BY OffFlow, SegmentsShrink
<1>3. \A r \in Node : /\ ReceiverSame(r) /\ RbufOK(r) /\ ~Continuing(n, r)
                      /\ receiving(r) => fromAlias[r][1] \in Node \ {n}
                      /\ \A m \in Node : ContinueOK(m, r)
  BY <1>1, NotReceived DEF Reception, ReceiverSame
<1>4. ASSUME NEW r \in Node PROVE RbufOK(r)'
  BY <1>1, <1>3, RbufSame
<1>5. ASSUME NEW m \in Node, NEW r \in Node PROVE ContinueOK(m, r)'
  <2>1. getAlias(m)' = getAlias(m) /\ SenderSame(m)
    BY <1>1 DEF getAlias, SenderSame
  <2> QED
    BY <1>2, <1>3, <2>1, ContinueSame
<1> QED
  BY <1>4, <1>5 DEF Reception

LEMMA OnReception ==
  ASSUME LongSendersSteady, TypeInv, TypeInv', Flow, Reception, NEW n \in Node, PowerOn(n)
  PROVE  Reception'
<1>1. /\ link[n] = "off"
      /\ fromAlias'[n] = Nothing /\ rbuf'[n] = <<>>
      /\ \A m \in Node \ {n} : /\ link'[m] = link[m] /\ changes'[m] = changes[m]
                               /\ SenderSame(m) /\ ReceiverSame(m)
  BY DEF PowerOn, TypeInv, TypeOK, SenderSame, ReceiverSame
<1>2. n \in Fickle
  BY <1>1 DEF Flow, SenderOK
<1>3. /\ \A r \in Node : Way(n, r)' = {}
      /\ \A m \in Node \ {n} : \A r \in Node : Segments(m, r)' \subseteq Segments(m, r)
      /\ \A m \in Node : Replies(m)' \subseteq Replies(m)
  BY OnFlow
<1>4. \A r \in Node : /\ RbufOK(r) /\ ~Continuing(n, r)
                      /\ receiving(r) => fromAlias[r][1] \in Node \ {n}
                      /\ \A m \in Node : ContinueOK(m, r)
  BY <1>2, NotReceived DEF Reception
<1>5. RbufOK(n)' /\ \A m \in Node : ContinueOK(m, n)'
  BY <1>1, ReceiverIdle
<1>6. ASSUME NEW r \in Node \ {n} PROVE RbufOK(r)'
  BY <1>1, <1>4, RbufSame
<1>7. ASSUME NEW m \in Node, NEW r \in Node \ {n} PROVE ContinueOK(m, r)'
  <2>1. CASE m = n
    <3>1. Segments(n, r)' = {}
      BY <1>3 DEF Segments
    <3>2. fromAlias'[r] # getAlias(n)'
      <4>1. getAlias(n)' \in Alias /\ getAlias(n)'[1] = n
        BY DEF TypeInv, TypeOK, getAlias
      <4>2. fromAlias'[r] = fromAlias[r]
        BY <1>1 DEF ReceiverSame
      <4>3. getAlias(n)' # Nothing
        BY <4>1, DatagramAssumption
      <4>4. CASE receiving(r)
        BY <1>4, <4>1, <4>2, <4>4
      <4>5. CASE ~receiving(r)
        BY <4>2, <4>3, <4>5 DEF receiving
      <4> QED
        BY <4>4, <4>5
    <3>3. ~Continuing(n, r)'
      BY <3>1, <3>2 DEF Continuing
    <3> QED
      BY <2>1, <3>3 DEF ContinueOK
  <2>2. CASE m # n
    <3>1. getAlias(m)' = getAlias(m) /\ SenderSame(m) /\ ReceiverSame(r)
      BY <1>1, <2>2 DEF getAlias
    <3> QED
      BY <1>3, <1>4, <2>2, <3>1, ContinueSame
  <2> QED
    BY <2>1, <2>2
<1> QED
  BY <1>5, <1>6, <1>7 DEF Reception

\* A node that may fill its buffer is not received from.
LEMMA PostReception ==
  ASSUME TypeInv, Flow, Reception, NEW n \in Node, NEW d \in Node, NEW c \in Content,
         sendTransmitBuffer(n, d, c)
  PROVE  Reception'
<1>1. /\ ~reservedXmt[n]
      /\ UNCHANGED <<link, changes, txq, rxq, fromAlias, rbuf>>
      /\ \A m \in Node \ {n} : SenderSame(m)
  BY DEF sendTransmitBuffer, receiver, SenderSame, TypeInv, TypeOK
<1>2. \A m, r \in Node : Segments(m, r)' = Segments(m, r)
  BY <1>1 DEF Segments, Way
<1>3. \A m \in Node : Replies(m)' = Replies(m) /\ getAlias(m)' = getAlias(m)
  BY <1>1 DEF Replies, getAlias
<1>4. \A r \in Node : ReceiverSame(r) /\ RbufOK(r) /\ \A m \in Node : ContinueOK(m, r)
  BY <1>1 DEF Reception, ReceiverSame
<1>5. ASSUME NEW r \in Node PROVE RbufOK(r)'
  BY <1>1, <1>4, RbufSame
<1>6. ASSUME NEW m \in Node, NEW r \in Node PROVE ContinueOK(m, r)'
  <2>1. CASE m = n
    <3>1. ~Continuing(n, r)
      BY <1>1, <1>4 DEF ContinueOK
    <3>2. ~Continuing(n, r)'
      BY <1>2, <1>3, <1>4, <2>1, <3>1, ContinuesStill
    <3> QED
      BY <2>1, <3>2 DEF ContinueOK
  <2>2. CASE m # n
    BY <1>1, <1>2, <1>3, <1>4, <2>2, ContinueSame
  <2> QED
    BY <2>1, <2>2
<1> QED
  BY <1>5, <1>6 DEF Reception

LEMMA ReceptionStep ==
  ASSUME LongSendersSteady, TypeInv, TypeInv', Flow, Reception, [Next]_vars
  PROVE  Reception'
<1>1. ASSUME NEW n \in Node, check(n) PROVE Reception'
  BY <1>1, CheckReception
<1>2. ASSUME NEW n \in Node, AbortReception(n) \/ IgnoreFrame(n) PROVE Reception'
  <2>1. /\ rxq[n] # <<>> /\ rxq' = [rxq EXCEPT ![n] = Tail(@)]
        /\ UNCHANGED <<link, changes, txq, reservedXmt, letter, sendcount>>
    BY <1>2 DEF AbortReception, IgnoreFrame, GetFrame, sending
  <2>2. /\ \A r \in Node \ {n} : ReceiverSame(r)
        /\ ReceiverSame(n) \/ (fromAlias'[n] = Nothing /\ rbuf'[n] = <<>>)
    BY <1>2 DEF AbortReception, IgnoreFrame, receiver, ReceiverSame, TypeInv, TypeOK
  <2> QED
    BY <2>1, <2>2, PassReception
<1>3. ASSUME NEW n \in Node, DiscardFrame(n) PROVE Reception'
  <2>1. /\ rxq[n] # <<>> /\ rxq' = [rxq EXCEPT ![n] = Tail(@)]
        /\ UNCHANGED <<link, changes, txq, reservedXmt, letter, sendcount>>
    BY <1>3 DEF DiscardFrame, sending
  <2>2. ReceiverSame(n) /\ \A r \in Node \ {n} : ReceiverSame(r)
    BY <1>3 DEF DiscardFrame, receiver, ReceiverSame
  <2> QED
    BY <2>1, <2>2, PassReception
<1>4. ASSUME NEW n \in Node, receivedFrame(n) PROVE Reception'
  BY <1>2, <1>4, ReplyReception, RefuseReception, StoreReception, DeliverReception
     DEF receivedFrame
<1>5. ASSUME NEW n \in Node, Transmit(n) \/ Links(n) PROVE Reception'
  BY <1>5, TransmitReception, LinksReception
<1>6. ASSUME NEW n \in Node, PowerOff(n) \/ PowerOn(n) PROVE Reception'
  BY <1>6, OffReception, OnReception
<1>7. ASSUME NEW p \in Posts, sendTransmitBuffer(p[1], p[2], p[3]) PROVE Reception'
  <2>1. p[1] \in Node /\ p[2] \in Node /\ p[3] \in Content
    BY DatagramAssumption
  <2> QED
    BY <1>7, <2>1, PostReception
<1>8. CASE UNCHANGED vars
  <2>1. UNCHANGED <<link, changes, txq, rxq, reservedXmt, letter, sendcount, fromAlias, rbuf>>
    BY <1>8 DEF vars, sending, receiver
  <2>2. /\ \A m, r \in Node : Segments(m, r)' \subseteq Segments(m, r)
        /\ \A m \in Node : Replies(m)' \subseteq Replies(m)
    BY <2>1 DEF Segments, Way, Replies
  <2>3. /\ UNCHANGED <<reservedXmt, letter, sendcount, fromAlias, rbuf>>
        /\ \A m \in Node : changes'[m] = changes[m] /\ link'[m] = link[m]
    BY <2>1
  <2> QED
    BY <2>2, <2>3, StayReception
<1> QED
  BY <1>1, <1>3, <1>4, <1>5, <1>6, <1>7, <1>8 DEF Next, Links

LEMMA ReceptionInit == Init => Reception
<1> SUFFICES ASSUME Init PROVE Reception
  OBVIOUS
<1>1. \A r \in Node : ~receiving(r) /\ rbuf[r] = <<>>
  BY DEF Init, receiving
<1>2. \A r \in Node : RbufOK(r)
  BY <1>1 DEF RbufOK
<1>3. TypeInv
  BY TypeInit
<1>4. \A m, r \in Node : ~Continuing(m, r)
  BY <1>1, <1>3, ContinuingIs
<1> QED
  BY <1>2, <1>4 DEF Reception, ContinueOK

LEMMA ReceptionHolds ==
  ASSUME LongSendersSteady
  PROVE  Spec => [](TypeInv /\ Flow /\ Reception)
<1>1. Spec => [](TypeInv /\ Flow)
  BY FlowHolds
<1>2. Init => Reception
  BY ReceptionInit
<1>3. TypeInv /\ TypeInv' /\ Flow /\ Reception /\ [Next]_vars => Reception'
  BY ReceptionStep
<1> QED
  BY <1>1, <1>2, <1>3, PTL DEF Spec

\* A datagram never runs past the end of the receive buffer, which nothing
\* guards (Datagram.cpp:180), if it has room for the longest datagram and if
\* senders of several segments keep their power: aliases may change, be
\* contested and be asked for, and segments be lost.
THEOREM FitsTheBuffer ==
  ASSUME LongSendersSteady
  PROVE  Spec => []FitsBuffer
<1>1. ASSUME TypeInv, Reception PROVE FitsBuffer
  <2> SUFFICES ASSUME NEW n \in Node, rbuf[n] # <<>>
               PROVE  Len(rbuf[n]) < Size[rbuf[n][1][2]]
    BY DEF FitsBuffer
  <2>1. RbufOK(n) /\ receiving(n)
    BY <1>1 DEF Reception, RbufOK
  <2> QED
    BY <1>1, <2>1, Receiving DEF Says
<1>2. TypeInv /\ Flow /\ Reception => FitsBuffer
  BY <1>1
<1>3. Spec => [](TypeInv /\ Flow /\ Reception)
  BY ReceptionHolds
<1> QED
  BY <1>2, <1>3, PTL

-----------------------------------------------------------------------------
(* The order of frames on their way                                        *)

Precedes(q, f, g) == \E i, j \in DOMAIN q : i < j /\ q[i] = f /\ q[j] = g

InTurn(q, f, x, g) ==
  \E i, j, k \in DOMAIN q : i < j /\ j < k /\ q[i] = f /\ q[j] = x /\ q[k] = g

\* f is ahead of g on the way from m to r.
Ahead(f, g, m, r) ==
  \/ Precedes(rxq[r], f, g)
  \/ f \in ToSet(rxq[r]) /\ g \in ToSet(txq[m])
  \/ Precedes(txq[m], f, g)

\* x is between f, which is ahead, and g.
Between(f, x, g, m, r) ==
  \/ InTurn(rxq[r], f, x, g)
  \/ Precedes(rxq[r], f, x) /\ g \in ToSet(txq[m])
  \/ f \in ToSet(rxq[r]) /\ Precedes(txq[m], x, g)
  \/ InTurn(txq[m], f, x, g)

LEMMA OrderAppend ==
  ASSUME NEW S, NEW q \in Seq(S), NEW e, NEW f, NEW x, NEW g
  PROVE  /\ Precedes(q, f, g) => Precedes(Append(q, e), f, g)
         /\ InTurn(q, f, x, g) => InTurn(Append(q, e), f, x, g)
         /\ f \in ToSet(q) => Precedes(Append(q, e), f, e)
         /\ Precedes(q, f, x) => InTurn(Append(q, e), f, x, e)
<1> DEFINE p == Append(q, e)
           l == Len(q) + 1
<1>1. /\ DOMAIN q = 1 .. Len(q) /\ DOMAIN p = 1 .. l /\ Len(q) \in Nat
      /\ \A i \in 1 .. Len(q) : p[i] = q[i]
      /\ p[l] = e
  OBVIOUS
<1> HIDE DEF p
<1>2. /\ \A i \in DOMAIN q : i \in DOMAIN p /\ p[i] = q[i] /\ i < l
      /\ l \in DOMAIN p
  BY <1>1
<1> HIDE DEF l
<1>3. f \in ToSet(q) => Precedes(p, f, e)
  BY <1>1, <1>2 DEF ToSet, Precedes
<1>4. Precedes(q, f, x) => InTurn(p, f, x, e)
  BY <1>1, <1>2 DEF Precedes, InTurn
<1>5. Precedes(q, f, g) => Precedes(p, f, g)
  BY <1>2 DEF Precedes
<1>6. InTurn(q, f, x, g) => InTurn(p, f, x, g)
  BY <1>2 DEF InTurn
<1> QED
  BY <1>3, <1>4, <1>5, <1>6 DEF p

LEMMA OrderTail ==
  ASSUME NEW S, NEW q \in Seq(S), q # <<>>, NEW f, NEW x, NEW g
  PROVE  /\ Precedes(q, f, g) => f = Head(q) \/ Precedes(Tail(q), f, g)
         /\ Precedes(q, f, g) => g \in ToSet(Tail(q)) /\ f \in ToSet(q) /\ g \in ToSet(q)
         /\ InTurn(q, f, x, g) => f = Head(q) \/ InTurn(Tail(q), f, x, g)
         /\ InTurn(q, f, x, g) => Precedes(Tail(q), x, g)
<1> DEFINE p == Tail(q)
<1>1. /\ DOMAIN q = 1 .. Len(q) /\ DOMAIN p = 1 .. Len(q) - 1 /\ Len(q) \in Nat
      /\ \A i \in 1 .. Len(q) - 1 : p[i] = q[i + 1]
      /\ q[1] = Head(q)
  OBVIOUS
<1> HIDE DEF p
<1>2. ASSUME NEW i \in DOMAIN q, i # 1
      PROVE  i - 1 \in DOMAIN p /\ p[i - 1] = q[i]
  <2>1. i - 1 \in 1 .. Len(q) - 1 /\ (i - 1) + 1 = i
    BY <1>1, <1>2
  <2>2. p[i - 1] = q[(i - 1) + 1]
    BY <1>1, <2>1
  <2> QED
    BY <1>1, <2>1, <2>2
<1>3. ASSUME NEW i \in DOMAIN q, NEW j \in DOMAIN q, i < j, q[i] = f, q[j] = g
      PROVE  /\ f = Head(q) \/ Precedes(p, f, g)
             /\ g \in ToSet(p) /\ f \in ToSet(q) /\ g \in ToSet(q)
  <2>1. j # 1 /\ (i # 1 => i - 1 < j - 1)
    BY <1>1, <1>3
  <2>2. j - 1 \in DOMAIN p /\ p[j - 1] = g
    BY <1>2, <1>3, <2>1
  <2>3. i # 1 => i - 1 \in DOMAIN p /\ p[i - 1] = f
    BY <1>2, <1>3
  <2>4. g \in ToSet(p) /\ f \in ToSet(q) /\ g \in ToSet(q)
    BY <1>3, <2>2 DEF ToSet
  <2>5. i # 1 => Precedes(p, f, g)
    BY <2>1, <2>2, <2>3 DEF Precedes
  <2> QED
    BY <1>1, <1>3, <2>4, <2>5
<1>4. ASSUME NEW i \in DOMAIN q, NEW j \in DOMAIN q, NEW k \in DOMAIN q,
             i < j, j < k, q[i] = f, q[j] = x, q[k] = g
      PROVE  /\ f = Head(q) \/ InTurn(p, f, x, g)
             /\ Precedes(p, x, g)
  <2>1. j # 1 /\ k # 1 /\ j - 1 < k - 1 /\ (i # 1 => i - 1 < j - 1)
    BY <1>1, <1>4
  <2>2. /\ j - 1 \in DOMAIN p /\ p[j - 1] = x
        /\ k - 1 \in DOMAIN p /\ p[k - 1] = g
    BY <1>2, <1>4, <2>1
  <2>3. i # 1 => i - 1 \in DOMAIN p /\ p[i - 1] = f
    BY <1>2, <1>4
  <2>4. Precedes(p, x, g)
    BY <2>1, <2>2 DEF Precedes
  <2>5. i # 1 => InTurn(p, f, x, g)
    BY <2>1, <2>2, <2>3 DEF InTurn
  <2> QED
    BY <1>1, <1>4, <2>4, <2>5
<1>5. Precedes(q, f, g) => /\ f = Head(q) \/ Precedes(p, f, g)
                           /\ g \in ToSet(p) /\ f \in ToSet(q) /\ g \in ToSet(q)
  BY <1>3 DEF Precedes
<1>6. InTurn(q, f, x, g) => /\ f = Head(q) \/ InTurn(p, f, x, g)
                            /\ Precedes(p, x, g)
  BY <1>4 DEF InTurn
<1> QED
  BY <1>5, <1>6 DEF p

\* A segment is on its way once.
LEMMA NotTwice ==
  ASSUME TypeInv, Flow, NEW m \in Node, NEW r \in Node, NEW f \in Segments(m, r)
  PROVE  /\ ~Before(f, f)
         /\ ~(f \in ToSet(rxq[r]) /\ f \in ToSet(txq[m]))
<1>1. IsSegment(f) /\ f.part[3] \in 1 .. Sent(m)
  BY DEF Flow, FlowOK, SegmentOK, Segments
<1>2. ~Before(f, f)
  BY <1>1 DEF Before
<1> QED
  BY <1>2 DEF Flow, Order

\* What is left of the frames from m to r is in the order it was in.
Keeps(m, r) ==
  /\ Segments(m, r)' \subseteq Segments(m, r)
  /\ \A f \in Segments(m, r)' : \A x :
       Takes(x, m, r) /\ Ahead(f, x, m, r) => Ahead(f, x, m, r)'
  /\ \A f, g \in Segments(m, r)' : \A x :
       Takes(x, m, r) /\ Between(f, x, g, m, r) => Between(f, x, g, m, r)'

\* And nothing of it is gone.
KeepsFront(m, r) ==
  /\ Way(m, r) \subseteq Way(m, r)'
  /\ \A g \in Segments(m, r)' : \A x :
       Takes(x, m, r) /\ Ahead(x, g, m, r) => Ahead(x, g, m, r)'

\* A frame that is ahead of another is on its way.
LEMMA AheadIs ==
  ASSUME TypeInv, NEW m \in Node, NEW r \in Node, NEW f, NEW g
  PROVE  Ahead(f, g, m, r) => /\ f \in ToSet(rxq[r]) \cup ToSet(txq[m])
                              /\ g \in ToSet(rxq[r]) \cup ToSet(txq[m])
BY DEF Ahead, Precedes, ToSet

LEMMA BetweenIs ==
  ASSUME NEW m \in Node, NEW r \in Node, NEW f, NEW x, NEW g
  PROVE  Between(f, x, g, m, r) => Ahead(f, x, m, r) /\ Ahead(x, g, m, r)
<1>1. \A q : InTurn(q, f, x, g) => Precedes(q, f, x) /\ Precedes(q, x, g)
  BY DEF InTurn, Precedes
<1>2. \A q : Precedes(q, f, x) => x \in ToSet(q)
  BY DEF Precedes, ToSet
<1>3. \A q : Precedes(q, x, g) => x \in ToSet(q)
  BY DEF Precedes, ToSet
<1> QED
  BY <1>1, <1>2, <1>3 DEF Between, Ahead

-----------------------------------------------------------------------------
(* What the frames on their way amount to                                  *)

\* Something other than the link layer has m send messages.
Interjects(m) == m \in Enquired \/ \E p \in Posts : p[2] = m

\* The power of m does not fail, and when its alias may be contested in the
\* middle of a datagram, nothing gives its frames the right type again before
\* the datagram's end.
Steady(m) == m \notin Fickle /\ (m \in Contested => ~Interjects(m))

\* Such are the nodes that send datagrams of several segments. From others a
\* datagram may arrive with segments left out.
LongSendersUndisturbed == \A p \in Posts : Size[p[3]] > 1 => Steady(p[1])

\* r is receiving, and has not changed its alias since m was asked to send.
Awaited(m, r) == Continuing(m, r) /\ link[r] = "up" /\ letter[m].to = getAlias(r)

\* Nothing of the datagram is missing so far.
InOrder(r) == receiving(r) => \A i \in 1 .. Len(rbuf[r]) : rbuf[r][i][3] = i

\* A receiver that has changed its alias is not sent to under the new one.
StaleOK(m, r) ==
  Continuing(m, r) =>
    /\ letter[m].to[2] <= changes[r]
    /\ link[r] \notin {"up", "off"} => letter[m].to[2] < changes[r]

\* The type left in txBuffer stays what makes segments get lost.
Spoilt(m) == txType[m] = "CAN" /\ ~Interjects(m)

\* Segments that are lost leave a gap with the AMD in it that was sent before.
GapOK(m, r) ==
  \A f, g \in Segments(m, r) :
    f.part[3] + 1 < g.part[3] => \E x \in Way(m, r) : Between(f, x, g, m, r)

\* It comes after the last segment before the gap,
LastOK(m, r) ==
  link[m] = "up" =>
    \/ Spoilt(m)
    \/ \A f \in Segments(m, r) :
         \/ txType[m] = "OpenLcb" /\ f.part[3] = Sent(m)
         \/ \E x \in Way(m, r) : Ahead(f, x, m, r)

\* and before the first one after it,
NextOK(m, r) ==
  Awaited(m, r) =>
    \A g \in Segments(m, r) :
      g.part[3] = Len(rbuf[r]) + 1 \/ \E x \in Way(m, r) : Ahead(x, g, m, r)

\* which may still have to be sent.
EndOK(m, r) ==
  Awaited(m, r) /\ link[m] = "up" =>
    \/ Spoilt(m)
    \/ txType[m] = "OpenLcb" /\ Sent(m) = Len(rbuf[r])
    \/ Way(m, r) # {}

PairOK(m, r) ==
  Steady(m) => StaleOK(m, r) /\ GapOK(m, r) /\ LastOK(m, r) /\ NextOK(m, r) /\ EndOK(m, r)

Handing ==
  /\ \A r \in Node : InOrder(r)
  /\ \A m, r \in Node : PairOK(m, r)

LEMMA Undisturbed ==
  ASSUME LongSendersUndisturbed
  PROVE  LongSendersSteady
BY DEF LongSendersUndisturbed, LongSendersSteady, Steady

\* What is in order in a step is on its way after it.
LEMMA AheadAfter ==
  ASSUME NEW m \in Node, NEW r \in Node, NEW f, NEW g
  PROVE  /\ Ahead(f, g, m, r)' /\ Takes(f, m, r) => f \in Way(m, r)'
         /\ Ahead(f, g, m, r)' /\ Takes(g, m, r) => g \in Way(m, r)'
<1>1. ASSUME Ahead(f, g, m, r)'
      PROVE  /\ f \in ToSet(rxq'[r]) \/ f \in ToSet(txq'[m])
             /\ g \in ToSet(rxq'[r]) \/ g \in ToSet(txq'[m])
  <2>1. \A q : Precedes(q, f, g) => f \in ToSet(q) /\ g \in ToSet(q)
    BY DEF Precedes, ToSet
  <2> QED
    BY <1>1, <2>1 DEF Ahead
<1> QED
  BY <1>1, WayIs

LEMMA BetweenAfter ==
  ASSUME NEW m \in Node, NEW r \in Node, NEW f, NEW x, NEW g,
         Between(f, x, g, m, r)', Takes(x, m, r)
  PROVE  x \in Way(m, r)'
<1>1. \A q : InTurn(q, f, x, g) => x \in ToSet(q)
  BY DEF InTurn, ToSet
<1>2. \A q : Precedes(q, f, x) => x \in ToSet(q)
  BY DEF Precedes, ToSet
<1>3. \A q : Precedes(q, x, g) => x \in ToSet(q)
  BY DEF Precedes, ToSet
<1>4. x \in ToSet(rxq'[r]) \/ x \in ToSet(txq'[m])
  BY <1>1, <1>2, <1>3 DEF Between
<1> QED
  BY <1>4, WayIs

LEMMA GapKept ==
  ASSUME NEW m \in Node, NEW r \in Node, GapOK(m, r), Keeps(m, r)
  PROVE  GapOK(m, r)'
<1> SUFFICES ASSUME NEW f \in Segments(m, r)', NEW g \in Segments(m, r)',
                    f.part[3] + 1 < g.part[3]
             PROVE  \E x \in Way(m, r)' : Between(f, x, g, m, r)'
  BY DEF GapOK
<1>1. f \in Segments(m, r) /\ g \in Segments(m, r)
  BY DEF Keeps
<1>2. PICK x \in Way(m, r) : Between(f, x, g, m, r)
  BY <1>1 DEF GapOK
<1>3. Takes(x, m, r)
  BY WayIs
<1>4. Between(f, x, g, m, r)'
  BY <1>2, <1>3 DEF Keeps
<1> QED
  BY <1>3, <1>4, BetweenAfter

\* What a step may do to the type in txBuffer.
TypeKept(m) ==
  \/ txType'[m] = txType[m]
  \/ txType'[m] = "OpenLcb" /\ Interjects(m)
  \/ txType'[m] = "CAN" /\ ~Interjects(m)

LEMMA SentSame ==
  ASSUME NEW m \in Node, SenderSame(m)
  PROVE  Sent(m)' = Sent(m) /\ Total(m)' = Total(m)
BY DEF Sent, Total, SenderSame

LEMMA LastKept ==
  ASSUME NEW m \in Node, NEW r \in Node, LastOK(m, r), Keeps(m, r), SenderSame(m),
         link'[m] = "up" => link[m] = "up" /\ TypeKept(m)
  PROVE  LastOK(m, r)'
<1> SUFFICES ASSUME link'[m] = "up", ~Spoilt(m)', NEW f \in Segments(m, r)'
             PROVE  \/ txType'[m] = "OpenLcb" /\ f.part[3] = Sent(m)'
                    \/ \E x \in Way(m, r)' : Ahead(f, x, m, r)'
  BY DEF LastOK
<1>1. f \in Segments(m, r)
  BY DEF Keeps
<1>2. txType'[m] = txType[m] \/ txType'[m] = "OpenLcb"
  BY DEF TypeKept, Spoilt
<1>3. ~Spoilt(m)
  BY DEF TypeKept, Spoilt
<1>4. CASE txType[m] = "OpenLcb" /\ f.part[3] = Sent(m)
  BY <1>2, <1>4, SentSame
<1>5. ASSUME NEW x \in Way(m, r), Ahead(f, x, m, r)
      PROVE  \E y \in Way(m, r)' : Ahead(f, y, m, r)'
  <2>1. Takes(x, m, r)
    BY WayIs
  <2>2. Ahead(f, x, m, r)'
    BY <1>5, <2>1 DEF Keeps
  <2> QED
    BY <2>1, <2>2, AheadAfter
<1> QED
  BY <1>1, <1>3, <1>4, <1>5 DEF LastOK

LEMMA NextKept ==
  ASSUME NEW m \in Node, NEW r \in Node, NextOK(m, r), Keeps(m, r),
         Awaited(m, r)' =>
           Awaited(m, r) /\ Len(rbuf'[r]) = Len(rbuf[r]) /\ KeepsFront(m, r)
  PROVE  NextOK(m, r)'
<1> SUFFICES ASSUME Awaited(m, r)', NEW g \in Segments(m, r)'
             PROVE  \/ g.part[3] = Len(rbuf'[r]) + 1
                    \/ \E x \in Way(m, r)' : Ahead(x, g, m, r)'
  BY DEF NextOK
<1>1. g \in Segments(m, r) /\ Awaited(m, r) /\ Len(rbuf'[r]) = Len(rbuf[r]) /\ KeepsFront(m, r)
  BY DEF Keeps
<1>2. ASSUME NEW x \in Way(m, r), Ahead(x, g, m, r)
      PROVE  x \in Way(m, r)' /\ Ahead(x, g, m, r)'
  <2>1. Takes(x, m, r)
    BY WayIs
  <2> QED
    BY <1>1, <1>2, <2>1 DEF KeepsFront
<1> QED
  BY <1>1, <1>2 DEF NextOK

LEMMA EndKept ==
  ASSUME NEW m \in Node, NEW r \in Node, EndOK(m, r), SenderSame(m),
         link'[m] = "up" => link[m] = "up" /\ TypeKept(m),
         Awaited(m, r)' =>
           Awaited(m, r) /\ Len(rbuf'[r]) = Len(rbuf[r]) /\ KeepsFront(m, r)
  PROVE  EndOK(m, r)'
<1> SUFFICES ASSUME Awaited(m, r)', link'[m] = "up", ~Spoilt(m)'
             PROVE  \/ txType'[m] = "OpenLcb" /\ Sent(m)' = Len(rbuf'[r])
                    \/ Way(m, r)' # {}
  BY DEF EndOK
<1>1. Awaited(m, r) /\ Len(rbuf'[r]) = Len(rbuf[r]) /\ Way(m, r) \subseteq Way(m, r)'
  BY DEF KeepsFront
<1>2. txType'[m] = txType[m] \/ txType'[m] = "OpenLcb"
  BY DEF TypeKept, Spoilt
<1>3. ~Spoilt(m)
  BY DEF TypeKept, Spoilt
<1> QED
  BY <1>1, <1>2, <1>3, SentSame DEF EndOK

\* The sender does nothing that matters, and of the receiver nothing is
\* expected that was not.
LEMMA PairKept ==
  ASSUME NEW m \in Node, NEW r \in Node, PairOK(m, r), SenderSame(m), Keeps(m, r),
         Steady(m) /\ link'[m] = "up" => link[m] = "up" /\ TypeKept(m),
         Steady(m) => StaleOK(m, r)',
         Steady(m) /\ Awaited(m, r)' =>
           Awaited(m, r) /\ Len(rbuf'[r]) = Len(rbuf[r]) /\ KeepsFront(m, r)
  PROVE  PairOK(m, r)'
<1> SUFFICES ASSUME Steady(m)
             PROVE  /\ StaleOK(m, r)' /\ GapOK(m, r)' /\ LastOK(m, r)'
                    /\ NextOK(m, r)' /\ EndOK(m, r)'
  BY DEF PairOK, Steady, Interjects
<1>1. GapOK(m, r) /\ LastOK(m, r) /\ NextOK(m, r) /\ EndOK(m, r)
  BY DEF PairOK
<1> QED
  BY <1>1, GapKept, LastKept, NextKept, EndKept

\* Nothing is on the way and nothing received.
LEMMA PairEmpty ==
  ASSUME NEW m \in Node, NEW r \in Node, Segments(m, r)' = {}, ~Continuing(m, r)'
  PROVE  PairOK(m, r)'
BY DEF PairOK, StaleOK, GapOK, LastOK, NextOK, EndOK, Awaited

\* Nothing is received from m.
LEMMA PairIdle ==
  ASSUME NEW m \in Node, NEW r \in Node, PairOK(m, r), SenderSame(m), Keeps(m, r),
         Steady(m) /\ link'[m] = "up" => link[m] = "up" /\ TypeKept(m),
         ~Continuing(m, r)'
  PROVE  PairOK(m, r)'
<1>1. StaleOK(m, r)' /\ ~Awaited(m, r)'
  BY DEF StaleOK, Awaited
<1> QED
  BY <1>1, PairKept

\* The receiver is as it was.
LEMMA PairSame ==
  ASSUME NEW m \in Node, NEW r \in Node, PairOK(m, r), SenderSame(m), Keeps(m, r),
         ReceiverSame(r), link'[r] = link[r], changes'[r] = changes[r],
         Steady(m) /\ link'[m] = "up" => link[m] = "up" /\ TypeKept(m),
         Continuing(m, r)' => Continuing(m, r),
         Awaited(m, r) => KeepsFront(m, r)
  PROVE  PairOK(m, r)'
<1>1. letter'[m] = letter[m] /\ rbuf'[r] = rbuf[r] /\ getAlias(r)' = getAlias(r)
  BY DEF SenderSame, ReceiverSame, getAlias
<1>2. Awaited(m, r)' => Awaited(m, r)
  BY <1>1 DEF Awaited
<1>3. Steady(m) => StaleOK(m, r)'
  BY <1>1 DEF PairOK, StaleOK
<1> QED
  BY <1>1, <1>2, <1>3, PairKept

\* Frames that join a queue are behind the others.
LEMMA JoinOrder ==
  ASSUME TypeInv, NEW m \in Node, NEW r \in Node, rxq'[r] = rxq[r],
         NEW e, txq'[m] = Append(txq[m], e), NEW f, NEW x, NEW g
  PROVE  /\ Ahead(f, g, m, r) => Ahead(f, g, m, r)'
         /\ Between(f, x, g, m, r) => Between(f, x, g, m, r)'
         /\ f \in ToSet(rxq[r]) \cup ToSet(txq[m]) => Ahead(f, e, m, r)'
         /\ Ahead(f, x, m, r) => Between(f, x, e, m, r)'
<1>1. txq[m] \in Seq(Frame)
  BY DEF TypeInv, TypeOK
<1>2. /\ Precedes(txq[m], f, g) => Precedes(txq'[m], f, g)
      /\ Precedes(txq[m], x, g) => Precedes(txq'[m], x, g)
      /\ InTurn(txq[m], f, x, g) => InTurn(txq'[m], f, x, g)
      /\ f \in ToSet(txq[m]) => Precedes(txq'[m], f, e)
      /\ x \in ToSet(txq[m]) => Precedes(txq'[m], x, e)
      /\ Precedes(txq[m], f, x) => InTurn(txq'[m], f, x, e)
  BY <1>1, OrderAppend
<1>3. ToSet(txq'[m]) = ToSet(txq[m]) \cup {e}
  BY <1>1, SetOfAppend
<1> QED
  BY <1>2, <1>3 DEF Ahead, Between

\* A queue is read.
LEMMA ReadOrder ==
  ASSUME TypeInv, NEW m \in Node, NEW r \in Node, txq'[m] = txq[m],
         rxq[r] # <<>>, rxq'[r] = Tail(rxq[r]), NEW f, NEW x, NEW g
  PROVE  /\ Ahead(f, g, m, r) => f = Head(rxq[r]) \/ Ahead(f, g, m, r)'
         /\ Between(f, x, g, m, r) => f = Head(rxq[r]) \/ Between(f, x, g, m, r)'
         /\ Between(f, x, g, m, r) => Ahead(x, g, m, r)'
<1>1. rxq[r] \in Seq(Frame)
  BY DEF TypeInv, TypeOK
<1>2. /\ Precedes(rxq[r], f, g) => f = Head(rxq[r]) \/ Precedes(rxq'[r], f, g)
      /\ Precedes(rxq[r], f, x) => f = Head(rxq[r]) \/ Precedes(rxq'[r], f, x)
      /\ Precedes(rxq[r], f, x) => x \in ToSet(rxq'[r])
      /\ InTurn(rxq[r], f, x, g) => f = Head(rxq[r]) \/ InTurn(rxq'[r], f, x, g)
      /\ InTurn(rxq[r], f, x, g) => Precedes(rxq'[r], x, g)
  BY <1>1, OrderTail
<1>3. ToSet(rxq[r]) = ToSet(rxq'[r]) \cup {Head(rxq[r])}
  BY <1>1, SetOfTail
<1>4. InTurn(txq[m], f, x, g) => Precedes(txq[m], x, g)
  BY DEF InTurn, Precedes
<1> QED
  BY <1>2, <1>3, <1>4 DEF Ahead, Between

\* Both queues as they were, or a frame joined one of them.
LEMMA GrowKeeps ==
  ASSUME TypeInv, NEW m \in Node, NEW r \in Node, rxq'[r] = rxq[r],
         txq'[m] = txq[m] \/ \E e : txq'[m] = Append(txq[m], e)
  PROVE  /\ \A f, g : Ahead(f, g, m, r) => Ahead(f, g, m, r)'
         /\ \A f, x, g : Between(f, x, g, m, r) => Between(f, x, g, m, r)'
         /\ Way(m, r) \subseteq Way(m, r)'
<1>1. CASE txq'[m] = txq[m]
  BY <1>1 DEF Ahead, Between, Way
<1>2. ASSUME NEW e, txq'[m] = Append(txq[m], e)
      PROVE  /\ \A f, g : Ahead(f, g, m, r) => Ahead(f, g, m, r)'
             /\ \A f, x, g : Between(f, x, g, m, r) => Between(f, x, g, m, r)'
             /\ Way(m, r) \subseteq Way(m, r)'
  <2>1. txq[m] \in Seq(Frame)
    BY DEF TypeInv, TypeOK
  <2>2. ToSet(txq'[m]) = ToSet(txq[m]) \cup {e}
    BY <1>2, <2>1, SetOfAppend
  <2>3. Way(m, r) \subseteq Way(m, r)'
    BY <2>2, WayIs
  <2>4. \A f, g : Ahead(f, g, m, r) => Ahead(f, g, m, r)'
    BY <1>2, JoinOrder
  <2>5. \A f, x, g : Between(f, x, g, m, r) => Between(f, x, g, m, r)'
    BY <1>2, JoinOrder
  <2> QED
    BY <2>3, <2>4, <2>5
<1> QED
  BY <1>1, <1>2

LEMMA GrowPair ==
  ASSUME TypeInv, NEW m \in Node, NEW r \in Node, rxq'[r] = rxq[r],
         txq'[m] = txq[m] \/ \E e : txq'[m] = Append(txq[m], e),
         Segments(m, r)' \subseteq Segments(m, r)
  PROVE  Keeps(m, r) /\ KeepsFront(m, r)
<1>1. /\ \A f, g : Ahead(f, g, m, r) => Ahead(f, g, m, r)'
      /\ \A f, x, g : Between(f, x, g, m, r) => Between(f, x, g, m, r)'
      /\ Way(m, r) \subseteq Way(m, r)'
  BY GrowKeeps
<1> QED
  BY <1>1 DEF Keeps, KeepsFront

\* A frame is read, and perhaps answered.
LEMMA ReadPair ==
  ASSUME TypeInv, Flow, NEW n \in Node, rxq[n] # <<>>,
         rxq' = [rxq EXCEPT ![n] = Tail(@)],
         \/ UNCHANGED txq
         \/ \E e : IsReply(e) /\ txq' = [txq EXCEPT ![n] = Append(@, e)],
         NEW m \in Node, NEW r \in Node
  PROVE  /\ Keeps(m, r)
         /\ r # n \/ ~Takes(Head(rxq[n]), m, n) => KeepsFront(m, r)
         /\ r = n => Head(rxq[n]) \notin Segments(m, n)'
<1> DEFINE h == Head(rxq[n])
<1>1. /\ Way(m, r)' \subseteq Way(m, r)
      /\ r # n => Way(m, r)' = Way(m, r)
      /\ r = n => Way(m, r) \subseteq Way(m, r)' \cup {h}
      /\ r = n => \A f \in Way(m, r)' : Before(h, f)
  BY ReadWay DEF Flow
<1>2. Segments(m, r)' \subseteq Segments(m, r)
  BY <1>1, SegmentsShrink
<1>3. r = n => h \notin Segments(m, n)'
  <2>1. SUFFICES ASSUME r = n, h \in Segments(m, n)' PROVE FALSE
    OBVIOUS
  <2>2. h \in Segments(m, n) /\ Before(h, h)
    BY <1>1, <1>2, <2>1 DEF Segments
  <2> QED
    BY <2>2, NotTwice
<1> HIDE DEF h
<1>4. txq'[m] = txq[m] \/ \E e : txq'[m] = Append(txq[m], e)
  <2>1. txq \in [Node -> Seq(Frame)]
    BY DEF TypeInv, TypeOK
  <2>2. CASE UNCHANGED txq
    BY <2>2
  <2>3. ASSUME NEW e, txq' = [txq EXCEPT ![n] = Append(@, e)]
        PROVE  txq'[m] = txq[m] \/ txq'[m] = Append(txq[m], e)
    BY <2>1, <2>3
  <2> QED
    BY <2>2, <2>3
<1>5. CASE r # n
  <2>1. rxq'[r] = rxq[r]
    BY <1>5
  <2> QED
    BY <1>2, <1>4, <1>5, <2>1, GrowPair
<1>6. CASE r = n
  <2>1. rxq'[n] = Tail(rxq[n])
    BY DEF TypeInv, TypeOK
  <2>2. /\ \A f, g : Ahead(f, g, m, n) => f = h \/ Ahead(f, g, m, n)'
        /\ \A f, x, g : Between(f, x, g, m, n) => f = h \/ Between(f, x, g, m, n)'
    <3>1. CASE txq'[m] = txq[m]
      BY <2>1, <3>1, ReadOrder DEF h
    <3>2. ASSUME NEW e, txq'[m] = Append(txq[m], e)
          PROVE  /\ \A f, g : Ahead(f, g, m, n) => f = h \/ Ahead(f, g, m, n)'
                 /\ \A f, x, g : Between(f, x, g, m, n) => f = h \/ Between(f, x, g, m, n)'
      <4> SUFFICES ASSUME NEW f, NEW x, NEW g
                   PROVE  /\ Ahead(f, g, m, n) => f = h \/ Ahead(f, g, m, n)'
                          /\ Between(f, x, g, m, n) => f = h \/ Between(f, x, g, m, n)'
        OBVIOUS
      <4>1. rxq[n] \in Seq(Frame) /\ txq[m] \in Seq(Frame)
        BY DEF TypeInv, TypeOK
      <4>2. /\ Precedes(rxq[n], f, g) => f = h \/ Precedes(rxq'[n], f, g)
            /\ Precedes(rxq[n], f, x) => f = h \/ Precedes(rxq'[n], f, x)
            /\ InTurn(rxq[n], f, x, g) => f = h \/ InTurn(rxq'[n], f, x, g)
        <5>1. h = Head(rxq[n])
          BY DEF h
        <5>2. /\ Precedes(rxq[n], f, g) => f = Head(rxq[n]) \/ Precedes(Tail(rxq[n]), f, g)
              /\ Precedes(rxq[n], f, x) => f = Head(rxq[n]) \/ Precedes(Tail(rxq[n]), f, x)
              /\ InTurn(rxq[n], f, x, g) => f = Head(rxq[n]) \/ InTurn(Tail(rxq[n]), f, x, g)
          BY <4>1, OrderTail
        <5> QED
          BY <2>1, <5>1, <5>2
      <4>3. ToSet(rxq[n]) = ToSet(rxq'[n]) \cup {h}
        BY <2>1, <4>1, SetOfTail DEF h
      <4>4. /\ Precedes(txq[m], f, g) => Precedes(txq'[m], f, g)
            /\ Precedes(txq[m], x, g) => Precedes(txq'[m], x, g)
            /\ InTurn(txq[m], f, x, g) => InTurn(txq'[m], f, x, g)
        BY <3>2, <4>1, OrderAppend
      <4>5. ToSet(txq'[m]) = ToSet(txq[m]) \cup {e}
        BY <3>2, <4>1, SetOfAppend
      <4> QED
        BY <4>2, <4>3, <4>4, <4>5 DEF Ahead, Between
    <3> QED
      BY <1>4, <3>1, <3>2
  <2>3. Keeps(m, n)
    BY <1>2, <1>3, <1>6, <2>2 DEF Keeps
  <2>4. ASSUME ~Takes(h, m, n) PROVE KeepsFront(m, n)
    <3>1. Way(m, n) \subseteq Way(m, n)'
      BY <1>1, <1>6, <2>4, WayIs
    <3> QED
      BY <2>2, <2>4, <3>1 DEF KeepsFront
  <2> QED
    BY <1>3, <1>6, <2>3, <2>4 DEF h
<1> QED
  BY <1>3, <1>5, <1>6 DEF h

\* A node loses power: what it has received is gone.
LEMMA ClearPair ==
  ASSUME TypeInv, Flow, NEW m \in Node, NEW r \in Node, rxq'[r] = <<>>, txq'[m] = txq[m]
  PROVE  Keeps(m, r)
<1>1. Segments(m, r)' \subseteq Segments(m, r)
  BY SetOfEmpty DEF Segments, Way
<1>2. ASSUME NEW f \in Segments(m, r)' PROVE f \notin ToSet(rxq[r])
  <2>1. f \in ToSet(txq[m])
    BY SetOfEmpty DEF Segments, Way
  <2> QED
    BY <1>1, <2>1, NotTwice
<1>3. \A f, g : Precedes(rxq[r], f, g) => f \in ToSet(rxq[r])
  BY DEF Precedes, ToSet
<1>4. \A f, x, g : InTurn(rxq[r], f, x, g) => f \in ToSet(rxq[r])
  BY DEF InTurn, ToSet
<1>5. ASSUME NEW f \in Segments(m, r)', NEW x, NEW g
      PROVE  /\ Ahead(f, x, m, r) => Ahead(f, x, m, r)'
             /\ Between(f, x, g, m, r) => Between(f, x, g, m, r)'
  BY <1>2, <1>3, <1>4 DEF Ahead, Between
<1> QED
  BY <1>1, <1>5 DEF Keeps

\* A frame arrives from another node than m.
LEMMA OtherPair ==
  ASSUME TypeInv, NEW m \in Node, NEW r \in Node, txq'[m] = txq[m], NEW e,
         rxq'[r] = rxq[r] \/ rxq'[r] = Append(rxq[r], e),
         Segments(m, r)' \subseteq Segments(m, r)
  PROVE  Keeps(m, r) /\ KeepsFront(m, r)
<1>1. CASE rxq'[r] = rxq[r]
  BY <1>1, GrowPair
<1>2. CASE rxq'[r] = Append(rxq[r], e)
  <2>1. rxq[r] \in Seq(Frame)
    BY DEF TypeInv, TypeOK
  <2>2. ToSet(rxq'[r]) = ToSet(rxq[r]) \cup {e}
    BY <1>2, <2>1, SetOfAppend
  <2>3. ASSUME NEW f, NEW x, NEW g
        PROVE  /\ Ahead(f, g, m, r) => Ahead(f, g, m, r)'
               /\ Between(f, x, g, m, r) => Between(f, x, g, m, r)'
    <3>1. /\ Precedes(rxq[r], f, g) => Precedes(rxq'[r], f, g)
          /\ Precedes(rxq[r], f, x) => Precedes(rxq'[r], f, x)
          /\ InTurn(rxq[r], f, x, g) => InTurn(rxq'[r], f, x, g)
      BY <1>2, <2>1, OrderAppend
    <3> QED
      BY <2>2, <3>1 DEF Ahead, Between
  <2>4. Way(m, r) \subseteq Way(m, r)'
    BY <2>2, WayIs
  <2> QED
    BY <2>3, <2>4 DEF Keeps, KeepsFront
<1> QED
  BY <1>1, <1>2

\* A frame moves from the sender's queue to the receiver's.
LEMMA MoveOrder ==
  ASSUME TypeInv, NEW m \in Node, NEW r \in Node, txq[m] # <<>>, txq'[m] = Tail(txq[m]),
         rxq'[r] = Append(rxq[r], Head(txq[m])), NEW f, NEW x, NEW g
  PROVE  /\ Ahead(f, g, m, r) => Ahead(f, g, m, r)'
         /\ Between(f, x, g, m, r) => Between(f, x, g, m, r)'
<1> DEFINE h == Head(txq[m])
<1>1. rxq[r] \in Seq(Frame) /\ txq[m] \in Seq(Frame)
  BY DEF TypeInv, TypeOK
<1>2. /\ Precedes(rxq[r], f, g) => Precedes(rxq'[r], f, g)
      /\ Precedes(rxq[r], f, x) => Precedes(rxq'[r], f, x)
      /\ InTurn(rxq[r], f, x, g) => InTurn(rxq'[r], f, x, g)
      /\ f \in ToSet(rxq[r]) => Precedes(rxq'[r], f, h)
      /\ Precedes(rxq[r], f, x) => InTurn(rxq'[r], f, x, h)
  BY <1>1, OrderAppend
<1>3. ToSet(rxq'[r]) = ToSet(rxq[r]) \cup {h}
  BY <1>1, SetOfAppend
<1>4. /\ Precedes(txq[m], f, g) => f = h \/ Precedes(txq'[m], f, g)
      /\ Precedes(txq[m], f, g) => g \in ToSet(txq'[m])
      /\ Precedes(txq[m], x, g) => x = h \/ Precedes(txq'[m], x, g)
      /\ Precedes(txq[m], x, g) => g \in ToSet(txq'[m])
      /\ InTurn(txq[m], f, x, g) => f = h \/ InTurn(txq'[m], f, x, g)
      /\ InTurn(txq[m], f, x, g) => Precedes(txq'[m], x, g)
  BY <1>1, OrderTail
<1>5. ToSet(txq[m]) = ToSet(txq'[m]) \cup {h}
  BY <1>1, SetOfTail
<1> HIDE DEF h
<1> QED
  BY <1>2, <1>3, <1>4, <1>5 DEF Ahead, Between

\* A frame of the sender's is sent, and the receiver does not hear it.
LEMMA PassOrder ==
  ASSUME TypeInv, NEW m \in Node, NEW r \in Node, txq[m] # <<>>, txq'[m] = Tail(txq[m]),
         rxq'[r] = rxq[r], NEW f, NEW x, NEW g
  PROVE  /\ Ahead(f, g, m, r) => \/ Ahead(f, g, m, r)' \/ f = Head(txq[m])
                                 \/ g = Head(txq[m]) /\ f \in ToSet(rxq[r])
         /\ Between(f, x, g, m, r) => \/ Between(f, x, g, m, r)' \/ f = Head(txq[m])
                                      \/ x = Head(txq[m]) /\ f \in ToSet(rxq[r])
                                      \/ g = Head(txq[m]) /\ f \in ToSet(rxq[r])
<1>a. PICK h : h = Head(txq[m])
  OBVIOUS
<1>1. txq[m] \in Seq(Frame)
  BY DEF TypeInv, TypeOK
<1>2. /\ Precedes(txq[m], f, g) => f = h \/ Precedes(txq'[m], f, g)
      /\ Precedes(txq[m], x, g) => x = h \/ Precedes(txq'[m], x, g)
      /\ InTurn(txq[m], f, x, g) => f = h \/ InTurn(txq'[m], f, x, g)
  BY <1>1, <1>a, OrderTail
<1>3. ToSet(txq[m]) = ToSet(txq'[m]) \cup {h}
  BY <1>1, <1>a, SetOfTail
<1>4. Precedes(rxq[r], f, x) => f \in ToSet(rxq[r])
  BY DEF Precedes, ToSet
<1> QED
  BY <1>2, <1>3, <1>4, <1>a DEF Ahead, Between

LEMMA BusPair ==
  ASSUME TypeInv, Flow, NEW n \in Node, Transmit(n), NEW m \in Node, NEW r \in Node
  PROVE  Keeps(m, r) /\ (link[r] # "off" /\ m # r => KeepsFront(m, r))
<1>a. PICK h : h = Head(txq[n])
  OBVIOUS
<1>1. /\ txq[n] # <<>>
      /\ txq' = [txq EXCEPT ![n] = Tail(@)]
      /\ rxq' = [x \in Node |-> IF Hears(n, x, h) THEN Append(rxq[x], h) ELSE rxq[x]]
  BY <1>a DEF Transmit
<1>2. txq \in [Node -> Seq(Frame)] /\ txq[n] \in Seq(Frame) /\ Sorted(txq[n])
  BY DEF TypeInv, TypeOK, Flow, Order
<1>3. /\ txq'[n] = Tail(txq[n]) /\ \A x \in Node \ {n} : txq'[x] = txq[x]
      /\ Hears(n, r, h) => rxq'[r] = Append(rxq[r], h)
      /\ ~Hears(n, r, h) => rxq'[r] = rxq[r]
  BY <1>1, <1>2
<1>4. Segments(m, r)' \subseteq Segments(m, r)
  BY TransmitFlow, SegmentsShrink DEF Arrives
<1>5. CASE m # n
  <2>1. txq'[m] = txq[m] /\ (rxq'[r] = rxq[r] \/ rxq'[r] = Append(rxq[r], h))
    BY <1>3, <1>5
  <2> QED
    BY <1>4, <2>1, OtherPair
<1>6. CASE m = n /\ Hears(n, r, h)
  <2>1. /\ \A f, g : Ahead(f, g, m, r) => Ahead(f, g, m, r)'
        /\ \A f, x, g : Between(f, x, g, m, r) => Between(f, x, g, m, r)'
    <3>1. txq[m] # <<>> /\ txq'[m] = Tail(txq[m]) /\ rxq'[r] = Append(rxq[r], Head(txq[m]))
      BY <1>1, <1>3, <1>6, <1>a
    <3> QED
      BY <3>1, MoveOrder
  <2>2. Way(m, r) \subseteq Way(m, r)'
    <3>1. ToSet(txq[n]) = ToSet(txq'[n]) \cup {h}
      BY <1>1, <1>2, <1>3, <1>a, SetOfTail
    <3>2. ToSet(rxq'[r]) = ToSet(rxq[r]) \cup {h}
      <4>1. rxq[r] \in Seq(Frame)
        BY DEF TypeInv, TypeOK
      <4> QED
        BY <1>3, <1>6, <4>1, SetOfAppend
    <3> QED
      BY <1>6, <3>1, <3>2, WayIs
  <2> QED
    BY <1>4, <2>1, <2>2 DEF Keeps, KeepsFront
<1>7. CASE m = n /\ ~Hears(n, r, h)
  <2>1. ASSUME NEW f, NEW x, NEW g
        PROVE  /\ Ahead(f, g, n, r) => \/ Ahead(f, g, n, r)' \/ f = h
                                       \/ g = h /\ f \in ToSet(rxq[r])
               /\ Between(f, x, g, n, r) => \/ Between(f, x, g, n, r)' \/ f = h
                                            \/ x = h /\ f \in ToSet(rxq[r])
                                            \/ g = h /\ f \in ToSet(rxq[r])
    <3>1. txq[n] # <<>> /\ txq'[n] = Tail(txq[n]) /\ rxq'[r] = rxq[r]
      BY <1>1, <1>3, <1>7
    <3>2. /\ Ahead(f, g, n, r) => \/ Ahead(f, g, n, r)' \/ f = Head(txq[n])
                                  \/ g = Head(txq[n]) /\ f \in ToSet(rxq[r])
          /\ Between(f, x, g, n, r) => \/ Between(f, x, g, n, r)' \/ f = Head(txq[n])
                                       \/ x = Head(txq[n]) /\ f \in ToSet(rxq[r])
                                       \/ g = Head(txq[n]) /\ f \in ToSet(rxq[r])
      BY <3>1, PassOrder
    <3> QED
      BY <3>2, <1>a
  <2>2. /\ ToSet(txq[n]) = ToSet(txq'[n]) \cup {h}
        /\ \A g \in ToSet(txq'[n]) : Before(h, g)
    BY <1>1, <1>2, <1>3, <1>a, SetOfTail, SortedTail
  <2>3. h.src[1] = n
    BY <2>2, Placed
  <2>4. CASE ~Takes(h, n, r)
    <3>1. \A f \in Segments(n, r)' : Takes(f, n, r)
      BY WayIs DEF Segments
    <3>2. Way(n, r) \subseteq Way(n, r)'
      BY <1>3, <1>7, <2>2, <2>4, WayIs
    <3>3. Keeps(n, r)
      BY <1>4, <1>7, <2>1, <2>4, <3>1 DEF Keeps
    <3>4. KeepsFront(n, r)
      BY <2>1, <2>4, <3>1, <3>2 DEF KeepsFront
    <3> QED
      BY <1>7, <3>3, <3>4
  <2>5. CASE Takes(h, n, r)
    <3>1. r = n \/ link[r] = "off"
      BY <1>7, <2>5 DEF Takes, Hears, IsSegment, Announces, Addressed
    <3>2. ASSUME NEW f \in Segments(n, r)' PROVE f # h /\ f \notin ToSet(rxq[r])
      <4>1. f \in Segments(n, r) /\ f.src[1] = n
        BY <1>4, <1>7 DEF Segments, Way
      <4>2. f \notin ToSet(rxq[r])
        <5>1. CASE r = n
          BY <4>1, <5>1, Placed
        <5>2. CASE link[r] = "off"
          <6>1. rxq[r] = <<>>
            BY <5>2 DEF TypeInv
          <6> QED
            BY <6>1, SetOfEmpty
        <5> QED
          BY <3>1, <5>1, <5>2
      <4>3. f \in ToSet(txq'[n])
        BY <1>3, <1>7, <4>2 DEF Segments, Way
      <4>4. Before(h, f)
        BY <2>2, <4>3
      <4> QED
        BY <4>1, <4>2, <4>4, NotTwice
    <3> QED
      BY <1>4, <1>7, <2>1, <3>1, <3>2 DEF Keeps
  <2> QED
    BY <2>4, <2>5
<1> QED
  BY <1>5, <1>6, <1>7

-----------------------------------------------------------------------------
(* Every step keeps it                                                     *)

\* n's own receiver is not what it is received by.
LEMMA NotOwn ==
  ASSUME LongSendersSteady, TypeInv, Reception, NEW m \in Node, NEW r \in Node,
         Continuing(m, r)
  PROVE  m # r /\ receiving(r) /\ RbufOK(r) /\ fromAlias[r][1] = m
<1>1. fromAlias[r][1] = m /\ receiving(r) /\ RbufOK(r)
  BY ContinuingIs DEF Reception
<1> QED
  BY <1>1, Receiving

LEMMA IdleNow ==
  ASSUME TypeInv, TypeInv', NEW r \in Node, fromAlias'[r] = Nothing, NEW m \in Node
  PROVE  ~receiving(r)' /\ ~Continuing(m, r)'
<1>1. getAlias(m)' \in Alias
  BY DEF TypeInv, TypeOK
<1>2. ASSUME NEW g \in Segments(m, r)' PROVE g.src # Nothing
  <2>1. IsSegment(g) /\ (g \in ToSet(rxq'[r]) \/ g \in ToSet(txq'[m]))
    BY WayIs DEF Segments
  <2>2. rxq'[r] \in Seq(Frame) /\ txq'[m] \in Seq(Frame)
    BY DEF TypeInv, TypeOK
  <2>3. g \in Frame
    BY <2>1, <2>2 DEF ToSet
  <2>4. g \in Segment
    BY <2>1, <2>3 DEF Frame, Reply, LinkFrame, IsSegment, SegmentKind
  <2> QED
    BY <2>4, DatagramAssumption DEF Segment
<1> QED
  BY <1>1, <1>2, DatagramAssumption DEF Continuing, receiving

LEMMA OrderSame ==
  ASSUME NEW r \in Node, InOrder(r), ReceiverSame(r)
  PROVE  InOrder(r)'
BY DEF InOrder, ReceiverSame, receiving

\* A frame is read that is of no use to n, or after which nothing is received.
LEMMA ReadHanding ==
  ASSUME LongSendersSteady, TypeInv, Flow, Reception, Handing, NEW n \in Node, rxq[n] # <<>>,
         rxq' = [rxq EXCEPT ![n] = Tail(@)],
         \/ UNCHANGED txq
         \/ \E e : IsReply(e) /\ txq' = [txq EXCEPT ![n] = Append(@, e)],
         UNCHANGED <<link, changes>>,
         NEW m \in Node, NEW r \in Node, SenderSame(m), TypeKept(m),
         r # n => ReceiverSame(r),
         r = n => \/ ~Continuing(m, n)'
                  \/ ReceiverSame(n) /\ (~Takes(Head(rxq[n]), m, n) \/ ~Awaited(m, n))
  PROVE  PairOK(m, r)'
<1>1. /\ Keeps(m, r)
      /\ r # n \/ ~Takes(Head(rxq[n]), m, n) => KeepsFront(m, r)
  BY ReadPair
<1>2. PairOK(m, r)
  BY DEF Handing
<1>3. link'[m] = link[m] /\ link'[r] = link[r] /\ changes'[r] = changes[r]
  OBVIOUS
<1>4. CASE ~Continuing(m, r)'
  BY <1>1, <1>2, <1>3, <1>4, PairIdle
<1>5. CASE /\ Continuing(m, r)' /\ ReceiverSame(r)
           /\ r = n => ~Takes(Head(rxq[n]), m, n) \/ ~Awaited(m, n)
  <2>1. Segments(m, r)' \subseteq Segments(m, r) /\ getAlias(m)' = getAlias(m)
    BY <1>1 DEF Keeps, getAlias
  <2>2. Continuing(m, r)
    BY <1>5, <2>1, ContinuesStill
  <2>3. Awaited(m, r) => KeepsFront(m, r)
    BY <1>1, <1>5
  <2> QED
    BY <1>1, <1>2, <1>3, <1>5, <2>2, <2>3, PairSame
<1> QED
  BY <1>4, <1>5

\* An announcement that does not end the reception is not of the node that is
\* received from.
LEMMA AnnouncedIsNew ==
  ASSUME LongSendersSteady, TypeInv, Flow, Reception, NEW n \in Node, rxq[n] # <<>>,
         rxq' = [rxq EXCEPT ![n] = Tail(@)], UNCHANGED txq,
         NEW h, h = Head(rxq[n]), ~EndsReception(n, h), Announces(h),
         NEW m \in Node, Takes(h, m, n)
  PROVE  ~Continuing(m, n)
<1>1. SUFFICES ASSUME Continuing(m, n) PROVE FALSE
  OBVIOUS
<1>2. /\ receiving(n) /\ RbufOK(n) /\ fromAlias[n][1] = m
      /\ m \notin Fickle /\ fromAlias[n][2] \in Nat
  BY <1>1, NotOwn, Receiving
<1>3. h.src # fromAlias[n]
  BY DEF EndsReception, Announces
<1>4. AliasOK(m, n) /\ SenderOK(m)
  BY DEF Flow, FlowOK
<1>5. h \in Way(m, n)
  <2>1. rxq[n] \in Seq(Frame)
    BY DEF TypeInv, TypeOK
  <2>2. h \in ToSet(rxq[n])
    BY <2>1, SetOfTail
  <2> QED
    BY <2>2, WayIs
<1>6. CASE fromAlias[n] = getAlias(m)
  <2>1. fromAlias[n][2] = changes[m]
    BY <1>6 DEF getAlias
  <2>2. link[m] = "up"
    BY <1>2, <2>1 DEF RbufOK
  <2> QED
    BY <1>3, <1>4, <1>5, <1>6, <2>2 DEF AliasOK
<1>7. ASSUME NEW g \in Segments(m, n), g.src = fromAlias[n] PROVE FALSE
  <2>1. g \in Way(m, n) /\ IsSegment(g) /\ g.src[1] = m
    BY DEF Segments, Way
  <2>2. g # h
    BY <2>1, Kinds
  <2>a. /\ Way(m, n) \subseteq Way(m, n)' \cup {h}
        /\ \A f \in Way(m, n)' : Before(h, f)
    <3>1. Order(rxq, txq)
      BY DEF Flow
    <3>2. /\ Way(m, n) \subseteq Way(m, n)' \cup {Head(rxq[n])}
          /\ \A f \in Way(m, n)' : Before(Head(rxq[n]), f)
      BY <3>1, ReadWay
    <3> QED
      BY <3>2
  <2>3. g \in Way(m, n)'
    BY <2>1, <2>2, <2>a
  <2>4. Before(h, g)
    BY <2>3, <2>a
  <2>5. h.src[1] = m
    BY DEF Takes
  <2> QED
    BY <1>3, <1>7, <2>1, <2>4, <2>5 DEF Before
<1> QED
  BY <1>1, <1>6, <1>7 DEF Continuing

\* The next segment is the next part.
LEMMA FittingSegment ==
  ASSUME LongSendersUndisturbed, TypeInv, Flow, Reception, Handing, NEW n \in Node,
         ReceiveSegment(n), NEW h, h = Head(rxq[n]), NEW k, k = h.src[1], Fits(n, h)
  PROVE  /\ h.part[3] = Len(rbuf[n]) + 1
         /\ \A i \in 1 .. Len(rbuf[n]) : rbuf[n][i] = <<k, letter[k].says, i>>
<1>0. LongSendersSteady
  BY Undisturbed
<1>1. /\ rxq[n] # <<>> /\ link[n] = "up"
      /\ rxq' = [rxq EXCEPT ![n] = Tail(@)]
  BY DEF ReceiveSegment, GetFrame
<1>2. /\ k \in Node /\ h \in Segments(k, n) /\ letter[k] # Nothing
      /\ letter[k].to = getAlias(n)
      /\ h.part[3] \in 1 .. Sent(k)
      /\ h.kind = KindOf(Total(k) - h.part[3] + 1, Total(k))
  BY HeadSegment
<1>3. RbufOK(n) /\ InOrder(n)
  BY DEF Reception, Handing
<1>4. CASE h.kind \in {"First", "All"}
  <2>1. ~receiving(n) /\ rbuf[n] = <<>>
    BY <1>3, <1>4 DEF Fits, RbufOK
  <2>2. Total(k) \in Nat \ {0} /\ Sent(k) \in Nat /\ Sent(k) <= Total(k)
    BY <1>2, Lengths
  <2>3. Total(k) - h.part[3] + 1 \in 1 .. Total(k)
    BY <1>2, <2>2
  <2>4. Total(k) - h.part[3] + 1 = Total(k)
    BY <1>2, <1>4, <2>2, <2>3, KindIs
  <2>5. h.part[3] = 1
    BY <1>2, <2>2, <2>4
  <2> QED
    BY <2>1, <2>5
<1>5. CASE h.kind \notin {"First", "All"}
  <2>1. Continuing(k, n)
    BY <1>2, <1>5 DEF Fits, Continuing
  <2>2. Awaited(k, n)
    BY <1>1, <1>2, <2>1 DEF Awaited
  <2>3. receiving(n) /\ fromAlias[n][1] = k
    BY <1>0, <1>2, <2>1, NotOwn
  <2>4. /\ <<k, n, Says(n)>> \in Posts
        /\ \A i \in 1 .. Len(rbuf[n]) : rbuf[n][i] = <<k, Says(n), rbuf[n][i][3]>>
    BY <1>3, <2>3 DEF RbufOK
  <2>5. Size[Says(n)] > 1
    <3>1. /\ Len(rbuf[n]) \in Nat \ {0} /\ Size[Says(n)] \in Nat
          /\ Len(rbuf[n]) < Size[Says(n)]
      BY <1>0, <1>3, <2>3, Receiving
    <3> QED
      BY <3>1
  <2>6. Steady(k)
    BY <2>4, <2>5 DEF LongSendersUndisturbed
  <2>7. NextOK(k, n)
    BY <1>2, <2>6 DEF Handing, PairOK
  <2>8. Says(n) = letter[k].says
    BY <1>2, <2>1 DEF Reception, ContinueOK
  <2>9. ASSUME NEW x, Ahead(x, h, k, n) PROVE FALSE
    <3>1. h \in ToSet(rxq[n]) /\ ~Before(h, h) /\ h \notin ToSet(txq[k])
      <4>1. h \in ToSet(rxq[n])
        BY <1>1, ReadQueue DEF Flow
      <4> QED
        BY <1>2, <4>1, NotTwice
    <3>2. \A y : Precedes(txq[k], y, h) => h \in ToSet(txq[k])
      BY DEF Precedes, ToSet
    <3>3. Precedes(rxq[n], x, h)
      BY <2>9, <3>1, <3>2 DEF Ahead
    <3>4. h \in ToSet(Tail(rxq[n]))
      <4>1. rxq[n] \in Seq(Frame)
        BY DEF TypeInv, TypeOK
      <4> QED
        BY <1>1, <3>3, <4>1, OrderTail
    <3>5. Before(h, h)
      <4>1. rxq'[n] = Tail(rxq[n])
        BY <1>1 DEF TypeInv, TypeOK
      <4>2. \A g \in ToSet(rxq'[n]) : Before(h, g)
        BY <1>1, ReadQueue DEF Flow
      <4> QED
        BY <3>4, <4>1, <4>2
    <3> QED
      BY <3>1, <3>5
  <2>10. h.part[3] = Len(rbuf[n]) + 1
    BY <1>2, <2>2, <2>7, <2>9 DEF NextOK
  <2>11. \A i \in 1 .. Len(rbuf[n]) : rbuf[n][i][3] = i
    BY <1>3, <2>3 DEF InOrder
  <2> QED
    BY <2>4, <2>8, <2>10, <2>11
<1> QED
  BY <1>4, <1>5

LEMMA OrderEither ==
  ASSUME NEW r \in Node, InOrder(r), ReceiverSame(r) \/ ~receiving(r)'
  PROVE  InOrder(r)'
<1>1. CASE ReceiverSame(r)
  BY <1>1, OrderSame
<1>2. CASE ~receiving(r)'
  BY <1>2 DEF InOrder
<1> QED
  BY <1>1, <1>2

\* A frame is passed over, or ends a reception.
LEMMA PassHanding ==
  ASSUME LongSendersSteady, TypeInv, TypeInv', Flow, Reception, Handing, NEW n \in Node,
         AbortReception(n) \/ IgnoreFrame(n) \/ DiscardFrame(n)
  PROVE  Handing'
<1>a. PICK h : h = Head(rxq[n])
  OBVIOUS
<1>1. /\ rxq[n] # <<>> /\ rxq' = [rxq EXCEPT ![n] = Tail(@)]
      /\ UNCHANGED <<link, changes, txq, txType, reservedXmt, letter, sendcount>>
  BY DEF AbortReception, IgnoreFrame, DiscardFrame, GetFrame, sending
<1>2. /\ \A r \in Node \ {n} : ReceiverSame(r)
      /\ ReceiverSame(n) \/ (AbortReception(n) /\ fromAlias'[n] = Nothing)
  BY DEF AbortReception, IgnoreFrame, DiscardFrame, receiver, ReceiverSame, TypeInv, TypeOK
<1>3. ASSUME NEW m \in Node, ~AbortReception(n), Takes(h, m, n), Awaited(m, n) PROVE FALSE
  <2>1. Continuing(m, n) /\ link[n] = "up" /\ letter[m].to = getAlias(n)
    BY <1>3 DEF Awaited
  <2>2. IgnoreFrame(n)
    BY <1>3, <2>1 DEF DiscardFrame, Joining
  <2>3. ~EndsReception(n, h) /\ ~IsForHere(n, h)
    BY <1>a, <2>2 DEF IgnoreFrame
  <2>4. CASE IsSegment(h)
    <3>1. h \in ToSet(rxq[n])
      BY <1>1, <1>a, ReadQueue DEF Flow
    <3>2. h \in Segments(m, n)
      BY <1>3, <2>4, <3>1, WayIs DEF Segments
    <3>3. h.dst = getAlias(n)
      BY <2>1, <3>2 DEF Flow, FlowOK, SegmentOK
    <3> QED
      BY <2>3, <2>4, <3>3 DEF IsForHere, IsSegment, Addressed
  <2>5. CASE Announces(h)
    <3>1. rxq[n] # <<>> /\ rxq' = [rxq EXCEPT ![n] = Tail(@)] /\ UNCHANGED txq
      BY <1>1
    <3> QED
      BY <1>3, <1>a, <2>1, <2>3, <2>5, <3>1, AnnouncedIsNew
  <2> QED
    BY <1>3, <2>4, <2>5 DEF Takes
<1>4. ASSUME AbortReception(n) /\ fromAlias'[n] = Nothing, NEW m \in Node
      PROVE  ~receiving(n)' /\ ~Continuing(m, n)'
  BY <1>4, IdleNow
<1>5. ASSUME NEW m \in Node, NEW r \in Node PROVE PairOK(m, r)'
  <2>1. SenderSame(m) /\ TypeKept(m) /\ UNCHANGED <<link, changes>>
    BY <1>1 DEF SenderSame, TypeKept
  <2>2. r = n => \/ ~Continuing(m, n)'
                 \/ ReceiverSame(n) /\ (~Takes(Head(rxq[n]), m, n) \/ ~Awaited(m, n))
    <3>1. CASE AbortReception(n) /\ fromAlias'[n] = Nothing
      BY <1>4, <3>1
    <3>2. CASE ~AbortReception(n) /\ ReceiverSame(n)
      BY <1>3, <1>a, <3>2
    <3>3. AbortReception(n) => fromAlias'[n] = Nothing
      BY DEF AbortReception, TypeInv, TypeOK
    <3> QED
      BY <1>2, <3>1, <3>2, <3>3
  <2>3. rxq[n] # <<>> /\ rxq' = [rxq EXCEPT ![n] = Tail(@)] /\ UNCHANGED txq
    BY <1>1
  <2>4. r # n => ReceiverSame(r)
    BY <1>2
  <2> QED
    BY <2>1, <2>2, <2>3, <2>4, ReadHanding
<1>6. ASSUME NEW r \in Node PROVE InOrder(r)'
  <2>1. ReceiverSame(r) \/ ~receiving(r)'
    BY <1>2, <1>4
  <2> QED
    BY <2>1, OrderEither DEF Handing
<1> QED
  BY <1>5, <1>6 DEF Handing

\* n starts again, or has done with its datagram: nothing of it is left.
LEMMA ReplyHanding ==
  ASSUME LongSendersSteady, TypeInv, TypeInv', Flow, Reception, Handing, NEW n \in Node,
         ReceiveAck(n) \/ ReceiveReject(n)
  PROVE  Handing'
<1>1. /\ rxq[n] # <<>> /\ IsReply(Head(rxq[n]))
      /\ rxq' = [rxq EXCEPT ![n] = Tail(@)]
      /\ UNCHANGED <<link, changes, txq, txType, letter, fromAlias, rbuf>>
  BY DEF ReceiveAck, ReceiveReject, Released, GetFrame, IsReply, receiver
<1>2. \A m \in Node \ {n} : SenderSame(m)
  BY <1>1 DEF ReceiveAck, ReceiveReject, Released, TypeInv, TypeOK, SenderSame
<1>3. \A r \in Node : ReceiverSame(r)
  BY <1>1 DEF ReceiverSame
<1>4. Quiet(n) /\ Replies(n) # {}
  BY <1>1, HeadReply
<1>5. ASSUME NEW r \in Node PROVE PairOK(n, r)'
  <2>1. Segments(n, r)' = {}
    <3>1. Segments(n, r)' \subseteq Segments(n, r)
      BY <1>1, ReadWay, SegmentsShrink DEF Flow
    <3> QED
      BY <1>4, <3>1 DEF Quiet
  <2>2. ~Continuing(n, r)
    BY <1>4 DEF Reception, ContinueOK
  <2>3. ~Continuing(n, r)'
    <3>1. getAlias(n)' = getAlias(n)
      BY <1>1 DEF getAlias
    <3> QED
      BY <1>3, <2>1, <2>2, <3>1, ContinuesStill
  <2> QED
    BY <2>1, <2>3, PairEmpty
<1>6. ASSUME NEW m \in Node, m # n, NEW r \in Node PROVE PairOK(m, r)'
  <2>1. SenderSame(m) /\ TypeKept(m) /\ UNCHANGED <<link, changes>>
    BY <1>1, <1>2, <1>6 DEF TypeKept
  <2>2. ReceiverSame(n) /\ ~Takes(Head(rxq[n]), m, n)
    BY <1>1, <1>3, Kinds DEF Takes
  <2>3. rxq[n] # <<>> /\ rxq' = [rxq EXCEPT ![n] = Tail(@)] /\ UNCHANGED txq
    BY <1>1
  <2>4. r # n => ReceiverSame(r)
    BY <1>3
  <2> QED
    BY <2>1, <2>2, <2>3, <2>4, ReadHanding
<1>7. \A r \in Node : InOrder(r)'
  BY <1>3, OrderSame DEF Handing
<1> QED
  BY <1>5, <1>6, <1>7 DEF Handing

\* n answers a segment, and receives what it did, or nothing.
LEMMA AnswerHanding ==
  ASSUME LongSendersSteady, TypeInv, TypeInv', Flow, Reception, Handing, NEW n \in Node,
         RefuseSegment(n) \/ DeliverDatagram(n)
  PROVE  Handing'
<1>a. PICK h : h = Head(rxq[n])
  OBVIOUS
<1>b. PICK k : k = h.src[1]
  OBVIOUS
<1>1. /\ ReceiveSegment(n)
      /\ UNCHANGED <<reservedXmt, letter, sendcount>>
      /\ \/ UNCHANGED <<txq, txType>>
         \/ /\ \E e : IsReply(e) /\ txq' = [txq EXCEPT ![n] = Append(@, e)]
            /\ txType' = [txType EXCEPT ![n] = "OpenLcb"]
  <2>1. \A again : IsReply(setDatagramNak(n, Head(rxq[n]).src, again))
    BY DEF setDatagramNak, IsReply
  <2>2. IsReply(setDatagramAck(n, Head(rxq[n]).src))
    BY DEF setDatagramAck, IsReply
  <2> QED
    BY <2>1, <2>2 DEF RefuseSegment, DeliverDatagram, reply, sendWait, setType, sending
<1>2. /\ rxq[n] # <<>> /\ rxq' = [rxq EXCEPT ![n] = Tail(@)]
      /\ UNCHANGED <<link, changes>>
  BY <1>1 DEF ReceiveSegment, GetFrame
<1>3. /\ k \in Node /\ letter[k] # Nothing /\ letter[k].to[1] = n
  BY <1>1, <1>a, <1>b, HeadSegment
<1>4. Interjects(n)
  <2>1. <<k, n, letter[k].says>> \in Posts
    BY <1>3 DEF Flow, SenderOK
  <2> QED
    BY <2>1 DEF Interjects
<1>5. \A m \in Node : TypeKept(m)
  BY <1>1, <1>4 DEF TypeKept, TypeInv, TypeOK
<1>6. /\ \A r \in Node \ {n} : ReceiverSame(r)
      /\ (ReceiverSame(n) /\ ~Fits(n, h)) \/ fromAlias'[n] = Nothing
  BY <1>a DEF RefuseSegment, DeliverDatagram, receiver, ReceiverSame, TypeInv, TypeOK
<1>7. ~Fits(n, h) => ~Continuing(k, n)
  BY <1>1, <1>a, <1>b, RefusedIsNew
<1>8. ASSUME fromAlias'[n] = Nothing, NEW m \in Node
      PROVE  ~receiving(n)' /\ ~Continuing(m, n)'
  BY <1>8, IdleNow
<1>9. ASSUME NEW m \in Node, NEW r \in Node PROVE PairOK(m, r)'
  <2>1. SenderSame(m) /\ TypeKept(m) /\ UNCHANGED <<link, changes>>
    BY <1>1, <1>2, <1>5 DEF SenderSame
  <2>2. ASSUME r = n
        PROVE  \/ ~Continuing(m, n)'
               \/ ReceiverSame(n) /\ (~Takes(Head(rxq[n]), m, n) \/ ~Awaited(m, n))
    <3>1. m # k => ~Takes(h, m, n)
      BY <1>b DEF Takes
    <3>2. ~Fits(n, h) => ~Awaited(k, n)
      BY <1>7 DEF Awaited
    <3> QED
      BY <1>6, <1>8, <1>a, <3>1, <3>2
  <2>3. /\ rxq[n] # <<>> /\ rxq' = [rxq EXCEPT ![n] = Tail(@)]
        /\ \/ UNCHANGED txq
           \/ \E e : IsReply(e) /\ txq' = [txq EXCEPT ![n] = Append(@, e)]
    BY <1>1, <1>2
  <2>4. r # n => ReceiverSame(r)
    BY <1>6
  <2> QED
    BY <2>1, <2>2, <2>3, <2>4, ReadHanding
<1>10. ASSUME NEW r \in Node PROVE InOrder(r)'
  <2>1. ReceiverSame(r) \/ ~receiving(r)'
    BY <1>6, <1>8
  <2> QED
    BY <2>1, OrderEither DEF Handing
<1> QED
  BY <1>9, <1>10 DEF Handing

\* The segment that is stored is behind nothing but what it goes on from.
LEMMA StorePair ==
  ASSUME LongSendersUndisturbed, TypeInv, Flow, Reception, Handing, NEW n \in Node,
         StoreSegment(n), NEW h, h = Head(rxq[n]), NEW k, k = h.src[1]
  PROVE  PairOK(k, n)'
<1>0. LongSendersSteady
  BY Undisturbed
<1>1. /\ ReceiveSegment(n) /\ Fits(n, h)
      /\ rxq[n] # <<>> /\ link[n] = "up"
      /\ rxq' = [rxq EXCEPT ![n] = Tail(@)]
      /\ UNCHANGED <<link, changes, txq, txType, reservedXmt, letter, sendcount>>
  BY DEF StoreSegment, ReceiveSegment, GetFrame, sending
<1>2. /\ k \in Node /\ h \in Segments(k, n)
      /\ rbuf'[n] = Append(rbuf[n], h.part)
      /\ h.part[3] \in Nat \ {0}
  BY <1>0, StoreIs
<1>3. /\ letter[k].to = getAlias(n)
      /\ \A g \in Segments(k, n) : g = h \/ h.part[3] < g.part[3]
  BY <1>1, HeadSegment
<1>4. h.part[3] = Len(rbuf[n]) + 1
  BY <1>1, FittingSegment
<1>5. Len(rbuf'[n]) = h.part[3]
  BY <1>2, <1>4 DEF TypeInv, TypeOK
<1>6. SenderSame(k) /\ TypeKept(k)
  BY <1>1 DEF SenderSame, TypeKept
<1>7. Keeps(k, n) /\ h \notin Segments(k, n)'
  <2>1. rxq[n] # <<>> /\ rxq' = [rxq EXCEPT ![n] = Tail(@)] /\ UNCHANGED txq
    BY <1>1
  <2> QED
    BY <1>2, <2>1, ReadPair
<1> SUFFICES ASSUME Steady(k)
             PROVE  /\ StaleOK(k, n)' /\ GapOK(k, n)' /\ LastOK(k, n)'
                    /\ NextOK(k, n)' /\ EndOK(k, n)'
  BY DEF PairOK, Steady, Interjects
<1>8. GapOK(k, n) /\ LastOK(k, n)
  BY <1>2 DEF Handing, PairOK
<1>9. GapOK(k, n)' /\ LastOK(k, n)'
  BY <1>1, <1>2, <1>6, <1>7, <1>8, GapKept, LastKept
<1>10. StaleOK(k, n)'
  <2>1. letter'[k].to[2] = changes'[n] /\ changes'[n] \in Nat /\ link'[n] = "up"
    BY <1>1, <1>3 DEF getAlias, TypeInv, TypeOK
  <2> QED
    BY <2>1 DEF StaleOK
<1>11. rxq'[n] = Tail(rxq[n]) /\ txq'[k] = txq[k]
  BY <1>1 DEF TypeInv, TypeOK
<1>12. ASSUME NEW g \in Segments(k, n)'
       PROVE  \/ g.part[3] = Len(rbuf'[n]) + 1
              \/ \E x \in Way(k, n)' : Ahead(x, g, k, n)'
  <2>1. g \in Segments(k, n) /\ h.part[3] < g.part[3]
    BY <1>3, <1>7 DEF Keeps
  <2>2. g.part[3] \in Nat
    BY <1>2, <2>1 DEF Flow, FlowOK, SegmentOK
  <2>3. CASE g.part[3] = h.part[3] + 1
    BY <1>5, <2>3
  <2>4. CASE h.part[3] + 1 < g.part[3]
    <3>1. PICK x \in Way(k, n) : Between(h, x, g, k, n)
      BY <1>2, <1>8, <2>1, <2>4 DEF GapOK
    <3>2. Ahead(x, g, k, n)'
      BY <1>1, <1>2, <1>11, <3>1, ReadOrder
    <3>3. Takes(x, k, n)
      BY WayIs
    <3>4. x \in Way(k, n)'
      BY <1>2, <3>2, <3>3, AheadAfter
    <3> QED
      BY <3>2, <3>4
  <2> QED
    BY <1>2, <2>1, <2>2, <2>3, <2>4
<1>13. NextOK(k, n)'
  BY <1>12 DEF NextOK
<1>14. ASSUME link'[k] = "up", ~Spoilt(k)'
       PROVE  \/ txType'[k] = "OpenLcb" /\ Sent(k)' = Len(rbuf'[n])
              \/ Way(k, n)' # {}
  <2>1. link[k] = "up" /\ ~Spoilt(k)
    BY <1>1, <1>14 DEF Spoilt
  <2>2. CASE txType[k] = "OpenLcb" /\ h.part[3] = Sent(k)
    BY <1>1, <1>2, <1>5, <1>6, <2>2, SentSame
  <2>3. ASSUME NEW x \in Way(k, n), Ahead(h, x, k, n) PROVE x \in Way(k, n)'
    <3>1. Takes(x, k, n)
      BY WayIs
    <3>2. Precedes(rxq[n], h, x) => x \in ToSet(Tail(rxq[n]))
      <4>1. rxq[n] \in Seq(Frame)
        BY DEF TypeInv, TypeOK
      <4> QED
        BY <1>1, <4>1, OrderTail
    <3>3. Precedes(txq[k], h, x) => x \in ToSet(txq[k])
      BY DEF Precedes, ToSet
    <3>4. x \in ToSet(rxq'[n]) \/ x \in ToSet(txq'[k])
      BY <1>11, <2>3, <3>2, <3>3 DEF Ahead
    <3> QED
      BY <3>1, <3>4, WayIs
  <2> QED
    BY <1>2, <1>8, <2>1, <2>2, <2>3 DEF LastOK
<1>15. EndOK(k, n)'
  BY <1>14 DEF EndOK
<1> QED
  BY <1>9, <1>10, <1>13, <1>15

LEMMA StoreHanding ==
  ASSUME LongSendersUndisturbed, TypeInv, TypeInv', Flow, Reception, Handing, NEW n \in Node,
         StoreSegment(n)
  PROVE  Handing'
<1>a. PICK h : h = Head(rxq[n])
  OBVIOUS
<1>b. PICK k : k = h.src[1]
  OBVIOUS
<1>0. LongSendersSteady
  BY Undisturbed
<1>1. /\ ReceiveSegment(n) /\ Fits(n, h)
      /\ rxq[n] # <<>> /\ rxq' = [rxq EXCEPT ![n] = Tail(@)]
      /\ UNCHANGED <<link, changes, txq, txType, reservedXmt, letter, sendcount>>
  BY <1>a DEF StoreSegment, ReceiveSegment, GetFrame, sending
<1>2. /\ k \in Node /\ h \in Segments(k, n)
      /\ rbuf'[n] = Append(rbuf[n], h.part) /\ fromAlias'[n] = h.src
      /\ \A r \in Node \ {n} : ReceiverSame(r)
      /\ h.part[3] \in Nat \ {0}
  BY <1>0, <1>a, <1>b, StoreIs
<1>3. /\ h.part[3] = Len(rbuf[n]) + 1
      /\ \A i \in 1 .. Len(rbuf[n]) : rbuf[n][i] = <<k, letter[k].says, i>>
  BY <1>1, <1>a, <1>b, FittingSegment
<1>4. PairOK(k, n)'
  BY <1>a, <1>b, StorePair
<1>5. ASSUME NEW m \in Node, m # k PROVE ~Continuing(m, n)'
  <2>1. getAlias(m)'[1] = m
    BY DEF getAlias
  <2>2. Segments(m, n)' \subseteq Segments(m, n)
    BY <1>1, ReadWay, SegmentsShrink DEF Flow
  <2>3. \A g \in Segments(m, n)' : g.src[1] = m
    BY <2>2, SegmentFrom
  <2> QED
    BY <1>2, <1>5, <1>b, <2>1, <2>3 DEF Continuing
<1>6. ASSUME NEW m \in Node, NEW r \in Node, m # k \/ r # n PROVE PairOK(m, r)'
  <2>1. SenderSame(m) /\ TypeKept(m) /\ UNCHANGED <<link, changes>>
    BY <1>1 DEF SenderSame, TypeKept
  <2>2. rxq[n] # <<>> /\ rxq' = [rxq EXCEPT ![n] = Tail(@)] /\ UNCHANGED txq
    BY <1>1
  <2>3. r # n => ReceiverSame(r)
    BY <1>2
  <2>4. r = n => ~Continuing(m, n)'
    BY <1>5, <1>6
  <2> QED
    BY <1>0, <2>1, <2>2, <2>3, <2>4, ReadHanding
<1>7. InOrder(n)'
  <2>1. rbuf[n] \in Seq(Part)
    BY DEF TypeInv, TypeOK
  <2>2. /\ Len(rbuf'[n]) = Len(rbuf[n]) + 1 /\ Len(rbuf[n]) \in Nat
        /\ rbuf'[n][Len(rbuf[n]) + 1] = h.part
        /\ \A i \in 1 .. Len(rbuf[n]) : rbuf'[n][i] = rbuf[n][i]
    BY <1>2, <2>1
  <2>3. ASSUME NEW i \in 1 .. Len(rbuf'[n]) PROVE rbuf'[n][i][3] = i
    <3>1. CASE i = Len(rbuf[n]) + 1
      BY <1>3, <2>2, <3>1
    <3>2. CASE i \in 1 .. Len(rbuf[n])
      BY <1>3, <2>2, <3>2
    <3> QED
      BY <2>2, <3>1, <3>2
  <2> QED
    BY <2>3 DEF InOrder
<1>8. ASSUME NEW r \in Node, r # n PROVE InOrder(r)'
  BY <1>2, <1>8, OrderSame DEF Handing
<1> QED
  BY <1>4, <1>6, <1>7, <1>8 DEF Handing

\* The next segment is sent, or lost.
LEMMA CheckPair ==
  ASSUME TypeInv, Flow, Handing, NEW n \in Node, check(n), NEW r \in Node
  PROVE  PairOK(n, r)'
<1>a. PICK e : e = IF txType[n] = "OpenLcb" THEN segment(n) ELSE linkFrame(n, "Other")
  OBVIOUS
<1>1. /\ link[n] = "up" /\ sendcount[n] > 0
      /\ txq' = [txq EXCEPT ![n] = Append(@, e)]
      /\ UNCHANGED <<link, changes, txType, rxq, reservedXmt, letter, fromAlias, rbuf>>
  BY <1>a DEF check, sendWait, receiver
<1>2. /\ e.src[1] = n /\ e.src = getAlias(n)
      /\ txType[n] = "OpenLcb" => /\ IsSegment(e) /\ e.dst = letter[n].to
                                  /\ e.part[3] = Sent(n) + 1
      /\ txType[n] # "OpenLcb" => ~IsSegment(e) /\ ~Announces(e)
      /\ Sent(n) \in Nat
  <2>1. Sent(n) \in Nat
    BY <1>1, NextIs
  <2>2. CASE txType[n] = "OpenLcb"
    <3>1. e = segment(n)
      BY <1>a, <2>2
    <3> QED
      BY <1>1, <2>1, <2>2, <3>1, NextIs
  <2>3. CASE txType[n] # "OpenLcb"
    <3>1. e = linkFrame(n, "Other")
      BY <1>a, <2>3
    <3> QED
      BY <2>1, <2>3, <3>1 DEF linkFrame, getAlias, IsSegment, SegmentKind, Announces
  <2> QED
    BY <2>2, <2>3
<1>3. /\ Segments(n, r) \subseteq Segments(n, r)'
      /\ \A f \in Segments(n, r)' : f \in Segments(n, r) \/ f.part[3] = Sent(n) + 1
      /\ Sent(n)' = Sent(n) + 1
  BY CheckFlow DEF Joins
<1>4. \A f \in Segments(n, r) : f.part[3] \in 1 .. Sent(n) /\ f.dst = letter[n].to /\ f.dst[1] = r
  BY DEF Flow, FlowOK, SegmentOK, Segments, Way
<1>5. /\ Way(n, r) \subseteq Way(n, r)'
      /\ \A f \in Way(n, r)' : f \in Way(n, r) \/ (f = e /\ Takes(e, n, r))
      /\ Takes(e, n, r) => e \in Way(n, r)'
  <2>1. e.src[1] = n /\ txq' = [txq EXCEPT ![n] = Append(@, e)] /\ UNCHANGED rxq
    BY <1>1, <1>2
  <2> QED
    BY <2>1, SendWay
<1>6. ASSUME NEW f \in Segments(n, r)'
      PROVE  f \in Segments(n, r) \/ (f = e /\ txType[n] = "OpenLcb")
  <2>1. f \in Way(n, r)' /\ IsSegment(f)
    BY DEF Segments
  <2>2. f \in Way(n, r) \/ f = e
    BY <1>5, <2>1
  <2> QED
    BY <1>2, <2>1, <2>2 DEF Segments
<1>7. rxq'[r] = rxq[r] /\ txq'[n] = Append(txq[n], e)
  BY <1>1 DEF TypeInv, TypeOK
<1>8. ASSUME NEW f, NEW x, NEW g
      PROVE  /\ Ahead(f, g, n, r) => Ahead(f, g, n, r)'
             /\ Between(f, x, g, n, r) => Between(f, x, g, n, r)'
             /\ f \in ToSet(rxq[r]) \cup ToSet(txq[n]) => Ahead(f, e, n, r)'
             /\ Ahead(f, x, n, r) => Between(f, x, e, n, r)'
  BY <1>7, JoinOrder
<1>9. \A x \in Way(n, r) : x \in ToSet(rxq[r]) \cup ToSet(txq[n])
  BY WayIs
<1>10. Continuing(n, r)' => Continuing(n, r)
  <2>1. getAlias(n)' = getAlias(n) /\ fromAlias'[r] = fromAlias[r]
    BY <1>1 DEF getAlias
  <2>2. \A f \in Segments(n, r)' : f \in Segments(n, r) \/ f.src = getAlias(n)
    BY <1>2, <1>6
  <2> QED
    BY <2>1, <2>2 DEF Continuing
<1>11. Awaited(n, r)' => Awaited(n, r)
  BY <1>1, <1>10 DEF Awaited, getAlias
<1> SUFFICES ASSUME Steady(n)
             PROVE  /\ StaleOK(n, r)' /\ GapOK(n, r)' /\ LastOK(n, r)'
                    /\ NextOK(n, r)' /\ EndOK(n, r)'
  BY DEF PairOK, Steady, Interjects
<1>12. StaleOK(n, r) /\ GapOK(n, r) /\ LastOK(n, r) /\ NextOK(n, r) /\ EndOK(n, r)
  BY DEF Handing, PairOK
<1>13. StaleOK(n, r)'
  BY <1>1, <1>10, <1>12 DEF StaleOK
<1>14. Spoilt(n)' <=> Spoilt(n)
  BY <1>1 DEF Spoilt, Interjects
<1>15. txType[n] = "OpenLcb" => ~Spoilt(n)
  BY DEF Spoilt
<1>16. ASSUME NEW f \in Segments(n, r)', NEW g \in Segments(n, r)', f.part[3] + 1 < g.part[3]
       PROVE  \E x \in Way(n, r)' : Between(f, x, g, n, r)'
  <2>1. f \in Segments(n, r)
    BY <1>2, <1>3, <1>4, <1>16
  <2>2. CASE g \in Segments(n, r)
    <3>1. PICK x \in Way(n, r) : Between(f, x, g, n, r)
      BY <1>12, <1>16, <2>1, <2>2 DEF GapOK
    <3> QED
      BY <1>5, <1>8, <3>1
  <2>3. CASE g = e /\ txType[n] = "OpenLcb"
    <3>1. f.part[3] # Sent(n)
      BY <1>2, <1>16, <2>3
    <3>2. PICK x \in Way(n, r) : Ahead(f, x, n, r)
      BY <1>1, <1>12, <1>15, <2>1, <2>3, <3>1 DEF LastOK
    <3> QED
      BY <1>5, <1>8, <2>3, <3>2
  <2> QED
    BY <1>6, <2>2, <2>3
<1>17. ASSUME ~Spoilt(n)', NEW f \in Segments(n, r)'
       PROVE  \/ txType'[n] = "OpenLcb" /\ f.part[3] = Sent(n)'
              \/ \E x \in Way(n, r)' : Ahead(f, x, n, r)'
  <2>1. CASE f = e /\ txType[n] = "OpenLcb"
    BY <1>1, <1>2, <1>3, <2>1
  <2>2. CASE f \in Segments(n, r)
    <3>1. CASE txType[n] = "OpenLcb" /\ f.part[3] = Sent(n)
      <4>1. Takes(e, n, r)
        BY <1>2, <1>4, <2>2, <3>1 DEF Takes
      <4>2. f \in Way(n, r)
        BY <2>2 DEF Segments
      <4>3. Ahead(f, e, n, r)'
        BY <1>8, <1>9, <4>2
      <4> QED
        BY <1>5, <4>1, <4>3
    <3>2. ASSUME NEW x \in Way(n, r), Ahead(f, x, n, r)
          PROVE  x \in Way(n, r)' /\ Ahead(f, x, n, r)'
      BY <1>5, <1>8, <3>2
    <3> QED
      BY <1>1, <1>12, <1>14, <1>17, <2>2, <3>1, <3>2 DEF LastOK
  <2> QED
    BY <1>6, <2>1, <2>2
<1>18. ASSUME Awaited(n, r)', NEW g \in Segments(n, r)'
       PROVE  \/ g.part[3] = Len(rbuf'[r]) + 1
              \/ \E x \in Way(n, r)' : Ahead(x, g, n, r)'
  <2>1. Awaited(n, r)
    BY <1>11, <1>18
  <2>2. CASE g \in Segments(n, r)
    <3>1. \/ g.part[3] = Len(rbuf[r]) + 1
          \/ \E x \in Way(n, r) : Ahead(x, g, n, r)
      BY <1>12, <2>1, <2>2 DEF NextOK
    <3>2. ASSUME NEW x \in Way(n, r), Ahead(x, g, n, r)
          PROVE  x \in Way(n, r)' /\ Ahead(x, g, n, r)'
      BY <1>5, <1>8, <3>2
    <3> QED
      BY <1>1, <3>1, <3>2
  <2>3. CASE g = e /\ txType[n] = "OpenLcb"
    <3>1. Sent(n) = Len(rbuf[r]) \/ Way(n, r) # {}
      BY <1>1, <1>12, <1>15, <2>1, <2>3 DEF EndOK
    <3>2. ASSUME NEW x \in Way(n, r) PROVE x \in Way(n, r)' /\ Ahead(x, g, n, r)'
      BY <1>5, <1>8, <1>9, <2>3
    <3> QED
      BY <1>1, <1>2, <2>3, <3>1, <3>2
  <2> QED
    BY <1>6, <2>2, <2>3
<1>19. ASSUME Awaited(n, r)', ~Spoilt(n)' PROVE Way(n, r)' # {}
  <2>1. Awaited(n, r) /\ ~Spoilt(n)
    BY <1>11, <1>14, <1>19
  <2>2. CASE Way(n, r) # {}
    BY <1>5, <2>2
  <2>3. CASE txType[n] = "OpenLcb"
    <3>1. letter[n].to[1] = r
      BY <2>1 DEF Awaited, getAlias
    <3>2. Takes(e, n, r)
      BY <1>2, <2>3, <3>1 DEF Takes
    <3> QED
      BY <1>5, <3>2
  <2> QED
    BY <1>1, <1>12, <2>1, <2>2, <2>3 DEF EndOK
<1> QED
  BY <1>13, <1>16, <1>17, <1>18, <1>19 DEF GapOK, LastOK, NextOK, EndOK

LEMMA CheckHanding ==
  ASSUME TypeInv, Flow, Handing, NEW n \in Node, check(n)
  PROVE  Handing'
<1>1. /\ \E e : txq' = [txq EXCEPT ![n] = Append(@, e)]
      /\ sendcount' = [sendcount EXCEPT ![n] = @ - 1]
      /\ UNCHANGED <<link, changes, txType, rxq, reservedXmt, letter, fromAlias, rbuf>>
  BY DEF check, sendWait, receiver
<1>2. \A r \in Node : ReceiverSame(r)
  BY <1>1 DEF ReceiverSame
<1>3. ASSUME NEW m \in Node, m # n, NEW r \in Node PROVE PairOK(m, r)'
  <2>1. SenderSame(m) /\ TypeKept(m) /\ txq'[m] = txq[m]
    BY <1>1, <1>3 DEF SenderSame, TypeKept, TypeInv, TypeOK
  <2>2. Segments(m, r)' \subseteq Segments(m, r)
    BY <1>3, CheckFlow DEF Joins
  <2>3. rxq'[r] = rxq[r] /\ link'[r] = link[r] /\ changes'[r] = changes[r] /\ link'[m] = link[m]
    BY <1>1
  <2>4. Keeps(m, r) /\ KeepsFront(m, r)
    BY <2>1, <2>2, <2>3, GrowPair
  <2>5. getAlias(m)' = getAlias(m)
    BY <1>1 DEF getAlias
  <2>6. Continuing(m, r)' => Continuing(m, r)
    BY <1>2, <2>2, <2>5, ContinuesStill
  <2>7. PairOK(m, r)
    BY DEF Handing
  <2> QED
    BY <1>2, <2>1, <2>3, <2>4, <2>6, <2>7, PairSame
<1>4. \A r \in Node : PairOK(n, r)'
  BY CheckPair
<1>5. \A r \in Node : InOrder(r)'
  BY <1>2, OrderSame DEF Handing
<1> QED
  BY <1>3, <1>4, <1>5 DEF Handing

LEMMA TransmitHanding ==
  ASSUME LongSendersSteady, TypeInv, Flow, Reception, Handing, NEW n \in Node, Transmit(n)
  PROVE  Handing'
<1>1. UNCHANGED <<link, changes, txType, reservedXmt, letter, sendcount, fromAlias, rbuf>>
  BY DEF Transmit, sending, receiver
<1>2. \A r \in Node : ReceiverSame(r)
  BY <1>1 DEF ReceiverSame
<1>3. ASSUME NEW m \in Node, NEW r \in Node PROVE PairOK(m, r)'
  <2>1. SenderSame(m) /\ TypeKept(m)
    BY <1>1 DEF SenderSame, TypeKept
  <2>2. Keeps(m, r) /\ (link[r] # "off" /\ m # r => KeepsFront(m, r))
    BY BusPair
  <2>3. link'[r] = link[r] /\ changes'[r] = changes[r] /\ link'[m] = link[m]
    BY <1>1
  <2>4. getAlias(m)' = getAlias(m) /\ Segments(m, r)' \subseteq Segments(m, r)
    BY <1>1, <2>2 DEF getAlias, Keeps
  <2>5. Continuing(m, r)' => Continuing(m, r)
    BY <1>2, <2>4, ContinuesStill
  <2>6. Awaited(m, r) => KeepsFront(m, r)
    BY <2>2, NotOwn DEF Awaited
  <2>7. PairOK(m, r)
    BY DEF Handing
  <2> QED
    BY <1>2, <2>1, <2>2, <2>3, <2>5, <2>6, <2>7, PairSame
<1>4. \A r \in Node : InOrder(r)'
  BY <1>2, OrderSame DEF Handing
<1> QED
  BY <1>3, <1>4 DEF Handing

\* What n's link layer and its other handlers leave as it is.
LEMMA LinksKeep ==
  ASSUME TypeInv, Flow, NEW n \in Node, Links(n), NEW m \in Node, NEW r \in Node
  PROVE  /\ Keeps(m, r) /\ KeepsFront(m, r) /\ SenderSame(m) /\ ReceiverSame(r)
         /\ m # n => TypeKept(m)
<1>1. UNCHANGED <<rxq, reservedXmt, letter, sendcount, fromAlias, rbuf>>
  BY LinksIs
<1>2. /\ \E kind : Offers(n, kind)
      /\ \E type : txType' = [txType EXCEPT ![n] = type]
  <2>1. CASE ChangeAlias(n) \/ SendAMD(n) \/ SendInitComplete(n)
    BY <2>1 DEF ChangeAlias, SendAMD, SendInitComplete, sendIfReady, setType, Offers
  <2>2. CASE Claimed(n) \/ AnswerAME(n) \/ AnswerCIM(n) \/ SendMessage(n)
    BY <2>2 DEF Claimed, AnswerAME, AnswerCIM, SendMessage, sendWait, setType, Offers
  <2> QED
    BY <2>1, <2>2 DEF Links
<1>3. txq'[m] = txq[m] \/ \E e : txq'[m] = Append(txq[m], e)
  <2>1. PICK kind : Offers(n, kind)
    BY <1>2
  <2>2. txq' = txq \/ txq' = [txq EXCEPT ![n] = Append(@, linkFrame(n, kind))]
    BY <2>1 DEF Offers
  <2>a. PICK e : e = linkFrame(n, kind)
    OBVIOUS
  <2>3. CASE txq' = [txq EXCEPT ![n] = Append(@, e)]
    <3>1. txq'[m] = IF m = n THEN Append(txq[m], e) ELSE txq[m]
      BY <2>3 DEF TypeInv, TypeOK
    <3> QED
      BY <3>1
  <2> QED
    BY <2>2, <2>a, <2>3
<1>4. Segments(m, r)' \subseteq Segments(m, r)
  BY LinkFlow
<1>5. Keeps(m, r) /\ KeepsFront(m, r)
  BY <1>1, <1>3, <1>4, GrowPair
<1>6. m # n => TypeKept(m)
  BY <1>2 DEF TypeKept, TypeInv, TypeOK
<1> QED
  BY <1>1, <1>5, <1>6 DEF SenderSame, ReceiverSame

LEMMA LinksContinue ==
  ASSUME LongSendersSteady, TypeInv, TypeInv', Flow, Reception, NEW n \in Node, Links(n),
         NEW m \in Node, NEW r \in Node, Continuing(m, r)'
  PROVE  Continuing(m, r)
<1>1. /\ \A x \in Node \ {n} : changes'[x] = changes[x]
      /\ changes'[n] = changes[n] \/ ChangeAlias(n)
  BY LinksIs
<1>2. getAlias(m)' = getAlias(m) \/ fromAlias[r] # getAlias(m)'
  <2>1. CASE changes'[m] = changes[m]
    BY <2>1 DEF getAlias
  <2>2. CASE m = n /\ ChangeAlias(n)
    BY <2>2, NewAlias
  <2> QED
    BY <1>1, <2>1, <2>2
<1>3. ReceiverSame(r) /\ Segments(m, r)' \subseteq Segments(m, r)
  BY LinksKeep, LinkFlow
<1> QED
  BY <1>2, <1>3, ContinuesStill

\* n as the receiver of m
LEMMA LinksReceiver ==
  ASSUME LongSendersSteady, TypeInv, TypeInv', Flow, Reception, Handing, NEW n \in Node,
         Links(n), NEW m \in Node, m # n
  PROVE  PairOK(m, n)'
<1>1. /\ Keeps(m, n) /\ KeepsFront(m, n) /\ SenderSame(m) /\ ReceiverSame(n) /\ TypeKept(m)
  BY LinksKeep
<1>2. /\ link[n] # "off" /\ link'[n] # "off" /\ link'[m] = link[m]
      /\ changes'[n] = changes[n] \/ (ChangeAlias(n) /\ changes'[n] = changes[n] + 1)
  BY LinksIs
<1>3. /\ ~ChangeAlias(n) => (link[n] = "up" => link'[n] = "up")
      /\ ChangeAlias(n) => link'[n] = "claiming" /\ changes'[n] = changes[n] + 1
  BY DEF Links, ChangeAlias, Claimed, SendAMD, SendInitComplete, AnswerAME, AnswerCIM,
         SendMessage, TypeInv, TypeOK
<1>4. changes[n] \in Nat
  BY DEF TypeInv, TypeOK
<1>5. Continuing(m, n)' => Continuing(m, n)
  BY LinksContinue
<1>6. PairOK(m, n)
  BY DEF Handing
<1>7. ASSUME Continuing(m, n) PROVE letter[m].to \in Alias /\ letter[m].to[2] \in Nat
  <2>1. reservedXmt[m]
    BY <1>7 DEF Reception, ContinueOK
  <2>2. letter[m] # Nothing
    BY <2>1 DEF Flow, SenderOK
  <2>3. letter[m].to \in Alias
    BY <2>2, Lengths
  <2> QED
    BY <2>3, DatagramAssumption DEF Alias
<1>8. ASSUME Steady(m), Continuing(m, n)
      PROVE  /\ letter'[m].to[2] <= changes'[n]
             /\ link'[n] \notin {"up", "off"} => letter'[m].to[2] < changes'[n]
             /\ link'[n] = "up" /\ letter'[m].to = getAlias(n)' => link[n] = "up"
  <2>1. /\ letter[m].to[2] \in Nat
        /\ letter[m].to[2] <= changes[n]
        /\ link[n] \notin {"up", "off"} => letter[m].to[2] < changes[n]
    BY <1>6, <1>7, <1>8 DEF PairOK, StaleOK
  <2>2. letter'[m] = letter[m]
    BY <1>1 DEF SenderSame
  <2>3. CASE ChangeAlias(n)
    BY <1>3, <1>4, <2>1, <2>2, <2>3
  <2>4. CASE ~ChangeAlias(n)
    <3>1. changes'[n] = changes[n]
      BY <1>2, <2>4
    <3>2. letter'[m].to = getAlias(n)' => letter[m].to[2] = changes[n]
      BY <2>2, <3>1 DEF getAlias
    <3> QED
      BY <1>2, <1>3, <1>4, <2>1, <2>2, <2>4, <3>1, <3>2
  <2> QED
    BY <2>3, <2>4
<1>9. Steady(m) => StaleOK(m, n)'
  BY <1>5, <1>8 DEF StaleOK
<1>10. ASSUME Steady(m), Awaited(m, n)' PROVE Awaited(m, n) /\ Len(rbuf'[n]) = Len(rbuf[n])
  <2>1. /\ Continuing(m, n) /\ link'[n] = "up" /\ letter'[m].to = getAlias(n)'
    BY <1>5, <1>10 DEF Awaited
  <2>2. link[n] = "up"
    BY <1>8, <1>10, <2>1
  <2>3. ~ChangeAlias(n)
    BY <1>3, <2>1
  <2>4. letter[m].to = getAlias(n)
    BY <1>1, <1>2, <2>1, <2>3 DEF SenderSame, getAlias
  <2> QED
    BY <1>1, <2>1, <2>2, <2>4 DEF Awaited, ReceiverSame
<1> QED
  BY <1>1, <1>2, <1>6, <1>9, <1>10, PairKept

\* n as a sender
LEMMA LinksSender ==
  ASSUME LongSendersSteady, TypeInv, TypeInv', Flow, Reception, Handing, NEW n \in Node,
         Links(n), NEW r \in Node
  PROVE  PairOK(n, r)'
<1>1. Keeps(n, r) /\ KeepsFront(n, r) /\ SenderSame(n) /\ ReceiverSame(r)
  BY LinksKeep
<1>2. r # n => link'[r] = link[r] /\ changes'[r] = changes[r]
  BY LinksIs
<1>3. Continuing(n, r)' => Continuing(n, r) /\ r # n
  BY LinksContinue, NotOwn
<1>4. Awaited(n, r)' => Awaited(n, r) /\ Len(rbuf'[r]) = Len(rbuf[r])
  BY <1>1, <1>2, <1>3 DEF Awaited, SenderSame, ReceiverSame, getAlias
<1>5. PairOK(n, r)
  BY DEF Handing
<1>6. Steady(n) => StaleOK(n, r)'
  BY <1>1, <1>2, <1>3, <1>5 DEF PairOK, StaleOK, SenderSame
<1>7. ASSUME Steady(n) /\ link'[n] = "up" => link[n] = "up" /\ TypeKept(n)
      PROVE  PairOK(n, r)'
  BY <1>1, <1>4, <1>5, <1>6, <1>7, PairKept
<1>8. CASE ChangeAlias(n) \/ Claimed(n) \/ SendAMD(n)
  <2>1. link'[n] # "up"
    BY <1>8 DEF ChangeAlias, Claimed, SendAMD, TypeInv, TypeOK
  <2> QED
    BY <1>7, <2>1
<1>9. CASE SendInitComplete(n)
  <2>1. link[n] \in {"permitted", "unannounced"}
    BY <1>9 DEF SendInitComplete
  <2>2. Segments(n, r) = {}
    BY <2>1 DEF Flow, FlowOK, AliasOK
  <2>3. Segments(n, r)' = {}
    BY <1>1, <2>2 DEF Keeps
  <2>4. ASSUME Continuing(n, r) PROVE FALSE
    <3>1. fromAlias[r] = getAlias(n)
      BY <2>2, <2>4 DEF Continuing
    <3>2. receiving(r) /\ RbufOK(r) /\ fromAlias[r][1] = n
      BY <2>4, NotOwn
    <3>3. fromAlias[r][2] = changes[n] /\ changes[n] \in Nat
      BY <3>1 DEF getAlias, TypeInv, TypeOK
    <3> QED
      BY <2>1, <3>2, <3>3 DEF RbufOK
  <2> QED
    BY <1>3, <2>3, <2>4, PairEmpty
<1>10. CASE AnswerCIM(n)
  <2>1. n \in Contested /\ txType'[n] = "CAN" /\ link'[n] = link[n]
    BY <1>10 DEF AnswerCIM, setType, TypeInv, TypeOK
  <2>2. Steady(n) => TypeKept(n)
    BY <2>1 DEF Steady, TypeKept
  <2> QED
    BY <1>7, <2>1, <2>2
<1>11. CASE SendMessage(n)
  <2>1. n \in Enquired /\ txType'[n] = "OpenLcb" /\ link'[n] = link[n]
    BY <1>11 DEF SendMessage, setType, TypeInv, TypeOK
  <2>2. TypeKept(n)
    BY <2>1 DEF Interjects, TypeKept
  <2> QED
    BY <1>7, <2>1, <2>2
\* The alias is announced: whatever is lost from here on leaves a trace.
<1>12. CASE AnswerAME(n)
  <2>a. PICK e : e = linkFrame(n, "AMD")
    OBVIOUS
  <2>1. txq'[n] = Append(txq[n], e) /\ rxq' = rxq /\ txq' = [txq EXCEPT ![n] = Append(@, e)]
    BY <1>12, <2>a DEF AnswerAME, sendWait, TypeInv, TypeOK
  <2>2. Takes(e, n, r) /\ e.src[1] = n
    BY <2>a DEF Takes, linkFrame, getAlias, Announces, IsSegment, SegmentKind
  <2>3. e \in Way(n, r)'
    <3>1. e.src[1] = n /\ UNCHANGED rxq /\ txq' = [txq EXCEPT ![n] = Append(@, e)]
      BY <2>1, <2>2
    <3>2. Takes(e, n, r) => e \in Way(n, r)'
      BY <3>1, SendWay
    <3> QED
      BY <2>2, <3>2
  <2>4. ASSUME NEW f \in Segments(n, r)' PROVE Ahead(f, e, n, r)'
    <3>1. f \in Segments(n, r)
      BY <1>1 DEF Keeps
    <3>2. f \in ToSet(rxq[r]) \cup ToSet(txq[n])
      BY <3>1, WayIs DEF Segments
    <3>3. rxq'[r] = rxq[r]
      BY <2>1
    <3> QED
      BY <2>1, <3>2, <3>3, JoinOrder
  <2>5. LastOK(n, r)' /\ EndOK(n, r)'
    BY <2>3, <2>4 DEF LastOK, EndOK
  <2>6. ASSUME Steady(n) PROVE GapOK(n, r)' /\ NextOK(n, r)'
    <3>1. GapOK(n, r) /\ NextOK(n, r)
      BY <1>5, <2>6 DEF PairOK
    <3> QED
      BY <1>1, <1>4, <3>1, GapKept, NextKept
  <2>7. Steady(n)' => Steady(n)
    BY DEF Steady, Interjects
  <2> QED
    BY <1>6, <2>5, <2>6, <2>7 DEF PairOK
<1> QED
  BY <1>8, <1>9, <1>10, <1>11, <1>12 DEF Links

LEMMA LinksHanding ==
  ASSUME LongSendersSteady, TypeInv, TypeInv', Flow, Reception, Handing, NEW n \in Node,
         Links(n)
  PROVE  Handing'
<1>1. ASSUME NEW m \in Node, NEW r \in Node, m # n, r # n PROVE PairOK(m, r)'
  <2>1. /\ Keeps(m, r) /\ KeepsFront(m, r) /\ SenderSame(m) /\ ReceiverSame(r) /\ TypeKept(m)
    BY <1>1, LinksKeep
  <2>2. link'[m] = link[m] /\ link'[r] = link[r] /\ changes'[r] = changes[r]
    BY <1>1, LinksIs
  <2>3. Continuing(m, r)' => Continuing(m, r)
    BY LinksContinue
  <2>4. PairOK(m, r)
    BY DEF Handing
  <2> QED
    BY <2>1, <2>2, <2>3, <2>4, PairSame
<1>2. ASSUME NEW m \in Node, NEW r \in Node PROVE PairOK(m, r)'
  BY <1>1, LinksReceiver, LinksSender
<1>3. ASSUME NEW r \in Node PROVE InOrder(r)'
  <2>1. ReceiverSame(r)
    BY LinksKeep
  <2> QED
    BY <2>1, OrderSame DEF Handing
<1> QED
  BY <1>2, <1>3 DEF Handing

LEMMA OffHanding ==
  ASSUME LongSendersSteady, TypeInv, Flow, Reception, Handing, NEW n \in Node, PowerOff(n)
  PROVE  Handing'
<1>1. /\ n \in Fickle /\ link'[n] = "off"
      /\ rxq'[n] = <<>>
      /\ \A m \in Node \ {n} : link'[m] = link[m] /\ txq'[m] = txq[m] /\ rxq'[m] = rxq[m]
  BY DEF PowerOff, TypeInv, TypeOK
<1>2. UNCHANGED <<changes, txType, reservedXmt, letter, sendcount, fromAlias, rbuf>>
  BY DEF PowerOff, sending, receiver
<1>3. ASSUME NEW m \in Node, NEW r \in Node
      PROVE  /\ SenderSame(m) /\ TypeKept(m) /\ ReceiverSame(r) /\ InOrder(r)'
             /\ Segments(m, r)' \subseteq Segments(m, r)
             /\ Continuing(m, r)' => Continuing(m, r)
             /\ PairOK(m, r)
  <2>1. SenderSame(m) /\ TypeKept(m) /\ ReceiverSame(r) /\ getAlias(m)' = getAlias(m)
    BY <1>2 DEF SenderSame, TypeKept, ReceiverSame, getAlias
  <2>2. InOrder(r)'
    BY <2>1, OrderSame DEF Handing
  <2>3. Segments(m, r)' \subseteq Segments(m, r)
    BY OffFlow, SegmentsShrink
  <2>4. Continuing(m, r)' => Continuing(m, r)
    BY <2>1, <2>3, ContinuesStill
  <2> QED
    BY <2>1, <2>2, <2>3, <2>4 DEF Handing
<1>4. ASSUME NEW r \in Node PROVE PairOK(n, r)'
  BY <1>1 DEF PairOK, Steady
<1>5. ASSUME NEW m \in Node \ {n} PROVE PairOK(m, n)'
  <2>1. Keeps(m, n)
    BY <1>1, ClearPair
  <2>2. ~Awaited(m, n)'
    BY <1>1 DEF Awaited
  <2>3. Steady(m) => StaleOK(m, n)'
    BY <1>1, <1>2, <1>3 DEF PairOK, StaleOK
  <2>4. link'[m] = link[m]
    BY <1>1
  <2> QED
    BY <1>3, <2>1, <2>2, <2>3, <2>4, PairKept
<1>6. ASSUME NEW m \in Node \ {n}, NEW r \in Node \ {n} PROVE PairOK(m, r)'
  <2>1. Keeps(m, r) /\ KeepsFront(m, r)
    BY <1>1, <1>3, GrowPair
  <2>2. link'[m] = link[m] /\ link'[r] = link[r] /\ changes'[r] = changes[r]
    BY <1>1, <1>2
  <2> QED
    BY <1>3, <2>1, <2>2, PairSame
<1> QED
  BY <1>3, <1>4, <1>5, <1>6 DEF Handing

LEMMA OnHanding ==
  ASSUME LongSendersSteady, TypeInv, TypeInv', Flow, Reception, Handing, NEW n \in Node,
         PowerOn(n)
  PROVE  Handing'
<1>1. /\ link[n] = "off" /\ fromAlias'[n] = Nothing /\ rxq' = rxq
      /\ \A m \in Node \ {n} : /\ link'[m] = link[m] /\ changes'[m] = changes[m]
                               /\ txq'[m] = txq[m] /\ txType'[m] = txType[m]
  BY DEF PowerOn, setType, TypeInv, TypeOK
<1>2. ASSUME NEW m \in Node \ {n}
      PROVE  SenderSame(m) /\ TypeKept(m) /\ ReceiverSame(m) /\ getAlias(m)' = getAlias(m)
  <2>1. SenderSame(m) /\ ReceiverSame(m)
    BY DEF PowerOn, SenderSame, ReceiverSame, TypeInv, TypeOK
  <2> QED
    BY <1>1, <2>1 DEF TypeKept, getAlias
<1>3. n \in Fickle
  BY <1>1 DEF Flow, SenderOK
<1>4. ASSUME NEW m \in Node \ {n}, NEW r \in Node
      PROVE  Keeps(m, r) /\ KeepsFront(m, r) /\ Segments(m, r)' \subseteq Segments(m, r)
  <2>1. Segments(m, r)' \subseteq Segments(m, r)
    BY OnFlow
  <2>2. txq'[m] = txq[m] /\ rxq'[r] = rxq[r]
    BY <1>1
  <2> QED
    BY <2>1, <2>2, GrowPair
<1>5. ASSUME NEW r \in Node PROVE PairOK(n, r)'
  BY <1>3 DEF PairOK, Steady
<1>6. ASSUME NEW m \in Node \ {n} PROVE PairOK(m, n)'
  <2>1. ~Continuing(m, n)'
    BY <1>1, IdleNow
  <2>2. PairOK(m, n) /\ link'[m] = link[m]
    BY <1>1 DEF Handing
  <2> QED
    BY <1>2, <1>4, <2>1, <2>2, PairIdle
<1>7. ASSUME NEW m \in Node \ {n}, NEW r \in Node \ {n} PROVE PairOK(m, r)'
  <2>1. Continuing(m, r)' => Continuing(m, r)
    BY <1>2, <1>4, ContinuesStill
  <2>2. PairOK(m, r) /\ link'[m] = link[m] /\ link'[r] = link[r] /\ changes'[r] = changes[r]
    BY <1>1 DEF Handing
  <2> QED
    BY <1>2, <1>4, <2>1, <2>2, PairSame
<1>8. ASSUME NEW r \in Node PROVE InOrder(r)'
  <2>1. CASE r = n
    BY <1>1, <2>1 DEF InOrder, receiving
  <2>2. CASE r # n
    BY <1>2, <2>2, OrderSame DEF Handing
  <2> QED
    BY <2>1, <2>2
<1> QED
  BY <1>5, <1>6, <1>7, <1>8 DEF Handing

\* Of a node that may fill its buffer nothing is under way.
LEMMA PostHanding ==
  ASSUME TypeInv, Flow, Reception, Handing, NEW n \in Node, NEW d \in Node,
         NEW c \in Content, sendTransmitBuffer(n, d, c)
  PROVE  Handing'
<1>1. /\ ~reservedXmt[n]
      /\ UNCHANGED <<link, changes, txq, txType, rxq, fromAlias, rbuf>>
      /\ \A m \in Node \ {n} : SenderSame(m)
  BY DEF sendTransmitBuffer, receiver, SenderSame, TypeInv, TypeOK
<1>2. ASSUME NEW m \in Node, NEW r \in Node
      PROVE  /\ Keeps(m, r) /\ KeepsFront(m, r) /\ Segments(m, r)' = Segments(m, r)
             /\ TypeKept(m) /\ ReceiverSame(r) /\ InOrder(r)'
             /\ Continuing(m, r)' => Continuing(m, r)
             /\ PairOK(m, r)
  <2>1. Segments(m, r)' = Segments(m, r)
    BY <1>1 DEF Segments, Way
  <2>2. rxq'[r] = rxq[r] /\ txq'[m] = txq[m] /\ getAlias(m)' = getAlias(m)
    BY <1>1 DEF getAlias
  <2>3. Keeps(m, r) /\ KeepsFront(m, r)
    BY <2>1, <2>2, GrowPair
  <2>4. TypeKept(m) /\ ReceiverSame(r)
    BY <1>1 DEF TypeKept, ReceiverSame
  <2>5. InOrder(r)'
    BY <2>4, OrderSame DEF Handing
  <2>6. Continuing(m, r)' => Continuing(m, r)
    BY <2>1, <2>2, <2>4, ContinuesStill
  <2> QED
    BY <2>1, <2>3, <2>4, <2>5, <2>6 DEF Handing
<1>3. ASSUME NEW r \in Node PROVE PairOK(n, r)'
  <2>1. Segments(n, r) = {}
    BY <1>1 DEF Flow, FlowOK, SegmentOK
  <2>2. ~Continuing(n, r)
    BY <1>1 DEF Reception, ContinueOK
  <2> QED
    BY <1>2, <2>1, <2>2, PairEmpty
<1>4. ASSUME NEW m \in Node \ {n}, NEW r \in Node PROVE PairOK(m, r)'
  <2>1. SenderSame(m) /\ link'[m] = link[m] /\ link'[r] = link[r] /\ changes'[r] = changes[r]
    BY <1>1
  <2> QED
    BY <1>2, <2>1, PairSame
<1> QED
  BY <1>2, <1>3, <1>4 DEF Handing

LEMMA SameHanding ==
  ASSUME TypeInv, Handing, UNCHANGED vars
  PROVE  Handing'
<1>1. UNCHANGED <<link, changes, txq, txType, rxq, reservedXmt, letter, sendcount, fromAlias, rbuf>>
  BY DEF vars, sending, receiver
<1>2. ASSUME NEW m \in Node, NEW r \in Node PROVE PairOK(m, r)' /\ InOrder(r)'
  <2>1. Segments(m, r)' = Segments(m, r) /\ Continuing(m, r)' = Continuing(m, r)
    BY <1>1 DEF Segments, Way, Continuing, getAlias
  <2>2. rxq'[r] = rxq[r] /\ txq'[m] = txq[m] /\ link'[m] = link[m] /\ link'[r] = link[r]
        /\ changes'[r] = changes[r]
    BY <1>1
  <2>3. Keeps(m, r) /\ KeepsFront(m, r)
    BY <2>1, <2>2, GrowPair
  <2>4. SenderSame(m) /\ TypeKept(m) /\ ReceiverSame(r)
    BY <1>1 DEF SenderSame, TypeKept, ReceiverSame
  <2>5. PairOK(m, r) /\ InOrder(r)
    BY DEF Handing
  <2> QED
    BY <2>1, <2>2, <2>3, <2>4, <2>5, PairSame, OrderSame
<1> QED
  BY <1>2 DEF Handing

LEMMA HandingStep ==
  ASSUME LongSendersUndisturbed, TypeInv, TypeInv', Flow, Reception, Handing,
         [Next]_vars
  PROVE  Handing'
<1>1. LongSendersSteady
  BY Undisturbed
<1>2. ASSUME NEW n \in Node, check(n) PROVE Handing'
  BY <1>1, <1>2, CheckHanding
<1>3. ASSUME NEW n \in Node, receivedFrame(n) PROVE Handing'
  <2>1. CASE AbortReception(n) \/ IgnoreFrame(n)
    BY <1>1, <2>1, PassHanding
  <2>2. CASE ReceiveAck(n) \/ ReceiveReject(n)
    BY <1>1, <2>2, ReplyHanding
  <2>3. CASE RefuseSegment(n) \/ DeliverDatagram(n)
    BY <1>1, <2>3, AnswerHanding
  <2>4. CASE StoreSegment(n)
    BY <1>1, <2>4, StoreHanding
  <2> QED
    BY <1>3, <2>1, <2>2, <2>3, <2>4 DEF receivedFrame
<1>4. ASSUME NEW n \in Node, DiscardFrame(n) PROVE Handing'
  BY <1>1, <1>4, PassHanding
<1>5. ASSUME NEW n \in Node, Transmit(n) PROVE Handing'
  BY <1>1, <1>5, TransmitHanding
<1>6. ASSUME NEW n \in Node, Links(n) PROVE Handing'
  BY <1>1, <1>6, LinksHanding
<1>7. ASSUME NEW n \in Node, PowerOff(n) \/ PowerOn(n) PROVE Handing'
  BY <1>1, <1>7, OffHanding, OnHanding
<1>8. ASSUME NEW p \in Posts, sendTransmitBuffer(p[1], p[2], p[3]) PROVE Handing'
  <2>1. p[1] \in Node /\ p[2] \in Node /\ p[3] \in Content
    BY DatagramAssumption
  <2> QED
    BY <1>8, <2>1, PostHanding
<1>9. CASE UNCHANGED vars
  BY <1>9, SameHanding
<1> QED
  BY <1>2, <1>3, <1>4, <1>5, <1>6, <1>7, <1>8, <1>9 DEF Next, Links

LEMMA HandingInit == Init => Handing
<1> SUFFICES ASSUME Init PROVE Handing
  OBVIOUS
<1>1. \A r \in Node : ~receiving(r) /\ rxq[r] = <<>> /\ txq[r] = <<>>
  BY DEF Init, receiving
<1>2. TypeInv
  BY TypeInit
<1>3. \A m, r \in Node : ~Continuing(m, r)
  BY <1>1, <1>2, ContinuingIs
<1>4. \A m, r \in Node : Segments(m, r) = {}
  BY <1>1, SetOfEmpty DEF Segments, Way
<1> QED
  BY <1>1, <1>3, <1>4 DEF Handing, InOrder, PairOK, StaleOK, GapOK, LastOK, NextOK, EndOK, Awaited

LEMMA HandingHolds ==
  ASSUME LongSendersUndisturbed
  PROVE  Spec => [](TypeInv /\ Flow /\ Reception /\ Handing)
<1>1. Spec => [](TypeInv /\ Flow /\ Reception)
  BY Undisturbed, ReceptionHolds
<1>2. Init => Handing
  BY HandingInit
<1>3. /\ TypeInv /\ TypeInv' /\ Flow /\ Reception /\ Handing /\ [Next]_vars
      => Handing'
  BY HandingStep
<1> QED
  BY <1>1, <1>2, <1>3, PTL DEF Spec
-----------------------------------------------------------------------------
(* Whole datagrams                                                         *)

\* A datagram that is accepted is done with, but for the reply.
TakenOK(m) ==
  /\ taken[m] => reservedXmt[m] /\ sendcount[m] = 0 /\ Quiet(m)
  /\ \A f \in Replies(m) :
       /\ f.kind = "Ack" => taken[m]
       /\ f.kind = "Reject" => ~taken[m]
       /\ f.kind = "Reject" /\ ~f.again => <<letter[m].to[1], letter[m].says>> \notin Accepts

Delivery == \A m \in Node : TakenOK(m)

\* The final segment, if it fits, completes what its sender has posted, and
\* that was not accepted before.
LEMMA WholeHanded ==
  ASSUME LongSendersUndisturbed, TypeInv, Flow, Reception, Handing, Delivery, NEW n \in Node,
         ReceiveSegment(n), NEW h, h = Head(rxq[n]), NEW k, k = h.src[1], Fits(n, h), Final(h)
  PROVE  /\ k \in Node /\ reservedXmt[k] /\ ~taken[k]
         /\ letter[k].to = getAlias(n)
         /\ Handed(n, h) = PostedParts(k)
<1>1. /\ k \in Node /\ letter[k] # Nothing /\ reservedXmt[k] /\ h \in Segments(k, n)
      /\ letter[k].to = getAlias(n)
      /\ h.part = <<k, letter[k].says, h.part[3]>>
  <2>1. /\ k \in Node /\ letter[k] # Nothing /\ reservedXmt[k] /\ h \in Segments(k, n)
        /\ letter[k].to = getAlias(n)
    BY HeadSegment
  <2>2. FlowOK(k, n)
    BY <2>1 DEF Flow
  <2> QED
    BY <2>1, <2>2 DEF FlowOK, SegmentOK
<1>2. h.part[3] = Total(k)
  BY FinalSegment
<1>3. /\ Len(rbuf[n]) \in Nat
      /\ h.part[3] = Len(rbuf[n]) + 1
      /\ \A i \in 1 .. Len(rbuf[n]) : rbuf[n][i] = <<k, letter[k].says, i>>
  <2>1. Len(rbuf[n]) \in Nat
    BY DEF TypeInv, TypeOK
  <2> QED
    BY <2>1, FittingSegment
<1>4. ~taken[k]
  BY <1>1 DEF Delivery, TakenOK, Quiet
<1> DEFINE p == Handed(n, h)
<1>5. /\ DOMAIN p = 1 .. Len(rbuf[n]) + 1
      /\ p = [i \in 1 .. Len(rbuf[n]) + 1 |-> p[i]]
      /\ \A i \in 1 .. Len(rbuf[n]) : p[i] = rbuf[n][i]
      /\ p[Len(rbuf[n]) + 1] = h.part
  <2>1. rbuf[n] \in Seq(Part) /\ h.part \in Part
    <3>1. rxq[n] # <<>> /\ h.kind \in SegmentKind
      BY DEF ReceiveSegment, GetFrame
    <3> QED
      BY <3>1, HeadTyped DEF TypeInv, TypeOK
  <2> QED
    BY <2>1 DEF Handed
<1> HIDE DEF p
<1>6. ASSUME NEW i \in 1 .. Total(k) PROVE p[i] = <<k, letter[k].says, i>>
  <2>1. CASE i = Len(rbuf[n]) + 1
    BY <1>1, <1>3, <1>5, <2>1
  <2>2. CASE i # Len(rbuf[n]) + 1
    <3>1. i \in 1 .. Len(rbuf[n])
      BY <1>2, <1>3, <2>2
    <3> QED
      BY <1>3, <1>5, <3>1
  <2> QED
    BY <2>1, <2>2
<1>7. 1 .. Len(rbuf[n]) + 1 = 1 .. Total(k)
  BY <1>2, <1>3
<1>8. p = PostedParts(k)
  BY <1>5, <1>6, <1>7 DEF PostedParts, Total
<1> QED
  BY <1>1, <1>4, <1>8 DEF p

\* Nothing new answers m, nor is sent.
LEMMA TakenSame ==
  ASSUME NEW m \in Node, TakenOK(m), taken'[m] = taken[m], SenderSame(m),
         Replies(m)' \subseteq Replies(m),
         \A r \in Node : Segments(m, r)' \subseteq Segments(m, r)
  PROVE  TakenOK(m)'
BY DEF TakenOK, Quiet, SenderSame

LEMMA NoneTaken ==
  ASSUME NEW m \in Node, ~taken'[m], Replies(m)' = {}
  PROVE  TakenOK(m)'
BY DEF TakenOK

\* What m has in its buffer is not what k has.
LEMMA PartsDiffer ==
  ASSUME TypeInv, Flow, NEW k \in Node, NEW m \in Node, m # k,
         reservedXmt[k], reservedXmt[m]
  PROVE  PostedParts(k) # PostedParts(m)
<1>1. letter[k] # Nothing /\ letter[m] # Nothing
  BY DEF Flow, SenderOK
<1>2. Size[letter[k].says] \in Nat \ {0} /\ Size[letter[m].says] \in Nat \ {0}
  BY <1>1, Lengths DEF Total
<1>3. PostedParts(k)[1] = <<k, letter[k].says, 1>> /\ PostedParts(m)[1] = <<m, letter[m].says, 1>>
  BY <1>2 DEF PostedParts
<1> QED
  BY <1>3

\* n takes the datagram k has posted, or turns it down, and says so to h.src.
Handover(n, h, k) ==
  /\ k \in Node /\ reservedXmt[k] /\ letter[k].to[1] = n /\ ~taken[k]
  /\ \/ /\ <<n, letter[k].says>> \in Accepts
        /\ taken' = [taken EXCEPT ![k] = TRUE]
        /\ txq' = [txq EXCEPT ![n] = Append(@, setDatagramAck(n, h.src))]
     \/ /\ <<n, letter[k].says>> \notin Accepts
        /\ UNCHANGED taken
        /\ txq' = [txq EXCEPT ![n] = Append(@, setDatagramNak(n, h.src, FALSE))]

LEMMA DeliverTaken ==
  ASSUME LongSendersUndisturbed, TypeInv, Flow, Reception, Handing, Delivery, NEW n \in Node,
         DeliverDatagram(n), NEW h, h = Head(rxq[n]), NEW k, k = h.src[1]
  PROVE  Handover(n, h, k)
<1>1. ReceiveSegment(n) /\ Fits(n, h) /\ Final(h)
  BY DEF DeliverDatagram
<1>2. /\ k \in Node /\ reservedXmt[k] /\ ~taken[k]
      /\ letter[k].to = getAlias(n)
      /\ Handed(n, h) = PostedParts(k)
  BY <1>1, WholeHanded
<1>3. letter[k] # Nothing
  BY <1>2 DEF Flow, SenderOK
<1>4. PostedParts(k)[1][2] = letter[k].says
  <2>1. Size[letter[k].says] \in Nat \ {0}
    BY <1>2, <1>3, Lengths DEF Total
  <2>2. PostedParts(k)[1] = <<k, letter[k].says, 1>>
    <3>1. 1 \in 1 .. Size[letter[k].says]
      BY <2>1
    <3> QED
      BY <3>1 DEF PostedParts
  <2> QED
    BY <2>2
<1>5. Welcome(n, Handed(n, h)) <=> <<n, letter[k].says>> \in Accepts
  BY <1>2, <1>4 DEF Welcome
<1>6. letter[k].to[1] = n
  BY <1>2 DEF getAlias
<1>7. \/ /\ Welcome(n, Handed(n, h))
         /\ txq' = [txq EXCEPT ![n] = Append(@, setDatagramAck(n, h.src))]
         /\ taken' = [m \in Node |-> \/ taken[m]
                                     \/ reservedXmt[m] /\ Handed(n, h) = PostedParts(m)]
      \/ /\ ~Welcome(n, Handed(n, h))
         /\ txq' = [txq EXCEPT ![n] = Append(@, setDatagramNak(n, h.src, FALSE))]
         /\ UNCHANGED taken
  BY DEF DeliverDatagram, reply, sendWait
<1>8. [m \in Node |-> taken[m] \/ (reservedXmt[m] /\ Handed(n, h) = PostedParts(m))]
        = [taken EXCEPT ![k] = TRUE]
  <2>1. taken \in [Node -> BOOLEAN]
    BY DEF TypeInv, TypeOK
  <2>2. \A m \in Node \ {k} : ~(reservedXmt[m] /\ Handed(n, h) = PostedParts(m))
    BY <1>2, PartsDiffer
  <2>3. ASSUME NEW m \in Node
        PROVE  (taken[m] \/ (reservedXmt[m] /\ Handed(n, h) = PostedParts(m)))
                 = [taken EXCEPT ![k] = TRUE][m]
    <3>1. taken[m] \in BOOLEAN
      BY <2>1
    <3>2. CASE m = k
      <4>1. [taken EXCEPT ![k] = TRUE][m] = TRUE
        BY <1>2, <2>1, <3>2
      <4>2. reservedXmt[m] /\ Handed(n, h) = PostedParts(m)
        BY <1>2, <3>2
      <4> QED
        BY <4>1, <4>2, Zenon
    <3>3. CASE m # k
      <4>1. [taken EXCEPT ![k] = TRUE][m] = taken[m]
        BY <2>1, <3>3
      <4>2. ~(reservedXmt[m] /\ Handed(n, h) = PostedParts(m))
        BY <2>2, <3>3
      <4> QED
        BY <3>1, <4>1, <4>2, Zenon
    <3> QED
      BY <3>2, <3>3
  <2> QED
    BY <2>1, <2>3, Zenon
<1> QED
  BY <1>2, <1>5, <1>6, <1>7, <1>8 DEF Handover

\* Reading a frame adds none.
LEMMA ReadFewer ==
  ASSUME TypeInv, Flow, NEW n \in Node, rxq[n] # <<>>,
         rxq' = [rxq EXCEPT ![n] = Tail(@)], UNCHANGED txq, NEW m \in Node
  PROVE  /\ Replies(m)' \subseteq Replies(m)
         /\ \A r \in Node : Segments(m, r)' \subseteq Segments(m, r)
<1>1. /\ ToSet(rxq[n]) = ToSet(rxq'[n]) \cup {Head(rxq[n])}
      /\ \A r \in Node \ {n} : rxq'[r] = rxq[r]
  BY ReadQueue DEF Flow
<1>2. \A r \in Node : ToSet(rxq'[r]) \subseteq ToSet(rxq[r])
  BY <1>1
<1>3. Replies(m)' \subseteq Replies(m)
  BY <1>2 DEF Replies
<1>4. \A r \in Node : Segments(m, r)' \subseteq Segments(m, r)
  BY <1>2 DEF Segments, Way
<1> QED
  BY <1>3, <1>4

\* A frame is read that is not replied to, and no reply to n.
LEMMA ReadTaken ==
  ASSUME TypeInv, Flow, Delivery, NEW n \in Node, rxq[n] # <<>>,
         rxq' = [rxq EXCEPT ![n] = Tail(@)],
         UNCHANGED <<txq, reservedXmt, letter, sendcount, taken>>
  PROVE  Delivery'
<1>1. ASSUME NEW m \in Node PROVE TakenOK(m)'
  <2>1. SenderSame(m)
    BY DEF SenderSame
  <2>2. /\ Replies(m)' \subseteq Replies(m)
        /\ \A r \in Node : Segments(m, r)' \subseteq Segments(m, r)
    BY ReadFewer
  <2> QED
    BY <2>1, <2>2, TakenSame DEF Delivery
<1> QED
  BY <1>1 DEF Delivery

\* k's datagram is answered by e.
LEMMA AnswerTaken ==
  ASSUME TypeInv, Flow, Delivery, NEW n \in Node, ReceiveSegment(n), NEW h, h = Head(rxq[n]),
         NEW k, k = h.src[1], Final(h),
         NEW e, IsReply(e), e.src = getAlias(n), e.dst = h.src,
         txq' = [txq EXCEPT ![n] = Append(@, e)],
         UNCHANGED <<reservedXmt, letter, sendcount>>,
         \A m \in Node \ {k} : taken'[m] = taken[m],
         e.kind = "Ack" <=> taken'[k],
         e.kind = "Reject" /\ ~e.again => <<letter[k].to[1], letter[k].says>> \notin Accepts
  PROVE  Delivery'
<1>1. Answered(k, e)
  BY AnswerFlow
<1>2. /\ k \in Node /\ reservedXmt[k] /\ sendcount[k] = 0
  BY HeadSegment, FinalSegment
<1>3. ASSUME NEW m \in Node, m # k PROVE TakenOK(m)'
  <2>1. Replies(m)' \subseteq Replies(m)
    BY <1>1, <1>3 DEF Answered
  <2>2. ASSUME NEW r \in Node PROVE Segments(m, r)' \subseteq Segments(m, r)
    <3>1. rxq[n] # <<>> /\ rxq' = [rxq EXCEPT ![n] = Tail(@)] /\ Order(rxq, txq)
      BY DEF ReceiveSegment, GetFrame, Flow
    <3>2. Way(m, r)' \subseteq Way(m, r)
      BY <3>1, ReadWay
    <3> QED
      BY <3>2, SegmentsShrink
  <2>3. SenderSame(m)
    BY DEF SenderSame
  <2> QED
    BY <1>3, <2>1, <2>2, <2>3, TakenSame DEF Delivery
<1>4. TakenOK(k)'
  <2>1. Quiet(k)' /\ \A f \in Replies(k)' : f = e
    BY <1>1, <1>2 DEF Answered
  <2>2. e.kind = "Reject" => e.kind # "Ack"
    OBVIOUS
  <2>3. \A f \in Replies(k)' :
          /\ f.kind = "Ack" => taken'[k]
          /\ f.kind = "Reject" => ~taken'[k]
          /\ f.kind = "Reject" /\ ~f.again => <<letter'[k].to[1], letter'[k].says>> \notin Accepts
    BY <2>1, <2>2
  <2> QED
    BY <1>2, <2>1, <2>3 DEF TakenOK
<1> QED
  BY <1>3, <1>4 DEF Delivery

LEMMA SegmentTaken ==
  ASSUME LongSendersUndisturbed, TypeInv, Flow, Reception, Handing, Delivery, NEW n \in Node,
         RefuseSegment(n) \/ StoreSegment(n) \/ DeliverDatagram(n),
         NEW h, h = Head(rxq[n]), NEW k, k = h.src[1]
  PROVE  Delivery'
<1>1. /\ ReceiveSegment(n) /\ UNCHANGED <<reservedXmt, letter, sendcount>>
      /\ rxq[n] # <<>> /\ rxq' = [rxq EXCEPT ![n] = Tail(@)]
  BY DEF RefuseSegment, StoreSegment, DeliverDatagram, ReceiveSegment, GetFrame, sending
<1>2. k \in Node /\ ~taken[k] /\ letter[k].to[1] = n
  <2>1. k \in Node /\ h \in Segments(k, n) /\ letter[k].to[1] = n
    BY <1>1, HeadSegment
  <2> QED
    BY <2>1 DEF Delivery, TakenOK, Quiet
<1>3. CASE UNCHANGED txq /\ (RefuseSegment(n) \/ StoreSegment(n))
  <2>1. UNCHANGED taken
    BY <1>3 DEF RefuseSegment, StoreSegment
  <2> QED
    BY <1>1, <1>3, <2>1, ReadTaken
<1>4. CASE RefuseSegment(n) /\ Final(h) /\ reply(n, setDatagramNak(n, h.src, TRUE))
  <2> DEFINE e == setDatagramNak(n, h.src, TRUE)
  <2>1. /\ IsReply(e) /\ e.src = getAlias(n) /\ e.dst = h.src /\ e.kind = "Reject" /\ e.again
        /\ txq' = [txq EXCEPT ![n] = Append(@, e)] /\ UNCHANGED taken
    BY <1>4 DEF setDatagramNak, IsReply, RefuseSegment, reply, sendWait
  <2> HIDE DEF e
  <2>2. e.kind # "Ack"
    BY <2>1
  <2> QED
    BY <1>1, <1>2, <1>4, <2>1, <2>2, AnswerTaken
<1>5. CASE DeliverDatagram(n)
  <2> DEFINE ack == setDatagramAck(n, h.src)
             never == setDatagramNak(n, h.src, FALSE)
  <2>1. Final(h)
    BY <1>5 DEF DeliverDatagram
  <2>2. /\ IsReply(ack) /\ ack.src = getAlias(n) /\ ack.dst = h.src /\ ack.kind = "Ack"
        /\ IsReply(never) /\ never.src = getAlias(n) /\ never.dst = h.src
        /\ never.kind = "Reject"
    BY DEF setDatagramAck, setDatagramNak, IsReply
  <2>3. \/ /\ <<n, letter[k].says>> \in Accepts
           /\ taken' = [taken EXCEPT ![k] = TRUE]
           /\ txq' = [txq EXCEPT ![n] = Append(@, ack)]
        \/ /\ <<n, letter[k].says>> \notin Accepts
           /\ UNCHANGED taken
           /\ txq' = [txq EXCEPT ![n] = Append(@, never)]
    <3>1. Handover(n, h, k)
      BY <1>5, DeliverTaken
    <3> QED
      BY <3>1 DEF Handover
  <2> HIDE DEF ack, never
  <2>4. CASE taken' = [taken EXCEPT ![k] = TRUE] /\ txq' = [txq EXCEPT ![n] = Append(@, ack)]
    <3>1. taken'[k] /\ \A m \in Node \ {k} : taken'[m] = taken[m]
      BY <1>2, <2>4 DEF TypeInv, TypeOK
    <3>2. ack.kind # "Reject"
      BY <2>2
    <3> QED
      BY <1>1, <2>1, <2>2, <2>4, <3>1, <3>2, AnswerTaken
  <2>5. CASE /\ <<n, letter[k].says>> \notin Accepts /\ UNCHANGED taken
             /\ txq' = [txq EXCEPT ![n] = Append(@, never)]
    <3>1. never.kind # "Ack" /\ ~taken'[k] /\ \A m \in Node \ {k} : taken'[m] = taken[m]
      BY <1>2, <2>2, <2>5
    <3>2. <<letter[k].to[1], letter[k].says>> \notin Accepts
      BY <1>2, <2>5
    <3> QED
      BY <1>1, <2>1, <2>2, <2>5, <3>1, <3>2, AnswerTaken
  <2> QED
    BY <2>3, <2>4, <2>5
<1> QED
  BY <1>3, <1>4, <1>5 DEF RefuseSegment, StoreSegment

LEMMA ReplyTaken ==
  ASSUME TypeInv, Flow, Delivery, NEW n \in Node, ReceiveAck(n) \/ ReceiveReject(n)
  PROVE  Delivery'
<1> DEFINE h == Head(rxq[n])
<1>1. /\ rxq[n] # <<>> /\ IsReply(h)
      /\ rxq' = [rxq EXCEPT ![n] = Tail(@)]
      /\ UNCHANGED <<txq, letter>>
  BY DEF ReceiveAck, ReceiveReject, Released, GetFrame, IsReply
<1>2. \/ /\ reservedXmt' = [reservedXmt EXCEPT ![n] = FALSE]
         /\ taken' = [taken EXCEPT ![n] = FALSE]
         /\ UNCHANGED sendcount
      \/ /\ h.kind = "Reject"
         /\ UNCHANGED <<reservedXmt, taken>>
         /\ sendcount' = [sendcount EXCEPT ![n] = Size[letter[n].says]]
  BY DEF ReceiveAck, ReceiveReject, Released
<1>3. \A m \in Node \ {n} : /\ reservedXmt'[m] = reservedXmt[m] /\ taken'[m] = taken[m]
                            /\ sendcount'[m] = sendcount[m]
  BY <1>2 DEF TypeInv, TypeOK
<1>4. h \in Replies(n)
  BY <1>1, HeadReply
<1>5. ~taken'[n]
  <2>1. h.kind = "Reject" => ~taken[n]
    BY <1>4 DEF Delivery, TakenOK
  <2> HIDE DEF h
  <2> QED
    BY <1>2, <2>1 DEF TypeInv, TypeOK
<1>6. TakenOK(n)'
  BY <1>5, AnswerRead, NoneTaken
<1>7. ASSUME NEW m \in Node, m # n PROVE TakenOK(m)'
  <2>1. SenderSame(m)
    BY <1>1, <1>3, <1>7 DEF SenderSame
  <2>2. /\ Replies(m)' \subseteq Replies(m)
        /\ \A r \in Node : Segments(m, r)' \subseteq Segments(m, r)
    BY <1>1, ReadFewer
  <2> QED
    BY <1>3, <1>7, <2>1, <2>2, TakenSame DEF Delivery
<1> QED
  BY <1>6, <1>7 DEF Delivery

LEMMA CheckTaken ==
  ASSUME TypeInv, Flow, Delivery, NEW n \in Node, check(n)
  PROVE  Delivery'
<1>1. /\ sendcount[n] > 0 /\ sendcount' = [sendcount EXCEPT ![n] = @ - 1]
      /\ UNCHANGED <<reservedXmt, letter, taken>>
  BY DEF check
<1>2. Joins(n)
  BY CheckFlow
<1>3. ASSUME NEW m \in Node, m # n PROVE TakenOK(m)'
  <2>1. Replies(m)' \subseteq Replies(m) /\ \A r \in Node : Segments(m, r)' = Segments(m, r)
    BY <1>2, <1>3 DEF Joins
  <2>2. SenderSame(m)
    BY <1>1, <1>3 DEF SenderSame, TypeInv, TypeOK
  <2> QED
    BY <1>1, <2>1, <2>2, TakenSame DEF Delivery
<1>4. TakenOK(n)'
  <2>1. sendcount[n] # 0
    BY <1>1
  <2>2. ~taken[n] /\ ReplyOK(n)
    BY <2>1 DEF Delivery, TakenOK, Flow
  <2>3. Replies(n) = {}
    BY <2>1, <2>2 DEF ReplyOK
  <2>4. Replies(n)' = {}
    BY <1>2, <2>3 DEF Joins
  <2> QED
    BY <1>1, <2>2, <2>4, NoneTaken
<1> QED
  BY <1>3, <1>4 DEF Delivery

LEMMA BusTaken ==
  ASSUME TypeInv, Flow, Delivery, NEW n \in Node, Transmit(n) \/ Links(n) \/ PowerOff(n)
  PROVE  Delivery'
<1>1. UNCHANGED <<reservedXmt, letter, sendcount, taken>>
  <2>1. CASE Transmit(n) \/ PowerOff(n)
    BY <2>1 DEF Transmit, PowerOff, sending
  <2> QED
    BY <2>1, LinksIs
<1>2. ASSUME NEW m \in Node PROVE TakenOK(m)'
  <2>1. SenderSame(m)
    BY <1>1 DEF SenderSame
  <2>2. /\ Replies(m)' \subseteq Replies(m)
        /\ \A r \in Node : Segments(m, r)' \subseteq Segments(m, r)
    <3>1. CASE Transmit(n) \/ PowerOff(n)
      <4>1. Replies(m)' \subseteq Replies(m) /\ \A r \in Node : Way(m, r)' \subseteq Way(m, r)
        BY <3>1, TransmitFlow, OffFlow DEF Arrives
      <4> QED
        BY <4>1, SegmentsShrink
    <3>2. CASE Links(n)
      BY <3>2, LinkFlow
    <3> QED
      BY <3>1, <3>2
  <2> QED
    BY <1>1, <2>1, <2>2, TakenSame DEF Delivery
<1> QED
  BY <1>2 DEF Delivery

LEMMA OnTaken ==
  ASSUME TypeInv, Flow, Delivery, NEW n \in Node, PowerOn(n)
  PROVE  Delivery'
<1>1. /\ ~taken'[n]
      /\ \A m \in Node \ {n} : SenderSame(m) /\ taken'[m] = taken[m]
  BY DEF PowerOn, SenderSame, TypeInv, TypeOK
<1>2. /\ \A m \in Node \ {n} : \A r \in Node : Segments(m, r)' \subseteq Segments(m, r)
      /\ \A m \in Node : Replies(m)' \subseteq Replies(m)
      /\ Replies(n)' = {}
  BY OnFlow
<1>3. ASSUME NEW m \in Node, m # n PROVE TakenOK(m)'
  BY <1>1, <1>2, <1>3, TakenSame DEF Delivery
<1>4. TakenOK(n)'
  BY <1>1, <1>2, NoneTaken
<1> QED
  BY <1>3, <1>4 DEF Delivery

LEMMA PostTaken ==
  ASSUME TypeInv, Flow, Delivery, NEW n \in Node, NEW d \in Node, NEW c \in Content,
         <<n, d, c>> \in Posts, sendTransmitBuffer(n, d, c)
  PROVE  Delivery' /\ ~taken[n]
<1>1. /\ ~reservedXmt[n]
      /\ reservedXmt' = [reservedXmt EXCEPT ![n] = TRUE]
      /\ letter' = [letter EXCEPT ![n] = [to |-> getAlias(d), says |-> c]]
      /\ sendcount' = [sendcount EXCEPT ![n] = Size[c]]
      /\ UNCHANGED <<txq, rxq, taken>>
  BY DEF sendTransmitBuffer
<1>2. \A m \in Node \ {n} : SenderSame(m)
  BY <1>1 DEF SenderSame, TypeInv, TypeOK
<1>3. \A m \in Node : Replies(m)' = Replies(m) /\ \A r \in Node : Segments(m, r)' = Segments(m, r)
  BY <1>1 DEF Replies, Segments, Way
<1>4. ~taken[n] /\ Replies(n) = {}
  BY <1>1, PostFlow DEF Delivery, TakenOK
<1>5. ASSUME NEW m \in Node, m # n PROVE TakenOK(m)'
  BY <1>1, <1>2, <1>3, <1>5, TakenSame DEF Delivery
<1>6. TakenOK(n)'
  BY <1>1, <1>3, <1>4, NoneTaken
<1> QED
  BY <1>4, <1>5, <1>6 DEF Delivery

LEMMA DeliveryStep ==
  ASSUME LongSendersUndisturbed, TypeInv, Flow, Reception, Handing, Delivery, [Next]_vars
  PROVE  Delivery'
<1>1. ASSUME NEW n \in Node, AbortReception(n) \/ IgnoreFrame(n) \/ DiscardFrame(n)
      PROVE  Delivery'
  <2>1. /\ rxq[n] # <<>> /\ rxq' = [rxq EXCEPT ![n] = Tail(@)]
        /\ UNCHANGED <<txq, reservedXmt, letter, sendcount, taken>>
    BY <1>1 DEF AbortReception, IgnoreFrame, DiscardFrame, GetFrame, sending
  <2> QED
    BY <2>1, ReadTaken
<1>2. ASSUME NEW n \in Node, receivedFrame(n) PROVE Delivery'
  BY <1>1, <1>2, ReplyTaken, SegmentTaken DEF receivedFrame
<1>3. ASSUME NEW n \in Node, \/ check(n) \/ Transmit(n) \/ Links(n) \/ DiscardFrame(n)
                             \/ PowerOff(n) \/ PowerOn(n)
      PROVE  Delivery'
  BY <1>1, <1>3, CheckTaken, BusTaken, OnTaken
<1>4. ASSUME NEW p \in Posts, sendTransmitBuffer(p[1], p[2], p[3]) PROVE Delivery'
  <2>1. p[1] \in Node /\ p[2] \in Node /\ p[3] \in Content /\ <<p[1], p[2], p[3]>> \in Posts
    BY DatagramAssumption
  <2> QED
    BY <1>4, <2>1, PostTaken
<1>5. CASE UNCHANGED vars
  <2>1. UNCHANGED <<txq, rxq, reservedXmt, letter, sendcount, taken>>
    BY <1>5 DEF vars, sending
  <2>2. \A m \in Node : Replies(m)' = Replies(m) /\ \A r \in Node : Segments(m, r)' = Segments(m, r)
    BY <2>1 DEF Replies, Segments, Way
  <2>3. \A m \in Node : SenderSame(m)
    BY <2>1 DEF SenderSame
  <2>4. \A m \in Node : TakenOK(m)'
    BY <2>1, <2>2, <2>3, TakenSame DEF Delivery
  <2> QED
    BY <2>4 DEF Delivery
<1> QED
  BY <1>2, <1>3, <1>4, <1>5 DEF Next, Links

LEMMA DeliveryHolds ==
  ASSUME LongSendersUndisturbed
  PROVE  Spec => [](TypeInv /\ Flow /\ Reception /\ Handing /\ Delivery)
<1>1. Spec => [](TypeInv /\ Flow /\ Reception /\ Handing)
  BY HandingHolds
<1>2. Init => Flow /\ Delivery
  <2> SUFFICES ASSUME Init PROVE Flow /\ Delivery
    OBVIOUS
  <2>1. \A m \in Node : Replies(m) = {}
    BY SetOfEmpty DEF Init, Replies
  <2>2. \A m \in Node : ~taken[m]
    BY DEF Init
  <2> QED
    BY <2>1, <2>2, FlowInit DEF Delivery, TakenOK
<1>3. TypeInv /\ Flow /\ Reception /\ Handing /\ Delivery /\ [Next]_vars => Delivery'
  BY DeliveryStep
<1> QED
  BY <1>1, <1>2, <1>3, PTL DEF Spec

\* Nothing but the receipt of a frame takes one from a node's queue and leaves
\* the node at work.
LEMMA WorkReads ==
  ASSUME TypeInv, [Next]_vars, NEW n \in Node, Works(n)
  PROVE  GetFrame(n)
<1>1. /\ link[n] = "up" /\ link'[n] = "up" /\ rxq[n] # <<>>
      /\ rxq'[n] = Tail(rxq[n]) /\ rxq \in [Node -> Seq(Frame)]
  BY DEF Works, TypeInv, TypeOK
<1>2. rxq'[n] # rxq[n] /\ \A f : rxq'[n] # Append(rxq[n], f)
  <2>1. rxq[n] \in Seq(Frame) /\ Len(Tail(rxq[n])) = Len(rxq[n]) - 1 /\ Len(rxq[n]) \in Nat
    BY <1>1
  <2>2. \A f : Len(Append(rxq[n], f)) = Len(rxq[n]) + 1
    BY <2>1
  <2>3. Len(rxq'[n]) = Len(rxq[n]) - 1
    BY <1>1, <2>1
  <2>4. ASSUME NEW f, rxq'[n] = Append(rxq[n], f) PROVE FALSE
    <3>1. Len(rxq'[n]) = Len(rxq[n]) + 1
      BY <2>2, <2>4
    <3> QED
      BY <2>1, <2>3, <3>1
  <2>5. rxq'[n] # rxq[n]
    BY <2>1, <2>3
  <2> QED
    BY <2>4, <2>5
<1>3. ASSUME NEW m \in Node, receivedFrame(m) PROVE GetFrame(n)
  <2>1. GetFrame(m)
    BY <1>3 DEF receivedFrame, AbortReception, IgnoreFrame, ReceiveAck, ReceiveReject,
                RefuseSegment, StoreSegment, DeliverDatagram, ReceiveSegment
  <2>2. m = n
    BY <1>1, <1>2, <2>1 DEF GetFrame
  <2> QED
    BY <2>1, <2>2
<1>4. ASSUME NEW m \in Node, Transmit(m) PROVE FALSE
  BY <1>1, <1>2, <1>4 DEF Transmit
<1>5. ASSUME NEW m \in Node, check(m) \/ Links(m) \/ PowerOn(m)
      PROVE  FALSE
  <2>1. UNCHANGED rxq
    BY <1>5, LinksIs DEF check, PowerOn
  <2> QED
    BY <1>2, <2>1
<1>6. ASSUME NEW m \in Node, DiscardFrame(m) PROVE FALSE
  BY <1>1, <1>2, <1>6 DEF DiscardFrame, Joining
<1>7. ASSUME NEW m \in Node, PowerOff(m) PROVE FALSE
  <2>1. link' = [link EXCEPT ![m] = "off"] /\ rxq' = [rxq EXCEPT ![m] = <<>>]
    BY <1>7 DEF PowerOff
  <2>2. link \in [Node -> LinkState]
    BY DEF TypeInv, TypeOK
  <2> QED
    BY <1>1, <1>2, <2>1, <2>2
<1>8. ASSUME NEW p \in Posts, sendTransmitBuffer(p[1], p[2], p[3]) PROVE FALSE
  BY <1>2, <1>8 DEF sendTransmitBuffer
<1>9. CASE UNCHANGED vars
  BY <1>2, <1>9 DEF vars
<1> QED
  BY <1>3, <1>4, <1>5, <1>6, <1>7, <1>8, <1>9 DEF Next, Links

\* Datagram.cpp:142-165: what the callback is given is a whole datagram, as its
\* sender posted it, and has not accepted before, although segments of several
\* senders come mixed, rejected datagrams start again, receivers lose power,
\* aliases change unannounced, and segments are lost as link frames.
THEOREM DeliversWholeDatagrams ==
  ASSUME LongSendersUndisturbed
  PROVE  Spec => DeliversWhole
<1> DEFINE Whole ==
      \A n \in Node :
        LET f == Head(rxq[n]) IN
        /\ Works(n)
        /\ IsForHere(n, f)
        /\ f.kind \in SegmentKind
        /\ Fits(n, f)
        /\ Final(f)
        => \E m \in Node :
             /\ reservedXmt[m]
             /\ ~taken[m]
             /\ letter[m].to = getAlias(n)
             /\ Handed(n, f) = PostedParts(m)
<1>1. ASSUME TypeInv, Flow, Reception, Handing, Delivery, [Next]_vars PROVE Whole
  <2> SUFFICES ASSUME NEW n \in Node, NEW f, f = Head(rxq[n]), Works(n), IsForHere(n, f),
                      f.kind \in SegmentKind, Fits(n, f), Final(f)
               PROVE  \E m \in Node :
                        /\ reservedXmt[m]
                        /\ ~taken[m]
                        /\ letter[m].to = getAlias(n)
                        /\ Handed(n, f) = PostedParts(m)
    OBVIOUS
  <2>1. ReceiveSegment(n)
    BY <1>1, WorkReads DEF ReceiveSegment
  <2> DEFINE k == f.src[1]
  <2>2. /\ k \in Node /\ reservedXmt[k] /\ ~taken[k]
        /\ letter[k].to = getAlias(n)
        /\ Handed(n, f) = PostedParts(k)
    BY <1>1, <2>1, WholeHanded
  <2> QED
    BY <2>2
<1>2. TypeInv /\ Flow /\ Reception /\ Handing /\ Delivery /\ [Next]_vars => [Whole]_vars
  BY <1>1
<1>3. Spec => [](TypeInv /\ Flow /\ Reception /\ Handing /\ Delivery)
  BY DeliveryHolds
<1> QED
  BY <1>2, <1>3, PTL DEF Spec, DeliversWhole

-----------------------------------------------------------------------------
(* Refinement of the mailbox                                               *)

Powered == [n \in Node |-> link[n] # "off"]
Mailed == [n \in Node |-> Posted(n)]

LEMMA PostedIs ==
  ASSUME TypeInv, Flow, NEW n \in Node
  PROVE  /\ reservedXmt[n] => /\ Posted(n) = [to |-> letter[n].to[1], says |-> letter[n].says]
                              /\ Posted(n) # Nothing
         /\ ~reservedXmt[n] => Posted(n) = Nothing
<1>1. CASE reservedXmt[n]
  <2>1. letter[n].to \in Alias /\ letter[n].says \in Content
    BY <1>1, Lengths DEF Flow, SenderOK
  <2>2. letter[n].to[1] \in Node
    BY <2>1 DEF Alias
  <2>3. Posted(n) = [to |-> letter[n].to[1], says |-> letter[n].says]
    BY <1>1 DEF Posted
  <2>4. Posted(n) \in [to : Node, says : Content]
    BY <2>1, <2>2, <2>3
  <2> QED
    BY <1>1, <2>3, <2>4, DatagramAssumption
<1>2. CASE ~reservedXmt[n]
  BY <1>2 DEF Posted
<1> QED
  BY <1>1, <1>2

LEMMA PowerIs ==
  ASSUME NEW n \in Node, NEW b \in BOOLEAN, (link'[n] # "off") = b,
         \A m \in Node \ {n} : link'[m] = "off" <=> link[m] = "off"
  PROVE  Powered' = [Powered EXCEPT ![n] = b]
<1>1. ASSUME NEW m \in Node PROVE (link'[m] # "off") = [Powered EXCEPT ![n] = b][m]
  <2>1. CASE m = n
    <3>1. [Powered EXCEPT ![n] = b][m] = b
      BY <2>1 DEF Powered
    <3> QED
      BY <2>1, <3>1, Zenon
  <2>2. CASE m # n
    <3>1. [Powered EXCEPT ![n] = b][m] = (link[m] # "off")
      BY <2>2, Zenon DEF Powered
    <3>2. link'[m] = "off" <=> link[m] = "off"
      BY <2>2
    <3> QED
      BY <3>1, <3>2, Zenon
  <2> QED
    BY <2>1, <2>2
<1>2. Powered' = [m \in Node |-> link'[m] # "off"]
  BY DEF Powered
<1>3. [Powered EXCEPT ![n] = b] = [m \in Node |-> [Powered EXCEPT ![n] = b][m]]
  BY DEF Powered
<1> QED
  BY <1>1, <1>2, <1>3, Zenon

LEMMA PowerSame ==
  ASSUME \A m \in Node : link'[m] = "off" <=> link[m] = "off"
  PROVE  Powered' = Powered
<1>1. ASSUME NEW m \in Node PROVE (link'[m] # "off") = (link[m] # "off")
  BY Zenon
<1> QED
  BY <1>1, Zenon DEF Powered

LEMMA PostedSame ==
  ASSUME NEW n \in Node, reservedXmt'[n] = reservedXmt[n], letter'[n] = letter[n]
  PROVE  Posted(n)' = Posted(n)
BY DEF Posted

LEMMA MailedIs ==
  ASSUME NEW n \in Node, NEW l, Posted(n)' = l,
         \A m \in Node \ {n} : reservedXmt'[m] = reservedXmt[m] /\ letter'[m] = letter[m]
  PROVE  Mailed' = [Mailed EXCEPT ![n] = l]
<1>1. \A m \in Node \ {n} : Posted(m)' = Posted(m)
  BY PostedSame
<1> QED
  BY <1>1 DEF Mailed

LEMMA MailedSame ==
  ASSUME \A m \in Node : reservedXmt'[m] = reservedXmt[m] /\ letter'[m] = letter[m]
  PROVE  Mailed' = Mailed
<1>1. \A m \in Node : Posted(m)' = Posted(m)
  BY PostedSame
<1> QED
  BY <1>1 DEF Mailed

\* Whether a step is one of the mailbox's, or none of its business.
MailStep ==
  \/ /\ Powered' = Powered /\ Mailed' = Mailed /\ taken' = taken
  \/ \E n \in Node :
       \/ /\ Powered[n] /\ Mailed[n] = Nothing
          /\ \E l \in [to : Node, says : Content] : Mailed' = [Mailed EXCEPT ![n] = l]
          /\ Powered' = Powered /\ taken' = taken
       \/ /\ Mailed[n] # Nothing /\ Wanted(Mailed[n]) /\ Powered[Mailed[n].to] /\ ~taken[n]
          /\ taken' = [taken EXCEPT ![n] = TRUE]
          /\ Powered' = Powered /\ Mailed' = Mailed
       \/ /\ Powered[n] /\ Mailed[n] # Nothing /\ (taken[n] \/ ~Wanted(Mailed[n]))
          /\ Mailed' = [Mailed EXCEPT ![n] = Nothing]
          /\ taken' = [taken EXCEPT ![n] = FALSE]
          /\ Powered' = Powered
       \/ /\ Powered[n] /\ Powered' = [Powered EXCEPT ![n] = FALSE]
          /\ Mailed' = Mailed /\ taken' = taken
       \/ /\ ~Powered[n] /\ Powered' = [Powered EXCEPT ![n] = TRUE]
          /\ Mailed' = [Mailed EXCEPT ![n] = Nothing]
          /\ taken' = [taken EXCEPT ![n] = FALSE]

LEMMA MailStepIs == MailStep => [Mail!Next]_(Mail!mail)
<1>1. ASSUME NEW n \in Node, NEW l \in [to : Node, says : Content],
             Powered[n], Mailed[n] = Nothing, Mailed' = [Mailed EXCEPT ![n] = l],
             Powered' = Powered, taken' = taken
      PROVE  Mail!Post(n)
  <2>1. Mailed'[n] = l
    BY <1>1 DEF Mailed
  <2>2. Mailed'[n] \in [to : Node, says : Content]
    BY <2>1
  <2>3. Mailed' = [Mailed EXCEPT ![n] = Mailed'[n]]
    BY <1>1, <2>1
  <2> QED
    BY <1>1, <2>2, <2>3 DEF Mail!Post, Powered, Mailed
<1> QED
  BY <1>1 DEF MailStep, Powered, Mailed, Mail!Next, Mail!Take, Mail!Release, Mail!Fail,
              Mail!Return, Mail!mail

LEMMA MailStutters ==
  ASSUME UNCHANGED <<reservedXmt, letter, taken>>,
         \A m \in Node : link'[m] = "off" <=> link[m] = "off"
  PROVE  MailStep
<1>1. Powered' = Powered
  BY PowerSame
<1>2. Mailed' = Mailed
  BY MailedSame
<1> QED
  BY <1>1, <1>2 DEF MailStep

LEMMA DeliverMails ==
  ASSUME LongSendersUndisturbed, TypeInv, Flow, Reception, Handing, Delivery, NEW n \in Node,
         DeliverDatagram(n), NEW h, h = Head(rxq[n]), NEW k, k = h.src[1]
  PROVE  MailStep
<1>1. UNCHANGED <<reservedXmt, letter, link>> /\ link[n] = "up"
  BY DEF DeliverDatagram, ReceiveSegment, GetFrame, sending
<1>2. Handover(n, h, k)
  BY DeliverTaken
<1>3. CASE UNCHANGED taken
  BY <1>1, <1>3, MailStutters
<1>4. CASE <<n, letter[k].says>> \in Accepts /\ taken' = [taken EXCEPT ![k] = TRUE]
  <2>1. k \in Node /\ reservedXmt[k] /\ letter[k].to[1] = n /\ ~taken[k]
    BY <1>2 DEF Handover
  <2>2. /\ Mailed[k] = [to |-> letter[k].to[1], says |-> letter[k].says]
        /\ Mailed[k] # Nothing
    BY <2>1, PostedIs DEF Mailed
  <2>3. Wanted(Mailed[k]) /\ Mailed[k].to = n
    BY <1>4, <2>1, <2>2 DEF Wanted
  <2>4. Powered[n]
    BY <1>1 DEF Powered
  <2>5. Powered' = Powered /\ Mailed' = Mailed
    BY <1>1, PowerSame, MailedSame
  <2> QED
    BY <1>4, <2>1, <2>2, <2>3, <2>4, <2>5 DEF MailStep
<1> QED
  BY <1>2, <1>3, <1>4 DEF Handover

LEMMA ReplyMails ==
  ASSUME TypeInv, Flow, Delivery, NEW n \in Node, ReceiveAck(n) \/ ReceiveReject(n)
  PROVE  MailStep
<1> DEFINE h == Head(rxq[n])
<1>1. UNCHANGED <<letter, link>> /\ link[n] = "up" /\ rxq[n] # <<>> /\ IsReply(h)
  BY DEF ReceiveAck, ReceiveReject, Released, GetFrame, IsReply
<1>2. h \in Replies(n) /\ reservedXmt[n]
  BY <1>1, HeadReply
<1>3. CASE UNCHANGED <<reservedXmt, taken>>
  BY <1>1, <1>3, MailStutters
<1>4. CASE Released(n) /\ (h.kind = "Ack" \/ (h.kind = "Reject" /\ ~AsksAgain(h)))
  <2>1. /\ reservedXmt' = [reservedXmt EXCEPT ![n] = FALSE]
        /\ taken' = [taken EXCEPT ![n] = FALSE]
    BY <1>4 DEF Released
  <2>2. /\ Mailed[n] = [to |-> letter[n].to[1], says |-> letter[n].says]
        /\ Mailed[n] # Nothing
    BY <1>2, PostedIs DEF Mailed
  <2>3. taken[n] \/ <<letter[n].to[1], letter[n].says>> \notin Accepts
    BY <1>2, <1>4 DEF Delivery, TakenOK, AsksAgain
  <2>4. taken[n] \/ ~Wanted(Mailed[n])
    BY <2>2, <2>3 DEF Wanted
  <2>5. Powered[n] /\ Powered' = Powered
    BY <1>1, PowerSame DEF Powered
  <2>6. /\ ~reservedXmt'[n]
        /\ \A m \in Node \ {n} : reservedXmt'[m] = reservedXmt[m] /\ letter'[m] = letter[m]
    BY <1>1, <2>1 DEF TypeInv, TypeOK
  <2>7. Posted(n)' = Nothing
    BY <2>6 DEF Posted
  <2>8. Mailed' = [Mailed EXCEPT ![n] = Nothing]
    BY <2>6, <2>7, MailedIs
  <2> QED
    BY <2>1, <2>2, <2>4, <2>5, <2>8 DEF MailStep
<1> QED
  BY <1>3, <1>4 DEF ReceiveAck, ReceiveReject

LEMMA PostMails ==
  ASSUME TypeInv, Flow, NEW n \in Node, NEW d \in Node, NEW c \in Content,
         sendTransmitBuffer(n, d, c)
  PROVE  MailStep
<1>1. /\ link[n] = "up" /\ ~reservedXmt[n]
      /\ reservedXmt' = [reservedXmt EXCEPT ![n] = TRUE]
      /\ letter' = [letter EXCEPT ![n] = [to |-> getAlias(d), says |-> c]]
      /\ UNCHANGED <<link, taken>>
  BY DEF sendTransmitBuffer
<1>2. /\ reservedXmt'[n] /\ letter'[n] = [to |-> getAlias(d), says |-> c]
      /\ \A m \in Node \ {n} : reservedXmt'[m] = reservedXmt[m] /\ letter'[m] = letter[m]
  BY <1>1 DEF TypeInv, TypeOK
<1>3. Posted(n)' = [to |-> d, says |-> c]
  BY <1>2 DEF Posted, getAlias
<1>4. Mailed' = [Mailed EXCEPT ![n] = [to |-> d, says |-> c]]
  BY <1>2, <1>3, MailedIs
<1>5. Mailed[n] = Nothing /\ Powered[n]
  BY <1>1, PostedIs DEF Mailed, Powered
<1>6. Powered' = Powered
  BY <1>1, PowerSame
<1>7. [to |-> d, says |-> c] \in [to : Node, says : Content]
  OBVIOUS
<1> QED
  BY <1>1, <1>4, <1>5, <1>6, <1>7 DEF MailStep

LEMMA PowerMails ==
  ASSUME TypeInv, NEW n \in Node, PowerOff(n) \/ PowerOn(n)
  PROVE  MailStep
<1>1. link \in [Node -> LinkState]
  BY DEF TypeInv, TypeOK
<1>2. CASE PowerOff(n)
  <2>1. /\ link[n] # "off" /\ link' = [link EXCEPT ![n] = "off"]
        /\ UNCHANGED <<reservedXmt, letter, taken>>
    BY <1>2 DEF PowerOff, sending
  <2>2. link'[n] = "off" /\ \A m \in Node \ {n} : link'[m] = "off" <=> link[m] = "off"
    BY <1>1, <2>1
  <2>3. (link'[n] # "off") = FALSE
    BY <2>2
  <2>4. Powered' = [Powered EXCEPT ![n] = FALSE]
    BY <2>2, <2>3, PowerIs
  <2>5. Powered[n] /\ Mailed' = Mailed
    BY <2>1, MailedSame DEF Powered
  <2> QED
    BY <2>1, <2>4, <2>5 DEF MailStep
<1>3. CASE PowerOn(n)
  <2>1. /\ link[n] = "off" /\ link' = [link EXCEPT ![n] = "assigned"]
        /\ reservedXmt' = [reservedXmt EXCEPT ![n] = FALSE]
        /\ letter' = [letter EXCEPT ![n] = Nothing]
        /\ taken' = [taken EXCEPT ![n] = FALSE]
    BY <1>3 DEF PowerOn
  <2>2. link'[n] # "off" /\ \A m \in Node \ {n} : link'[m] = "off" <=> link[m] = "off"
    BY <1>1, <2>1
  <2>3. (link'[n] # "off") = TRUE
    BY <2>2
  <2>4. Powered' = [Powered EXCEPT ![n] = TRUE]
    BY <2>2, <2>3, PowerIs
  <2>5. /\ ~reservedXmt'[n]
        /\ \A m \in Node \ {n} : reservedXmt'[m] = reservedXmt[m] /\ letter'[m] = letter[m]
    BY <2>1 DEF TypeInv, TypeOK
  <2>6. Posted(n)' = Nothing
    BY <2>5 DEF Posted
  <2>7. Mailed' = [Mailed EXCEPT ![n] = Nothing]
    BY <2>5, <2>6, MailedIs
  <2>8. ~Powered[n]
    BY <2>1 DEF Powered
  <2> QED
    BY <2>1, <2>4, <2>7, <2>8 DEF MailStep
<1> QED
  BY <1>2, <1>3

LEMMA StepMails ==
  ASSUME LongSendersUndisturbed, TypeInv, Flow, Reception, Handing, Delivery, [Next]_vars
  PROVE  MailStep
<1>1. ASSUME UNCHANGED <<link, reservedXmt, letter, taken>> PROVE MailStep
  BY <1>1, MailStutters
<1>2. ASSUME NEW n \in Node, receivedFrame(n) PROVE MailStep
  <2>1. CASE AbortReception(n) \/ IgnoreFrame(n) \/ RefuseSegment(n) \/ StoreSegment(n)
    BY <1>1, <2>1 DEF AbortReception, IgnoreFrame, RefuseSegment, StoreSegment,
                      ReceiveSegment, GetFrame, sending
  <2>2. CASE DeliverDatagram(n)
    BY <2>2, DeliverMails
  <2> QED
    BY <1>2, <2>1, <2>2, ReplyMails DEF receivedFrame
<1>3. ASSUME NEW n \in Node, check(n) \/ Transmit(n) \/ DiscardFrame(n) PROVE MailStep
  BY <1>1, <1>3 DEF check, Transmit, DiscardFrame, sending
<1>4. ASSUME NEW n \in Node, Links(n) PROVE MailStep
  <2>1. /\ UNCHANGED <<reservedXmt, letter, taken>>
        /\ \A m \in Node : link'[m] = "off" <=> link[m] = "off"
    BY <1>4, LinksIs
  <2> QED
    BY <2>1, MailStutters
<1>5. ASSUME NEW n \in Node, PowerOff(n) \/ PowerOn(n) PROVE MailStep
  BY <1>5, PowerMails
<1>6. ASSUME NEW p \in Posts, sendTransmitBuffer(p[1], p[2], p[3]) PROVE MailStep
  <2>1. p[1] \in Node /\ p[2] \in Node /\ p[3] \in Content
    BY DatagramAssumption
  <2> QED
    BY <1>6, <2>1, PostMails
<1>7. CASE UNCHANGED vars
  BY <1>1, <1>7 DEF vars, sending
<1> QED
  BY <1>2, <1>3, <1>4, <1>5, <1>6, <1>7 DEF Next, Links

\* The datagram protocol implements the mailbox: a datagram is taken whole and
\* at most once, and its sender gives the buffer free only when it was, or is
\* of a type its receiver does not accept.
THEOREM DatagramImplementsMailbox ==
  ASSUME LongSendersUndisturbed
  PROVE  Spec => ImplementsMailbox
<1>1. Init => Mail!Init
  BY DEF Init, Mail!Init, Posted
<1>2. /\ TypeInv /\ Flow /\ Reception /\ Handing /\ Delivery /\ [Next]_vars
      => [Mail!Next]_(Mail!mail)
  BY StepMails, MailStepIs
<1>3. Spec => [](TypeInv /\ Flow /\ Reception /\ Handing /\ Delivery)
  BY DeliveryHolds
<1> QED
  BY <1>1, <1>2, <1>3, PTL DEF Spec, ImplementsMailbox, Mail!Spec
=============================================================================
