-------------------------- MODULE NodeMemoryProofs --------------------------
(***************************************************************************)
(* Proofs about NodeMemory, for any number of events and values of a byte, *)
(* any node IDs and any EventIDs of other nodes. What needs the power to   *)
(* stay while a call writes says so.                                       *)
(***************************************************************************)
EXTENDS NodeMemory, FiniteSetTheorems, TLAPS

-----------------------------------------------------------------------------
(* Arithmetic                                                              *)

LEMMA Modulo ==
  ASSUME NEW a \in Nat, NEW m \in Nat \ {0}
  PROVE  a % m \in 0 .. m - 1
OBVIOUS

LEMMA TimesMonotonic ==
  ASSUME NEW a \in Nat, NEW b \in Nat, NEW m \in Nat, a <= b
  PROVE  a * m <= b * m
OBVIOUS

\* Two digits make a number of the count's width, and it has two digits.
LEMMA TwoDigits ==
  ASSUME NEW m \in Nat \ {0}, NEW a \in 0 .. m - 1, NEW b \in 0 .. m - 1
  PROVE  a * m + b \in 0 .. m * m - 1
<1>1. a * m \in Nat /\ m * m \in Nat /\ (m - 1) * m = m * m - m
  OBVIOUS
<1>2. a * m <= (m - 1) * m
  BY TimesMonotonic
<1> QED
  BY <1>1, <1>2

LEMMA HighDigit ==
  ASSUME NEW m \in Nat \ {0}, NEW x \in 0 .. m * m - 1
  PROVE  x \div m \in 0 .. m - 1
<1>1. m * m \in Nat /\ x \in Nat
  OBVIOUS
<1>2. x \div m \in Nat /\ (x \div m) * m <= x
  BY <1>1
<1>3. ASSUME x \div m >= m PROVE FALSE
  <2>1. m * m <= (x \div m) * m
    BY <1>2, <1>3, TimesMonotonic
  <2> QED
    BY <2>1, <1>1, <1>2
<1> QED
  BY <1>2, <1>3

LEMMA Width ==
  /\ Base \in Nat \ {0}
  /\ Base * Base \in Nat \ {0}
<1>1. Base \in Nat /\ Base # 0
  BY NodeMemoryAssumption
<1> QED
  BY <1>1

\* Counts that are less than the width apart stay apart.
LEMMA CountsDiffer ==
  ASSUME NEW a \in Nat, NEW b \in Nat, NEW m \in Nat \ {0}, a < b, b - a < m
  PROVE  a % m # b % m
<1> SUFFICES ASSUME a % m = b % m PROVE FALSE
  OBVIOUS
<1>1. /\ a = m * (a \div m) + (a % m)
      /\ b = m * (b \div m) + (b % m)
      /\ a \div m \in Nat /\ b \div m \in Nat
  OBVIOUS
<1> DEFINE d == (b \div m) - (a \div m)
<1>2. d \in Int /\ m * d = b - a
  BY <1>1
<1>3. CASE d >= 1
  <2>1. m * d >= m
    BY <1>2, <1>3
  <2> QED
    BY <1>2, <2>1
<1>4. CASE d <= 0
  <2>1. m * d <= 0
    BY <1>2, <1>4
  <2> QED
    BY <1>2, <2>1
<1> QED
  BY <1>2, <1>3, <1>4

LEMMA Remainder ==
  ASSUME NEW m \in Nat \ {0}, NEW q \in Nat, NEW r \in 0 .. m - 1, NEW a \in Nat, a = m * q + r
  PROVE  a % m = r
<1> DEFINE k == a \div m
           s == a % m
           d == q - k
<1>1. k \in Nat /\ s \in 0 .. m - 1 /\ a = m * k + s
  OBVIOUS
<1> HIDE DEF k, s
<1>2. d \in Int /\ m * d = s - r
  BY <1>1
<1> HIDE DEF d
<1>3. d >= 1 => m * d >= m
  BY <1>2
<1>4. d <= -1 => m * d <= -m
  BY <1>2
<1>5. d = 0
  BY <1>1, <1>2, <1>3, <1>4
<1>6. s = r
  BY <1>1, <1>2, <1>5
<1> QED
  BY <1>6 DEF s
LEMMA DivMod ==
  ASSUME NEW m \in Nat \ {0}, NEW a \in Nat
  PROVE  a \div m \in Nat /\ a % m \in 0 .. m - 1 /\ a = m * (a \div m) + (a % m)
OBVIOUS

\* The low digit does not depend on the width.
LEMMA LowDigit ==
  ASSUME NEW m \in Nat \ {0}, NEW a \in Nat
  PROVE  (a % (m * m)) % m = a % m
<1> DEFINE r == a % (m * m)
           q == a \div (m * m)
           k == r \div m
           s == r % m
<1>0. m * m \in Nat \ {0}
  OBVIOUS
<1>1. r \in Nat /\ q \in Nat /\ a = (m * m) * q + r
  <2> DEFINE n == m * m
  <2>1. n \in Nat \ {0}
    BY <1>0
  <2> HIDE DEF n
  <2>2. a \div n \in Nat /\ a % n \in 0 .. n - 1 /\ a = n * (a \div n) + (a % n)
    BY <2>1, DivMod
  <2> QED
    BY <2>1, <2>2 DEF n
<1> HIDE DEF r, q
<1>2. k \in Nat /\ s \in 0 .. m - 1 /\ r = m * k + s
  BY <1>1
<1> HIDE DEF k, s
<1>3. m * q + k \in Nat /\ a = m * (m * q + k) + s
  <2>1. m * q \in Nat
    BY <1>1
  <2>2. (m * m) * q = m * (m * q)
    BY <1>1
  <2>3. m * (m * q + k) = m * (m * q) + m * k
    BY <1>1, <1>2, <2>1
  <2> QED
    BY <1>1, <1>2, <2>1, <2>2, <2>3
<1>4. a % m = s
  <2> DEFINE z == m * q + k
  <2>1. z \in Nat /\ a = m * z + s
    BY <1>3
  <2> HIDE DEF z
  <2> QED
    BY <1>2, <2>1, Remainder
<1> QED
  BY <1>4 DEF r, s

LEMMA DigitsDetermine ==
  ASSUME NEW x \in Nat, NEW y \in Nat, NEW m \in Nat \ {0},
         x \div m = y \div m, x % m = y % m
  PROVE  x = y
<1>1. x = m * (x \div m) + (x % m) /\ y = m * (y \div m) + (y % m)
  OBVIOUS
<1> QED
  BY <1>1

-----------------------------------------------------------------------------
(* Cells and writes                                                        *)

LEMMA CellsDiffer ==
  /\ \A i, j \in Nat : /\ Tag(i) # Count(j) /\ Tag(i) # Nid(j) /\ Count(i) # Nid(j)
                       /\ Tag(i) = Tag(j) => i = j
                       /\ Nid(i) = Nid(j) => i = j
  /\ \A e, i, j \in Nat : Slot(e, i) # Tag(j) /\ Slot(e, i) # Count(j) /\ Slot(e, i) # Nid(j)
  /\ \A e, f, i, j \in Nat : Slot(e, i) = Slot(f, j) => e = f /\ i = j
<1>1. \A i, j \in Nat : /\ Tag(i) # Count(j) /\ Tag(i) # Nid(j) /\ Count(i) # Nid(j)
                        /\ Tag(i) = Tag(j) => i = j
                        /\ Nid(i) = Nid(j) => i = j
  BY DEF Tag, Count, Nid
<1>2. \A e, i \in Nat : Slot(e, i)[1] = "event"
  BY DEF Slot
<1>3. \A j \in Nat : Tag(j)[1] = "tag" /\ Count(j)[1] = "count" /\ Nid(j)[1] = "nid"
  BY DEF Tag, Count, Nid
<1>4. ASSUME NEW e \in Nat, NEW i \in Nat, NEW j \in Nat
      PROVE  Slot(e, i) # Tag(j) /\ Slot(e, i) # Count(j) /\ Slot(e, i) # Nid(j)
  <2>1. Slot(e, i)[1] = "event" /\ Tag(j)[1] = "tag" /\ Count(j)[1] = "count" /\ Nid(j)[1] = "nid"
    BY <1>2, <1>3
  <2> QED
    BY <2>1
<1>5. ASSUME NEW e \in Nat, NEW f \in Nat, NEW i \in Nat, NEW j \in Nat,
             Slot(e, i) = Slot(f, j)
      PROVE  e = f /\ i = j
  BY <1>5 DEF Slot
<1> QED
  BY <1>1, <1>4, <1>5

\* What may be written where.
Values == TagByte \cup Byte \cup Part \cup {id[i] : id \in Foreign, i \in 1 .. 4}

Writes ==
  {w \in [cell : Cell, value : Values, mints : EventID \cup {NoID}] :
     /\ \A i \in 1 .. 4 : w.cell = Tag(i) => w.value \in TagByte
     /\ \A i \in 1 .. 2 : w.cell = Count(i) => w.value \in Byte
     /\ \A i \in 1 .. 2 : w.cell = Nid(i) => w.value \in Part}

LEMMA TagWrite ==
  ASSUME NEW i \in 1 .. 4, NEW v \in TagByte
  PROVE  Write(Tag(i), v) \in Writes
<1>1. Tag(i) \in Cell /\ v \in Values
  BY DEF Cell, Values
<1>2. \A j \in 1 .. 2 : Tag(i) # Count(j) /\ Tag(i) # Nid(j)
  BY CellsDiffer
<1> QED
  BY <1>1, <1>2 DEF Write, Writes

LEMMA CountWrite ==
  ASSUME NEW i \in 1 .. 2, NEW v \in Byte
  PROVE  Write(Count(i), v) \in Writes
<1>1. Count(i) \in Cell /\ v \in Values
  BY DEF Cell, Values
<1>2. \A j \in 1 .. 4 : Tag(j) # Count(i)
  BY CellsDiffer
<1>3. \A j \in 1 .. 2 : Count(i) # Nid(j)
  BY CellsDiffer
<1> QED
  BY <1>1, <1>2, <1>3 DEF Write, Writes

LEMMA NidWrite ==
  ASSUME NEW i \in 1 .. 2, NEW v \in Part
  PROVE  Write(Nid(i), v) \in Writes
<1>1. Nid(i) \in Cell /\ v \in Values
  BY DEF Cell, Values
<1>2. \A j \in 1 .. 4 : Tag(j) # Nid(i)
  BY CellsDiffer
<1>3. \A j \in 1 .. 2 : Count(j) # Nid(i)
  BY CellsDiffer
<1> QED
  BY <1>1, <1>2, <1>3 DEF Write, Writes

LEMMA SlotWrite ==
  ASSUME NEW w, NEW e \in Event, NEW i \in 1 .. 4, NEW v \in Values,
         NEW id \in EventID \cup {NoID},
         w = [cell |-> Slot(e, i), value |-> v, mints |-> id]
  PROVE  w \in Writes
<1>1. Slot(e, i) \in Cell
  BY DEF Cell
<1>2. e \in Nat /\ i \in Nat
  BY NodeMemoryAssumption DEF Event
<1>3. \A j \in 1 .. 4 : Slot(e, i) # Tag(j)
  BY <1>2, CellsDiffer
<1>4. \A j \in 1 .. 2 : Slot(e, i) # Count(j) /\ Slot(e, i) # Nid(j)
  BY <1>2, CellsDiffer
<1> QED
  BY <1>1, <1>3, <1>4 DEF Writes

-----------------------------------------------------------------------------
(* What the calls write                                                    *)

LEMMA Concatenated ==
  ASSUME NEW S, NEW p \in Seq(S), NEW q \in Seq(S)
  PROVE  p \o q \in Seq(S) /\ Len(p \o q) = Len(p) + Len(q)
OBVIOUS

LEMMA InFirst ==
  ASSUME NEW S, NEW p \in Seq(S), NEW q \in Seq(S), NEW i \in 1 .. Len(p)
  PROVE  (p \o q)[i] = p[i]
OBVIOUS

LEMMA InSecond ==
  ASSUME NEW S, NEW p \in Seq(S), NEW q \in Seq(S), NEW i \in 1 .. Len(q)
  PROVE  (p \o q)[i + Len(p)] = q[i]
OBVIOUS

\* The writes of store(), one by one.
LEMMA StoreIs ==
  ASSUME NEW n \in NodeID, NEW c \in 0 .. Base * Base - 1
  PROVE  /\ storeWrites(n, c) \in Seq(Writes)
         /\ Len(storeWrites(n, c)) = 8
         /\ \A i \in 1 .. 4 : storeWrites(n, c)[i] = Write(Tag(i), AllOKTag[i])
         /\ \A i \in 1 .. 2 : storeWrites(n, c)[i + 4].cell = Count(i)
         /\ \A i \in 1 .. 2 : storeWrites(n, c)[i + 6] = Write(Nid(i), n[i])
         /\ \A i \in 1 .. 8 : storeWrites(n, c)[i].mints = NoID
<1> DEFINE t == [i \in 1 .. 4 |-> Write(Tag(i), AllOKTag[i])]
           k == << Write(Count(1), c \div Base), Write(Count(2), c % Base) >>
           d == [i \in 1 .. 2 |-> Write(Nid(i), n[i])]
<1>1. t \in Seq(Writes) /\ Len(t) = 4 /\ \A i \in 1 .. 4 : t[i] = Write(Tag(i), AllOKTag[i])
  <2>1. \A i \in 1 .. 4 : AllOKTag[i] \in TagByte
    BY DEF AllOKTag, TagByte, ToSet
  <2>2. \A i \in 1 .. 4 : Write(Tag(i), AllOKTag[i]) \in Writes
    BY <2>1, TagWrite
  <2> QED
    BY <2>2
<1>2. k \in Seq(Writes) /\ Len(k) = 2
  <2>1. c \div Base \in Byte /\ c % Base \in Byte
    <3>1. Base \in Nat \ {0} /\ c \in Nat
      BY Width
    <3>2. c \div Base \in 0 .. Base - 1
      BY <3>1, HighDigit
    <3>3. c % Base \in 0 .. Base - 1
      BY <3>1, Modulo
    <3> QED
      BY <3>2, <3>3 DEF Byte
  <2>2. Write(Count(1), c \div Base) \in Writes /\ Write(Count(2), c % Base) \in Writes
    BY <2>1, CountWrite
  <2> QED
    BY <2>2
<1>3. d \in Seq(Writes) /\ Len(d) = 2 /\ \A i \in 1 .. 2 : d[i] = Write(Nid(i), n[i])
  <2>1. \A i \in 1 .. 2 : n[i] \in Part
    BY DEF NodeID
  <2>2. \A i \in 1 .. 2 : Write(Nid(i), n[i]) \in Writes
    BY <2>1, NidWrite
  <2> QED
    BY <2>2
<1>4. storeWrites(n, c) = t \o k \o d
  BY DEF storeWrites
<1>5. \A i \in 1 .. 2 : k[i].cell = Count(i) /\ k[i].mints = NoID
  BY DEF Write
<1> HIDE DEF t, k, d
<1>6. /\ (t \o k) \in Seq(Writes) /\ Len(t \o k) = 6
      /\ \A i \in 1 .. 4 : (t \o k)[i] = t[i]
      /\ \A i \in 1 .. 2 : (t \o k)[i + 4] = k[i]
  <2>1. t \o k \in Seq(Writes) /\ Len(t \o k) = Len(t) + Len(k)
    BY <1>1, <1>2, Concatenated
  <2>2. ASSUME NEW i \in 1 .. 4 PROVE (t \o k)[i] = t[i]
    <3>1. i \in 1 .. Len(t)
      BY <1>1
    <3> QED
      BY <1>1, <1>2, <3>1, InFirst
  <2>3. ASSUME NEW i \in 1 .. 2 PROVE (t \o k)[i + 4] = k[i]
    <3>1. i \in 1 .. Len(k) /\ t \in Seq(Writes) /\ k \in Seq(Writes)
      BY <1>1, <1>2
    <3>2. (t \o k)[i + Len(t)] = k[i]
      BY <3>1, InSecond
    <3> QED
      BY <1>1, <3>2
  <2> QED
    BY <1>1, <1>2, <2>1, <2>2, <2>3
<1>7. /\ t \o k \o d \in Seq(Writes) /\ Len(t \o k \o d) = 8
      /\ \A i \in 1 .. 6 : (t \o k \o d)[i] = (t \o k)[i]
      /\ \A i \in 1 .. 2 : (t \o k \o d)[i + 6] = d[i]
  <2>1. t \o k \o d \in Seq(Writes) /\ Len(t \o k \o d) = Len(t \o k) + Len(d)
    BY <1>3, <1>6, Concatenated
  <2>2. ASSUME NEW i \in 1 .. 6 PROVE (t \o k \o d)[i] = (t \o k)[i]
    <3>1. i \in 1 .. Len(t \o k)
      BY <1>6
    <3> QED
      BY <1>3, <1>6, <3>1, InFirst
  <2>3. ASSUME NEW i \in 1 .. 2 PROVE (t \o k \o d)[i + 6] = d[i]
    <3>1. i \in 1 .. Len(d) /\ t \o k \in Seq(Writes) /\ d \in Seq(Writes)
      BY <1>3, <1>6
    <3>2. (t \o k \o d)[i + Len(t \o k)] = d[i]
      BY <3>1, InSecond
    <3> QED
      BY <1>6, <3>2
  <2>4. Len(t \o k \o d) = 8
    BY <1>3, <1>6, <2>1
  <2> QED
    BY <2>1, <2>2, <2>3, <2>4
<1>8. ASSUME NEW i \in 1 .. 4 PROVE storeWrites(n, c)[i] = Write(Tag(i), AllOKTag[i])
  <2>1. i \in 1 .. 6
    OBVIOUS
  <2>2. (t \o k \o d)[i] = (t \o k)[i]
    BY <1>7, <2>1
  <2>3. (t \o k)[i] = t[i]
    BY <1>6
  <2> QED
    BY <1>1, <1>4, <2>2, <2>3
<1>9. ASSUME NEW i \in 1 .. 2
      PROVE  storeWrites(n, c)[i + 4].cell = Count(i) /\ storeWrites(n, c)[i + 4].mints = NoID
  <2>1. i + 4 \in 1 .. 6
    OBVIOUS
  <2>2. (t \o k \o d)[i + 4] = (t \o k)[i + 4]
    BY <1>7, <2>1
  <2>3. (t \o k)[i + 4] = k[i]
    BY <1>6
  <2>4. k[i].cell = Count(i) /\ k[i].mints = NoID
    BY <1>5
  <2> QED
    BY <1>4, <2>2, <2>3, <2>4
<1>10. \A i \in 1 .. 2 : storeWrites(n, c)[i + 6] = Write(Nid(i), n[i])
  BY <1>3, <1>4, <1>7
<1>11. ASSUME NEW i \in 1 .. 8 PROVE storeWrites(n, c)[i].mints = NoID
  <2>1. CASE i \in 1 .. 4
    BY <1>8, <2>1 DEF Write
  <2>2. CASE i \in 5 .. 6
    <3>1. i - 4 \in 1 .. 2 /\ (i - 4) + 4 = i
      BY <2>2
    <3> QED
      BY <1>9, <3>1
  <2>3. CASE i \in 7 .. 8
    <3>1. i - 6 \in 1 .. 2 /\ (i - 6) + 6 = i
      BY <2>3
    <3> QED
      BY <1>10, <3>1 DEF Write
  <2> QED
    BY <2>1, <2>2, <2>3
<1> QED
  BY <1>4, <1>7, <1>8, <1>9, <1>10, <1>11

LEMMA NewEventIDIs ==
  ASSUME NEW n \in NodeID, NEW c \in Nat
  PROVE  /\ NewEventID(n, c) \in EventID
         /\ \A i \in 1 .. 4 : NewEventID(n, c)[i] \in Values
<1>1. c % (Base * Base) \in 0 .. Base * Base - 1
  BY Width, Modulo
<1>2. (c % (Base * Base)) \div Base \in Byte /\ c % Base \in Byte
  BY <1>1, Width, HighDigit, Modulo DEF Byte
<1>3. n[1] \in Part /\ n[2] \in Part
  BY DEF NodeID
<1> QED
  BY <1>2, <1>3 DEF NewEventID, EventID, Values

\* The writes of reset(), one by one.
LEMMA ResetIs ==
  ASSUME NEW n \in NodeID, NEW c \in 0 .. Base * Base - 1
  PROVE  /\ reset(n, c) \in Seq(Writes)
         /\ Len(reset(n, c)) = 8 + 4 * NumEvents
         /\ \A i \in 1 .. 8 : reset(n, c)[i] = storeWrites(n, c)[i]
         /\ \A k \in 1 .. 4 * NumEvents :
              /\ reset(n, c)[k + 8].cell = Slot(EventOf(k), PlaceOf(k))
              /\ reset(n, c)[k + 8].value = NewEventID(n, c + EventOf(k))[PlaceOf(k)]
              /\ reset(n, c)[k + 8].mints =
                   IF PlaceOf(k) = 4 THEN NewEventID(n, c + EventOf(k)) ELSE NoID
<1> DEFINE r == [k \in 1 .. 4 * NumEvents |->
                   setToNewEventID(n, EventOf(k), c + EventOf(k) - 1)[PlaceOf(k)]]
<1>1. NumEvents \in Nat /\ 4 * NumEvents \in Nat
  BY NodeMemoryAssumption
<1>2. ASSUME NEW k \in 1 .. 4 * NumEvents
      PROVE  /\ r[k] \in Writes
             /\ r[k].cell = Slot(EventOf(k), PlaceOf(k))
             /\ r[k].value = NewEventID(n, c + EventOf(k))[PlaceOf(k)]
             /\ r[k].mints = IF PlaceOf(k) = 4 THEN NewEventID(n, c + EventOf(k)) ELSE NoID
  <2> DEFINE e == EventOf(k)
             i == PlaceOf(k)
             id == NewEventID(n, c + e)
  <2>1. e \in Event /\ e \in Nat /\ i \in 1 .. 4
    BY <1>1 DEF EventOf, PlaceOf, Event
  <2> HIDE DEF e, i
  <2>2. c \in Nat /\ c + e \in Nat /\ c + e - 1 + 1 = c + e
    BY <2>1, Width
  <2>3. id \in EventID /\ \A j \in 1 .. 4 : id[j] \in Values
    BY <2>2, NewEventIDIs
  <2>4. setToNewEventID(n, e, c + e - 1) = [EventWrites(e, id) EXCEPT ![4].mints = id]
    BY <2>2 DEF setToNewEventID
  <2>5. EventWrites(e, id) = [j \in 1 .. 4 |-> [cell |-> Slot(e, j), value |-> id[j], mints |-> NoID]]
    BY DEF EventWrites, Write
  <2> HIDE DEF id
  <2>6. setToNewEventID(n, e, c + e - 1)[i] =
          [cell |-> Slot(e, i), value |-> id[i], mints |-> IF i = 4 THEN id ELSE NoID]
    BY <2>1, <2>4, <2>5
  <2>7. r[k] = [cell |-> Slot(e, i), value |-> id[i], mints |-> IF i = 4 THEN id ELSE NoID]
    BY <2>6 DEF e, i
  <2>8. r[k] \in Writes
    <3> DEFINE w == [cell |-> Slot(e, i), value |-> id[i],
                     mints |-> IF i = 4 THEN id ELSE NoID]
    <3>1. (IF i = 4 THEN id ELSE NoID) \in EventID \cup {NoID} /\ id[i] \in Values
      BY <2>1, <2>3
    <3>2. w \in Writes
      BY <2>1, <3>1, SlotWrite
    <3> QED
      BY <2>7, <3>2
  <2> QED
    BY <2>7, <2>8 DEF e, i, id
<1>3. r \in Seq(Writes) /\ Len(r) = 4 * NumEvents
  BY <1>1, <1>2
<1>4. reset(n, c) = storeWrites(n, c) \o r
  BY DEF reset
<1> HIDE DEF r
<1>5. storeWrites(n, c) \in Seq(Writes) /\ Len(storeWrites(n, c)) = 8
  BY StoreIs
<1>6. /\ reset(n, c) \in Seq(Writes)
      /\ Len(reset(n, c)) = 8 + 4 * NumEvents
      /\ \A i \in 1 .. 8 : reset(n, c)[i] = storeWrites(n, c)[i]
      /\ \A k \in 1 .. 4 * NumEvents : reset(n, c)[k + 8] = r[k]
  <2>1. /\ storeWrites(n, c) \o r \in Seq(Writes)
        /\ Len(storeWrites(n, c) \o r) = Len(storeWrites(n, c)) + Len(r)
    BY <1>3, <1>5, Concatenated
  <2>2. ASSUME NEW i \in 1 .. 8 PROVE (storeWrites(n, c) \o r)[i] = storeWrites(n, c)[i]
    <3>1. i \in 1 .. Len(storeWrites(n, c))
      BY <1>5
    <3> QED
      BY <1>3, <1>5, <3>1, InFirst
  <2>3. ASSUME NEW k \in 1 .. 4 * NumEvents
        PROVE  (storeWrites(n, c) \o r)[k + 8] = r[k]
    <3>1. k \in 1 .. Len(r)
      BY <1>3
    <3>2. r \in Seq(Writes) /\ storeWrites(n, c) \in Seq(Writes)
      BY <1>3, <1>5
    <3>3. (storeWrites(n, c) \o r)[k + Len(storeWrites(n, c))] = r[k]
      BY <3>1, <3>2, InSecond
    <3> QED
      BY <1>5, <3>3
  <2> QED
    BY <1>1, <1>3, <1>4, <1>5, <2>1, <2>2, <2>3
<1> QED
  BY <1>2, <1>6

LEMMA EventWritesIs ==
  ASSUME NEW e \in Event, NEW id \in Foreign
  PROVE  /\ EventWrites(e, id) \in Seq(Writes)
         /\ Len(EventWrites(e, id)) = 4
         /\ \A i \in 1 .. 4 : EventWrites(e, id)[i] = Write(Slot(e, i), id[i])
<1>1. ASSUME NEW i \in 1 .. 4 PROVE Write(Slot(e, i), id[i]) \in Writes
  <2>1. id[i] \in Values
    BY DEF Values
  <2>2. Write(Slot(e, i), id[i]) = [cell |-> Slot(e, i), value |-> id[i], mints |-> NoID]
    BY DEF Write
  <2> QED
    BY <2>1, <2>2, SlotWrite
<1> QED
  BY <1>1 DEF EventWrites

LEMMA FactoryWritesIs ==
  << Write(Tag(3), "33"), Write(Tag(4), "CC") >> \in Seq(Writes)
<1>1. "33" \in TagByte /\ "CC" \in TagByte
  <2>1. NidOKTag[3] = "33" /\ NidOKTag[4] = "CC" /\ 3 \in DOMAIN NidOKTag /\ 4 \in DOMAIN NidOKTag
    BY DEF NidOKTag
  <2> QED
    BY <2>1 DEF TagByte, ToSet
<1>2. Write(Tag(3), "33") \in Writes /\ Write(Tag(4), "CC") \in Writes
  BY <1>1, TagWrite
<1> QED
  BY <1>2

-----------------------------------------------------------------------------
(* Types                                                                   *)

LEMMA NodeIDs == Own \in NodeID /\ Default \in NodeID
<1>1. Own = <<Own[1], Own[2]>> /\ Default = <<Default[1], Default[2]>>
  BY NodeMemoryAssumption
<1>2. {Own[1], Own[2], Default[1], Default[2]} \subseteq Part
  BY DEF Part
<1> QED
  BY <1>1, <1>2 DEF NodeID

TypeInv == TypeOK /\ todo \in Seq(Writes)

LEMMA Stored ==
  ASSUME TypeInv
  PROVE  StoredNid \in NodeID /\ StoredCount \in 0 .. Base * Base - 1
<1>1. eeprom[Nid(1)] \in Part /\ eeprom[Nid(2)] \in Part
  BY DEF TypeInv, TypeOK
<1>2. eeprom[Count(1)] \in 0 .. Base - 1 /\ eeprom[Count(2)] \in 0 .. Base - 1
  BY DEF TypeInv, TypeOK, Byte
<1>3. StoredNid \in NodeID
  BY <1>1 DEF StoredNid, NodeID
<1>4. StoredCount \in 0 .. Base * Base - 1
  BY <1>2, Width, TwoDigits DEF StoredCount
<1> QED
  BY <1>3, <1>4

LEMMA ResetCountIs ==
  ASSUME NEW c \in 0 .. Base * Base - 1
  PROVE  resetCount(c) \in 0 .. Base * Base - 1
<1>1. c + NumEvents \in Nat
  BY NodeMemoryAssumption
<1> QED
  BY <1>1, Width, Modulo DEF resetCount

\* The starting values of the cells.
LEMMA StartCells ==
  ASSUME NEW mem \in {[c \in Cell |-> ErasedCell(c)], [c \in Cell |-> PreparedCell(c)]}
  PROVE  /\ DOMAIN mem = Cell
         /\ \A i \in 1 .. 4 : mem[Tag(i)] \in TagByte
         /\ \A i \in 1 .. 2 : mem[Count(i)] \in Byte /\ mem[Nid(i)] \in Part
<1>1. \A i \in 1 .. 4 : Tag(i) \in Cell
  BY DEF Cell
<1>2. \A i \in 1 .. 2 : Count(i) \in Cell /\ Nid(i) \in Cell
  BY DEF Cell
<1>3. ASSUME NEW i \in 1 .. 4
      PROVE  ErasedCell(Tag(i)) \in TagByte /\ PreparedCell(Tag(i)) \in TagByte
  <2>1. ErasedCell(Tag(i)) = "FF" /\ PreparedCell(Tag(i)) = NidOKTag[i]
    BY DEF ErasedCell, PreparedCell, Tag
  <2>2. NidOKTag[i] \in TagByte /\ "FF" \in TagByte
    BY DEF TagByte, ToSet, NidOKTag
  <2> QED
    BY <2>1, <2>2
<1>4. ASSUME NEW i \in 1 .. 2
      PROVE  /\ ErasedCell(Count(i)) \in Byte /\ PreparedCell(Count(i)) \in Byte
             /\ ErasedCell(Nid(i)) \in Part /\ PreparedCell(Nid(i)) \in Part
  <2>1. ErasedCell(Count(i)) = Base - 1 /\ PreparedCell(Count(i)) = 0
    BY DEF ErasedCell, PreparedCell, Count
  <2>2. ErasedCell(Nid(i)) = Erased /\ PreparedCell(Nid(i)) = Own[i]
    BY DEF ErasedCell, PreparedCell, Nid
  <2>3. Base - 1 \in Byte /\ 0 \in Byte /\ Erased \in Part /\ Own[i] \in Part
    BY Width DEF Byte, Part
  <2> QED
    BY <2>1, <2>2, <2>3
<1> QED
  BY <1>1, <1>2, <1>3, <1>4

LEMMA TypeInit == Init => TypeInv
<1> SUFFICES ASSUME Init PROVE TypeInv
  OBVIOUS
<1>1. /\ DOMAIN eeprom = Cell
      /\ \A i \in 1 .. 4 : eeprom[Tag(i)] \in TagByte
      /\ \A i \in 1 .. 2 : eeprom[Count(i)] \in Byte /\ eeprom[Nid(i)] \in Part
  BY StartCells DEF Init
<1>2. count \in 0 .. Base * Base - 1 /\ nid \in NodeID
  BY Width, NodeIDs DEF Init
<1>3. todo \in Seq(Writes) /\ \A i \in DOMAIN todo : todo[i].cell \in Cell
  BY DEF Init
<1> QED
  BY <1>1, <1>2, <1>3 DEF Init, TypeInv, TypeOK

LEMMA QueueTyped ==
  ASSUME NEW q \in Seq(Writes)
  PROVE  \A i \in DOMAIN q : q[i].cell \in Cell
BY DEF Writes

LEMMA TypeStep ==
  ASSUME TypeInv, [Next]_vars
  PROVE  TypeInv'
<1> SUFFICES /\ todo' \in Seq(Writes)
             /\ DOMAIN eeprom' = Cell
             /\ \A i \in 1 .. 4 : eeprom'[Tag(i)] \in TagByte
             /\ \A i \in 1 .. 2 : eeprom'[Count(i)] \in Byte /\ eeprom'[Nid(i)] \in Part
             /\ phase' \in {"off", "setup", "run", "restart"}
             /\ count' \in 0 .. Base * Base - 1
             /\ nid' \in NodeID
             /\ issued' \subseteq ever'
             /\ ever' \subseteq EventID
  BY QueueTyped DEF TypeInv, TypeOK
<1> USE DEF TypeInv, TypeOK
<1>1. 0 \in 0 .. Base * Base - 1
  BY Width
<1>2. CASE SetupEvents
  <2>1. todo' \in Seq(Writes)
    BY <1>2, Stored, ResetIs DEF SetupEvents
  <2>2. count' \in 0 .. Base * Base - 1 /\ nid' \in NodeID
    BY <1>2, Stored, ResetCountIs DEF SetupEvents
  <2> QED
    BY <1>2, <2>1, <2>2 DEF SetupEvents
<1>3. CASE SetupAll
  <2>1. todo' \in Seq(Writes)
    BY <1>1, <1>3, NodeIDs, ResetIs DEF SetupAll
  <2>2. count' \in 0 .. Base * Base - 1 /\ nid' \in NodeID
    BY <1>1, <1>3, NodeIDs, ResetCountIs DEF SetupAll
  <2> QED
    BY <1>3, <2>1, <2>2 DEF SetupAll
<1>4. CASE SetupAsIs
  BY <1>1, <1>4, NodeIDs DEF SetupAsIs
<1>5. CASE WriteNext
  <2>1. Head(todo) \in Writes /\ Tail(todo) \in Seq(Writes)
    BY <1>5 DEF WriteNext
  <2> DEFINE w == Head(todo)
  <2>2. w.cell \in Cell /\ w.mints \in EventID \cup {NoID}
    BY <2>1 DEF Writes
  <2>3. /\ \A i \in 1 .. 4 : w.cell = Tag(i) => w.value \in TagByte
        /\ \A i \in 1 .. 2 : w.cell = Count(i) => w.value \in Byte
        /\ \A i \in 1 .. 2 : w.cell = Nid(i) => w.value \in Part
    BY <2>1 DEF Writes
  <2>4. /\ eeprom' = [eeprom EXCEPT ![w.cell] = w.value]
        /\ todo' = Tail(todo)
        /\ issued' = issued \cup ({w.mints} \ {NoID})
        /\ ever' = ever \cup ({w.mints} \ {NoID})
        /\ UNCHANGED <<phase, count, nid>>
    BY <1>5 DEF WriteNext
  <2> HIDE DEF w
  <2>5. \A i \in 1 .. 4 : Tag(i) \in Cell
    BY DEF Cell
  <2>6. \A i \in 1 .. 2 : Count(i) \in Cell /\ Nid(i) \in Cell
    BY DEF Cell
  <2>7. /\ DOMAIN eeprom' = Cell
        /\ \A i \in 1 .. 4 : eeprom'[Tag(i)] \in TagByte
        /\ \A i \in 1 .. 2 : eeprom'[Count(i)] \in Byte /\ eeprom'[Nid(i)] \in Part
    BY <2>3, <2>4, <2>5, <2>6
  <2>8. issued' \subseteq ever' /\ ever' \subseteq EventID
    BY <2>2, <2>4
  <2> QED
    BY <2>1, <2>4, <2>7, <2>8
<1>6. CASE SetupDone
  BY <1>6, Stored DEF SetupDone
<1>7. CASE CallReset
  <2>1. todo' \in Seq(Writes) /\ count' \in 0 .. Base * Base - 1
    BY <1>7, ResetIs, ResetCountIs DEF CallReset
  <2> QED
    BY <1>7, <2>1 DEF CallReset
<1>8. CASE CallStore
  <2>1. todo' \in Seq(Writes)
    BY <1>8, StoreIs DEF CallStore
  <2> QED
    BY <1>8, <2>1 DEF CallStore
<1>9. ASSUME NEW e \in Event, NEW id \in Foreign, writeEID(e, id)
       PROVE  TypeInv'
  <2>1. todo' \in Seq(Writes)
    BY <1>9, EventWritesIs DEF writeEID
  <2> QED
    BY <1>9, <2>1, QueueTyped DEF writeEID
<1>10. CASE factoryReset
  <2>1. todo' \in Seq(Writes)
    BY <1>10, FactoryWritesIs DEF factoryReset
  <2> QED
    BY <1>10, <2>1 DEF factoryReset
<1>11. CASE Forget
  BY <1>1, <1>11, NodeIDs DEF Forget
<1>12. CASE UNCHANGED vars
  BY <1>12 DEF vars
<1> QED
  BY <1>2, <1>3, <1>4, <1>5, <1>6, <1>7, <1>8, <1>9, <1>10, <1>11, <1>12
     DEF Next, Restart, PowerFail

\* Every variable keeps its type, whenever the power fails.
THEOREM TypeCorrect == Spec => []TypeOK
<1>1. TypeInv => TypeOK
  BY DEF TypeInv
<1> QED
  BY <1>1, TypeInit, TypeStep, PTL DEF Spec

-----------------------------------------------------------------------------
(* Where a call leads                                                      *)

\* Cell c will have value v when the call is over: all the call still has to
\* write there is v, and if nothing, v is there.
Reaches(c, v) ==
  /\ \A j \in DOMAIN todo : todo[j].cell = c => todo[j].value = v
  /\ eeprom[c] = v \/ \E j \in DOMAIN todo : todo[j].cell = c

LEMMA QuietReaches ==
  ASSUME NEW c, NEW v, todo = <<>>
  PROVE  Reaches(c, v) <=> eeprom[c] = v
BY DEF Reaches

LEMMA QuietReachesNext ==
  ASSUME NEW c, NEW v, todo' = <<>>
  PROVE  Reaches(c, v)' <=> eeprom'[c] = v
BY DEF Reaches

LEMMA WriteReaches ==
  ASSUME TypeInv, WriteNext, NEW c \in Cell, NEW v, Reaches(c, v)
  PROVE  Reaches(c, v)' /\ eeprom'[c] \in {eeprom[c], v}
<1> DEFINE w == Head(todo)
<1>1. todo \in Seq(Writes) /\ todo # <<>> /\ DOMAIN eeprom = Cell
  BY DEF TypeInv, TypeOK, WriteNext
<1>2. /\ w = todo[1] /\ 1 \in DOMAIN todo
      /\ DOMAIN Tail(todo) = 1 .. Len(todo) - 1
      /\ DOMAIN todo = 1 .. Len(todo)
      /\ Len(todo) \in Nat
      /\ \A j \in 1 .. Len(todo) - 1 : Tail(todo)[j] = todo[j + 1]
  BY <1>1
<1>3. todo' = Tail(todo) /\ eeprom' = [eeprom EXCEPT ![w.cell] = w.value]
  BY DEF WriteNext
<1> HIDE DEF w
<1>4. ASSUME NEW j \in DOMAIN Tail(todo), Tail(todo)[j].cell = c
      PROVE  Tail(todo)[j].value = v
  <2>1. j + 1 \in DOMAIN todo /\ Tail(todo)[j] = todo[j + 1]
    BY <1>2
  <2> QED
    BY <1>4, <2>1 DEF Reaches
<1>5. CASE w.cell = c
  <2>1. w.value = v
    BY <1>2, <1>5 DEF Reaches
  <2>2. eeprom'[c] = v
    BY <1>1, <1>3, <1>5, <2>1
  <2> QED
    BY <1>3, <1>4, <2>2 DEF Reaches
<1>6. CASE w.cell # c
  <2>1. eeprom'[c] = eeprom[c]
    BY <1>1, <1>3, <1>6
  <2>2. ASSUME NEW j \in DOMAIN todo, todo[j].cell = c
        PROVE  \E k \in DOMAIN Tail(todo) : Tail(todo)[k].cell = c
    <3>1. j # 1
      BY <1>2, <1>6, <2>2
    <3>2. j - 1 \in DOMAIN Tail(todo) /\ Tail(todo)[j - 1] = todo[j]
      BY <1>2, <3>1
    <3> QED
      BY <2>2, <3>2
  <2> QED
    BY <1>3, <1>4, <2>1, <2>2 DEF Reaches
<1> QED
  BY <1>5, <1>6

\* What each of the writes of store() is about.
LEMMA StoreCells ==
  ASSUME NEW n \in NodeID, NEW c \in 0 .. Base * Base - 1, NEW j \in 1 .. 8
  PROVE  \/ \E i \in 1 .. 4 : i = j /\ storeWrites(n, c)[j] = Write(Tag(i), AllOKTag[i])
         \/ \E i \in 1 .. 2 : storeWrites(n, c)[j].cell = Count(i)
         \/ \E i \in 1 .. 2 : i + 6 = j /\ storeWrites(n, c)[j] = Write(Nid(i), n[i])
<1>1. CASE j \in 1 .. 4
  BY <1>1, StoreIs
<1>2. CASE j \in 5 .. 6
  <2>1. j - 4 \in 1 .. 2 /\ (j - 4) + 4 = j
    BY <1>2
  <2>2. storeWrites(n, c)[(j - 4) + 4].cell = Count(j - 4)
    BY <2>1, StoreIs
  <2> QED
    BY <2>1, <2>2
<1>3. CASE j \in 7 .. 8
  <2>1. j - 6 \in 1 .. 2 /\ (j - 6) + 6 = j
    BY <1>3
  <2>2. storeWrites(n, c)[(j - 6) + 6] = Write(Nid(j - 6), n[j - 6])
    BY <2>1, StoreIs
  <2> QED
    BY <2>1, <2>2
<1> QED
  BY <1>1, <1>2, <1>3

LEMMA StoreValues ==
  ASSUME NEW n \in NodeID, NEW c \in 0 .. Base * Base - 1, NEW j \in 1 .. 8
  PROVE  /\ \A i \in 1 .. 4 : storeWrites(n, c)[j].cell = Tag(i)
                                => storeWrites(n, c)[j].value = AllOKTag[i]
         /\ \A i \in 1 .. 2 : storeWrites(n, c)[j].cell = Nid(i)
                                => storeWrites(n, c)[j].value = n[i]
         /\ \A e \in Event, i \in 1 .. 4 : storeWrites(n, c)[j].cell # Slot(e, i)
<1> DEFINE w == storeWrites(n, c)[j]
<1>0. Event \subseteq Nat
  BY NodeMemoryAssumption DEF Event
<1>1. ASSUME NEW k \in 1 .. 4, w = Write(Tag(k), AllOKTag[k])
      PROVE  /\ \A i \in 1 .. 4 : w.cell = Tag(i) => w.value = AllOKTag[i]
             /\ \A i \in 1 .. 2 : w.cell # Nid(i)
             /\ \A e \in Event, i \in 1 .. 4 : w.cell # Slot(e, i)
  <2>1. w.cell = Tag(k) /\ w.value = AllOKTag[k]
    BY <1>1 DEF Write
  <2> HIDE DEF w
  <2> QED
    BY <1>0, <2>1, CellsDiffer
<1>2. ASSUME NEW k \in 1 .. 2, w.cell = Count(k)
      PROVE  /\ \A i \in 1 .. 4 : w.cell # Tag(i)
             /\ \A i \in 1 .. 2 : w.cell # Nid(i)
             /\ \A e \in Event, i \in 1 .. 4 : w.cell # Slot(e, i)
  <2> HIDE DEF w
  <2> QED
    BY <1>0, <1>2, CellsDiffer
<1>3. ASSUME NEW k \in 1 .. 2, w = Write(Nid(k), n[k])
      PROVE  /\ \A i \in 1 .. 4 : w.cell # Tag(i)
             /\ \A i \in 1 .. 2 : w.cell = Nid(i) => w.value = n[i]
             /\ \A e \in Event, i \in 1 .. 4 : w.cell # Slot(e, i)
  <2>1. w.cell = Nid(k) /\ w.value = n[k]
    BY <1>3 DEF Write
  <2> HIDE DEF w
  <2> QED
    BY <1>0, <2>1, CellsDiffer
<1>4. \/ \E i \in 1 .. 4 : w = Write(Tag(i), AllOKTag[i])
      \/ \E i \in 1 .. 2 : w.cell = Count(i)
      \/ \E i \in 1 .. 2 : w = Write(Nid(i), n[i])
  BY StoreCells
<1> HIDE DEF w
<1>5. /\ \A i \in 1 .. 4 : w.cell = Tag(i) => w.value = AllOKTag[i]
      /\ \A i \in 1 .. 2 : w.cell = Nid(i) => w.value = n[i]
      /\ \A e \in Event, i \in 1 .. 4 : w.cell # Slot(e, i)
  BY <1>1, <1>2, <1>3, <1>4
<1> QED
  BY <1>5 DEF w

\* store() makes all of memory valid, and leaves the EventIDs alone.
LEMMA StoreReaches ==
  ASSUME TypeInv, NEW n \in NodeID, NEW c \in 0 .. Base * Base - 1,
         todo' = storeWrites(n, c), UNCHANGED eeprom
  PROVE  /\ \A i \in 1 .. 4 : Reaches(Tag(i), AllOKTag[i])'
         /\ \A i \in 1 .. 2 : Reaches(Nid(i), n[i])'
         /\ \A e \in Event, i \in 1 .. 4 : \A v :
              eeprom[Slot(e, i)] = v => Reaches(Slot(e, i), v)'
<1> DEFINE q == storeWrites(n, c)
<1>1. q \in Seq(Writes) /\ Len(q) = 8
  BY StoreIs
<1>2. DOMAIN q = 1 .. 8
  BY <1>1
<1>3. \A j \in 1 .. 8 :
        /\ \A i \in 1 .. 4 : q[j].cell = Tag(i) => q[j].value = AllOKTag[i]
        /\ \A i \in 1 .. 2 : q[j].cell = Nid(i) => q[j].value = n[i]
        /\ \A e \in Event, i \in 1 .. 4 : q[j].cell # Slot(e, i)
  BY StoreValues
<1>4. ASSUME NEW i \in 1 .. 4 PROVE q[i].cell = Tag(i)
  <2>1. q[i] = Write(Tag(i), AllOKTag[i])
    BY StoreIs
  <2> QED
    BY <2>1 DEF Write
<1>5. ASSUME NEW i \in 1 .. 2 PROVE q[i + 6].cell = Nid(i)
  <2>1. q[i + 6] = Write(Nid(i), n[i])
    BY StoreIs
  <2> QED
    BY <2>1 DEF Write
<1> HIDE DEF q
<1>6. todo' = q
  BY DEF q
<1>7. ASSUME NEW i \in 1 .. 4 PROVE Reaches(Tag(i), AllOKTag[i])'
  <2>1. i \in 1 .. 8
    OBVIOUS
  <2> QED
    BY <1>2, <1>3, <1>4, <1>6, <2>1 DEF Reaches
<1>8. ASSUME NEW i \in 1 .. 2 PROVE Reaches(Nid(i), n[i])'
  <2>1. i + 6 \in 1 .. 8
    OBVIOUS
  <2> QED
    BY <1>2, <1>3, <1>5, <1>6, <2>1 DEF Reaches
<1>9. ASSUME NEW e \in Event, NEW i \in 1 .. 4, NEW v, eeprom[Slot(e, i)] = v
      PROVE  Reaches(Slot(e, i), v)'
  BY <1>2, <1>3, <1>6, <1>9 DEF Reaches
<1> QED
  BY <1>7, <1>8, <1>9

\* reset() makes all of memory valid, with new EventIDs.
LEMMA ResetReaches ==
  ASSUME TypeInv, NEW n \in NodeID, NEW c \in 0 .. Base * Base - 1,
         todo' = reset(n, c)
  PROVE  /\ \A i \in 1 .. 4 : Reaches(Tag(i), AllOKTag[i])'
         /\ \A i \in 1 .. 2 : Reaches(Nid(i), n[i])'
         /\ \A e \in Event, i \in 1 .. 4 : Reaches(Slot(e, i), NewEventID(n, c + e)[i])'
<1> DEFINE q == reset(n, c)
           s == storeWrites(n, c)
<1>0. NumEvents \in Nat /\ Event \subseteq Nat
  BY NodeMemoryAssumption DEF Event
<1>1. q \in Seq(Writes) /\ Len(q) = 8 + 4 * NumEvents
  BY ResetIs
<1>2. DOMAIN q = 1 .. 8 + 4 * NumEvents
  BY <1>1
<1>3. \A j \in 1 .. 8 : q[j] = s[j]
  BY ResetIs
<1>4. \A j \in 1 .. 8 :
        /\ \A i \in 1 .. 4 : s[j].cell = Tag(i) => s[j].value = AllOKTag[i]
        /\ \A i \in 1 .. 2 : s[j].cell = Nid(i) => s[j].value = n[i]
        /\ \A e \in Event, i \in 1 .. 4 : s[j].cell # Slot(e, i)
  BY StoreValues
<1>5. ASSUME NEW i \in 1 .. 4 PROVE s[i].cell = Tag(i)
  <2>1. s[i] = Write(Tag(i), AllOKTag[i])
    BY StoreIs
  <2> QED
    BY <2>1 DEF Write
<1>6. ASSUME NEW i \in 1 .. 2 PROVE s[i + 6].cell = Nid(i)
  <2>1. s[i + 6] = Write(Nid(i), n[i])
    BY StoreIs
  <2> QED
    BY <2>1 DEF Write
<1>7. \A k \in 1 .. 4 * NumEvents :
        /\ q[k + 8].cell = Slot(EventOf(k), PlaceOf(k))
        /\ q[k + 8].value = NewEventID(n, c + EventOf(k))[PlaceOf(k)]
  BY ResetIs
<1>8. todo' = q
  OBVIOUS
<1> HIDE DEF q, s
<1>9. ASSUME NEW j \in DOMAIN q, j \notin 1 .. 8
      PROVE  \E e \in Event, i \in 1 .. 4 :
               q[j].cell = Slot(e, i) /\ q[j].value = NewEventID(n, c + e)[i]
  <2> DEFINE k == j - 8
  <2>1. k \in 1 .. 4 * NumEvents /\ k + 8 = j
    BY <1>0, <1>2, <1>9
  <2>2. EventOf(k) \in Event /\ PlaceOf(k) \in 1 .. 4
    BY <1>0, <2>1 DEF EventOf, PlaceOf, Event
  <2> HIDE DEF k
  <2> QED
    BY <1>7, <2>1, <2>2
<1>10. ASSUME NEW j \in DOMAIN q
       PROVE  /\ \A i \in 1 .. 4 : q[j].cell = Tag(i) => q[j].value = AllOKTag[i]
              /\ \A i \in 1 .. 2 : q[j].cell = Nid(i) => q[j].value = n[i]
              /\ \A e \in Event, i \in 1 .. 4 :
                   q[j].cell = Slot(e, i) => q[j].value = NewEventID(n, c + e)[i]
  <2>1. CASE j \in 1 .. 8
    BY <1>3, <1>4, <2>1
  <2>2. CASE j \notin 1 .. 8
    <3>1. PICK e \in Event, i \in 1 .. 4 :
            q[j].cell = Slot(e, i) /\ q[j].value = NewEventID(n, c + e)[i]
      BY <1>9, <2>2
    <3>2. /\ \A k \in 1 .. 4 : Slot(e, i) # Tag(k)
          /\ \A k \in 1 .. 2 : Slot(e, i) # Nid(k)
      BY <1>0, CellsDiffer
    <3>3. \A f \in Event, k \in 1 .. 4 : Slot(e, i) = Slot(f, k) => e = f /\ i = k
      BY <1>0, CellsDiffer
    <3> QED
      BY <3>1, <3>2, <3>3
  <2> QED
    BY <2>1, <2>2
<1>11. ASSUME NEW i \in 1 .. 4 PROVE Reaches(Tag(i), AllOKTag[i])'
  <2>1. i \in 1 .. 8 /\ i \in DOMAIN q
    BY <1>0, <1>2
  <2>2. q[i].cell = Tag(i)
    BY <1>3, <1>5, <2>1
  <2> QED
    BY <1>8, <1>10, <2>1, <2>2 DEF Reaches
<1>12. ASSUME NEW i \in 1 .. 2 PROVE Reaches(Nid(i), n[i])'
  <2>1. i + 6 \in 1 .. 8 /\ i + 6 \in DOMAIN q
    BY <1>0, <1>2
  <2>2. q[i + 6].cell = Nid(i)
    BY <1>3, <1>6, <2>1
  <2> QED
    BY <1>8, <1>10, <2>1, <2>2 DEF Reaches
<1>13. ASSUME NEW e \in Event, NEW i \in 1 .. 4
       PROVE  Reaches(Slot(e, i), NewEventID(n, c + e)[i])'
  <2> DEFINE k == 4 * (e - 1) + i
  <2>1. k \in 1 .. 4 * NumEvents /\ EventOf(k) = e /\ PlaceOf(k) = i
    BY <1>0 DEF EventOf, PlaceOf, Event
  <2> HIDE DEF k
  <2>2. k + 8 \in DOMAIN q
    BY <1>0, <1>2, <2>1
  <2>3. q[k + 8].cell = Slot(e, i)
    BY <1>7, <2>1
  <2> QED
    BY <1>8, <1>10, <2>2, <2>3 DEF Reaches
<1> QED
  BY <1>11, <1>12, <1>13

\* The EventIDs of one reset differ, as long as there are fewer events than
\* counts.
LEMMA NewEventIDsDiffer ==
  ASSUME NEW n \in NodeID, NEW c \in Nat, NEW e \in Event, NEW f \in Event, e # f
  PROVE  NewEventID(n, c + e) # NewEventID(n, c + f)
<1> DEFINE m == Base * Base
<1>1. m \in Nat \ {0} /\ NumEvents < m /\ NumEvents \in Nat /\ Base \in Nat \ {0}
  BY Width, NodeMemoryAssumption
<1> HIDE DEF m
<1>2. (c + e) % m # (c + f) % m
  <2>1. e \in Nat /\ f \in Nat /\ c + e \in Nat /\ c + f \in Nat
    BY <1>1 DEF Event
  <2>2. CASE e < f
    <3>1. c + e < c + f /\ (c + f) - (c + e) < m
      BY <1>1, <2>1, <2>2 DEF Event
    <3> QED
      BY <1>1, <2>1, <3>1, CountsDiffer
  <2>3. CASE f < e
    <3>1. c + f < c + e /\ (c + e) - (c + f) < m
      BY <1>1, <2>1, <2>3 DEF Event
    <3> QED
      BY <1>1, <2>1, <3>1, CountsDiffer
  <2> QED
    BY <2>1, <2>2, <2>3
<1> SUFFICES ASSUME NewEventID(n, c + e) = NewEventID(n, c + f) PROVE FALSE
  OBVIOUS
<1>3. c + e \in Nat /\ c + f \in Nat
  BY <1>1 DEF Event
<1>4. /\ ((c + e) % m) \div Base = ((c + f) % m) \div Base
      /\ (c + e) % Base = (c + f) % Base
  BY DEF NewEventID, m
<1>5. ((c + e) % m) % Base = ((c + f) % m) % Base
  <2>1. ((c + e) % m) % Base = (c + e) % Base
    BY <1>1, <1>3, LowDigit DEF m
  <2>2. ((c + f) % m) % Base = (c + f) % Base
    BY <1>1, <1>3, LowDigit DEF m
  <2> QED
    BY <1>4, <2>1, <2>2
<1>6. (c + e) % m \in 0 .. m - 1 /\ (c + f) % m \in 0 .. m - 1
  BY <1>1, <1>3, Modulo
<1> QED
  <2> DEFINE x == (c + e) % m
             y == (c + f) % m
  <2>1. /\ x \in Nat /\ y \in Nat /\ x # y
        /\ x \div Base = y \div Base /\ x % Base = y % Base
    BY <1>1, <1>2, <1>4, <1>5, <1>6
  <2> HIDE DEF x, y
  <2> QED
    BY <1>1, <2>1, DigitsDetermine

-----------------------------------------------------------------------------
(* Memory that stays valid                                                 *)

Ids == [Event -> Foreign \cup EventID]

\* EventIDs G for the events of a node with node ID n, as they should be.
Good(n, G) ==
  \A e \in Event :
    \/ G[e] \in Foreign
    \/ /\ G[e] \in EventID
       /\ G[e][1] = n[1] /\ G[e][2] = n[2]
       /\ \A f \in Event \ {e} : G[f] # G[e]

\* The tag a call leads to.
Goal == IF phase = "restart" THEN NidOKTag ELSE AllOKTag

\* The present call leads to node ID n, and to EventIDs G.
Heading(n, G) ==
  /\ \A i \in 1 .. 4 : Reaches(Tag(i), Goal[i])
  /\ \A i \in 1 .. 2 : Reaches(Nid(i), n[i])
  /\ \A e \in Event, i \in 1 .. 4 : Reaches(Slot(e, i), G[e][i])
  /\ phase = "setup" => \A i \in 1 .. 2 : eeprom[Nid(i)] \in {n[i], Erased}
  /\ phase # "setup" => nid = n /\ \A i \in 1 .. 2 : eeprom[Nid(i)] = n[i]

Holds(n, G) ==
  /\ \A i \in 1 .. 2 : eeprom[Nid(i)] = n[i]
  /\ \A e \in Event, i \in 1 .. 4 : eeprom[Slot(e, i)] = G[e][i]

Settled ==
  /\ todo = <<>>
  /\ \/ /\ checkAllOK
        /\ \E n \in {Own, Default}, G \in Ids : Good(n, G) /\ Holds(n, G)
     \/ checkNidOK /\ \E n \in {Own, Default} : \A i \in 1 .. 2 : eeprom[Nid(i)] = n[i]
     \/ ~checkAllOK /\ ~checkNidOK /\ \A i \in 1 .. 2 : eeprom[Nid(i)] = Erased

\* Without power the memory is settled, and with it each call leads from one
\* settled memory to another.
ValidInv ==
  /\ TypeInv
  /\ phase = "off" => Settled
  /\ phase # "off" =>
       \E n \in {Own, Default}, G \in Ids : Good(n, G) /\ Heading(n, G)

LEMMA TagsDiffer == AllOKTag # NidOKTag /\ \A i \in 1 .. 4 : AllOKTag[i] # "FF" /\ NidOKTag[i] # "FF"
<1>1. AllOKTag[3] = "5E" /\ NidOKTag[3] = "33"
  BY DEF AllOKTag, NidOKTag
<1>2. \A i \in 1 .. 4 : AllOKTag[i] # "FF" /\ NidOKTag[i] # "FF"
  BY DEF AllOKTag, NidOKTag
<1> QED
  BY <1>1, <1>2

LEMMA TagIs ==
  /\ checkAllOK <=> \A i \in 1 .. 4 : eeprom[Tag(i)] = AllOKTag[i]
  /\ checkNidOK <=> \A i \in 1 .. 4 : eeprom[Tag(i)] = NidOKTag[i]
<1>1. AllOKTag = [i \in 1 .. 4 |-> AllOKTag[i]] /\ NidOKTag = [i \in 1 .. 4 |-> NidOKTag[i]]
  BY DEF AllOKTag, NidOKTag
<1> QED
  BY <1>1 DEF checkAllOK, checkNidOK, StoredTag

LEMMA CellsExist ==
  /\ \A i \in 1 .. 4 : Tag(i) \in Cell
  /\ \A i \in 1 .. 2 : Nid(i) \in Cell
  /\ \A e \in Event, i \in 1 .. 4 : Slot(e, i) \in Cell
BY DEF Cell

LEMMA ValidInit == Init => ValidInv
<1> SUFFICES ASSUME Init PROVE ValidInv
  OBVIOUS
<1>1. TypeInv
  BY TypeInit
<1>2. phase = "off" /\ todo = <<>>
  BY DEF Init
<1>3. CASE eeprom = [c \in Cell |-> ErasedCell(c)]
  <2>1. eeprom[Tag(1)] = "FF"
    BY <1>3, CellsExist DEF ErasedCell, Tag
  <2>2. ~checkAllOK /\ ~checkNidOK
    BY <2>1, TagIs, TagsDiffer
  <2>3. \A i \in 1 .. 2 : eeprom[Nid(i)] = Erased
    BY <1>3, CellsExist DEF ErasedCell, Nid
  <2> QED
    BY <1>1, <1>2, <2>2, <2>3 DEF ValidInv, Settled
<1>4. CASE eeprom = [c \in Cell |-> PreparedCell(c)]
  <2>1. \A i \in 1 .. 4 : eeprom[Tag(i)] = NidOKTag[i]
    BY <1>4, CellsExist DEF PreparedCell, Tag
  <2>2. \A i \in 1 .. 2 : eeprom[Nid(i)] = Own[i]
    BY <1>4, CellsExist DEF PreparedCell, Nid
  <2> QED
    BY <1>1, <1>2, <2>1, <2>2, TagIs DEF ValidInv, Settled
<1> QED
  BY <1>3, <1>4 DEF Init

\* A reset, however begun, leads to good EventIDs.
LEMMA FreshIds ==
  ASSUME TypeInv, NEW n \in {Own, Default}, NEW c \in 0 .. Base * Base - 1,
         todo' = reset(n, c)
  PROVE  \E G \in Ids :
           /\ Good(n, G)
           /\ \A i \in 1 .. 4 : Reaches(Tag(i), AllOKTag[i])'
           /\ \A i \in 1 .. 2 : Reaches(Nid(i), n[i])'
           /\ \A e \in Event, i \in 1 .. 4 : Reaches(Slot(e, i), G[e][i])'
<1> DEFINE G == [e \in Event |-> NewEventID(n, c + e)]
<1>1. n \in NodeID
  BY NodeIDs
<1>2. \A e \in Event : c + e \in Nat /\ c \in Nat
  BY NodeMemoryAssumption DEF Event
<1>3. \A e \in Event : G[e] \in EventID
  BY <1>1, <1>2, NewEventIDIs
<1>4. \A e \in Event : G[e][1] = n[1] /\ G[e][2] = n[2]
  BY DEF NewEventID
<1>5. ASSUME NEW e \in Event, NEW f \in Event \ {e} PROVE G[f] # G[e]
  BY <1>1, <1>2, NewEventIDsDiffer
<1>6. /\ \A i \in 1 .. 4 : Reaches(Tag(i), AllOKTag[i])'
      /\ \A i \in 1 .. 2 : Reaches(Nid(i), n[i])'
      /\ \A e \in Event, i \in 1 .. 4 : Reaches(Slot(e, i), NewEventID(n, c + e)[i])'
  BY <1>1, ResetReaches
<1>7. \A e \in Event, i \in 1 .. 4 : Reaches(Slot(e, i), G[e][i])'
  BY <1>6
<1>8. G \in Ids
  BY <1>3 DEF Ids
<1> HIDE DEF G
<1>9. Good(n, G)
  BY <1>3, <1>4, <1>5 DEF Good
<1> QED
  BY <1>6, <1>7, <1>8, <1>9

LEMMA ValidWrite ==
  ASSUME ValidInv, WriteNext
  PROVE  ValidInv'
<1>1. TypeInv /\ TypeInv'
  BY TypeStep DEF ValidInv, Next
<1>2. phase # "off" /\ phase' = phase /\ nid' = nid
  BY DEF ValidInv, Settled, WriteNext
<1>3. PICK n \in {Own, Default}, G \in Ids : Good(n, G) /\ Heading(n, G)
  BY <1>2 DEF ValidInv
<1>4. \A i \in 1 .. 4 : Reaches(Tag(i), Goal[i])'
  <2>1. Goal' = Goal
    BY <1>2 DEF Goal
  <2> SUFFICES ASSUME NEW i \in 1 .. 4 PROVE Reaches(Tag(i), Goal[i])'
    OBVIOUS
  <2>2. PICK v : v = Goal[i]
    OBVIOUS
  <2>3. Reaches(Tag(i), v)'
    <3>1. Reaches(Tag(i), v) /\ Tag(i) \in Cell
      BY <1>3, <2>2, CellsExist DEF Heading
    <3> QED
      BY <1>1, <3>1, WriteReaches
  <2> QED
    BY <2>1, <2>2, <2>3
<1>5. ASSUME NEW i \in 1 .. 2
      PROVE  Reaches(Nid(i), n[i])' /\ eeprom'[Nid(i)] \in {eeprom[Nid(i)], n[i]}
  BY <1>1, <1>3, CellsExist, WriteReaches DEF Heading
<1>6. ASSUME NEW e \in Event, NEW i \in 1 .. 4
      PROVE  Reaches(Slot(e, i), G[e][i])'
  BY <1>1, <1>3, CellsExist, WriteReaches DEF Heading
<1>7. /\ phase = "setup" => \A i \in 1 .. 2 : eeprom'[Nid(i)] \in {n[i], Erased}
      /\ phase # "setup" => nid = n /\ \A i \in 1 .. 2 : eeprom'[Nid(i)] = n[i]
  BY <1>3, <1>5 DEF Heading
<1>8. Heading(n, G)'
  BY <1>2, <1>4, <1>5, <1>6, <1>7 DEF Heading
<1> QED
  BY <1>1, <1>2, <1>3, <1>8 DEF ValidInv

\* setup() goes by what the memory was left with.
LEMMA ValidSetup ==
  ASSUME ValidInv, SetupEvents \/ SetupAll \/ SetupAsIs
  PROVE  ValidInv'
<1>1. TypeInv /\ TypeInv' /\ Settled
  BY TypeStep DEF ValidInv, Next, SetupEvents, SetupAll, SetupAsIs
<1>2. phase' = "setup" /\ UNCHANGED eeprom
  BY DEF SetupEvents, SetupAll, SetupAsIs
<1>3. Goal' = AllOKTag
  BY <1>2 DEF Goal
<1>4. CASE SetupEvents
  <2>1. checkNidOK /\ todo' = reset(StoredNid, StoredCount)
    BY <1>4 DEF SetupEvents
  <2>2. ~checkAllOK
    BY <2>1, TagsDiffer DEF checkNidOK, checkAllOK
  <2>3. PICK n \in {Own, Default} : \A i \in 1 .. 2 : eeprom[Nid(i)] = n[i]
    BY <1>1, <2>1, <2>2 DEF Settled
  <2>4. StoredNid = n
    <3>1. n = <<n[1], n[2]>>
      BY NodeIDs DEF NodeID
    <3> QED
      BY <2>3, <3>1 DEF StoredNid
  <2>5. PICK G \in Ids :
           /\ Good(n, G)
           /\ \A i \in 1 .. 4 : Reaches(Tag(i), AllOKTag[i])'
           /\ \A i \in 1 .. 2 : Reaches(Nid(i), n[i])'
           /\ \A e \in Event, i \in 1 .. 4 : Reaches(Slot(e, i), G[e][i])'
    BY <1>1, <2>1, <2>4, Stored, FreshIds
  <2>6. Heading(n, G)'
    BY <1>2, <1>3, <2>3, <2>5 DEF Heading
  <2> QED
    BY <1>1, <1>2, <2>5, <2>6 DEF ValidInv
<1>5. CASE SetupAll
  <2>1. ~checkNidOK /\ ~checkAllOK /\ todo' = reset(Default, 0)
    BY <1>5 DEF SetupAll
  <2>2. \A i \in 1 .. 2 : eeprom[Nid(i)] = Erased
    BY <1>1, <2>1 DEF Settled
  <2>3. 0 \in 0 .. Base * Base - 1
    BY Width
  <2>4. PICK G \in Ids :
           /\ Good(Default, G)
           /\ \A i \in 1 .. 4 : Reaches(Tag(i), AllOKTag[i])'
           /\ \A i \in 1 .. 2 : Reaches(Nid(i), Default[i])'
           /\ \A e \in Event, i \in 1 .. 4 : Reaches(Slot(e, i), G[e][i])'
    BY <1>1, <2>1, <2>3, FreshIds
  <2>5. Heading(Default, G)'
    BY <1>2, <1>3, <2>2, <2>4 DEF Heading
  <2> QED
    BY <1>1, <1>2, <2>4, <2>5 DEF ValidInv
<1>6. CASE SetupAsIs
  <2>1. checkAllOK /\ todo' = <<>>
    BY <1>1, <1>6 DEF SetupAsIs, Settled
  <2>2. ~checkNidOK
    BY <2>1, TagsDiffer DEF checkNidOK, checkAllOK
  <2>3. PICK n \in {Own, Default}, G \in Ids : Good(n, G) /\ Holds(n, G)
    BY <1>1, <2>1, <2>2 DEF Settled
  <2>4. /\ \A i \in 1 .. 4 : Reaches(Tag(i), AllOKTag[i])'
        /\ \A i \in 1 .. 2 : Reaches(Nid(i), n[i])'
        /\ \A e \in Event, i \in 1 .. 4 : Reaches(Slot(e, i), G[e][i])'
    BY <1>2, <2>1, <2>3, TagIs, QuietReachesNext DEF Holds
  <2>5. Heading(n, G)'
    BY <1>2, <1>3, <2>3, <2>4 DEF Heading, Holds
  <2> QED
    BY <1>1, <1>2, <2>3, <2>5 DEF ValidInv
<1> QED
  BY <1>4, <1>5, <1>6

\* What is there once a call is over.
LEMMA CallOver ==
  ASSUME todo = <<>>, NEW n, NEW G, Heading(n, G)
  PROVE  Holds(n, G) /\ \A i \in 1 .. 4 : eeprom[Tag(i)] = Goal[i]
<1>1. \A i \in 1 .. 4 : eeprom[Tag(i)] = Goal[i]
  BY DEF Heading, Reaches
<1>2. \A i \in 1 .. 2 : eeprom[Nid(i)] = n[i]
  BY DEF Heading, Reaches
<1>3. \A e \in Event, i \in 1 .. 4 : eeprom[Slot(e, i)] = G[e][i]
  BY DEF Heading, Reaches
<1> QED
  BY <1>1, <1>2, <1>3 DEF Holds

\* The power goes while nothing is being written.
LEMMA ValidForget ==
  ASSUME ValidInv, Forget, phase # "off", todo = <<>>
  PROVE  ValidInv'
<1>1. TypeInv'
  BY Width, NodeIDs DEF ValidInv, TypeInv, TypeOK, Forget
<1>2. UNCHANGED eeprom /\ phase' = "off" /\ todo' = <<>>
  BY DEF Forget
<1>3. PICK n \in {Own, Default}, G \in Ids : Good(n, G) /\ Heading(n, G)
  BY DEF ValidInv
<1>4. Holds(n, G) /\ \A i \in 1 .. 4 : eeprom[Tag(i)] = Goal[i]
  BY <1>3, CallOver
<1>5. Holds(n, G)' /\ checkAllOK' = checkAllOK /\ checkNidOK' = checkNidOK
  BY <1>2, <1>4 DEF Holds, checkAllOK, checkNidOK, StoredTag
<1>6. CASE phase = "restart"
  <2>1. checkNidOK
    BY <1>4, <1>6, TagIs DEF Goal
  <2>2. Settled'
    BY <1>2, <1>5, <2>1 DEF Settled, Holds
  <2> QED
    BY <1>1, <1>2, <2>2 DEF ValidInv
<1>7. CASE phase # "restart"
  <2>1. checkAllOK
    BY <1>4, <1>7, TagIs DEF Goal
  <2>2. Settled'
    BY <1>2, <1>3, <1>5, <2>1 DEF Settled
  <2> QED
    BY <1>1, <1>2, <2>2 DEF ValidInv
<1> QED
  BY <1>6, <1>7

LEMMA ValidSetupDone ==
  ASSUME ValidInv, SetupDone
  PROVE  ValidInv'
<1>1. TypeInv /\ TypeInv'
  BY TypeStep DEF ValidInv, Next
<1>2. /\ phase = "setup" /\ phase' = "run" /\ todo = <<>>
      /\ UNCHANGED <<eeprom, todo>> /\ nid' = StoredNid
  BY DEF SetupDone
<1>3. PICK n \in {Own, Default}, G \in Ids : Good(n, G) /\ Heading(n, G)
  BY <1>2 DEF ValidInv
<1>4. Holds(n, G) /\ \A i \in 1 .. 4 : eeprom[Tag(i)] = AllOKTag[i]
  BY <1>2, <1>3, CallOver DEF Goal
<1>5. StoredNid = n
  <2>1. n = <<n[1], n[2]>>
    BY NodeIDs DEF NodeID
  <2> QED
    BY <1>4, <2>1 DEF StoredNid, Holds
<1>6. Goal' = AllOKTag
  BY <1>2 DEF Goal
<1>7. /\ \A i \in 1 .. 4 : Reaches(Tag(i), AllOKTag[i])'
      /\ \A i \in 1 .. 2 : Reaches(Nid(i), n[i])'
      /\ \A e \in Event, i \in 1 .. 4 : Reaches(Slot(e, i), G[e][i])'
  BY <1>2, <1>4, QuietReachesNext DEF Holds
<1>8. Heading(n, G)'
  BY <1>2, <1>4, <1>5, <1>6, <1>7 DEF Heading, Holds
<1> QED
  BY <1>1, <1>2, <1>3, <1>8 DEF ValidInv

\* A call made while the node runs.
LEMMA ValidCall ==
  ASSUME ValidInv, CallReset \/ CallStore
  PROVE  ValidInv'
<1>1. TypeInv /\ TypeInv'
  BY TypeStep DEF ValidInv, Next
<1>2. /\ phase = "run" /\ phase' = "run" /\ todo = <<>>
      /\ UNCHANGED <<eeprom, nid>>
  BY DEF CallReset, CallStore, Idle
<1>3. PICK n \in {Own, Default}, G \in Ids : Good(n, G) /\ Heading(n, G)
  BY <1>2 DEF ValidInv
<1>4. Holds(n, G) /\ nid = n /\ n \in NodeID
  BY <1>2, <1>3, CallOver, NodeIDs DEF Heading
<1>5. Goal' = AllOKTag
  BY <1>2 DEF Goal
<1>6. count \in 0 .. Base * Base - 1
  BY <1>1 DEF TypeInv, TypeOK
<1>7. CASE CallReset
  <2>1. todo' = reset(n, count)
    BY <1>4, <1>7 DEF CallReset
  <2>2. PICK H \in Ids :
           /\ Good(n, H)
           /\ \A i \in 1 .. 4 : Reaches(Tag(i), AllOKTag[i])'
           /\ \A i \in 1 .. 2 : Reaches(Nid(i), n[i])'
           /\ \A e \in Event, i \in 1 .. 4 : Reaches(Slot(e, i), H[e][i])'
    BY <1>1, <1>6, <2>1, FreshIds
  <2>3. Heading(n, H)'
    BY <1>2, <1>4, <1>5, <2>2 DEF Heading, Holds
  <2> QED
    BY <1>1, <1>2, <2>2, <2>3 DEF ValidInv
<1>8. CASE CallStore
  <2>1. todo' = storeWrites(n, count)
    BY <1>4, <1>8 DEF CallStore
  <2>2. /\ \A i \in 1 .. 4 : Reaches(Tag(i), AllOKTag[i])'
        /\ \A i \in 1 .. 2 : Reaches(Nid(i), n[i])'
        /\ \A e \in Event, i \in 1 .. 4 : \A v :
             eeprom[Slot(e, i)] = v => Reaches(Slot(e, i), v)'
    BY <1>1, <1>2, <1>4, <1>6, <2>1, StoreReaches
  <2>3. \A e \in Event, i \in 1 .. 4 : Reaches(Slot(e, i), G[e][i])'
    BY <1>4, <2>2 DEF Holds
  <2>4. Heading(n, G)'
    BY <1>2, <1>4, <1>5, <2>2, <2>3 DEF Heading, Holds
  <2> QED
    BY <1>1, <1>2, <1>3, <2>4 DEF ValidInv
<1> QED
  BY <1>7, <1>8

\* A taught EventID takes the place of one event's.
LEMMA ValidTaught ==
  ASSUME ValidInv, NEW e \in Event, NEW id \in Foreign, writeEID(e, id)
  PROVE  ValidInv'
<1>1. TypeInv /\ TypeInv'
  BY TypeStep DEF ValidInv, Next
<1>2. /\ phase = "run" /\ phase' = "run" /\ todo = <<>>
      /\ UNCHANGED <<eeprom, nid>> /\ todo' = EventWrites(e, id)
  BY DEF writeEID, Idle
<1>3. PICK n \in {Own, Default}, G \in Ids : Good(n, G) /\ Heading(n, G)
  BY <1>2 DEF ValidInv
<1>4. Holds(n, G) /\ nid = n /\ \A i \in 1 .. 4 : eeprom[Tag(i)] = AllOKTag[i]
  BY <1>2, <1>3, CallOver DEF Heading, Goal
<1>5. Goal' = AllOKTag
  BY <1>2 DEF Goal
<1> DEFINE H == [G EXCEPT ![e] = id]
<1>6. H \in Ids /\ H[e] = id /\ \A f \in Event \ {e} : H[f] = G[f]
  BY <1>3 DEF Ids
<1> HIDE DEF H
<1>7. Good(n, H)
  <2>1. id \in Foreign /\ id \notin EventID
    BY NodeMemoryAssumption
  <2> QED
    BY <1>3, <1>6, <2>1 DEF Good
<1>8. DOMAIN todo' = 1 .. 4 /\ \A i \in 1 .. 4 : todo'[i].cell = Slot(e, i) /\ todo'[i].value = id[i]
  <2>1. \A i \in 1 .. 4 : todo'[i] = Write(Slot(e, i), id[i])
    BY <1>2, EventWritesIs
  <2>2. todo' \in Seq(Writes) /\ Len(todo') = 4
    BY <1>2, EventWritesIs
  <2> QED
    BY <2>1, <2>2 DEF Write
<1>9. Event \subseteq Nat
  BY NodeMemoryAssumption DEF Event
<1>10. ASSUME NEW i \in 1 .. 4 PROVE Reaches(Tag(i), AllOKTag[i])'
  <2>1. \A j \in 1 .. 4 : todo'[j].cell # Tag(i)
    BY <1>8, <1>9, CellsDiffer
  <2> QED
    BY <1>2, <1>4, <1>8, <2>1 DEF Reaches
<1>11. ASSUME NEW i \in 1 .. 2 PROVE Reaches(Nid(i), n[i])'
  <2>1. \A j \in 1 .. 4 : todo'[j].cell # Nid(i)
    BY <1>8, <1>9, CellsDiffer
  <2> QED
    BY <1>2, <1>4, <1>8, <2>1 DEF Reaches, Holds
<1>12. ASSUME NEW f \in Event, NEW i \in 1 .. 4 PROVE Reaches(Slot(f, i), H[f][i])'
  <2>1. \A j \in 1 .. 4 : Slot(e, j) = Slot(f, i) => e = f /\ j = i
    BY <1>9, CellsDiffer
  <2>2. CASE f = e
    BY <1>6, <1>8, <2>1, <2>2 DEF Reaches
  <2>3. CASE f # e
    <3>1. \A j \in 1 .. 4 : todo'[j].cell # Slot(f, i)
      BY <1>8, <2>1, <2>3
    <3>2. H[f] = G[f]
      BY <1>6, <2>3
    <3> QED
      BY <1>2, <1>4, <1>8, <3>1, <3>2 DEF Reaches, Holds
  <2> QED
    BY <2>2, <2>3
<1>13. Heading(n, H)'
  BY <1>2, <1>4, <1>5, <1>10, <1>11, <1>12 DEF Heading, Holds
<1> QED
  BY <1>1, <1>2, <1>6, <1>7, <1>13 DEF ValidInv

\* The factory reset has the tag say that only the node ID is valid.
LEMMA ValidFactory ==
  ASSUME ValidInv, factoryReset
  PROVE  ValidInv'
<1>1. TypeInv /\ TypeInv'
  BY TypeStep DEF ValidInv, Next
<1>2. /\ phase = "run" /\ phase' = "restart" /\ todo = <<>>
      /\ UNCHANGED <<eeprom, nid>>
      /\ todo' = << Write(Tag(3), "33"), Write(Tag(4), "CC") >>
  BY DEF factoryReset, Idle
<1>3. PICK n \in {Own, Default}, G \in Ids : Good(n, G) /\ Heading(n, G)
  BY <1>2 DEF ValidInv
<1>4. Holds(n, G) /\ nid = n /\ \A i \in 1 .. 4 : eeprom[Tag(i)] = AllOKTag[i]
  BY <1>2, <1>3, CallOver DEF Heading, Goal
<1>5. Goal' = NidOKTag
  BY <1>2 DEF Goal
<1>6. /\ DOMAIN todo' = 1 .. 2
      /\ todo'[1].cell = Tag(3) /\ todo'[1].value = "33"
      /\ todo'[2].cell = Tag(4) /\ todo'[2].value = "CC"
  BY <1>2 DEF Write
<1>7. Event \subseteq Nat
  BY NodeMemoryAssumption DEF Event
<1>8. ASSUME NEW i \in 1 .. 4 PROVE Reaches(Tag(i), NidOKTag[i])'
  <2>1. /\ AllOKTag[1] = NidOKTag[1] /\ AllOKTag[2] = NidOKTag[2]
        /\ NidOKTag[3] = "33" /\ NidOKTag[4] = "CC"
    BY DEF AllOKTag, NidOKTag
  <2>2. (Tag(3) = Tag(i) => i = 3) /\ (Tag(4) = Tag(i) => i = 4)
    BY CellsDiffer
  <2>3. CASE i \in 1 .. 2
    <3>1. \A j \in 1 .. 2 : todo'[j].cell # Tag(i)
      BY <1>6, <2>2, <2>3
    <3>2. eeprom'[Tag(i)] = NidOKTag[i]
      BY <1>2, <1>4, <2>1, <2>3
    <3> QED
      BY <1>6, <3>1, <3>2 DEF Reaches
  <2>4. CASE i = 3
    BY <1>6, <2>1, <2>2, <2>4, CellsDiffer DEF Reaches
  <2>5. CASE i = 4
    BY <1>6, <2>1, <2>2, <2>5, CellsDiffer DEF Reaches
  <2> QED
    BY <2>3, <2>4, <2>5
<1>9. ASSUME NEW i \in 1 .. 2 PROVE Reaches(Nid(i), n[i])'
  <2>1. \A j \in 1 .. 2 : todo'[j].cell # Nid(i)
    BY <1>6, CellsDiffer
  <2> QED
    BY <1>2, <1>4, <1>6, <2>1 DEF Reaches, Holds
<1>10. ASSUME NEW f \in Event, NEW i \in 1 .. 4 PROVE Reaches(Slot(f, i), G[f][i])'
  <2>1. \A j \in 1 .. 2 : todo'[j].cell # Slot(f, i)
    BY <1>6, <1>7, CellsDiffer
  <2> QED
    BY <1>2, <1>4, <1>6, <2>1 DEF Reaches, Holds
<1>11. Heading(n, G)'
  BY <1>2, <1>4, <1>5, <1>8, <1>9, <1>10 DEF Heading, Holds
<1> QED
  BY <1>1, <1>2, <1>3, <1>11 DEF ValidInv

LEMMA ValidStep ==
  ASSUME ~FailsWriting, ValidInv, [Next]_vars
  PROVE  ValidInv'
<1>1. CASE SetupEvents \/ SetupAll \/ SetupAsIs
  BY <1>1, ValidSetup
<1>2. CASE WriteNext
  BY <1>2, ValidWrite
<1>3. CASE SetupDone
  BY <1>3, ValidSetupDone
<1>4. CASE CallReset \/ CallStore
  BY <1>4, ValidCall
<1>5. CASE \E e \in Event, id \in Foreign : writeEID(e, id)
  BY <1>5, ValidTaught
<1>6. CASE factoryReset
  BY <1>6, ValidFactory
<1>7. CASE Restart \/ PowerFail
  <2>1. Forget /\ phase # "off" /\ todo = <<>>
    BY <1>7 DEF Restart, PowerFail
  <2> QED
    BY <2>1, ValidForget
<1>8. CASE UNCHANGED vars
  <2>1. TypeInv'
    BY <1>8, TypeStep DEF ValidInv
  <2> QED
    BY <1>8, <2>1 DEF vars, ValidInv, Settled, Heading, Holds, Reaches, Goal,
                      checkAllOK, checkNidOK, StoredTag
<1> QED
  BY <1>1, <1>2, <1>3, <1>4, <1>5, <1>6, <1>7, <1>8 DEF Next

\* Good EventIDs in memory are what MemoryValid asks for.
LEMMA HoldsValid ==
  ASSUME NEW n \in {Own, Default}, NEW G \in Ids, Good(n, G), Holds(n, G)
  PROVE  /\ StoredNid \in {Own, Default}
         /\ \A e \in Event :
              \/ StoredEvent(e) \in Foreign
              \/ /\ StoredEvent(e) \in EventID
                 /\ <<StoredEvent(e)[1], StoredEvent(e)[2]>> = StoredNid
                 /\ \A f \in Event \ {e} : StoredEvent(f) # StoredEvent(e)
<1>1. StoredNid = n /\ StoredNid = <<n[1], n[2]>>
  <2>1. n = <<n[1], n[2]>>
    BY NodeIDs DEF NodeID
  <2> QED
    BY <2>1 DEF StoredNid, Holds
<1>2. ASSUME NEW e \in Event PROVE StoredEvent(e) = G[e]
  <2>1. G[e] \in Foreign \cup EventID
    BY DEF Ids
  <2>2. G[e] = [i \in 1 .. 4 |-> G[e][i]]
    <3>1. CASE G[e] \in Foreign
      BY <3>1, NodeMemoryAssumption
    <3>2. CASE G[e] \in EventID
      BY <3>2 DEF EventID
    <3> QED
      BY <2>1, <3>1, <3>2
  <2>3. \A i \in 1 .. 4 : eeprom[Slot(e, i)] = G[e][i]
    BY DEF Holds
  <2> QED
    BY <2>2, <2>3 DEF StoredEvent
<1> QED
  BY <1>1, <1>2 DEF Good

\* While the power stays on during a call, memory that is marked valid has a
\* node ID, and for each event an EventID of its own or one it was taught.
THEOREM MemoryStaysValid ==
  ASSUME ~FailsWriting
  PROVE  Spec => []MemoryValid
<1>1. ValidInv /\ [Next]_vars => ValidInv'
  BY ValidStep
<1>2. ValidInv => MemoryValid
  <2> SUFFICES ASSUME ValidInv, checkAllOK, todo = <<>>
               PROVE  \E n \in {Own, Default}, G \in Ids : Good(n, G) /\ Holds(n, G)
    BY HoldsValid DEF MemoryValid
  <2>1. ~checkNidOK
    BY TagsDiffer DEF checkNidOK, checkAllOK
  <2> QED
    BY <2>1, CallOver DEF ValidInv, Settled
<1> QED
  BY <1>1, <1>2, ValidInit, PTL DEF Spec

\* While the power stays on during a call, no reset changes the node ID.
THEOREM NodeIDStays ==
  ASSUME ~FailsWriting, Erased \notin {Own[1], Own[2]}
  PROVE  Spec => NodeIDKept
<1>1. ValidInv /\ [Next]_vars => ValidInv'
  BY ValidStep
<1>2. ASSUME ValidInv, [Next]_vars, StoredNid = Own
      PROVE  StoredNid' = Own
  <2>1. Own = <<Own[1], Own[2]>>
    BY NodeIDs DEF NodeID
  <2>2. eeprom[Nid(1)] = Own[1] /\ eeprom[Nid(2)] = Own[2]
    BY <1>2, <2>1 DEF StoredNid
  <2>3. CASE WriteNext
    <3>1. phase # "off"
      BY <1>2, <2>3 DEF ValidInv, Settled, WriteNext
    <3>2. PICK n \in {Own, Default}, G \in Ids : Good(n, G) /\ Heading(n, G)
      BY <1>2, <3>1 DEF ValidInv
    <3>3. n[1] = Own[1] /\ n[2] = Own[2]
      BY <2>2, <3>2 DEF Heading
    <3>4. \A i \in 1 .. 2 : eeprom'[Nid(i)] \in {eeprom[Nid(i)], n[i]}
      BY <1>2, <2>3, <3>2, CellsExist, WriteReaches DEF Heading, ValidInv
    <3>5. eeprom'[Nid(1)] = Own[1] /\ eeprom'[Nid(2)] = Own[2]
      BY <2>2, <3>3, <3>4
    <3> QED
      BY <2>1, <3>5 DEF StoredNid
  <2>4. CASE ~WriteNext
    <3>1. UNCHANGED eeprom
      BY <1>2, <2>4 DEF Next, vars, SetupEvents, SetupAll, SetupAsIs, SetupDone, CallReset,
                        CallStore, writeEID, factoryReset, Restart, PowerFail, Forget
    <3> QED
      BY <1>2, <3>1 DEF StoredNid
  <2> QED
    BY <2>3, <2>4
<1>3. ValidInv /\ [Next]_vars => [StoredNid = Own => StoredNid' = Own]_vars
  BY <1>2
<1> QED
  BY <1>1, <1>3, ValidInit, PTL DEF Spec, NodeIDKept

-----------------------------------------------------------------------------
(* The EventIDs of one power-on                                            *)

\* Adding to a count that has wrapped around is adding to the number.
LEMMA WrapsOnce ==
  ASSUME NEW m \in Nat \ {0}, NEW x \in Nat, NEW y \in Nat
  PROVE  ((x % m) + y) % m = (x + y) % m
<1> DEFINE r == x % m
           q == x \div m
           s == (r + y) % m
           p == (r + y) \div m
<1>1. q \in Nat /\ r \in 0 .. m - 1 /\ x = m * q + r
  BY DivMod
<1>2. r + y \in Nat
  BY <1>1
<1>3. p \in Nat /\ s \in 0 .. m - 1 /\ r + y = m * p + s
  BY <1>2, DivMod
<1> HIDE DEF r, q, s, p
<1>4. m * (q + p) = m * q + m * p /\ q + p \in Nat /\ x + y \in Nat
  BY <1>1, <1>3
<1>5. x + y = m * (q + p) + s
  BY <1>1, <1>3, <1>4
<1>6. (x + y) % m = s
  <2> DEFINE k == q + p
             z == x + y
  <2>1. k \in Nat /\ z \in Nat /\ s \in 0 .. m - 1 /\ z = m * k + s
    BY <1>3, <1>4, <1>5
  <2> HIDE DEF k, z
  <2>2. z % m = s
    BY <2>1, Remainder
  <2> QED
    BY <2>2 DEF z
<1> QED
  BY <1>6 DEF s, r

\* The count in an EventID.
CountOf(id) == id[3] * Base + id[4]

LEMMA CountOfNew ==
  ASSUME NEW n \in NodeID, NEW c \in Nat
  PROVE  CountOf(NewEventID(n, c)) = c % (Base * Base)
<1> DEFINE m == Base * Base
           x == c % m
<1>1. m \in Nat \ {0} /\ Base \in Nat \ {0}
  BY Width
<1>2. x % Base = c % Base
  BY <1>1, LowDigit
<1>3. NewEventID(n, c)[3] = x \div Base /\ NewEventID(n, c)[4] = c % Base
  BY DEF NewEventID
<1>4. x \in Nat
  <2> HIDE DEF m
  <2> QED
    BY <1>1, Modulo
<1> HIDE DEF x
<1>5. x = Base * (x \div Base) + (x % Base) /\ x \div Base \in Nat
  BY <1>1, <1>4, DivMod
<1>6. (x \div Base) * Base = Base * (x \div Base)
  BY <1>1, <1>5
<1>7. CountOf(NewEventID(n, c)) = x
  BY <1>2, <1>3, <1>5, <1>6 DEF CountOf
<1> QED
  BY <1>7 DEF x

\* The EventIDs the present call has still to hand out.
Minting == {todo[i].mints : i \in DOMAIN todo} \ {NoID}

\* The EventIDs of this power-on, those of the present call included.
Session == issued \cup Minting

\* The EventIDs of S are among the k that follow the count "start".
Follow(start, k, S) ==
  \A id \in S : \E j \in 1 .. k : CountOf(id) = (start + j) % (Base * Base)

\* The power-on began at the count "start".
Began(start) ==
  /\ count = (start + Cardinality(Session)) % (Base * Base)
  /\ Follow(start, Cardinality(Session), Session)

\* What a call is about to hand out was not handed out, nor is it twice there.
Apart ==
  \A i \in DOMAIN todo : todo[i].mints # NoID =>
    /\ todo[i].mints \notin issued
    /\ \A j \in DOMAIN todo : j # i => todo[j].mints # todo[i].mints

SessionInv ==
  /\ TypeInv
  /\ phase = "off" => issued = {} /\ todo = <<>>
  /\ IsFiniteSet(Session)
  /\ \E start \in Nat : Began(start)
  /\ Apart

NewIDs(n, c) == {NewEventID(n, c + e) : e \in Event}

LEMMA NewIDsCounted ==
  ASSUME NEW n \in NodeID, NEW c \in Nat
  PROVE  IsFiniteSet(NewIDs(n, c)) /\ Cardinality(NewIDs(n, c)) = NumEvents
<1>1. NumEvents \in Nat
  BY NodeMemoryAssumption
<1> DEFINE f == [e \in 1 .. NumEvents |-> NewEventID(n, c + e)]
<1>2. f \in [1 .. NumEvents -> NewIDs(n, c)]
  BY DEF NewIDs, Event
<1>3. \A id \in NewIDs(n, c) : \E e \in 1 .. NumEvents : f[e] = id
  BY DEF NewIDs, Event
<1>4. \A a, b \in 1 .. NumEvents : f[a] = f[b] => a = b
  BY NewEventIDsDiffer DEF Event
<1> HIDE DEF f
<1>5. f \in Bijection(1 .. NumEvents, NewIDs(n, c))
  BY <1>2, <1>3, <1>4 DEF Bijection, Injection, Surjection, IsInjective
<1>6. ExistsBijection(1 .. NumEvents, NewIDs(n, c))
  BY <1>5 DEF ExistsBijection
<1> QED
  BY <1>1, <1>6, FS_CountingElements, FS_NatBijection

\* What a reset is about to hand out: one EventID for each event.
LEMMA ResetMints ==
  ASSUME NEW n \in NodeID, NEW c \in 0 .. Base * Base - 1
  PROVE  /\ \A i \in DOMAIN reset(n, c) : reset(n, c)[i].mints # NoID =>
              /\ i \in 9 .. 8 + 4 * NumEvents
              /\ PlaceOf(i - 8) = 4
              /\ EventOf(i - 8) \in Event
              /\ reset(n, c)[i].mints = NewEventID(n, c + EventOf(i - 8))
         /\ \A e \in Event :
              /\ 8 + 4 * e \in DOMAIN reset(n, c)
              /\ reset(n, c)[8 + 4 * e].mints = NewEventID(n, c + e)
         /\ {reset(n, c)[i].mints : i \in DOMAIN reset(n, c)} \ {NoID} = NewIDs(n, c)
<1> DEFINE q == reset(n, c)
<1>1. NumEvents \in Nat /\ 4 * NumEvents \in Nat
  BY NodeMemoryAssumption
<1>2. /\ q \in Seq(Writes)
      /\ Len(q) = 8 + 4 * NumEvents
      /\ \A i \in 1 .. 8 : q[i].mints = NoID
      /\ \A k \in 1 .. 4 * NumEvents :
           q[k + 8].mints = IF PlaceOf(k) = 4 THEN NewEventID(n, c + EventOf(k)) ELSE NoID
  <2>1. \A i \in 1 .. 8 : storeWrites(n, c)[i].mints = NoID
    BY StoreIs
  <2>2. \A i \in 1 .. 8 : q[i] = storeWrites(n, c)[i]
    BY ResetIs
  <2> QED
    BY <2>1, <2>2, ResetIs
<1> HIDE DEF q
<1>3. DOMAIN q = 1 .. 8 + 4 * NumEvents
  BY <1>1, <1>2
<1>4. ASSUME NEW i \in DOMAIN q, q[i].mints # NoID
      PROVE  /\ i \in 9 .. 8 + 4 * NumEvents
             /\ PlaceOf(i - 8) = 4
             /\ EventOf(i - 8) \in Event
             /\ q[i].mints = NewEventID(n, c + EventOf(i - 8))
  <2>1. i \in 9 .. 8 + 4 * NumEvents
    BY <1>1, <1>2, <1>3, <1>4
  <2>2. i - 8 \in 1 .. 4 * NumEvents /\ (i - 8) + 8 = i
    BY <1>1, <2>1
  <2>3. q[i].mints = IF PlaceOf(i - 8) = 4 THEN NewEventID(n, c + EventOf(i - 8)) ELSE NoID
    BY <1>2, <2>2
  <2>4. EventOf(i - 8) \in Event
    BY <1>1, <2>2 DEF EventOf, Event
  <2> QED
    BY <1>4, <2>1, <2>3, <2>4
<1>5. ASSUME NEW e \in Event
      PROVE  8 + 4 * e \in DOMAIN q /\ q[8 + 4 * e].mints = NewEventID(n, c + e)
  <2>1. e \in 1 .. NumEvents
    BY DEF Event
  <2>2. 4 * e \in 1 .. 4 * NumEvents /\ 4 * e + 8 = 8 + 4 * e
    BY <1>1, <2>1
  <2>3. PlaceOf(4 * e) = 4 /\ EventOf(4 * e) = e
    BY <1>1, <2>1 DEF PlaceOf, EventOf
  <2> QED
    BY <1>1, <1>2, <1>3, <2>2, <2>3
<1>6. \A e \in Event : NewEventID(n, c + e) # NoID
  BY DEF NewEventID, NoID
<1>7. {q[i].mints : i \in DOMAIN q} \ {NoID} = NewIDs(n, c)
  BY <1>4, <1>5, <1>6 DEF NewIDs
<1> QED
  BY <1>4, <1>5, <1>7 DEF q

\* The k EventIDs after "start" leave the next ones free, as long as the count
\* can tell them apart.
LEMMA NextAreFree ==
  ASSUME NEW n \in NodeID, NEW start \in Nat, NEW k \in Nat, NEW S,
         NEW c \in 0 .. Base * Base - 1,
         Follow(start, k, S), c = (start + k) % (Base * Base),
         k + NumEvents <= Base * Base
  PROVE  /\ \A e \in Event : CountOf(NewEventID(n, c + e)) = (start + (k + e)) % (Base * Base)
         /\ S \cap NewIDs(n, c) = {}
<1> DEFINE m == Base * Base
<1>1. m \in Nat \ {0} /\ NumEvents \in Nat /\ c \in Nat
  BY Width, NodeMemoryAssumption
<1>2. ASSUME NEW e \in Event
      PROVE  CountOf(NewEventID(n, c + e)) = (start + (k + e)) % m
  <2>1. e \in Nat /\ c + e \in Nat
    BY <1>1 DEF Event
  <2>2. CountOf(NewEventID(n, c + e)) = (c + e) % m
    BY <2>1, CountOfNew
  <2>3. (((start + k) % m) + e) % m = ((start + k) + e) % m
    <3> HIDE DEF m
    <3>1. start + k \in Nat
      OBVIOUS
    <3> QED
      BY <1>1, <2>1, <3>1, WrapsOnce
  <2>4. (start + k) + e = start + (k + e)
    BY <2>1
  <2> QED
    BY <2>2, <2>3, <2>4
<1>3. ASSUME NEW e \in Event, NewEventID(n, c + e) \in S
      PROVE  FALSE
  <2>1. PICK j \in 1 .. k : CountOf(NewEventID(n, c + e)) = (start + j) % m
    BY <1>3 DEF Follow
  <2>2. (start + j) % m = (start + (k + e)) % m
    BY <1>2, <2>1
  <2> DEFINE a == start + j
             b == start + (k + e)
  <2>3. a \in Nat /\ b \in Nat /\ a < b /\ b - a < m
    BY <1>1 DEF Event
  <2> HIDE DEF a, b, m
  <2>4. a % m # b % m
    BY <1>1, <2>3, CountsDiffer
  <2> QED
    BY <2>2, <2>4 DEF a, b
<1> QED
  BY <1>2, <1>3 DEF NewIDs

\* A call of reset() goes on from the count where the power-on stands.
LEMMA SessionReset ==
  ASSUME TypeInv, NEW n \in NodeID, NEW c \in 0 .. Base * Base - 1, NEW start \in Nat,
         IsFiniteSet(issued), Follow(start, Cardinality(issued), issued),
         c = (start + Cardinality(issued)) % (Base * Base),
         Cardinality(issued) + NumEvents <= Base * Base,
         todo' = reset(n, c), count' = resetCount(c), issued' = issued
  PROVE  IsFiniteSet(Session)' /\ Began(start)' /\ Apart'
<1> DEFINE m == Base * Base
           k == Cardinality(issued)
           new == NewIDs(n, c)
<1>1. m \in Nat \ {0} /\ NumEvents \in Nat /\ c \in Nat /\ k \in Nat
  BY Width, NodeMemoryAssumption, FS_CardinalityType
<1>2. /\ \A e \in Event : CountOf(NewEventID(n, c + e)) = (start + (k + e)) % m
      /\ issued \cap new = {}
  BY <1>1, NextAreFree
<1>3. Session' = issued \cup new
  <2>1. Minting' = new
    BY ResetMints DEF Minting
  <2> QED
    BY <2>1 DEF Session
<1>4. IsFiniteSet(Session') /\ Cardinality(Session') = k + NumEvents
  <2>1. IsFiniteSet(new) /\ Cardinality(new) = NumEvents
    BY <1>1, NewIDsCounted
  <2>2. Cardinality({}) = 0
    BY FS_EmptySet
  <2>3. /\ IsFiniteSet(issued \cup new)
        /\ Cardinality(issued \cup new) = k + NumEvents - 0
    BY <1>2, <2>1, <2>2, FS_Union
  <2> QED
    BY <1>1, <1>3, <2>3
<1>5. count' = (start + (k + NumEvents)) % m
  <2>1. count' = (((start + k) % m) + NumEvents) % m
    BY DEF resetCount
  <2>2. (((start + k) % m) + NumEvents) % m = ((start + k) + NumEvents) % m
    <3> HIDE DEF m, k
    <3>1. start + k \in Nat
      BY <1>1
    <3> QED
      BY <1>1, <3>1, WrapsOnce
  <2>3. (start + k) + NumEvents = start + (k + NumEvents)
    BY <1>1
  <2> QED
    BY <2>1, <2>2, <2>3
<1>6. ASSUME NEW id \in Session'
      PROVE  \E j \in 1 .. k + NumEvents : CountOf(id) = (start + j) % m
  <2>1. CASE id \in issued
    <3>1. PICK j \in 1 .. k : CountOf(id) = (start + j) % m
      BY <2>1 DEF Follow
    <3>2. j \in 1 .. k + NumEvents
      BY <1>1
    <3> QED
      BY <3>1, <3>2
  <2>2. CASE id \in new
    <3>1. PICK e \in Event : id = NewEventID(n, c + e)
      BY <2>2 DEF NewIDs
    <3>2. k + e \in 1 .. k + NumEvents
      BY <1>1 DEF Event
    <3> QED
      BY <1>2, <3>1, <3>2
  <2> QED
    BY <1>3, <2>1, <2>2
<1>7. Began(start)'
  <2>1. Follow(start, Cardinality(Session), Session)'
    BY <1>4, <1>6 DEF Follow
  <2>2. count' = (start + Cardinality(Session')) % m
    BY <1>4, <1>5
  <2> QED
    BY <2>1, <2>2 DEF Began
<1>8. Apart'
  <2> DEFINE q == reset(n, c)
  <2>1. ASSUME NEW i \in DOMAIN q, q[i].mints # NoID
        PROVE  q[i].mints \in new
    BY <2>1, ResetMints
  <2>2. ASSUME NEW i \in DOMAIN q, q[i].mints # NoID, NEW j \in DOMAIN q, j # i
        PROVE  q[j].mints # q[i].mints
    <3> SUFFICES ASSUME q[j].mints = q[i].mints PROVE FALSE
      OBVIOUS
    <3>1. /\ i \in 9 .. 8 + 4 * NumEvents /\ PlaceOf(i - 8) = 4
          /\ EventOf(i - 8) \in Event /\ q[i].mints = NewEventID(n, c + EventOf(i - 8))
      BY <2>2, ResetMints
    <3>2. /\ j \in 9 .. 8 + 4 * NumEvents /\ PlaceOf(j - 8) = 4
          /\ EventOf(j - 8) \in Event /\ q[j].mints = NewEventID(n, c + EventOf(j - 8))
      BY <2>2, ResetMints
    <3>3. EventOf(i - 8) = EventOf(j - 8)
      BY <1>1, <3>1, <3>2, NewEventIDsDiffer
    <3> QED
      BY <1>1, <2>2, <3>1, <3>2, <3>3 DEF EventOf, PlaceOf
  <2>3. todo' = q
    OBVIOUS
  <2> HIDE DEF q
  <2> QED
    BY <1>2, <2>1, <2>2, <2>3 DEF Apart
<1> QED
  BY <1>4, <1>7, <1>8

\* A call that hands nothing out leaves the power-on where it is.
LEMMA SessionQuiet ==
  ASSUME SessionInv, todo = <<>>, todo' \in Seq(Writes),
         \A i \in DOMAIN todo' : todo'[i].mints = NoID,
         count' = count, issued' = issued
  PROVE  IsFiniteSet(Session)' /\ (\E start \in Nat : Began(start))' /\ Apart'
<1>1. Minting = {} /\ Minting' = {}
  BY DEF Minting
<1>2. Session' = Session
  BY <1>1 DEF Session
<1>3. PICK start \in Nat : Began(start)
  BY DEF SessionInv
<1>4. Began(start)'
  BY <1>2, <1>3 DEF Began, Follow
<1>5. Apart'
  BY DEF Apart
<1> QED
  BY <1>2, <1>4, <1>5 DEF SessionInv

\* A count that has not wrapped around is its own remainder.
LEMMA Unwrapped ==
  ASSUME NEW c \in 0 .. Base * Base - 1
  PROVE  c \in Nat /\ c = (c + 0) % (Base * Base)
<1> DEFINE m == Base * Base
<1>1. m \in Nat \ {0} /\ c \in 0 .. m - 1
  BY Width
<1> HIDE DEF m
<1>2. c = m * 0 + c /\ c + 0 = c /\ c \in Nat
  BY <1>1
<1>3. c % m = c
  BY <1>1, <1>2, Remainder
<1> QED
  BY <1>2, <1>3 DEF m

\* A power-on in which nothing was handed out yet begins at the count it has.
LEMMA SessionFresh ==
  ASSUME issued' = {}, todo' = <<>>, count' = 0
  PROVE  IsFiniteSet(Session)' /\ (\E start \in Nat : Began(start))' /\ Apart'
<1>1. Session' = {}
  BY DEF Session, Minting
<1>2. IsFiniteSet(Session') /\ Cardinality(Session') = 0
  BY <1>1, FS_EmptySet
<1>3. 0 = (0 + 0) % (Base * Base)
  BY Width, Unwrapped
<1>4. Began(0)'
  BY <1>1, <1>2, <1>3 DEF Began, Follow
<1>5. Apart'
  BY DEF Apart
<1> QED
  BY <1>2, <1>4, <1>5

\* setup() resets with the count it finds in EEPROM, or with none.
LEMMA SessionSetup ==
  ASSUME SessionInv, phase = "off", NEW n \in NodeID, NEW c \in 0 .. Base * Base - 1,
         todo' = reset(n, c), count' = resetCount(c), issued' = issued
  PROVE  IsFiniteSet(Session)' /\ (\E start \in Nat : Began(start))' /\ Apart'
<1> DEFINE m == Base * Base
<1>1. TypeInv /\ issued = {}
  BY DEF SessionInv
<1>2. IsFiniteSet(issued) /\ Cardinality(issued) = 0
  BY <1>1, FS_EmptySet
<1>3. m \in Nat \ {0} /\ c \in Nat /\ NumEvents \in Nat /\ NumEvents <= m
  BY Width, NodeMemoryAssumption
<1>4. c = (c + 0) % m
  BY Unwrapped
<1>5. Follow(c, Cardinality(issued), issued)
  BY <1>1 DEF Follow
<1>6. IsFiniteSet(Session)' /\ Began(c)' /\ Apart'
  BY <1>1, <1>2, <1>3, <1>4, <1>5, SessionReset
<1> QED
  BY <1>3, <1>6

\* Handing one out only moves it from what is to come to what was.
LEMMA SessionWrite ==
  ASSUME SessionInv, WriteNext
  PROVE  IsFiniteSet(Session)' /\ (\E start \in Nat : Began(start))' /\ Apart'
<1> DEFINE w == Head(todo)
<1>1. /\ todo \in Seq(Writes) /\ todo # <<>> /\ todo' = Tail(todo)
      /\ issued' = issued \cup ({w.mints} \ {NoID}) /\ count' = count
  BY DEF SessionInv, TypeInv, WriteNext
<1>2. /\ Len(todo) \in Nat \ {0} /\ DOMAIN todo = 1 .. Len(todo)
      /\ DOMAIN todo' = 1 .. Len(todo) - 1
      /\ \A i \in 1 .. Len(todo) - 1 : todo'[i] = todo[i + 1]
      /\ w = todo[1]
  BY <1>1
<1> HIDE DEF w
<1>3. Session' = Session
  <2>1. ASSUME NEW id \in Minting PROVE id \in Minting' \/ id = w.mints
    <3>1. PICK i \in DOMAIN todo : id = todo[i].mints /\ id # NoID
      BY DEF Minting
    <3>2. CASE i = 1
      BY <1>2, <3>1, <3>2
    <3>3. CASE i # 1
      <4>1. i - 1 \in DOMAIN todo' /\ todo'[i - 1] = todo[i]
        BY <1>2, <3>3
      <4> QED
        BY <3>1, <4>1 DEF Minting
    <3> QED
      BY <3>2, <3>3
  <2>2. ASSUME NEW id \in Minting' PROVE id \in Minting
    <3>1. PICK i \in DOMAIN todo' : id = todo'[i].mints /\ id # NoID
      BY DEF Minting
    <3>2. i + 1 \in DOMAIN todo /\ todo'[i] = todo[i + 1]
      BY <1>2
    <3> QED
      BY <3>1, <3>2 DEF Minting
  <2>3. w.mints # NoID => w.mints \in Minting
    BY <1>2 DEF Minting
  <2>4. \A id \in Minting : id # NoID
    BY DEF Minting
  <2> QED
    BY <1>1, <2>1, <2>2, <2>3, <2>4 DEF Session
<1>4. PICK start \in Nat : Began(start)
  BY DEF SessionInv
<1>5. Began(start)'
  BY <1>1, <1>3, <1>4 DEF Began, Follow
<1>6. Apart'
  <2> SUFFICES ASSUME NEW i \in DOMAIN todo', todo'[i].mints # NoID
               PROVE  /\ todo'[i].mints \notin issued'
                      /\ \A j \in DOMAIN todo' : j # i => todo'[j].mints # todo'[i].mints
    BY DEF Apart
  <2>1. i + 1 \in DOMAIN todo /\ todo'[i] = todo[i + 1] /\ i + 1 # 1 /\ 1 \in DOMAIN todo
    BY <1>2
  <2>2. /\ todo[i + 1].mints \notin issued
        /\ \A j \in DOMAIN todo : j # i + 1 => todo[j].mints # todo[i + 1].mints
    BY <2>1 DEF SessionInv, Apart
  <2>3. todo'[i].mints \notin issued'
    BY <1>1, <1>2, <2>1, <2>2
  <2>4. ASSUME NEW j \in DOMAIN todo', j # i
        PROVE  todo'[j].mints # todo'[i].mints
    <3>1. j + 1 \in DOMAIN todo /\ todo'[j] = todo[j + 1] /\ j + 1 # i + 1
      BY <1>2, <2>4
    <3> QED
      BY <2>1, <2>2, <3>1
  <2> QED
    BY <2>3, <2>4
<1> QED
  BY <1>3, <1>5, <1>6 DEF SessionInv

LEMMA SessionInit == Init => SessionInv
<1> SUFFICES ASSUME Init PROVE SessionInv
  OBVIOUS
<1>1. TypeInv /\ issued = {} /\ todo = <<>> /\ count = 0
  BY TypeInit DEF Init
<1>2. Session = {}
  BY <1>1 DEF Session, Minting
<1>3. IsFiniteSet(Session) /\ Cardinality(Session) = 0
  BY <1>2, FS_EmptySet
<1>4. 0 = (0 + 0) % (Base * Base)
  BY Width, Unwrapped
<1>5. Began(0)
  BY <1>1, <1>2, <1>3, <1>4 DEF Began, Follow
<1>6. Apart
  BY <1>1 DEF Apart
<1> QED
  BY <1>1, <1>3, <1>5, <1>6 DEF SessionInv

LEMMA SessionStep ==
  ASSUME SessionInv, [Next]_vars
  PROVE  SessionInv'
<1> DEFINE Goes == IsFiniteSet(Session)' /\ (\E start \in Nat : Began(start))' /\ Apart'
<1>1. TypeInv /\ TypeInv'
  BY TypeStep DEF SessionInv
<1>2. ASSUME Goes, phase' = "off" => issued' = {} /\ todo' = <<>>
      PROVE  SessionInv'
  BY <1>1, <1>2 DEF SessionInv
<1>3. ASSUME issued' = {}, todo' = <<>>, count' = 0
      PROVE  Goes
  BY <1>3, SessionFresh
<1>4. ASSUME todo = <<>>, todo' \in Seq(Writes),
             \A i \in DOMAIN todo' : todo'[i].mints = NoID,
             count' = count, issued' = issued
      PROVE  Goes
  BY <1>4, SessionQuiet
<1>5. CASE SetupEvents
  <2>1. Goes
    BY <1>1, <1>5, Stored, SessionSetup DEF SetupEvents
  <2> HIDE DEF Goes
  <2> QED
    BY <1>2, <1>5, <2>1 DEF SetupEvents
<1>6. CASE SetupAll
  <2>1. 0 \in 0 .. Base * Base - 1
    BY Width
  <2>2. Goes
    BY <1>6, <2>1, NodeIDs, SessionSetup DEF SetupAll
  <2> HIDE DEF Goes
  <2> QED
    BY <1>2, <1>6, <2>2 DEF SetupAll
<1>7. CASE WriteNext
  <2>1. Goes
    BY <1>7, SessionWrite
  <2>2. todo # <<>> /\ phase' = phase
    BY <1>7 DEF WriteNext
  <2> HIDE DEF Goes
  <2> QED
    BY <1>2, <2>1, <2>2 DEF SessionInv
<1>8. CASE CallReset
  <2>1. PICK start \in Nat : Began(start)
    BY DEF SessionInv
  <2>2. Session = issued /\ count \in 0 .. Base * Base - 1 /\ nid \in NodeID
    <3>1. todo = <<>>
      BY <1>8 DEF CallReset, Idle
    <3>2. Minting = {}
      BY <3>1 DEF Minting
    <3> HIDE DEF Goes
    <3> QED
      BY <1>1, <3>2 DEF Session, TypeInv, TypeOK
  <2>3. Goes
    BY <1>1, <1>8, <2>1, <2>2, SessionReset DEF CallReset, Began, SessionInv
  <2> HIDE DEF Goes
  <2> QED
    BY <1>2, <1>8, <2>3 DEF CallReset, Idle
<1>9. CASE CallStore
  <2>1. \A i \in DOMAIN todo' : todo'[i].mints = NoID
    <3> DEFINE q == storeWrites(nid, count)
    <3>1. q \in Seq(Writes) /\ Len(q) = 8 /\ \A i \in 1 .. 8 : q[i].mints = NoID
      BY <1>1, StoreIs DEF TypeInv, TypeOK
    <3>2. todo' = q
      BY <1>9 DEF CallStore
    <3> HIDE DEF q, Goes
    <3> QED
      BY <3>1, <3>2
  <2> HIDE DEF Goes
  <2>2. Goes
    BY <1>1, <1>4, <1>9, <2>1 DEF CallStore, Idle, TypeInv
  <2> QED
    BY <1>2, <1>9, <2>2 DEF CallStore, Idle
<1>10. ASSUME NEW e \in Event, NEW id \in Foreign, writeEID(e, id)
       PROVE  SessionInv'
  <2>1. \A i \in DOMAIN todo' : todo'[i].mints = NoID
    <3> DEFINE q == EventWrites(e, id)
    <3>1. q \in Seq(Writes) /\ Len(q) = 4 /\ \A i \in 1 .. 4 : q[i] = Write(Slot(e, i), id[i])
      BY EventWritesIs
    <3>2. todo' = q
      BY <1>10 DEF writeEID
    <3> HIDE DEF q, Goes
    <3> QED
      BY <3>1, <3>2 DEF Write
  <2> HIDE DEF Goes
  <2>2. Goes
    BY <1>1, <1>4, <1>10, <2>1 DEF writeEID, Idle, TypeInv
  <2> QED
    BY <1>2, <1>10, <2>2 DEF writeEID, Idle
<1>11. CASE factoryReset
  <2>1. \A i \in DOMAIN todo' : todo'[i].mints = NoID
    BY <1>11 DEF factoryReset, Write
  <2> HIDE DEF Goes
  <2>2. Goes
    BY <1>1, <1>4, <1>11, <2>1 DEF factoryReset, Idle, TypeInv
  <2> QED
    BY <1>2, <1>11, <2>2 DEF factoryReset
<1>12. CASE SetupAsIs
  <2> HIDE DEF Goes
  <2>1. Goes
    BY <1>3, <1>12 DEF SetupAsIs, SessionInv
  <2> QED
    BY <1>2, <1>12, <2>1 DEF SetupAsIs
<1>13. CASE SetupDone
  <2>1. \A i \in DOMAIN todo' : todo'[i].mints = NoID
    BY <1>13 DEF SetupDone
  <2> HIDE DEF Goes
  <2>2. Goes
    BY <1>1, <1>4, <1>13, <2>1 DEF SetupDone, TypeInv
  <2> QED
    BY <1>2, <1>13, <2>2 DEF SetupDone
<1>14. CASE Forget
  <2> HIDE DEF Goes
  <2>1. Goes
    BY <1>3, <1>14 DEF Forget
  <2> QED
    BY <1>2, <1>14, <2>1 DEF Forget
<1>15. CASE UNCHANGED vars
  <2>1. Session' = Session
    BY <1>15 DEF vars, Session, Minting
  <2>2. Apart' = Apart
    BY <1>15 DEF vars, Apart
  <2>3. PICK start \in Nat : Began(start)
    BY DEF SessionInv
  <2>4. Began(start)'
    BY <1>15, <2>1, <2>3 DEF vars, Began, Follow
  <2>5. Goes
    BY <2>1, <2>2, <2>4 DEF SessionInv
  <2>6. phase' = "off" => issued' = {} /\ todo' = <<>>
    BY <1>15 DEF vars, SessionInv
  <2> HIDE DEF Goes
  <2> QED
    BY <1>2, <2>5, <2>6
<1> HIDE DEF Goes
<1> QED
  BY <1>5, <1>6, <1>7, <1>8, <1>9, <1>10, <1>11, <1>12, <1>13, <1>14, <1>15
     DEF Next, Restart, PowerFail

\* NodeMemory.cpp:180: as long as a power-on has not used up the counts, no
\* EventID is handed out twice in it, wherever it began, whenever the count
\* wraps around and whenever the power failed before.
THEOREM SessionIDsDiffer == Spec => SessionIDsUnique
<1>1. ASSUME SessionInv, todo # <<>>
      PROVE  Head(todo).mints # NoID => Head(todo).mints \notin issued
  <2>1. todo \in Seq(Writes)
    BY <1>1 DEF SessionInv, TypeInv
  <2>2. 1 \in DOMAIN todo /\ Head(todo) = todo[1]
    BY <1>1, <2>1
  <2> QED
    BY <1>1, <2>2 DEF SessionInv, Apart
<1>2. ASSUME SessionInv PROVE NoID \notin issued
  <2>1. issued \subseteq EventID
    BY <1>2 DEF SessionInv, TypeInv, TypeOK
  <2>2. NoID \notin EventID
    BY DEF NoID, EventID
  <2> QED
    BY <2>1, <2>2
<1>3. SessionInv /\ [Next]_vars =>
        [todo # <<>> /\ todo' = Tail(todo) => Head(todo).mints \notin issued]_vars
  BY <1>1, <1>2
<1>4. SessionInv /\ [Next]_vars => SessionInv'
  BY SessionStep
<1> QED
  BY <1>3, <1>4, SessionInit, PTL DEF Spec, SessionIDsUnique

=============================================================================
