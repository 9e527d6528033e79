----------------------------- MODULE NodeProofs -----------------------------
(***************************************************************************)
(* Proofs about a running node, for any number of clients, inputs, events, *)
(* segments and bytes, and whatever the sketch has compiled in: the panel  *)
(* of the blue and the gold button, the events of the inputs, the text of  *)
(* the identification, and who is sent an answer.                          *)
(*                                                                         *)
(* The scan of the inputs and the frame of an identification are recursive *)
(* functions. What they compute is proved by induction: every set of       *)
(* naturals that is not empty has a least element (WFMin), so there is no  *)
(* first number of steps for which it is not so.                           *)
(***************************************************************************)
EXTENDS Node, WellFoundedInduction, TLAPS

-----------------------------------------------------------------------------
(* Induction                                                               *)

LEMMA NatMin ==
  ASSUME NEW T, T \subseteq Nat, T # {}
  PROVE  \E x \in T : \A y \in T : x <= y
<1> DEFINE R == {p \in Nat \X Nat : p[1] < p[2]}
<1>1. OpToRel(<, Nat) = R
  BY DEF OpToRel
<1>2. IsWellFoundedOn(R, Nat)
  BY <1>1, NatLessThanWellFounded
<1>3. \E x \in T : \A y \in T : ~ (<<y, x>> \in R)
  <2> HIDE DEF R
  <2> QED
    BY <1>2, WFMin
<1>4. PICK x \in T : \A y \in T : ~ (<<y, x>> \in R)
  BY <1>3
<1>5. ASSUME NEW y \in T
      PROVE  x <= y
  <2>1. x \in Nat /\ y \in Nat
    OBVIOUS
  <2>2. <<y, x>> \notin R
    BY <1>4
  <2>3. ~(y < x)
    BY <2>1, <2>2
  <2> QED
    BY <2>1, <2>3
<1> QED
  BY <1>5

LEMMA Induction ==
  ASSUME NEW T, T \subseteq Nat, 0 \in T, \A n \in T : n + 1 \in T
  PROVE  T = Nat
<1>1. SUFFICES ASSUME Nat \ T # {} PROVE FALSE
  OBVIOUS
<1>2. PICK x \in Nat \ T : \A y \in Nat \ T : x <= y
  BY <1>1, NatMin
<1>3. x \in Nat /\ x # 0
  BY <1>2
<1>4. x - 1 \in T
  BY <1>2, <1>3
<1> QED
  BY <1>2, <1>3, <1>4

LEMMA InductionTo ==
  ASSUME NEW N \in Nat, NEW T, 0 \in T, \A n \in 0 .. N - 1 : n \in T => n + 1 \in T
  PROVE  \A n \in 0 .. N : n \in T
<1>1. SUFFICES ASSUME NEW m \in 0 .. N, m \notin T
               PROVE  FALSE
  OBVIOUS
<1> DEFINE U == {n \in 0 .. N : n \notin T}
<1>2. U \subseteq Nat /\ U # {}
  BY <1>1
<1>3. PICK x \in U : \A y \in U : x <= y
  <2> HIDE DEF U
  <2> QED
    BY <1>2, NatMin
<1>4. x \in 0 .. N /\ x \notin T /\ x # 0
  OBVIOUS
<1>5. x - 1 \in 0 .. N - 1 /\ x - 1 + 1 = x
  BY <1>4
<1>6. x - 1 \in U
  BY <1>4, <1>5
<1> QED
  BY <1>3, <1>5, <1>6

-----------------------------------------------------------------------------
(* The panel                                                               *)

\* The panel tells what is selected, and is of its type.
PanelInv ==
  /\ blue \in Button
  /\ gold \in Button
  /\ panel \in Panel
  /\ cleared \in BOOLEAN
  /\ PanelTells

LEMMA ProcessedIs ==
  ASSUME NEW b \in Button, NEW d \in BOOLEAN
  PROVE  Processed(b, d) \subseteq Button
BY DEF Processed, Button

\* A press leaves no light but that of the event selected, and blue lit only
\* while one is.
Consistent(p) ==
  /\ p \in Panel
  /\ p.lights \subseteq {p.index}
  /\ p.blue = "lit" => p.index # -1

LEMMA BluePressedIs ==
  ASSUME NEW p, Consistent(p)
  PROVE  /\ Consistent(BluePressed(p))
         /\ BluePressed(p).blue = "off" => BluePressed(p).index = -1
<1> USE BlueGoldAssumption
<1>1. /\ p.index \in -1 .. NumEvents - 1 /\ NumEvents \in Nat
      /\ p.blue \in {"off", "lit"} /\ p.gold \in {"unready", "ready", "lit"}
      /\ p.lights \ {p.index} = {}
      /\ p = [index |-> p.index, blue |-> p.blue, gold |-> p.gold, lights |-> p.lights]
  BY DEF Consistent, Panel
<1>2. CASE p.index + 1 >= NumEvents
  <2>1. BluePressed(p) = [index |-> -1, blue |-> "off", gold |-> p.gold, lights |-> {}]
    BY <1>1, <1>2 DEF BluePressed
  <2>2. -1 \in -1 .. NumEvents - 1
    BY <1>1
  <2> QED
    BY <1>1, <2>1, <2>2 DEF Consistent, Panel
<1>3. CASE ~(p.index + 1 >= NumEvents)
  <2>1. BluePressed(p) =
          [index |-> p.index + 1, blue |-> "lit", gold |-> p.gold, lights |-> {p.index + 1}]
    BY <1>1, <1>3 DEF BluePressed
  <2>2. p.index + 1 \in 0 .. NumEvents - 1 /\ p.index + 1 # -1
    BY <1>1, <1>3
  <2>3. p.index + 1 \in -1 .. NumEvents - 1
    BY <1>1, <2>2
  <2> QED
    BY <1>1, <2>1, <2>2, <2>3 DEF Consistent, Panel
<1> QED
  BY <1>2, <1>3

LEMMA GoldPressedIs ==
  ASSUME NEW p, Consistent(p)
  PROVE  /\ Consistent(GoldPressed(p))
         /\ GoldPressed(p).blue = "off" /\ GoldPressed(p).index # -1
              => p.blue = "off" /\ p.index # -1
<1> USE BlueGoldAssumption
<1>1. /\ p.index \in -1 .. NumEvents - 1 /\ NumEvents \in Nat
      /\ p.blue \in {"off", "lit"} /\ p.gold \in {"unready", "ready", "lit"}
      /\ p.lights \ {p.index} = {}
      /\ p = [index |-> p.index, blue |-> p.blue, gold |-> p.gold, lights |-> p.lights]
      /\ -1 \in -1 .. NumEvents - 1
  BY DEF Consistent, Panel
<1>2. CASE p.gold = "lit"
  <2>1. GoldPressed(p) = [index |-> -1, blue |-> "off", gold |-> "ready", lights |-> {}]
    BY <1>1, <1>2 DEF GoldPressed
  <2> QED
    BY <1>1, <2>1 DEF Consistent, Panel
<1>3. CASE p.gold # "lit" /\ p.blue = "lit"
  <2>1. GoldPressed(p) = [index |-> -1, blue |-> "off", gold |-> p.gold, lights |-> {}]
    BY <1>1, <1>3 DEF GoldPressed
  <2> QED
    BY <1>1, <2>1 DEF Consistent, Panel
<1>4. CASE p.gold # "lit" /\ p.blue # "lit"
  <2>1. GoldPressed(p) =
          [index |-> p.index, blue |-> p.blue, gold |-> "lit", lights |-> p.lights]
    BY <1>1, <1>4 DEF GoldPressed
  <2>2. p.lights \subseteq 0 .. NumEvents - 1 /\ p.lights \subseteq {p.index}
    BY DEF Consistent, Panel
  <2> QED
    BY <1>1, <1>4, <2>1, <2>2 DEF Consistent, Panel
<1> QED
  BY <1>2, <1>3, <1>4

LEMMA StartedIs ==
  ASSUME NEW p, Consistent(p)
  PROVE  /\ Consistent(Started(p))
         /\ Started(p).blue = p.blue /\ Started(p).index = p.index
BY DEF Started, Consistent, Panel

LEMMA PanelCheck ==
  ASSUME PanelInv, check
  PROVE  PanelInv'
<1>1. blue' \in Button /\ gold' \in Button
  <2>1. blue' \in Processed(blue, "blue" \in down) /\ gold' \in Processed(gold, "gold" \in down)
    BY DEF check
  <2>2. Processed(blue, "blue" \in down) \subseteq Button
    BY ProcessedIs, ("blue" \in down) \in BOOLEAN DEF PanelInv
  <2>3. Processed(gold, "gold" \in down) \subseteq Button
    BY ProcessedIs, ("gold" \in down) \in BOOLEAN DEF PanelInv
  <2> QED
    BY <2>1, <2>2, <2>3
<1>2. Consistent(Started(panel))
  BY StartedIs DEF PanelInv, PanelTells, Consistent
<1>3. /\ Consistent(Panel1)
      /\ Panel1.blue = "off" /\ Panel1.index # -1 => cleared
  <2>1. CASE PressedBlue /\ ~gold.state
    BY <1>2, <2>1, BluePressedIs DEF Panel1
  <2>2. CASE ~(PressedBlue /\ ~gold.state)
    BY <1>2, <2>2, StartedIs DEF Panel1, PanelInv, PanelTells, Consistent
  <2> QED
    BY <2>1, <2>2
<1>4. /\ Consistent(Panel2)
      /\ Panel2.blue = "off" /\ Panel2.index # -1 => cleared \/ Clears
  <2>1. CASE Clears
    BY <1>3, <2>1 DEF Panel2, Consistent, Panel
  <2>2. CASE ~Clears
    BY <1>3, <2>2 DEF Panel2
  <2> QED
    BY <2>1, <2>2
<1>5. /\ Consistent(Panel3)
      /\ Panel3.blue = "off" /\ Panel3.index # -1 => cleared \/ Clears
  BY <1>4, GoldPressedIs DEF Panel3
<1>6. panel' = Panel3
  BY DEF check
<1>7. cleared' <=> panel'.index # -1 /\ (Clears \/ (cleared /\ panel'.blue = "off"))
  BY DEF check
<1>8. cleared' \in BOOLEAN
  BY DEF check
<1> QED
  BY <1>1, <1>5, <1>6, <1>7, <1>8 DEF PanelInv, PanelTells, Consistent

LEMMA StartIs ==
  /\ Released \in Button
  /\ PanelStart \in Panel
  /\ PanelStart.index = -1 /\ PanelStart.blue = "off" /\ PanelStart.lights = {}
<1>1. -1 \in -1 .. NumEvents - 1
  BY BlueGoldAssumption
<1>2. PanelStart \in Panel
  BY <1>1 DEF PanelStart, Panel
<1> QED
  BY <1>2 DEF Released, Button, PanelStart

LEMMA PanelInit == Init => PanelInv
<1>1. BGInit => PanelInv
  BY StartIs DEF BGInit, PanelInv, PanelTells
<1> QED
  BY <1>1 DEF Init

LEMMA PanelStep ==
  ASSUME PanelInv, [Next]_vars
  PROVE  PanelInv'
<1>1. CASE UNCHANGED bgVars
  BY <1>1 DEF bgVars, PanelInv, PanelTells
<1>2. CASE check
  BY <1>2, PanelCheck
<1>3. CASE factoryReset
  BY <1>3, StartIs DEF factoryReset, PanelInv, PanelTells
<1>4. ASSUME NEW i \in 0 .. NumEvents - 1, pceCallback(i)
      PROVE  PanelInv'
  BY <1>4 DEF pceCallback, PanelInv, PanelTells, Panel
<1>5. CASE PressOrRelease
  BY <1>5 DEF PressOrRelease, PanelInv, PanelTells
<1>6. CASE UNCHANGED localVars
  BY <1>1, <1>6 DEF localVars
<1>7. ASSUME NEW c \in Client, ReceiveFrom(c)
      PROVE  UNCHANGED localVars
  BY <1>7 DEF ReceiveFrom, RejectOther, ReceiveAck, ReceiveNak, receivedDatagram,
              PIP_receivedFrame, SNII_receivedFrame, SNII_reject, Receive
<1>8. CASE Olcb_loop
  <2>1. CASE NothingReceived \/ AnswerAME
    BY <1>6, <2>1 DEF NothingReceived, AnswerAME, Receive
  <2>2. CASE ConsumeEvent
    BY <1>4, <2>2 DEF ConsumeEvent
  <2>3. CASE \E c \in Client : ReceiveFrom(c)
    BY <1>6, <1>7, <2>3
  <2>4. CASE pce_check \/ produceFromInputs
    BY <1>1, <2>4 DEF pce_check, produceFromInputs
  <2>5. CASE dg_check \/ cfg_check \/ PIP_check \/ SNII_check
    BY <1>6, <2>5 DEF dg_check, cfg_check, PIP_check, SNII_check
  <2>6. CASE bg_check
    BY <1>2, <2>6 DEF bg_check
  <2>7. CASE bg_reset
    BY <1>3, <2>7 DEF bg_reset
  <2> QED
    BY <1>8, <2>1, <2>2, <2>3, <2>4, <2>5, <2>6, <2>7 DEF Olcb_loop
<1>9. CASE \E c \in Client, what \in Request : Ask(c, what)
  BY <1>6, <1>9 DEF Ask
<1>10. CASE Enquire \/ Transmit
  BY <1>6, <1>10 DEF Enquire, Transmit
<1>11. CASE Press
  BY <1>1, <1>11 DEF Press
<1>12. CASE PressBlueGold
  BY <1>5, <1>12 DEF PressBlueGold
<1>13. CASE UNCHANGED vars
  BY <1>6, <1>13 DEF vars
<1> QED
  BY <1>8, <1>9, <1>10, <1>11, <1>12, <1>13 DEF Next

\* What the lights show is what the gold button will act on, in whatever
\* order the buttons are pressed, held and let go.
THEOREM PanelAlwaysTells == Spec => []PanelTells
<1>1. PanelInv => PanelTells
  BY DEF PanelInv
<1> QED
  BY <1>1, PanelInit, PanelStep, PTL DEF Spec

-----------------------------------------------------------------------------
(* The scan of the inputs                                                  *)

ScanStart == [index |-> scanIndex, states |-> states, events |-> events]
IsScan(f, n) == f = [k \in 0 .. n |-> IF k = 0 THEN ScanStart ELSE Scan(f[k - 1])]

LEMMA ScanDefined ==
  ASSUME NEW N \in Nat
  PROVE  \E f : IsScan(f, N)
<1> DEFINE T == {n \in Nat : \E f : IsScan(f, n)}
<1>1. IsScan([k \in 0 .. 0 |-> ScanStart], 0)
  BY DEF IsScan
<1>2. 0 \in T
  BY <1>1
<1>3. ASSUME NEW n \in T PROVE n + 1 \in T
  <2>0. n \in Nat OBVIOUS
  <2>1. PICK f : IsScan(f, n)
    BY <1>3
  <2> DEFINE g == [k \in 0 .. n + 1 |-> IF k = 0 THEN ScanStart ELSE Scan(f[k - 1])]
  <2>2. \A k \in 0 .. n : g[k] = f[k]
    BY <2>1 DEF IsScan
  <2>3. ASSUME NEW k \in 0 .. n + 1
        PROVE g[k] = IF k = 0 THEN ScanStart ELSE Scan(g[k - 1])
    <3>1. CASE k = 0
      BY <3>1, <2>0
    <3>2. CASE k # 0
      <4>1. k - 1 \in 0 .. n
        BY <3>2, <2>0
      <4>2. g[k - 1] = f[k - 1] BY <4>1, <2>2
      <4>3. g[k] = Scan(f[k - 1]) BY <3>2
      <4> HIDE DEF g
      <4> QED BY <3>2, <4>2, <4>3
    <3> QED BY <3>1, <3>2
  <2>4. IsScan(g, n + 1)
    <3>1. g = [k \in 0 .. n + 1 |-> g[k]] OBVIOUS
    <3> HIDE DEF g
    <3> QED
    BY <2>3, <3>1 DEF IsScan
  <2> QED
    BY <2>4, <2>0 
<1>4. T = Nat
  <2> HIDE DEF T
  <2> QED
  BY <1>2, <1>3, Induction DEF T
<1> QED
  BY <1>4

LEMMA ScanRoundIs ==
  ASSUME MaxInputScan \in Nat
  PROVE  \E f : IsScan(f, MaxInputScan) /\ ScanRound = f[MaxInputScan]
<1> DEFINE scan[k \in 0 .. MaxInputScan] ==
        IF k = 0 THEN [index |-> scanIndex, states |-> states, events |-> events]
        ELSE Scan(scan[k - 1])
<1>1. \E f : f = [k \in 0 .. MaxInputScan |->
        IF k = 0 THEN [index |-> scanIndex, states |-> states, events |-> events]
        ELSE Scan(f[k - 1])]
  BY ScanDefined DEF IsScan, ScanStart
<1>2. scan = [k \in 0 .. MaxInputScan |->
        IF k = 0 THEN [index |-> scanIndex, states |-> states, events |-> events]
        ELSE Scan(scan[k - 1])]
  BY <1>1
<1>3. IsScan(scan, MaxInputScan)
  BY <1>2 DEF IsScan, ScanStart
<1>4. ScanRound = scan[MaxInputScan]
  BY DEF ScanRound
<1> QED
  BY <1>3, <1>4

\* The events a scan has asked for are those of the inputs it found changed.
Scanned(s) ==
  /\ s \in [index : 0 .. NumInputs, states : [Input -> BOOLEAN],
            events : SUBSET (0 .. 2 * NumInputs - 1)]
  /\ \A i \in Input : s.states[i] # states[i] => s.states[i] = button[i]
  /\ s.events = events \cup {EventOf(i, button[i]) : i \in {j \in Input : s.states[j] # states[j]}}

InputTypes ==
  /\ button \in [Input -> BOOLEAN]
  /\ states \in [Input -> BOOLEAN]
  /\ told \in [Input -> BOOLEAN]
  /\ scanIndex \in 0 .. NumInputs
  /\ events \subseteq 0 .. 2 * NumInputs - 1
  /\ crossed \subseteq Input

\* While only one of its events waits, it tells the state of the input; while
\* none does, the last one sent told it.
InputTold(i) ==
  /\ 2 * i \in events => states[i] /\ 2 * i + 1 \notin events
  /\ 2 * i + 1 \in events => ~states[i]
  /\ {2 * i, 2 * i + 1} \cap events = {} => told[i] = states[i]

InputInv ==
  /\ InputTypes
  /\ \A i \in Input \ crossed : InputTold(i)

LEMMA ScanStep ==
  ASSUME InputTypes, NEW s, Scanned(s)
  PROVE  Scanned(Scan(s))
<1>1. /\ NumInputs \in Nat /\ s.index \in 0 .. NumInputs
      /\ s = [index |-> s.index, states |-> s.states, events |-> s.events]
      /\ s.states \in [Input -> BOOLEAN]
      /\ s.events \in SUBSET (0 .. 2 * NumInputs - 1)
  BY NodeAssumption DEF Scanned
<1>2. CASE s.index = NumInputs
  <2>1. Scan(s) = [index |-> 0, states |-> s.states, events |-> s.events]
    BY <1>1, <1>2 DEF Scan
  <2> QED
    BY <1>1, <2>1 DEF Scanned
<1>3. CASE s.index # NumInputs /\ s.states[s.index] = button[s.index]
  <2>1. Scan(s) = [index |-> s.index + 1, states |-> s.states, events |-> s.events]
    BY <1>1, <1>3 DEF Scan
  <2>2. s.index + 1 \in 0 .. NumInputs
    BY <1>1, <1>3
  <2> QED
    BY <1>1, <2>1, <2>2 DEF Scanned
<1>4. CASE s.index # NumInputs /\ s.states[s.index] # button[s.index]
  <2> DEFINE i == s.index
             t == [s.states EXCEPT ![i] = button[i]]
             e == s.events \cup {EventOf(i, button[i])}
  <2>1. i \in Input
    BY <1>1, <1>4 DEF Input
  <2>2. Scan(s) = [index |-> i + 1, states |-> t, events |-> e]
    BY <1>4 DEF Scan
  <2>3. states[i] = s.states[i]
    BY <1>4, <2>1 DEF Scanned
  <2>4. t \in [Input -> BOOLEAN]
    BY <1>1, <2>1 DEF InputTypes
  <2>5. /\ t[i] = button[i]
        /\ \A j \in Input : j # i => t[j] = s.states[j]
    BY <1>1, <2>1
  <2>6. \A j \in Input : t[j] # states[j] => t[j] = button[j]
    <3> HIDE DEF t
    <3> QED
      BY <2>5 DEF Scanned
  <2>7. {j \in Input : t[j] # states[j]} = {j \in Input : s.states[j] # states[j]} \cup {i}
    <3> HIDE DEF t
    <3> QED
      BY <1>4, <2>1, <2>3, <2>5
  <2>8. i + 1 \in 0 .. NumInputs
    BY <1>1, <1>4
  <2>9. EventOf(i, button[i]) \in 0 .. 2 * NumInputs - 1
    BY <1>1, <2>1 DEF EventOf, Input
  <2>10. e = events \cup {EventOf(j, button[j]) : j \in {k \in Input : t[k] # states[k]}}
    <3> HIDE DEF t, i
    <3> QED
      BY <2>7 DEF Scanned
  <2>11. e \in SUBSET (0 .. 2 * NumInputs - 1)
    BY <1>1, <2>9
  <2> HIDE DEF t, i, e
  <2> QED
    BY <2>2, <2>4, <2>6, <2>8, <2>10, <2>11 DEF Scanned
<1> QED
  BY <1>2, <1>3, <1>4

LEMMA ScanRoundScanned ==
  ASSUME InputTypes
  PROVE  Scanned(ScanRound)
<1>1. MaxInputScan \in Nat /\ NumInputs \in Nat
  BY NodeAssumption
<1>2. PICK f : IsScan(f, MaxInputScan) /\ ScanRound = f[MaxInputScan]
  BY <1>1, ScanRoundIs
<1> DEFINE T == {k \in 0 .. MaxInputScan : Scanned(f[k])}
<1>3. 0 \in T
  <2>1. f[0] = ScanStart
    BY <1>1, <1>2 DEF IsScan
  <2>2. Scanned(ScanStart)
    BY DEF Scanned, ScanStart, InputTypes
  <2> QED
    BY <1>1, <2>1, <2>2
<1>4. ASSUME NEW k \in 0 .. MaxInputScan - 1, k \in T
      PROVE  k + 1 \in T
  <2>1. k + 1 \in 0 .. MaxInputScan /\ k + 1 # 0 /\ k + 1 - 1 = k
    BY <1>1
  <2>2. f[k + 1] = Scan(f[k])
    <3> DEFINE j == k + 1
    <3>1. j \in 0 .. MaxInputScan /\ j # 0 /\ j - 1 = k
      BY <2>1
    <3>2. f[j] = Scan(f[j - 1])
      <4> HIDE DEF j
      <4> QED
        BY <1>2, <3>1 DEF IsScan
    <3> QED
      BY <3>1, <3>2
  <2> QED
    BY <1>4, <2>1, <2>2, ScanStep
<1>5. \A k \in 0 .. MaxInputScan : k \in T
  <2> HIDE DEF T
  <2> QED
    BY <1>1, <1>3, <1>4, InductionTo
<1> QED
  BY <1>1, <1>2, <1>5

LEMMA MinIs ==
  ASSUME NEW S, S \subseteq Nat, S # {}
  PROVE  Min(S) \in S /\ \A y \in S : Min(S) <= y
BY NatMin DEF Min

LEMMA InputInit == Init => InputInv
<1> SUFFICES ASSUME Init PROVE InputInv
  OBVIOUS
<1>1. InputTypes
  BY NodeAssumption DEF Init, InputTypes
<1>2. ASSUME NEW i \in Input
      PROVE  InputTold(i)
  BY <1>2 DEF Init, InputTold
<1> QED
  BY <1>1, <1>2 DEF InputInv

LEMMA InputReport ==
  ASSUME InputInv, pce_check
  PROVE  InputInv'
<1>1. NumInputs \in Nat
  BY NodeAssumption
<1>2. UNCHANGED <<button, states, scanIndex, crossed>>
  BY DEF pce_check
<1>3. CASE events = {}
  <2>1. UNCHANGED <<events, told>>
    BY <1>3 DEF pce_check
  <2> QED
    BY <1>2, <2>1 DEF InputInv, InputTypes, InputTold
<1>4. CASE events # {}
  <2> DEFINE r == Min(events)
  <2>1. events' = events \ {r} /\ told' = [told EXCEPT ![r \div 2] = (r % 2 = 0)]
    BY <1>4 DEF pce_check
  <2>2. r \in events /\ r \in 0 .. 2 * NumInputs - 1
    <3>1. events \subseteq 0 .. 2 * NumInputs - 1
      BY DEF InputInv, InputTypes
    <3>2. events \subseteq Nat
      BY <1>1, <3>1
    <3> QED
      BY <1>4, <3>1, <3>2, MinIs
  <2> HIDE DEF r
  <2>3. r \div 2 \in Input
    BY <1>1, <2>2 DEF Input
  <2>4. /\ r = 2 * (r \div 2) \/ r = 2 * (r \div 2) + 1
        /\ (r % 2 = 0) <=> r = 2 * (r \div 2)
    BY <1>1, <2>2
  <2>5. InputTypes'
    BY <1>2, <2>1, <2>3 DEF InputInv, InputTypes
  <2>6. ASSUME NEW i \in Input \ crossed
        PROVE  InputTold(i)'
    <3>1. i \in Nat /\ InputTold(i) /\ states[i] \in BOOLEAN
      BY DEF InputInv, InputTypes, Input
    <3>2. CASE i = r \div 2
      <4>1. told'[i] = (r = 2 * i)
        BY <2>1, <2>3, <2>4, <3>2 DEF InputInv, InputTypes
      <4>2. CASE r = 2 * i
        <5>1. states[i] /\ 2 * i \notin events' /\ 2 * i + 1 \notin events'
          BY <2>1, <2>2, <3>1, <4>2 DEF InputTold
        <5>2. told'[i] = states[i]
          BY <3>1, <4>1, <4>2, <5>1
        <5> QED
          BY <1>2, <5>1, <5>2 DEF InputTold
      <4>3. CASE r = 2 * i + 1
        <5>1. ~states[i] /\ 2 * i \notin events' /\ 2 * i + 1 \notin events'
          BY <2>1, <2>2, <3>1, <4>3 DEF InputTold
        <5>2. r # 2 * i
          BY <3>1, <4>3
        <5>3. ~told'[i]
          BY <4>1, <5>2
        <5>4. told'[i] = states[i]
          BY <3>1, <2>5, <5>1, <5>3 DEF InputTypes
        <5> QED
          BY <1>2, <5>1, <5>4 DEF InputTold
      <4> QED
        BY <2>4, <3>2, <4>2, <4>3
    <3>3. CASE i # r \div 2
      <4>1. r # 2 * i /\ r # 2 * i + 1
        BY <1>1, <2>2, <3>1, <3>3
      <4>2. told'[i] = told[i]
        BY <2>1, <3>3 DEF InputInv, InputTypes
      <4>3. /\ 2 * i \in events' <=> 2 * i \in events
            /\ 2 * i + 1 \in events' <=> 2 * i + 1 \in events
        BY <2>1, <4>1
      <4> QED
        BY <1>2, <3>1, <4>2, <4>3 DEF InputTold
    <3> QED
      BY <3>2, <3>3
  <2> QED
    BY <1>2, <2>5, <2>6 DEF InputInv
<1> QED
  BY <1>3, <1>4

LEMMA InputScan ==
  ASSUME InputInv, produceFromInputs
  PROVE  InputInv'
<1> DEFINE s == ScanRound
<1>1. Scanned(s)
  BY ScanRoundScanned DEF InputInv
<1>2. /\ scanIndex' = s.index
      /\ states' = s.states
      /\ events' = s.events
      /\ crossed' = {i \in Input : \/ {2 * i, 2 * i + 1} \subseteq s.events
                                   \/ i \in crossed /\ s.states[i] = states[i]}
      /\ UNCHANGED <<button, told>>
  BY DEF produceFromInputs
<1> HIDE DEF s
<1>3. InputTypes'
  BY <1>1, <1>2 DEF InputInv, InputTypes, Scanned
<1>4. NumInputs \in Nat
  BY NodeAssumption
<1>5. ASSUME NEW i \in Input \ crossed'
      PROVE  InputTold(i)'
  <2>1. i \in Nat /\ states[i] \in BOOLEAN /\ button[i] \in BOOLEAN /\ told[i] \in BOOLEAN
        /\ s.states[i] \in BOOLEAN
    BY <1>1, <1>4 DEF InputInv, InputTypes, Input, Scanned
  <2>2. ~({2 * i, 2 * i + 1} \subseteq s.events)
    BY <1>2
  <2>3. i \in crossed => s.states[i] # states[i]
    BY <1>2
  <2> DEFINE new == {j \in Input : s.states[j] # states[j]}
  <2>4. ASSUME NEW j \in Input, j # i
        PROVE  EventOf(j, button[j]) # 2 * i /\ EventOf(j, button[j]) # 2 * i + 1
    BY <1>4, <2>1, <2>4 DEF EventOf, Input
  <2>5. s.events = events \cup {EventOf(j, button[j]) : j \in new}
    BY <1>1 DEF Scanned
  <2>6. CASE s.states[i] = states[i]
    <3>1. i \in Input \ crossed
      BY <2>3, <2>6
    <3>2. InputTold(i)
      BY <3>1 DEF InputInv
    <3>3. i \notin new
      BY <2>6
    <3>4. /\ 2 * i \in s.events <=> 2 * i \in events
          /\ 2 * i + 1 \in s.events <=> 2 * i + 1 \in events
      <4> HIDE DEF new
      <4>1. new \subseteq Input
        BY DEF new
      <4> QED
        BY <2>4, <2>5, <3>3, <4>1
    <3> QED
      BY <1>2, <2>1, <2>6, <3>2, <3>4 DEF InputTold
  <2>7. CASE s.states[i] # states[i]
    <3>1. s.states[i] = button[i] /\ EventOf(i, button[i]) \in s.events
      BY <1>1, <2>5, <2>7 DEF Scanned
    <3>2. CASE button[i]
      BY <1>2, <2>1, <2>2, <3>1, <3>2 DEF EventOf, InputTold
    <3>3. CASE ~button[i]
      BY <1>2, <2>1, <2>2, <3>1, <3>3 DEF EventOf, InputTold
    <3> QED
      BY <3>2, <3>3
  <2> QED
    BY <2>6, <2>7
<1> QED
  BY <1>3, <1>5 DEF InputInv

LEMMA InputReset ==
  ASSUME InputInv, bg_reset
  PROVE  InputInv'
<1>1. /\ states' = [i \in Input |-> FALSE] /\ scanIndex' = 0 /\ events' = {}
      /\ crossed' = crossed \cup {i \in Input : told[i]}
      /\ UNCHANGED <<button, told>>
  BY DEF bg_reset
<1>2. InputTypes'
  BY <1>1, NodeAssumption DEF InputInv, InputTypes
<1>3. ASSUME NEW i \in Input \ crossed'
      PROVE  InputTold(i)'
  <2>1. ~told[i] /\ told[i] \in BOOLEAN
    BY <1>1 DEF InputInv, InputTypes
  <2>2. told'[i] = FALSE /\ states'[i] = FALSE
    BY <1>1, <2>1
  <2> QED
    BY <1>1, <2>2 DEF InputTold
<1> QED
  BY <1>2, <1>3 DEF InputInv

LEMMA InputPress ==
  ASSUME InputInv, Press
  PROVE  InputInv'
<1>1. /\ button' \in [Input -> BOOLEAN]
      /\ UNCHANGED <<states, scanIndex, events, told, crossed>>
  BY DEF Press, InputInv, InputTypes
<1> QED
  BY <1>1 DEF InputInv, InputTypes, InputTold

\* The handlers that have to do with the inputs.
LEMMA InputActions ==
  ASSUME [Next]_vars
  PROVE  pce_check \/ produceFromInputs \/ bg_reset \/ Press \/ UNCHANGED inputVars
<1>1. ASSUME NEW c \in Client, ReceiveFrom(c)
      PROVE  UNCHANGED inputVars
  BY <1>1 DEF ReceiveFrom, RejectOther, ReceiveAck, ReceiveNak, receivedDatagram,
              PIP_receivedFrame, SNII_receivedFrame, SNII_reject, Receive, localVars
<1>2. CASE Olcb_loop
  <2>1. CASE NothingReceived \/ AnswerAME \/ ConsumeEvent
    BY <2>1 DEF NothingReceived, AnswerAME, Receive, ConsumeEvent, localVars
  <2>2. CASE dg_check \/ cfg_check \/ bg_check \/ PIP_check \/ SNII_check
    BY <2>2 DEF dg_check, cfg_check, bg_check, PIP_check, SNII_check, localVars
  <2> QED
    BY <1>1, <1>2, <2>1, <2>2 DEF Olcb_loop
<1>3. CASE \E c \in Client, what \in Request : Ask(c, what)
  BY <1>3 DEF Ask, localVars
<1>4. CASE Enquire \/ Transmit \/ PressBlueGold \/ UNCHANGED vars
  BY <1>4 DEF Enquire, Transmit, PressBlueGold, vars, localVars
<1> QED
  BY <1>2, <1>3, <1>4 DEF Next

LEMMA InputStep ==
  ASSUME InputInv, [Next]_vars
  PROVE  InputInv'
<1>1. CASE UNCHANGED inputVars
  BY <1>1 DEF inputVars, InputInv, InputTypes, InputTold
<1> QED
  BY <1>1, InputActions, InputReport, InputScan, InputReset, InputPress

\* Once no event of an input waits, the last one sent told the input's state.
THEOREM EventsTellLast == Spec => []TellsLastState
<1>1. InputInv => TellsLastState
  BY Zenon DEF InputInv, InputTold, TellsLastState
<1> QED
  BY <1>1, InputInit, InputStep, PTL DEF Spec

-----------------------------------------------------------------------------
(* The loop                                                                *)

LoopInv ==
  /\ \E s \in Settings : parts = s.parts /\ asks = s.asks
  /\ pc \in {"receive", "pce", "dg", "cfg", "bg", "pip", "snii", "inputs"}
  /\ txType \in {"CAN", "OpenLcb"}

LEMMA AfterIs ==
  ASSUME NEW h
  PROVE  After(h) \in {"receive", "pce", "dg", "cfg", "bg", "pip", "snii", "inputs"}
<1> DEFINE later == {k \in 1 .. Len(Handlers) :
                       CompiledIn(Handlers[k]) /\ \E j \in 1 .. k - 1 : Handlers[j] = h}
<1>1. Len(Handlers) = 8
  BY DEF Handlers
<1>2. ASSUME later # {}
      PROVE  Min(later) \in 1 .. 8
  <2>1. later \subseteq 1 .. 8
    BY <1>1
  <2> HIDE DEF later
  <2>2. later \subseteq Nat
    BY <2>1
  <2> QED
    BY <1>2, <2>1, <2>2, MinIs
<1>3. \A k \in 1 .. 8 :
        Handlers[k] \in {"receive", "pce", "dg", "cfg", "bg", "pip", "snii", "inputs"}
  BY DEF Handlers
<1>4. After(h) = IF later = {} THEN "receive" ELSE Handlers[Min(later)]
  BY DEF After
<1> HIDE DEF later
<1> QED
  BY <1>2, <1>3, <1>4

LEMMA LoopInit == Init => LoopInv
BY Zenon DEF Init, LoopInv

\* The loop goes from a handler to the next one, or starts over.
LEMMA LoopActions ==
  ASSUME [Next]_vars
  PROVE  /\ UNCHANGED <<parts, asks>>
         /\ pc' = pc \/ pc' = "receive" \/ \E h : pc' = After(h)
         /\ txType' \in {txType, "CAN", "OpenLcb"}
<1> DEFINE Fine == /\ UNCHANGED <<parts, asks>>
                   /\ pc' = pc \/ pc' = "receive" \/ \E h : pc' = After(h)
                   /\ txType' \in {txType, "CAN", "OpenLcb"}
<1>1. ASSUME NEW h, Turn(h)
      PROVE  UNCHANGED <<parts, asks>> /\ \E g : pc' = After(g)
  BY <1>1 DEF Turn
<1>2. ASSUME NEW c \in Client, ReceiveFrom(c)
      PROVE  Fine
  <2>1. CASE RejectOther(c)
    BY <1>1, <2>1 DEF RejectOther, Receive, sendMessage
  <2>2. CASE ReceiveAck(c) \/ ReceiveNak(c)
    BY <1>1, <2>2 DEF ReceiveAck, ReceiveNak, Receive, NoSend
  <2>3. CASE \E what \in {"Read", "Write", "Update"} : receivedDatagram(what, c)
    BY <1>1, <2>3 DEF receivedDatagram, Receive, sendMessage
  <2>4. CASE PIP_receivedFrame(c) \/ SNII_receivedFrame(c)
    BY <1>1, <2>4 DEF PIP_receivedFrame, SNII_receivedFrame, Receive, NoSend
  <2>5. CASE SNII_reject(c)
    BY <1>1, <2>5 DEF SNII_reject, Receive, sendMessage
  <2> QED
    BY <1>2, <2>1, <2>2, <2>3, <2>4, <2>5 DEF ReceiveFrom
<1>3. CASE Olcb_loop
  <2>1. CASE NothingReceived \/ ConsumeEvent \/ produceFromInputs
    BY <1>1, <2>1 DEF NothingReceived, ConsumeEvent, produceFromInputs, busVars
  <2>2. CASE AnswerAME
    BY <1>1, <2>2 DEF AnswerAME, Receive
  <2>3. CASE pce_check
    BY <1>1, <2>3 DEF pce_check, sendMessage
  <2>4. CASE dg_check \/ cfg_check
    BY <1>1, <2>4 DEF dg_check, cfg_check
  <2>5. CASE bg_check
    BY <1>1, <2>5 DEF bg_check, sendMessage, NoSend
  <2>6. CASE bg_reset
    BY <2>6 DEF bg_reset
  <2>7. CASE PIP_check
    BY <1>1, <2>7 DEF PIP_check, sendMessage, NoSend
  <2>8. CASE SNII_check
    BY <1>1, <2>8 DEF SNII_check, sendMessage, NoSend
  <2> QED
    BY <1>2, <1>3, <2>1, <2>2, <2>3, <2>4, <2>5, <2>6, <2>7, <2>8 DEF Olcb_loop
<1>4. CASE \E c \in Client, what \in Request : Ask(c, what)
  BY <1>4 DEF Ask, loopVars
<1>5. CASE Enquire \/ Transmit \/ Press \/ PressBlueGold \/ UNCHANGED vars
  BY <1>5 DEF Enquire, Transmit, Press, PressBlueGold, vars, loopVars, busVars
<1> QED
  BY <1>3, <1>4, <1>5 DEF Next

LEMMA LoopStep ==
  ASSUME LoopInv, [Next]_vars
  PROVE  LoopInv'
BY LoopActions, AfterIs DEF LoopInv

-----------------------------------------------------------------------------
(* The text of the identification                                          *)

Byte == SniiState \X Nat

LEMMA TextFromIs ==
  ASSUME zeros \in Texts, NEW state, NEW ptr \in 0 .. VarSize - 1
  PROVE  \E n \in Nat \ {0} :
           /\ TextFrom(state, ptr) = [k \in 1 .. n |-> <<state, ptr + k - 1>>]
           /\ ptr + n - 1 \in zeros
           /\ ptr + n - 1 <= VarSize - 1
           /\ \A k \in 1 .. n - 1 : ptr + k - 1 \notin zeros
<1>1. VarSize \in Nat /\ zeros \subseteq 0 .. VarSize - 1 /\ VarSize - 1 \in zeros
  BY NodeAssumption
<1> DEFINE Z == {z \in zeros : z >= ptr}
           last == CHOOSE z \in zeros : z >= ptr /\ \A y \in zeros : y >= ptr => z <= y
<1>2. Z \subseteq Nat /\ Z # {}
  <2>1. VarSize - 1 \in Z
    BY <1>1
  <2>2. Z \subseteq Nat
    <3>1. zeros \subseteq Nat
      BY <1>1
    <3> QED
      BY <3>1
  <2> QED
    <3> HIDE DEF Z
    <3> QED
      BY <2>1, <2>2
<1>3. \E z \in Z : \A y \in Z : z <= y
  <2> HIDE DEF Z
  <2> QED
    BY <1>2, NatMin
<1>4. \E x \in zeros : x >= ptr /\ \A y \in zeros : y >= ptr => x <= y
  BY <1>3
<1>5. last \in zeros /\ last >= ptr /\ \A y \in zeros : y >= ptr => last <= y
  BY <1>4
<1>6. TextFrom(state, ptr) = [k \in 1 .. last - ptr + 1 |-> <<state, ptr + k - 1>>]
  BY DEF TextFrom
<1> HIDE DEF last
<1>7. last \in 0 .. VarSize - 1
  BY <1>1, <1>5
<1>8. last - ptr + 1 \in Nat \ {0} /\ ptr + (last - ptr + 1) - 1 = last
  BY <1>1, <1>5, <1>7
<1>9. ASSUME NEW k \in 1 .. (last - ptr + 1) - 1
      PROVE  ptr + k - 1 \notin zeros
  <2>1. ptr + k - 1 >= ptr /\ ~(last <= ptr + k - 1)
    BY <1>1, <1>7
  <2> QED
    BY <1>5, <2>1
<1>10. PICK n : n = last - ptr + 1
  OBVIOUS
<1>11. /\ n \in Nat \ {0}
       /\ TextFrom(state, ptr) = [k \in 1 .. n |-> <<state, ptr + k - 1>>]
       /\ \A k \in 1 .. n - 1 : ptr + k - 1 \notin zeros
  BY <1>6, <1>8, <1>9, <1>10
<1>12. ptr + n - 1 = last
  BY <1>8, <1>10
<1>13. ptr + n - 1 \in zeros /\ ptr + n - 1 <= VarSize - 1
  BY <1>1, <1>5, <1>7, <1>12
<1> QED
  BY <1>11, <1>13

\* What follows byte k of an identification is byte k + 1, up to the end.
Consecutive(w) ==
  /\ w \in Seq(Byte)
  /\ w # <<>>
  /\ w[1] = <<"Const", 0>>
  /\ \A k \in 1 .. Len(w) : w[k][1] # "Done"
  /\ \A k \in 1 .. Len(w) - 1 : AfterByte(w[k][1], w[k][2]) = w[k + 1]
  /\ AfterByte(w[Len(w)][1], w[Len(w)][2])[1] = "Done"

\* r is p, of length m, followed by q, of length n.
Joined(r, p, q, m, n) ==
  /\ r \in Seq(Byte)
  /\ Len(r) = m + n
  /\ \A k \in 1 .. m : r[k] = p[k]
  /\ \A k \in 1 .. n : r[m + k] = q[k]

LEMMA ConcatIs ==
  ASSUME NEW p, NEW q, NEW m, NEW n,
         p \in Seq(Byte), q \in Seq(Byte), m = Len(p), n = Len(q)
  PROVE  Joined(p \o q, p, q, m, n)
<1>1. m \in Nat /\ n \in Nat
  OBVIOUS
<1>2. p \o q \in Seq(Byte) /\ Len(p \o q) = m + n
  OBVIOUS
<1>3. \A j \in 1 .. m + n : (p \o q)[j] = IF j <= m THEN p[j] ELSE q[j - m]
  OBVIOUS
<1>4. ASSUME NEW k \in 1 .. m
      PROVE  (p \o q)[k] = p[k]
  BY <1>1, <1>3
<1>5. ASSUME NEW k \in 1 .. n
      PROVE  (p \o q)[m + k] = q[k]
  <2>1. PICK j : j = m + k
    OBVIOUS
  <2>2. j \in 1 .. m + n /\ ~(j <= m) /\ j - m = k
    BY <1>1, <2>1
  <2>3. (p \o q)[j] = q[k]
    BY <1>3, <2>2
  <2> QED
    BY <2>1, <2>3
<1> QED
  BY <1>2, <1>4, <1>5 DEF Joined

LEMMA IdentificationParts ==
  ASSUME zeros \in Texts
  PROVE  \E n \in Nat \ {0}, m \in Nat \ {0} :
           /\ n - 1 \in zeros
           /\ \A k \in 1 .. n - 1 : k - 1 \notin zeros
           /\ VarOffset + m - 1 \in zeros
           /\ \A k \in 1 .. m - 1 : VarOffset + k - 1 \notin zeros
           /\ Identification \in Seq(Byte)
           /\ Len(Identification) = ConstCount + 1 + n + m
           /\ \A k \in 1 .. ConstCount : Identification[k] = <<"Const", k - 1>>
           /\ Identification[ConstCount + 1] = <<"Flag", ConstCount>>
           /\ \A k \in 1 .. n : Identification[ConstCount + 1 + k] = <<"Name", k - 1>>
           /\ \A k \in 1 .. m :
                Identification[ConstCount + 1 + n + k] = <<"Comment", VarOffset + k - 1>>
<1>1. /\ ConstCount \in Nat \ {0} /\ VarSize \in Nat /\ VarOffset \in 0 .. VarSize - 1
      /\ 0 \in 0 .. VarSize - 1
  BY NodeAssumption
<1>2. PICK n \in Nat \ {0} :
        /\ TextFrom("Name", 0) = [k \in 1 .. n |-> <<"Name", 0 + k - 1>>]
        /\ 0 + n - 1 \in zeros
        /\ \A k \in 1 .. n - 1 : 0 + k - 1 \notin zeros
  BY <1>1, TextFromIs
<1>3. PICK m \in Nat \ {0} :
        /\ TextFrom("Comment", VarOffset) = [k \in 1 .. m |-> <<"Comment", VarOffset + k - 1>>]
        /\ VarOffset + m - 1 \in zeros
        /\ \A k \in 1 .. m - 1 : VarOffset + k - 1 \notin zeros
  BY <1>1, TextFromIs
<1> DEFINE a == [k \in 1 .. ConstCount |-> <<"Const", k - 1>>]
           b == <<<<"Flag", ConstCount>>>>
           c == [k \in 1 .. n |-> <<"Name", 0 + k - 1>>]
           d == [k \in 1 .. m |-> <<"Comment", VarOffset + k - 1>>]
<1>4. a \in Seq(Byte) /\ Len(a) = ConstCount /\ \A k \in 1 .. ConstCount : a[k] = <<"Const", k - 1>>
  BY <1>1 DEF Byte, SniiState
<1>5. b \in Seq(Byte) /\ Len(b) = 1 /\ b[1] = <<"Flag", ConstCount>>
  BY <1>1 DEF Byte, SniiState
<1>6. c \in Seq(Byte) /\ Len(c) = n /\ \A k \in 1 .. n : c[k] = <<"Name", k - 1>>
  BY DEF Byte, SniiState
<1>7. d \in Seq(Byte) /\ Len(d) = m /\ \A k \in 1 .. m : d[k] = <<"Comment", VarOffset + k - 1>>
  BY <1>1 DEF Byte, SniiState
<1>8. Identification = ((a \o b) \o c) \o d
  BY <1>2, <1>3 DEF Identification
<1> HIDE DEF a, b, c, d
<1>9. /\ a \o b \in Seq(Byte) /\ Len(a \o b) = ConstCount + 1
      /\ \A k \in 1 .. ConstCount : (a \o b)[k] = <<"Const", k - 1>>
      /\ (a \o b)[ConstCount + 1] = <<"Flag", ConstCount>>
  <2>1. /\ a \o b \in Seq(Byte) /\ Len(a \o b) = ConstCount + 1
        /\ \A k \in 1 .. ConstCount : (a \o b)[k] = a[k]
        /\ \A k \in 1 .. 1 : (a \o b)[ConstCount + k] = b[k]
    <3>1. Joined(a \o b, a, b, ConstCount, 1)
      BY <1>4, <1>5, ConcatIs
    <3> QED
      BY <3>1 DEF Joined
  <2> QED
    BY <1>4, <1>5, <2>1
<1>10. PICK ab : ab = a \o b
  OBVIOUS
<1>11. /\ ab \o c \in Seq(Byte) /\ Len(ab \o c) = ConstCount + 1 + n
       /\ \A k \in 1 .. ConstCount : (ab \o c)[k] = <<"Const", k - 1>>
       /\ (ab \o c)[ConstCount + 1] = <<"Flag", ConstCount>>
       /\ \A k \in 1 .. n : (ab \o c)[ConstCount + 1 + k] = <<"Name", k - 1>>
  <2>1. /\ ab \o c \in Seq(Byte) /\ Len(ab \o c) = ConstCount + 1 + n
        /\ \A k \in 1 .. ConstCount + 1 : (ab \o c)[k] = ab[k]
        /\ \A k \in 1 .. n : (ab \o c)[ConstCount + 1 + k] = c[k]
    <3>1. Joined(ab \o c, ab, c, ConstCount + 1, n)
      BY <1>6, <1>9, <1>10, ConcatIs
    <3> QED
      BY <3>1 DEF Joined
  <2>2. \A k \in 1 .. ConstCount : k \in 1 .. ConstCount + 1
    BY <1>1
  <2>3. ConstCount + 1 \in 1 .. ConstCount + 1
    BY <1>1
  <2> QED
    BY <1>6, <1>9, <1>10, <2>1, <2>2, <2>3
<1>12. PICK abc : abc = ab \o c
  OBVIOUS
<1>13. Identification = abc \o d
  BY <1>8, <1>10, <1>12
<1>14. /\ abc \o d \in Seq(Byte) /\ Len(abc \o d) = ConstCount + 1 + n + m
       /\ \A k \in 1 .. ConstCount : (abc \o d)[k] = <<"Const", k - 1>>
       /\ (abc \o d)[ConstCount + 1] = <<"Flag", ConstCount>>
       /\ \A k \in 1 .. n : (abc \o d)[ConstCount + 1 + k] = <<"Name", k - 1>>
       /\ \A k \in 1 .. m :
            (abc \o d)[ConstCount + 1 + n + k] = <<"Comment", VarOffset + k - 1>>
  <2>1. /\ abc \o d \in Seq(Byte) /\ Len(abc \o d) = ConstCount + 1 + n + m
        /\ \A k \in 1 .. ConstCount + 1 + n : (abc \o d)[k] = abc[k]
        /\ \A k \in 1 .. m : (abc \o d)[ConstCount + 1 + n + k] = d[k]
    <3>1. Joined(abc \o d, abc, d, ConstCount + 1 + n, m)
      BY <1>7, <1>11, <1>12, ConcatIs
    <3> QED
      BY <3>1 DEF Joined
  <2>2. \A k \in 1 .. ConstCount : k \in 1 .. ConstCount + 1 + n
    BY <1>1
  <2>3. ConstCount + 1 \in 1 .. ConstCount + 1 + n
    BY <1>1
  <2>4. \A k \in 1 .. n : ConstCount + 1 + k \in 1 .. ConstCount + 1 + n
    BY <1>1
  <2> QED
    BY <1>7, <1>11, <1>12, <2>1, <2>2, <2>3, <2>4
<1>15. n - 1 \in zeros /\ \A k \in 1 .. n - 1 : k - 1 \notin zeros
  BY <1>2
<1> QED
  BY <1>3, <1>13, <1>14, <1>15

LEMMA IdentificationIs ==
  ASSUME zeros \in Texts
  PROVE  Consecutive(Identification)
<1>1. ConstCount \in Nat \ {0} /\ VarOffset \in Nat
  BY NodeAssumption
<1>2. PICK n \in Nat \ {0}, m \in Nat \ {0} :
           /\ n - 1 \in zeros
           /\ \A k \in 1 .. n - 1 : k - 1 \notin zeros
           /\ VarOffset + m - 1 \in zeros
           /\ \A k \in 1 .. m - 1 : VarOffset + k - 1 \notin zeros
           /\ Identification \in Seq(Byte)
           /\ Len(Identification) = ConstCount + 1 + n + m
           /\ \A k \in 1 .. ConstCount : Identification[k] = <<"Const", k - 1>>
           /\ Identification[ConstCount + 1] = <<"Flag", ConstCount>>
           /\ \A k \in 1 .. n : Identification[ConstCount + 1 + k] = <<"Name", k - 1>>
           /\ \A k \in 1 .. m :
                Identification[ConstCount + 1 + n + k] = <<"Comment", VarOffset + k - 1>>
  BY IdentificationParts
<1> DEFINE w == Identification
           L == ConstCount + 1 + n + m
           Next1(k) == AfterByte(w[k][1], w[k][2])
<1>3. ASSUME NEW k \in 1 .. ConstCount
      PROVE  w[k][1] # "Done" /\ Next1(k) = w[k + 1]
  <2>1. w[k] = <<"Const", k - 1>>
    BY <1>2
  <2>2. Next1(k) = IF k - 1 + 1 >= ConstCount THEN <<"Flag", k - 1 + 1>> ELSE <<"Const", k - 1 + 1>>
    BY <2>1 DEF AfterByte
  <2>3. CASE k = ConstCount
    BY <1>1, <1>2, <2>1, <2>2, <2>3
  <2>4. CASE k # ConstCount
    <3>1. k + 1 \in 1 .. ConstCount /\ k - 1 + 1 = k /\ ~(k >= ConstCount)
      BY <1>1, <2>4
    <3>2. w[k + 1] = <<"Const", k + 1 - 1>>
      BY <1>2, <3>1
    <3> QED
      BY <2>1, <2>2, <3>1, <3>2
  <2> QED
    BY <2>3, <2>4
<1>4. w[ConstCount + 1][1] # "Done" /\ Next1(ConstCount + 1) = w[ConstCount + 1 + 1]
  <2>1. Next1(ConstCount + 1) = <<"Name", 0>>
    BY <1>2 DEF AfterByte
  <2>2. 1 \in 1 .. n
    BY <1>2
  <2>3. w[ConstCount + 1 + 1] = <<"Name", 0>>
    BY <1>2, <2>2
  <2> QED
    BY <1>2, <2>1, <2>3
<1>5. ASSUME NEW k \in 1 .. n
      PROVE  w[ConstCount + 1 + k][1] # "Done"
             /\ Next1(ConstCount + 1 + k) = w[ConstCount + 1 + k + 1]
  <2>1. w[ConstCount + 1 + k] = <<"Name", k - 1>>
    BY <1>2
  <2>2. Next1(ConstCount + 1 + k) =
          IF k - 1 \in zeros THEN <<"Comment", VarOffset>> ELSE <<"Name", k - 1 + 1>>
    BY <2>1 DEF AfterByte
  <2>3. CASE k = n
    <3>1. 1 \in 1 .. m /\ VarOffset + 1 - 1 = VarOffset
      BY <1>1, <1>2
    <3>2. w[ConstCount + 1 + n + 1] = <<"Comment", VarOffset>>
      BY <1>2, <3>1
    <3> QED
      BY <1>2, <2>1, <2>2, <2>3, <3>2
  <2>4. CASE k # n
    <3>1. k + 1 \in 1 .. n /\ k \in 1 .. n - 1 /\ k + 1 - 1 = k - 1 + 1
          /\ ConstCount + 1 + k + 1 = ConstCount + 1 + (k + 1)
      BY <1>1, <1>2, <2>4
    <3>2. w[ConstCount + 1 + (k + 1)] = <<"Name", k + 1 - 1>> /\ k - 1 \notin zeros
      BY <1>2, <3>1
    <3> QED
      BY <2>1, <2>2, <3>1, <3>2
  <2> QED
    BY <2>3, <2>4
<1>6. ASSUME NEW k \in 1 .. m
      PROVE  /\ w[ConstCount + 1 + n + k][1] # "Done"
             /\ k # m => Next1(ConstCount + 1 + n + k) = w[ConstCount + 1 + n + k + 1]
             /\ k = m => Next1(ConstCount + 1 + n + k)[1] = "Done"
  <2>1. w[ConstCount + 1 + n + k] = <<"Comment", VarOffset + k - 1>>
    BY <1>2
  <2>2. Next1(ConstCount + 1 + n + k) =
          IF VarOffset + k - 1 \in zeros THEN <<"Done", VarOffset + k - 1 + 1>>
          ELSE <<"Comment", VarOffset + k - 1 + 1>>
    BY <2>1 DEF AfterByte
  <2>3. CASE k = m
    BY <1>2, <2>1, <2>2, <2>3
  <2>4. CASE k # m
    <3>1. /\ k + 1 \in 1 .. m /\ k \in 1 .. m - 1
          /\ VarOffset + (k + 1) - 1 = VarOffset + k - 1 + 1
          /\ ConstCount + 1 + n + k + 1 = ConstCount + 1 + n + (k + 1)
      <4>1. k \in Nat /\ m \in Nat /\ n \in Nat /\ 1 <= k /\ k < m
        BY <2>4
      <4> QED
        BY <1>1, <4>1
    <3>2. w[ConstCount + 1 + n + (k + 1)] = <<"Comment", VarOffset + (k + 1) - 1>>
          /\ VarOffset + k - 1 \notin zeros
      BY <1>2, <3>1
    <3> QED
      BY <2>1, <2>2, <2>4, <3>1, <3>2
  <2> QED
    BY <2>3, <2>4
<1> HIDE DEF Next1
<1>7. ASSUME NEW k \in 1 .. L
      PROVE  /\ w[k][1] # "Done"
             /\ k # L => Next1(k) = w[k + 1]
             /\ k = L => Next1(k)[1] = "Done"
  <2>1. CASE k <= ConstCount
    BY <1>1, <1>2, <1>3, <2>1
  <2>2. CASE k = ConstCount + 1
    BY <1>1, <1>2, <1>4, <2>2
  <2>3. CASE k > ConstCount + 1 /\ k <= ConstCount + 1 + n
    <3>1. PICK j \in 1 .. n : k = ConstCount + 1 + j
      <4>1. k - ConstCount - 1 \in 1 .. n /\ k = ConstCount + 1 + (k - ConstCount - 1)
        BY <1>1, <1>2, <2>3
      <4> QED
        BY <4>1
    <3>2. k # L
      BY <1>1, <1>2, <2>3
    <3> QED
      BY <1>5, <3>1, <3>2
  <2>4. CASE k > ConstCount + 1 + n
    <3>1. PICK j \in 1 .. m : k = ConstCount + 1 + n + j
      <4>1. k - ConstCount - 1 - n \in 1 .. m /\ k = ConstCount + 1 + n + (k - ConstCount - 1 - n)
        BY <1>1, <1>2, <2>4
      <4> QED
        BY <4>1
    <3>2. k = L <=> j = m
      BY <1>1, <1>2, <3>1
    <3> QED
      BY <1>6, <3>1, <3>2
  <2> QED
    BY <1>1, <1>2, <2>1, <2>2, <2>3, <2>4
<1>8. L \in Nat \ {0} /\ L = Len(w) /\ 1 \in 1 .. ConstCount
  BY <1>1, <1>2
<1>9. w[1] = <<"Const", 0>>
  BY <1>2, <1>8
<1>10. /\ w \in Seq(Byte)
       /\ w # <<>>
  BY <1>2, <1>8
<1> HIDE DEF w, L
<1>11. \A k \in 1 .. L : w[k][1] # "Done"
  BY <1>7
<1>12. \A k \in 1 .. L - 1 : Next1(k) = w[k + 1]
  <2>1. ASSUME NEW k \in 1 .. L - 1
        PROVE  Next1(k) = w[k + 1]
    <3>1. k \in 1 .. L /\ k # L
      BY <1>8
    <3> QED
      BY <1>7, <3>1
  <2> QED
    BY <2>1
<1>13. Next1(L)[1] = "Done"
  <2>1. L \in 1 .. L
    BY <1>8
  <2> QED
    BY <1>7, <2>1
<1>14. Consecutive(w)
  BY <1>8, <1>9, <1>10, <1>11, <1>12, <1>13 DEF Consecutive, Next1
<1> QED
  BY <1>14 DEF w

\* The text so far is the beginning of the identification, and the byte the
\* reply goes on with is the next one.
Progress(t, at) ==
  /\ t \in Seq(Byte)
  /\ at[1] = "Done" => t = Identification
  /\ at[1] # "Done" =>
       /\ Len(t) < Len(Identification)
       /\ \A j \in 1 .. Len(t) : t[j] = Identification[j]
       /\ at = Identification[Len(t) + 1]

\* The place a reply has come to: a number for each state.
Placed(state, ptr) ==
  /\ state \in SniiState
  /\ ptr \in Nat
  /\ state = "Const" => ptr < ConstCount
  /\ state = "Flag" => ptr = ConstCount
  /\ state \in {"Name", "Comment"} => ptr < VarSize
  /\ state = "Done" => ptr <= VarSize

SniiInv ==
  /\ zeros \in Texts
  /\ snii \in [state : SniiState, ptr : Nat, dest : Client \cup {Nobody}]
  /\ Placed(snii.state, snii.ptr)
  /\ text \in Seq(Byte)
  /\ torn \in BOOLEAN
  /\ torn => text = <<>>
  /\ snii.state # "Done" /\ ~torn => Progress(text, <<snii.state, snii.ptr>>)
  /\ snii.state = "Done" /\ text # <<>> => text = Identification

LEMMA AfterBytePlaced ==
  ASSUME zeros \in Texts, NEW state, NEW ptr, Placed(state, ptr), state # "Done"
  PROVE  /\ AfterByte(state, ptr) = <<AfterByte(state, ptr)[1], AfterByte(state, ptr)[2]>>
         /\ Placed(AfterByte(state, ptr)[1], AfterByte(state, ptr)[2])
<1>1. /\ ConstCount \in Nat \ {0} /\ VarSize \in Nat /\ VarOffset \in 0 .. VarSize - 1
      /\ VarSize - 1 \in zeros /\ 0 < VarSize /\ VarOffset < VarSize /\ VarOffset \in Nat
  BY NodeAssumption
<1>2. ptr \in Nat
  BY DEF Placed
<1>3. CASE state = "Const"
  BY <1>1, <1>2, <1>3 DEF Placed, AfterByte, SniiState
<1>4. CASE state = "Flag"
  BY <1>1, <1>2, <1>4 DEF Placed, AfterByte, SniiState
<1>5. CASE state \in {"Name", "Comment"}
  <2>1. ptr \notin zeros => ptr + 1 < VarSize
    <3>1. ptr # VarSize - 1 => ptr + 1 < VarSize
      BY <1>1, <1>2, <1>5 DEF Placed
    <3> QED
      BY <1>1, <3>1
  <2>2. ptr + 1 <= VarSize /\ ptr + 1 \in Nat
    BY <1>1, <1>2, <1>5 DEF Placed
  <2>3. CASE state = "Name"
    BY <1>1, <2>1, <2>2, <2>3 DEF Placed, AfterByte, SniiState
  <2>4. CASE state = "Comment"
    BY <1>1, <2>1, <2>2, <2>4 DEF Placed, AfterByte, SniiState
  <2> QED
    BY <1>5, <2>3, <2>4
<1> QED
  BY <1>3, <1>4, <1>5 DEF Placed, SniiState

LEMMA AfterByteProgress ==
  ASSUME zeros \in Texts, NEW t, NEW at \in Byte, Progress(t, at), at[1] # "Done"
  PROVE  Progress(Append(t, at), AfterByte(at[1], at[2]))
<1> DEFINE w == Identification
           L == Len(w)
           u == Append(t, at)
           l == Len(t)
           next == AfterByte(at[1], at[2])
<1>1. /\ w \in Seq(Byte)
      /\ \A k \in 1 .. L : w[k][1] # "Done"
      /\ \A k \in 1 .. L - 1 : AfterByte(w[k][1], w[k][2]) = w[k + 1]
      /\ AfterByte(w[L][1], w[L][2])[1] = "Done"
  BY IdentificationIs DEF Consecutive
<1>2. /\ t \in Seq(Byte) /\ l < L
      /\ \A j \in 1 .. l : t[j] = w[j]
      /\ at = w[l + 1]
  BY DEF Progress
<1> HIDE DEF w
<1>3. L \in Nat /\ l \in Nat
  BY <1>1, <1>2
<1>4. /\ u \in Seq(Byte) /\ Len(u) = l + 1 /\ u[l + 1] = at
      /\ \A j \in 1 .. l : u[j] = t[j]
  BY <1>2
<1> HIDE DEF L, l, u
<1>5. \A j \in 1 .. l + 1 : u[j] = w[j]
  <2>1. ASSUME NEW j \in 1 .. l + 1
        PROVE  u[j] = w[j]
    <3>1. CASE j = l + 1
      BY <1>2, <1>4, <3>1
    <3>2. CASE j # l + 1
      <4>1. j \in 1 .. l
        BY <1>3, <3>2
      <4> QED
        BY <1>2, <1>4, <4>1
    <3> QED
      BY <3>1, <3>2
  <2> QED
    BY <2>1
<1>6. CASE l + 1 = L
  <2>1. next[1] = "Done"
    BY <1>1, <1>2, <1>6
  <2>2. u = w
    BY <1>1, <1>4, <1>5, <1>6 DEF L
  <2> HIDE DEF next
  <2> QED
    BY <1>4, <2>1, <2>2 DEF Progress, w, u, next
<1>7. CASE l + 1 # L
  <2>1. l + 1 \in 1 .. L - 1 /\ l + 1 + 1 \in 1 .. L /\ l + 1 < L
    BY <1>2, <1>3, <1>7
  <2>2. next = w[l + 1 + 1] /\ next[1] # "Done"
    BY <1>1, <1>2, <2>1
  <2> HIDE DEF next
  <2>3. Len(u) < Len(w)
    BY <1>4, <2>1 DEF L
  <2>4. next = w[Len(u) + 1]
    BY <1>4, <2>2
  <2>5. Progress(u, next)
    BY <1>4, <1>5, <2>2, <2>3, <2>4 DEF Progress, w
  <2> QED
    BY <2>5 DEF u, next
<1> QED
  BY <1>6, <1>7

RunStart == [at |-> <<snii.state, snii.ptr>>, bytes |-> <<>>]

RunStep(r) ==
  IF r.at[1] = "Done" THEN r
  ELSE [at |-> AfterByte(r.at[1], r.at[2]), bytes |-> Append(r.bytes, r.at)]

IsRun(f, n) == f = [k \in 0 .. n |-> IF k = 0 THEN RunStart ELSE RunStep(f[k - 1])]

LEMMA RunDefined ==
  ASSUME NEW N \in Nat
  PROVE  \E f : IsRun(f, N)
<1> DEFINE T == {n \in Nat : \E f : IsRun(f, n)}
<1>1. IsRun([k \in 0 .. 0 |-> RunStart], 0)
  BY DEF IsRun
<1>2. 0 \in T
  BY <1>1
<1>3. ASSUME NEW n \in T
      PROVE  n + 1 \in T
  <2>1. n \in Nat
    OBVIOUS
  <2>2. PICK f : IsRun(f, n)
    BY <1>3
  <2> DEFINE g == [k \in 0 .. n + 1 |-> IF k = 0 THEN RunStart ELSE RunStep(f[k - 1])]
  <2>3. \A k \in 0 .. n : g[k] = f[k]
    BY <2>2 DEF IsRun
  <2>4. ASSUME NEW k \in 0 .. n + 1
        PROVE  g[k] = IF k = 0 THEN RunStart ELSE RunStep(g[k - 1])
    <3>1. CASE k = 0
      BY <3>1, <2>1
    <3>2. CASE k # 0
      <4>1. k - 1 \in 0 .. n
        BY <3>2, <2>1
      <4>2. g[k - 1] = f[k - 1]
        BY <4>1, <2>3
      <4>3. g[k] = RunStep(f[k - 1])
        BY <3>2
      <4> HIDE DEF g
      <4> QED
        BY <3>2, <4>2, <4>3
    <3> QED
      BY <3>1, <3>2
  <2>5. IsRun(g, n + 1)
    <3>1. g = [k \in 0 .. n + 1 |-> g[k]]
      OBVIOUS
    <3> HIDE DEF g
    <3> QED
      BY <2>4, <3>1 DEF IsRun
  <2> QED
    BY <2>5, <2>1
<1>4. T = Nat
  <2> HIDE DEF T
  <2> QED
    BY <1>2, <1>3, Induction DEF T
<1> QED
  BY <1>4

LEMMA SniiRunIs ==
  ASSUME FrameBytes \in Nat
  PROVE  \E f : IsRun(f, FrameBytes) /\ SniiRun = f[FrameBytes]
<1> DEFINE run[k \in 0 .. FrameBytes] ==
        IF k = 0 THEN [at |-> <<snii.state, snii.ptr>>, bytes |-> <<>>]
        ELSE LET before == run[k - 1]
             IN  IF before.at[1] = "Done" THEN before
                 ELSE [at |-> AfterByte(before.at[1], before.at[2]),
                       bytes |-> Append(before.bytes, before.at)]
<1>1. \E f : f = [k \in 0 .. FrameBytes |->
        IF k = 0 THEN [at |-> <<snii.state, snii.ptr>>, bytes |-> <<>>]
        ELSE LET before == f[k - 1]
             IN  IF before.at[1] = "Done" THEN before
                 ELSE [at |-> AfterByte(before.at[1], before.at[2]),
                       bytes |-> Append(before.bytes, before.at)]]
  BY RunDefined DEF IsRun, RunStart, RunStep
<1>2. run = [k \in 0 .. FrameBytes |->
        IF k = 0 THEN [at |-> <<snii.state, snii.ptr>>, bytes |-> <<>>]
        ELSE LET before == run[k - 1]
             IN  IF before.at[1] = "Done" THEN before
                 ELSE [at |-> AfterByte(before.at[1], before.at[2]),
                       bytes |-> Append(before.bytes, before.at)]]
  BY <1>1
<1>3. IsRun(run, FrameBytes)
  BY <1>2 DEF IsRun, RunStart, RunStep
<1>4. SniiRun = run[FrameBytes]
  BY DEF SniiRun
<1> QED
  BY <1>3, <1>4

\* What has been put into the frame goes on from what was sent before.
Ran(r) ==
  /\ r = [at |-> r.at, bytes |-> r.bytes]
  /\ r.at = <<r.at[1], r.at[2]>>
  /\ Placed(r.at[1], r.at[2])
  /\ r.bytes \in Seq(Byte)
  /\ ~torn => Progress(text \o r.bytes, r.at)

LEMMA AppendConcat ==
  ASSUME NEW p, NEW q, NEW x, p \in Seq(Byte), q \in Seq(Byte), x \in Byte
  PROVE  p \o Append(q, x) = Append(p \o q, x)
<1>1. /\ p \o Append(q, x) \in Seq(Byte) /\ Append(p \o q, x) \in Seq(Byte)
      /\ Len(p \o Append(q, x)) = Len(p) + Len(q) + 1
      /\ Len(Append(p \o q, x)) = Len(p) + Len(q) + 1
      /\ Len(p) \in Nat /\ Len(q) \in Nat
  OBVIOUS
<1>2. ASSUME NEW j \in 1 .. Len(p) + Len(q) + 1
      PROVE  (p \o Append(q, x))[j] = Append(p \o q, x)[j]
  <2>1. CASE j <= Len(p)
    BY <1>1, <2>1
  <2>2. CASE j > Len(p) /\ j <= Len(p) + Len(q)
    BY <1>1, <2>2
  <2>3. CASE j = Len(p) + Len(q) + 1
    BY <1>1, <2>3
  <2> QED
    BY <1>1, <2>1, <2>2, <2>3
<1> QED
  BY <1>1, <1>2

LEMMA RunStepRan ==
  ASSUME SniiInv, NEW r, Ran(r)
  PROVE  Ran(RunStep(r))
<1>1. CASE r.at[1] = "Done"
  BY <1>1 DEF RunStep
<1>2. CASE r.at[1] # "Done"
  <2> DEFINE next == AfterByte(r.at[1], r.at[2])
  <2>1. RunStep(r) = [at |-> next, bytes |-> Append(r.bytes, r.at)]
    BY <1>2 DEF RunStep
  <2>2. next = <<next[1], next[2]>> /\ Placed(next[1], next[2])
    BY <1>2, AfterBytePlaced DEF SniiInv, Ran
  <2>3. r.at \in Byte
    BY DEF Ran, Placed, Byte
  <2>4. Append(r.bytes, r.at) \in Seq(Byte)
    BY <2>3 DEF Ran
  <2>5. ASSUME ~torn
        PROVE  Progress(text \o Append(r.bytes, r.at), next)
    <3>1. Progress(text \o r.bytes, r.at)
      BY <2>5 DEF Ran
    <3>2. Progress(Append(text \o r.bytes, r.at), next)
      BY <1>2, <2>3, <3>1, AfterByteProgress DEF SniiInv
    <3>3. text \o Append(r.bytes, r.at) = Append(text \o r.bytes, r.at)
      BY <2>3, AppendConcat DEF SniiInv, Ran
    <3> QED
      BY <3>2, <3>3
  <2> HIDE DEF next
  <2> QED
    BY <2>1, <2>2, <2>4, <2>5 DEF Ran
<1> QED
  BY <1>1, <1>2

LEMMA SniiRunRan ==
  ASSUME SniiInv, snii.state # "Done"
  PROVE  Ran(SniiRun)
<1>1. FrameBytes \in Nat
  BY NodeAssumption
<1>2. PICK f : IsRun(f, FrameBytes) /\ SniiRun = f[FrameBytes]
  BY <1>1, SniiRunIs
<1> DEFINE T == {k \in 0 .. FrameBytes : Ran(f[k])}
<1>3. 0 \in T
  <2>1. f[0] = RunStart
    BY <1>1, <1>2 DEF IsRun
  <2>2. text \o <<>> = text
    BY DEF SniiInv
  <2>3. Ran(RunStart)
    BY <2>2 DEF Ran, RunStart, SniiInv
  <2> QED
    BY <1>1, <2>1, <2>3
<1>4. ASSUME NEW k \in 0 .. FrameBytes - 1, k \in T
      PROVE  k + 1 \in T
  <2> DEFINE j == k + 1
  <2>1. j \in 0 .. FrameBytes /\ j # 0 /\ j - 1 = k
    BY <1>1
  <2> HIDE DEF j
  <2>2. f[j] = RunStep(f[j - 1])
    BY <1>2, <2>1 DEF IsRun
  <2>3. Ran(f[j])
    BY <1>4, <2>1, <2>2, RunStepRan
  <2> QED
    BY <2>1, <2>3 DEF j
<1>5. \A k \in 0 .. FrameBytes : k \in T
  <2> HIDE DEF T
  <2> QED
    BY <1>1, <1>3, <1>4, InductionTo
<1> QED
  BY <1>1, <1>2, <1>5

LEMMA NoSniiIs ==
  /\ NoSnii \in [state : SniiState, ptr : Nat, dest : Client \cup {Nobody}]
  /\ NoSnii.state = "Done"
  /\ Placed(NoSnii.state, NoSnii.ptr)
  /\ <<>> \in Seq(Byte)
<1>1. VarSize \in Nat
  BY NodeAssumption
<1> QED
  BY <1>1 DEF NoSnii, SniiState, Placed

LEMMA SniiInit == Init => SniiInv
<1> SUFFICES ASSUME Init PROVE SniiInv
  OBVIOUS
<1>1. zeros \in Texts
  <2>1. PICK s \in Settings : zeros \in s.texts
    BY DEF Init
  <2>2. s \in [parts : SUBSET Part, asks : SUBSET (Client \X Request), texts : SUBSET Texts]
    BY NodeAssumption
  <2> QED
    BY <2>1, <2>2
<1>2. snii = NoSnii /\ text = <<>> /\ torn = FALSE
  BY DEF Init
<1> QED
  BY <1>1, <1>2, NoSniiIs DEF SniiInv

\* The handlers that have to do with the identification.
LEMMA SniiActions ==
  ASSUME [Next]_vars
  PROVE  \/ SNII_check
         \/ \E c \in Client : SNII_receivedFrame(c)
         \/ processWrite
         \/ bg_reset
         \/ UNCHANGED <<sniiVars, zeros>>
<1>1. ASSUME NEW c \in Client, ReceiveFrom(c), ~SNII_receivedFrame(c)
      PROVE  UNCHANGED <<sniiVars, zeros>>
  BY <1>1 DEF ReceiveFrom, RejectOther, ReceiveAck, ReceiveNak, receivedDatagram,
              PIP_receivedFrame, SNII_reject, configVars
<1>2. CASE Olcb_loop
  <2>1. CASE NothingReceived \/ AnswerAME \/ ConsumeEvent
    BY <2>1 DEF NothingReceived, AnswerAME, ConsumeEvent, configVars
  <2>2. CASE pce_check \/ dg_check \/ bg_check \/ PIP_check \/ produceFromInputs
    BY <2>2 DEF pce_check, dg_check, bg_check, PIP_check, produceFromInputs, configVars
  <2>3. CASE cfg_check
    BY <2>3 DEF cfg_check, processRead, KeepRequest, configVars
  <2> QED
    BY <1>1, <1>2, <2>1, <2>2, <2>3 DEF Olcb_loop
<1>3. CASE \E c \in Client, what \in Request : Ask(c, what)
  BY <1>3 DEF Ask, configVars
<1>4. CASE Enquire \/ Transmit \/ Press \/ PressBlueGold \/ UNCHANGED vars
  BY <1>4 DEF Enquire, Transmit, Press, PressBlueGold, vars, configVars
<1> QED
  BY <1>2, <1>3, <1>4 DEF Next

LEMMA SniiSend ==
  ASSUME SniiInv, SNII_check
  PROVE  SniiInv'
<1>1. zeros' = zeros
  BY DEF SNII_check, configVars
<1>2. Identification' = Identification
  BY <1>1 DEF Identification, TextFrom
<1>3. CASE UNCHANGED sniiVars
  BY <1>1, <1>2, <1>3 DEF sniiVars, SniiInv, Progress, Placed
<1>4. CASE snii.state # "Done" /\ ~UNCHANGED sniiVars
  <2> DEFINE r == SniiRun
  <2>1. /\ snii' = [snii EXCEPT !.state = r.at[1], !.ptr = r.at[2]]
        /\ text' = IF torn THEN <<>> ELSE text \o r.bytes
        /\ torn' = torn
    BY <1>4 DEF SNII_check
  <2>2. Ran(r)
    BY <1>4, SniiRunRan
  <2> HIDE DEF r
  <2>3. /\ snii' = [state |-> r.at[1], ptr |-> r.at[2], dest |-> snii.dest]
        /\ r.at = <<r.at[1], r.at[2]>>
        /\ Placed(r.at[1], r.at[2])
    BY <2>1, <2>2 DEF SniiInv, Ran
  <2>4. snii' \in [state : SniiState, ptr : Nat, dest : Client \cup {Nobody}]
    BY <2>3 DEF SniiInv, Placed
  <2>5. snii'.state = r.at[1] /\ snii'.ptr = r.at[2]
    BY <2>3
  <2>6. Placed(snii.state, snii.ptr)'
    BY <2>3, <2>5 DEF Placed
  <2>7. CASE torn
    BY <1>1, <2>1, <2>4, <2>6, <2>7 DEF SniiInv
  <2>8. CASE ~torn
    <3>1. text' = text \o r.bytes
      BY <2>1, <2>8
    <3>2. text' \in Seq(Byte)
      BY <2>2, <3>1 DEF SniiInv, Ran
    <3>3. Progress(text', r.at)
      BY <2>2, <2>8, <3>1 DEF Ran
    <3>4. snii'.state = "Done" => text' = Identification'
      BY <1>2, <2>5, <3>3 DEF Progress
    <3>5. snii'.state # "Done" => Progress(text, <<snii.state, snii.ptr>>)'
      BY <1>2, <2>3, <2>5, <3>3 DEF Progress
    <3> QED
      BY <1>1, <2>1, <2>4, <2>6, <2>8, <3>2, <3>4, <3>5 DEF SniiInv
  <2> QED
    BY <2>7, <2>8 DEF SniiInv
<1> QED
  BY <1>3, <1>4 DEF SNII_check

LEMMA SniiAsked ==
  ASSUME SniiInv, NEW c \in Client, SNII_receivedFrame(c)
  PROVE  SniiInv'
<1>1. /\ snii' = [state |-> "Const", ptr |-> 0, dest |-> c]
      /\ text' = <<>> /\ torn' = FALSE /\ zeros' = zeros
  BY DEF SNII_receivedFrame, configVars
<1>2. Identification' = Identification
  BY <1>1 DEF Identification, TextFrom
<1>3. ConstCount \in Nat \ {0}
  BY NodeAssumption
<1>4. Identification \in Seq(Byte) /\ Identification # <<>> /\ Identification[1] = <<"Const", 0>>
  BY IdentificationIs DEF SniiInv, Consecutive
<1>5. Len(<<>>) < Len(Identification) /\ Len(<<>>) = 0
  BY <1>4
<1>6. Progress(<<>>, <<"Const", 0>>)
  BY <1>4, <1>5 DEF Progress
<1>7. Progress(text, <<snii.state, snii.ptr>>)'
  BY <1>1, <1>2, <1>6 DEF Progress
<1>8. Placed("Const", 0)
  BY <1>3 DEF Placed, SniiState
<1>9. Placed(snii.state, snii.ptr)'
  BY <1>1, <1>8 DEF Placed
<1>10. snii' \in [state : SniiState, ptr : Nat, dest : Client \cup {Nobody}]
  BY <1>1 DEF SniiState
<1>11. snii'.state # "Done" /\ text' \in Seq(Byte) /\ torn' \in BOOLEAN /\ ~torn'
  BY <1>1, NoSniiIs
<1>12. zeros' \in Texts
  BY <1>1 DEF SniiInv
<1> QED
  BY <1>7, <1>9, <1>10, <1>11, <1>12 DEF SniiInv

LEMMA SniiWritten ==
  ASSUME SniiInv, processWrite
  PROVE  SniiInv'
<1>1. zeros' \in Texts /\ torn' = (snii.state # "Done") /\ text' = <<>> /\ snii' = snii
  BY DEF processWrite
<1>2. torn' \in BOOLEAN /\ (torn' <=> snii'.state # "Done")
  BY <1>1
<1> QED
  BY <1>1, <1>2 DEF SniiInv, Placed

LEMMA SniiReset ==
  ASSUME SniiInv, bg_reset
  PROVE  SniiInv'
<1>1. snii' = NoSnii /\ text' = <<>> /\ torn' = FALSE /\ zeros' = zeros
  BY DEF bg_reset
<1>2. Placed(snii.state, snii.ptr)'
  BY <1>1, NoSniiIs DEF Placed
<1> QED
  BY <1>1, <1>2, NoSniiIs DEF SniiInv

LEMMA SniiStep ==
  ASSUME SniiInv, [Next]_vars
  PROVE  SniiInv'
<1>1. ASSUME UNCHANGED <<sniiVars, zeros>>
      PROVE  SniiInv'
  <2>1. Identification' = Identification
    BY <1>1 DEF Identification, TextFrom
  <2> QED
    BY <1>1, <2>1 DEF sniiVars, SniiInv, Progress, Placed
<1> QED
  BY <1>1, SniiActions, SniiSend, SniiAsked, SniiWritten, SniiReset

\* A complete identification has every byte once and in order, however the
\* frames fall and whatever is sent between them, unless the user's texts
\* were written meanwhile.
THEOREM IdentificationWhole == Spec => []IdentifiesWhole
<1>1. SniiInv => IdentifiesWhole
  BY DEF SniiInv, IdentifiesWhole
<1> QED
  BY <1>1, SniiInit, SniiStep, PTL DEF Spec

-----------------------------------------------------------------------------
(* Who is sent an answer                                                   *)
(*                                                                         *)
(* Each client waits for one thing at a time, and that request is in one   *)
(* place: with the driver, with one of the handlers, or answered by a      *)
(* frame that waits to be sent. A step takes a request from its place (the *)
(* client is then free) and puts it into the next one.                     *)

\* Configuration's request, if it is one that a client waits for
Unserved(r) == IF r.what \in {"Read", "Write"} THEN r ELSE NoRequest

\* Whom the identification is sent to
Identifying(n) == IF n.state = "Done" THEN Nobody ELSE n.dest

\* The part of a state that has to do with requests and answers
Now ==
  [rx |-> rxq, tx |-> txq, waits |-> waits, got |-> got, rq |-> Unserved(request),
   reserved |-> reservedXmt, count |-> sendcount, dest |-> dest, sn |-> Identifying(snii),
   pip |-> pip]

Someone == Client \cup {Nobody}

RxFrame == [what : Request \cup {"AME", "Ack", "Nak"}, from : Someone]

TxFrame ==
  [type : {"CAN", "OpenLcb"},
   what : {"AMD", "Reject", "Report", "Ident", "Segment", "RcvOk", "Pip", "Snii"},
   to : Someone, part : Nat]

Typed(s) ==
  s \in [rx : Seq(RxFrame), tx : Seq(TxFrame),
         waits : [Client -> Request \cup {"none"}], got : [Client -> 0 .. ReplyLength],
         rq : [what : {"none", "Read", "Write"}, from : Someone],
         reserved : BOOLEAN, count : 0 .. ReplyLength, dest : Someone,
         sn : Someone, pip : Someone]

\* The last frame of an answer
IsAnswer(f) == f.what \in {"Reject", "Pip"} \/ (f.what = "Snii" /\ f.part = 1)

HasSegment(s) == \E i \in 1 .. Len(s.tx) : s.tx[i].what = "Segment"

Replying(s) ==
  s.count > 0 \/ HasSegment(s) \/ \E i \in 1 .. Len(s.rx) : s.rx[i].what = "Nak"

Asking(s, c) == \E i \in 1 .. Len(s.rx) : s.rx[i].what \in Request /\ s.rx[i].from = c

Served(s, c) ==
  \/ s.rq.what # "none" /\ s.rq.from = c
  \/ Replying(s) /\ s.dest = c
  \/ s.sn = c
  \/ s.pip = c

Answered(s, c) == \E i \in 1 .. Len(s.tx) : IsAnswer(s.tx[i]) /\ s.tx[i].to = c

\* c waits for w, but nobody has its request.
Free(s, c, w) ==
  /\ c \in Client
  /\ w \in Request
  /\ s.waits[c] = w
  /\ ~Asking(s, c)
  /\ ~Served(s, c)
  /\ ~Answered(s, c)
  /\ s.got[c] = 0

\* What a request waits in is all there is of it.
AskedOnce(s) ==
  \A i \in 1 .. Len(s.rx) : s.rx[i].what \in Request =>
    /\ s.rx[i].from \in Client
    /\ s.waits[s.rx[i].from] = s.rx[i].what
    /\ ~Served(s, s.rx[i].from)
    /\ ~Answered(s, s.rx[i].from)
    /\ s.got[s.rx[i].from] = 0
    /\ \A j \in 1 .. Len(s.rx) :
         s.rx[j].what \in Request /\ s.rx[j].from = s.rx[i].from => j = i

ServedOnce(s) ==
  /\ s.rq.what # "none" =>
       /\ s.rq.from \in Client
       /\ s.waits[s.rq.from] = s.rq.what
       /\ s.got[s.rq.from] = 0
       /\ ~(Replying(s) /\ s.dest = s.rq.from)
       /\ ~Answered(s, s.rq.from)
  /\ Replying(s) =>
       /\ s.reserved
       /\ s.dest \in Client
       /\ s.waits[s.dest] = "Read"
       /\ ~Answered(s, s.dest)
  /\ s.sn # Nobody => s.waits[s.sn] = "Snii" /\ ~Answered(s, s.sn)
  /\ s.pip # Nobody => s.waits[s.pip] = "Pip" /\ ~Answered(s, s.pip)

AnswersWaited(s) ==
  \A i \in 1 .. Len(s.tx) :
    /\ s.tx[i].what = "Reject" => s.tx[i].to \in Client /\ s.waits[s.tx[i].to] \in {"Snii", "Odd"}
    /\ s.tx[i].what = "Snii" => s.tx[i].to \in Client /\ s.waits[s.tx[i].to] = "Snii"
    /\ s.tx[i].what = "Pip" => s.tx[i].to \in Client /\ s.waits[s.tx[i].to] = "Pip"
    /\ IsAnswer(s.tx[i]) =>
         \A j \in 1 .. Len(s.tx) :
           j > i /\ s.tx[j].what \in {"Reject", "Pip", "Snii"} => s.tx[j].to # s.tx[i].to

\* The segments of the one reply are sent in order, and its addressee has
\* received none that is still to come.
SegmentsInOrder(s) ==
  /\ \A i \in 1 .. Len(s.tx) : s.tx[i].what = "Segment" =>
       /\ s.tx[i].to = s.dest
       /\ s.tx[i].part \in 1 .. ReplyLength - s.count
       /\ s.got[s.dest] < s.tx[i].part
       /\ \A j \in 1 .. Len(s.tx) :
            j > i /\ s.tx[j].what = "Segment" => s.tx[i].part < s.tx[j].part
  /\ s.count > 0 => s.got[s.dest] <= ReplyLength - s.count

\* A reply is acknowledged, or asked for again, when all of it has been sent.
Reacted(s) ==
  \A i \in 1 .. Len(s.rx) : s.rx[i].what \in {"Ack", "Nak"} =>
    /\ s.reserved
    /\ s.count = 0
    /\ ~HasSegment(s)
    /\ \A j \in 1 .. Len(s.rx) : s.rx[j].what \in {"Ack", "Nak"} => j = i
    /\ s.rx[i].what = "Nak" => s.got[s.dest] = 0

GotWaiting(s) == \A c \in Client : s.got[c] # 0 => s.waits[c] = "Read"

Orderly(s) ==
  /\ Typed(s)
  /\ AskedOnce(s)
  /\ ServedOnce(s)
  /\ AnswersWaited(s)
  /\ SegmentsInOrder(s)
  /\ Reacted(s)
  /\ GotWaiting(s)

LEMMA TailIs ==
  ASSUME NEW S, NEW q, q \in Seq(S), q # <<>>
  PROVE  /\ Tail(q) \in Seq(S)
         /\ Len(q) \in Nat /\ Len(q) > 0 /\ Len(Tail(q)) = Len(q) - 1
         /\ \A i \in 1 .. Len(Tail(q)) : i + 1 \in 1 .. Len(q) /\ Tail(q)[i] = q[i + 1]
         /\ 1 \in 1 .. Len(q) /\ Head(q) = q[1] /\ q[1] \in S
OBVIOUS

LEMMA AppendIs ==
  ASSUME NEW S, NEW q, q \in Seq(S), NEW x \in S
  PROVE  /\ Append(q, x) \in Seq(S)
         /\ Len(q) \in Nat /\ Len(Append(q, x)) = Len(q) + 1
         /\ Append(q, x)[Len(q) + 1] = x
         /\ \A i \in 1 .. Len(q) : Append(q, x)[i] = q[i] /\ q[i] \in S
         /\ \A i \in 1 .. Len(q) + 1 : i \in 1 .. Len(q) \/ i = Len(q) + 1
OBVIOUS

\* A step that leaves the driver's queue alone concerns a request in it only
\* if it concerns its client.
Untouched(s, t, c) ==
  /\ t.waits[c] = s.waits[c]
  /\ t.got[c] = s.got[c]
  /\ Served(t, c) => Served(s, c)
  /\ Answered(t, c) => Answered(s, c)

LEMMA AskedKept ==
  ASSUME NEW s, NEW t, AskedOnce(s), t.rx = s.rx,
         \A c \in Client : Asking(s, c) => Untouched(s, t, c)
  PROVE  AskedOnce(t)
<1> SUFFICES ASSUME NEW i \in 1 .. Len(t.rx), t.rx[i].what \in Request
             PROVE  /\ t.rx[i].from \in Client
                    /\ t.waits[t.rx[i].from] = t.rx[i].what
                    /\ ~Served(t, t.rx[i].from)
                    /\ ~Answered(t, t.rx[i].from)
                    /\ t.got[t.rx[i].from] = 0
                    /\ \A j \in 1 .. Len(t.rx) :
                         t.rx[j].what \in Request /\ t.rx[j].from = t.rx[i].from => j = i
  BY DEF AskedOnce
<1> DEFINE c == s.rx[i].from
<1>1. /\ c \in Client
      /\ s.waits[c] = s.rx[i].what
      /\ ~Served(s, c)
      /\ ~Answered(s, c)
      /\ s.got[c] = 0
      /\ \A j \in 1 .. Len(s.rx) : s.rx[j].what \in Request /\ s.rx[j].from = c => j = i
  BY DEF AskedOnce
<1>2. Asking(s, c)
  BY DEF Asking
<1>3. Untouched(s, t, c)
  BY <1>1, <1>2
<1> QED
  BY <1>1, <1>3 DEF Untouched

\* Reading a frame that is no request takes away nothing.
LEMMA TailRx ==
  ASSUME NEW s, Orderly(s), s.rx # <<>>, NEW t, t = [s EXCEPT !.rx = Tail(s.rx)]
  PROVE  Orderly(t)
<1>1. /\ t.rx = Tail(s.rx) /\ t.tx = s.tx /\ t.waits = s.waits /\ t.got = s.got /\ t.rq = s.rq
      /\ t.reserved = s.reserved /\ t.count = s.count /\ t.dest = s.dest /\ t.sn = s.sn
      /\ t.pip = s.pip
  BY DEF Orderly, Typed
<1>2. /\ s.rx \in Seq(RxFrame)
      /\ t.rx \in Seq(RxFrame)
      /\ \A i \in 1 .. Len(t.rx) : i + 1 \in 1 .. Len(s.rx) /\ t.rx[i] = s.rx[i + 1]
  BY <1>1, TailIs DEF Orderly, Typed
<1>3. Typed(t)
  BY <1>2 DEF Orderly, Typed
<1>4. HasSegment(t) <=> HasSegment(s)
  BY <1>1 DEF HasSegment
<1>5. Replying(t) => Replying(s)
  BY <1>1, <1>2, <1>4 DEF Replying
<1>6. ASSUME NEW c
      PROVE  /\ Served(t, c) => Served(s, c)
             /\ Answered(t, c) <=> Answered(s, c)
  BY <1>1, <1>5 DEF Served, Answered
<1>7. AskedOnce(t)
  <2> SUFFICES ASSUME NEW i \in 1 .. Len(t.rx), t.rx[i].what \in Request
               PROVE  /\ t.rx[i].from \in Client
                      /\ t.waits[t.rx[i].from] = t.rx[i].what
                      /\ ~Served(t, t.rx[i].from)
                      /\ ~Answered(t, t.rx[i].from)
                      /\ t.got[t.rx[i].from] = 0
                      /\ \A j \in 1 .. Len(t.rx) :
                           t.rx[j].what \in Request /\ t.rx[j].from = t.rx[i].from => j = i
    BY DEF AskedOnce
  <2>1. i + 1 \in 1 .. Len(s.rx) /\ t.rx[i] = s.rx[i + 1]
    BY <1>2
  <2>2. /\ s.rx[i + 1].from \in Client
        /\ s.waits[s.rx[i + 1].from] = s.rx[i + 1].what
        /\ ~Served(s, s.rx[i + 1].from)
        /\ ~Answered(s, s.rx[i + 1].from)
        /\ s.got[s.rx[i + 1].from] = 0
        /\ \A j \in 1 .. Len(s.rx) :
             s.rx[j].what \in Request /\ s.rx[j].from = s.rx[i + 1].from => j = i + 1
    BY <2>1 DEF Orderly, AskedOnce
  <2>3. ASSUME NEW j \in 1 .. Len(t.rx), t.rx[j].what \in Request, t.rx[j].from = t.rx[i].from
        PROVE  j = i
    <3>1. j + 1 \in 1 .. Len(s.rx) /\ t.rx[j] = s.rx[j + 1]
      BY <1>2
    <3>2. j + 1 = i + 1
      BY <2>1, <2>2, <2>3, <3>1
    <3> QED
      BY <3>2
  <2> QED
    BY <1>1, <1>6, <2>1, <2>2, <2>3
<1>8. ServedOnce(t)
  BY <1>1, <1>5, <1>6 DEF Orderly, ServedOnce
<1>9. AnswersWaited(t) /\ SegmentsInOrder(t) /\ GotWaiting(t)
  BY <1>1 DEF Orderly, AnswersWaited, SegmentsInOrder, GotWaiting
<1>10. Reacted(t)
  <2> SUFFICES ASSUME NEW i \in 1 .. Len(t.rx), t.rx[i].what \in {"Ack", "Nak"}
               PROVE  /\ t.reserved
                      /\ t.count = 0
                      /\ ~HasSegment(t)
                      /\ \A j \in 1 .. Len(t.rx) : t.rx[j].what \in {"Ack", "Nak"} => j = i
                      /\ t.rx[i].what = "Nak" => t.got[t.dest] = 0
    BY DEF Reacted
  <2>1. i + 1 \in 1 .. Len(s.rx) /\ t.rx[i] = s.rx[i + 1]
    BY <1>2
  <2>2. /\ s.reserved
        /\ s.count = 0
        /\ ~HasSegment(s)
        /\ \A j \in 1 .. Len(s.rx) : s.rx[j].what \in {"Ack", "Nak"} => j = i + 1
        /\ s.rx[i + 1].what = "Nak" => s.got[s.dest] = 0
    BY <2>1 DEF Orderly, Reacted
  <2>3. ASSUME NEW j \in 1 .. Len(t.rx), t.rx[j].what \in {"Ack", "Nak"}
        PROVE  j = i
    <3>1. j + 1 \in 1 .. Len(s.rx) /\ t.rx[j] = s.rx[j + 1]
      BY <1>2
    <3>2. j + 1 = i + 1
      BY <2>2, <2>3, <3>1
    <3> QED
      BY <3>2
  <2> QED
    BY <1>1, <1>4, <2>1, <2>2, <2>3
<1> QED
  BY <1>3, <1>7, <1>8, <1>9, <1>10 DEF Orderly

\* Nor does a frame that leaves.
LEMMA TailTx ==
  ASSUME NEW s, Orderly(s), s.tx # <<>>, NEW t, t = [s EXCEPT !.tx = Tail(s.tx)]
  PROVE  Orderly(t)
<1>1. /\ t.tx = Tail(s.tx) /\ t.rx = s.rx /\ t.waits = s.waits /\ t.got = s.got /\ t.rq = s.rq
      /\ t.reserved = s.reserved /\ t.count = s.count /\ t.dest = s.dest /\ t.sn = s.sn
      /\ t.pip = s.pip
  BY DEF Orderly, Typed
<1>2. /\ s.tx \in Seq(TxFrame)
      /\ t.tx \in Seq(TxFrame)
      /\ \A i \in 1 .. Len(t.tx) : i + 1 \in 1 .. Len(s.tx) /\ t.tx[i] = s.tx[i + 1]
  BY <1>1, TailIs DEF Orderly, Typed
<1>3. Typed(t)
  BY <1>2 DEF Orderly, Typed
<1>4. HasSegment(t) => HasSegment(s)
  BY <1>1, <1>2 DEF HasSegment
<1>5. Replying(t) => Replying(s)
  BY <1>1, <1>4 DEF Replying
<1>6. ASSUME NEW c
      PROVE  /\ Served(t, c) => Served(s, c)
             /\ Answered(t, c) => Answered(s, c)
  <2>1. Answered(t, c) => Answered(s, c)
    BY <1>1, <1>2 DEF Answered
  <2> QED
    BY <1>1, <1>5, <2>1 DEF Served
<1>7. AskedOnce(t)
  BY <1>1, <1>6, AskedKept DEF Orderly, Untouched
<1>8. ServedOnce(t)
  BY <1>1, <1>5, <1>6 DEF Orderly, ServedOnce
<1>9. AnswersWaited(t)
  <2> SUFFICES ASSUME NEW i \in 1 .. Len(t.tx)
               PROVE
    /\ t.tx[i].what = "Reject" => t.tx[i].to \in Client /\ t.waits[t.tx[i].to] \in {"Snii", "Odd"}
    /\ t.tx[i].what = "Snii" => t.tx[i].to \in Client /\ t.waits[t.tx[i].to] = "Snii"
    /\ t.tx[i].what = "Pip" => t.tx[i].to \in Client /\ t.waits[t.tx[i].to] = "Pip"
    /\ IsAnswer(t.tx[i]) =>
         \A j \in 1 .. Len(t.tx) :
           j > i /\ t.tx[j].what \in {"Reject", "Pip", "Snii"} => t.tx[j].to # t.tx[i].to
    BY DEF AnswersWaited
  <2>1. i + 1 \in 1 .. Len(s.tx) /\ t.tx[i] = s.tx[i + 1]
    BY <1>2
  <2>2. /\ s.tx[i + 1].what = "Reject" =>
             s.tx[i + 1].to \in Client /\ s.waits[s.tx[i + 1].to] \in {"Snii", "Odd"}
        /\ s.tx[i + 1].what = "Snii" =>
             s.tx[i + 1].to \in Client /\ s.waits[s.tx[i + 1].to] = "Snii"
        /\ s.tx[i + 1].what = "Pip" =>
             s.tx[i + 1].to \in Client /\ s.waits[s.tx[i + 1].to] = "Pip"
        /\ IsAnswer(s.tx[i + 1]) =>
             \A j \in 1 .. Len(s.tx) :
               j > i + 1 /\ s.tx[j].what \in {"Reject", "Pip", "Snii"} => s.tx[j].to # s.tx[i + 1].to
    BY <2>1 DEF Orderly, AnswersWaited
  <2>3. ASSUME NEW j \in 1 .. Len(t.tx), j > i, IsAnswer(t.tx[i]),
               t.tx[j].what \in {"Reject", "Pip", "Snii"}
        PROVE  t.tx[j].to # t.tx[i].to
    <3>1. j + 1 \in 1 .. Len(s.tx) /\ t.tx[j] = s.tx[j + 1] /\ j + 1 > i + 1
      BY <1>2, <2>3
    <3> QED
      BY <2>1, <2>2, <2>3, <3>1
  <2> QED
    BY <1>1, <2>1, <2>2, <2>3
<1>10. SegmentsInOrder(t)
  <2>1. ASSUME NEW i \in 1 .. Len(t.tx), t.tx[i].what = "Segment"
        PROVE  /\ t.tx[i].to = t.dest
               /\ t.tx[i].part \in 1 .. ReplyLength - t.count
               /\ t.got[t.dest] < t.tx[i].part
               /\ \A j \in 1 .. Len(t.tx) :
                    j > i /\ t.tx[j].what = "Segment" => t.tx[i].part < t.tx[j].part
    <3>1. i + 1 \in 1 .. Len(s.tx) /\ t.tx[i] = s.tx[i + 1]
      BY <1>2
    <3>2. /\ s.tx[i + 1].to = s.dest
          /\ s.tx[i + 1].part \in 1 .. ReplyLength - s.count
          /\ s.got[s.dest] < s.tx[i + 1].part
          /\ \A j \in 1 .. Len(s.tx) :
               j > i + 1 /\ s.tx[j].what = "Segment" => s.tx[i + 1].part < s.tx[j].part
      BY <2>1, <3>1 DEF Orderly, SegmentsInOrder
    <3>3. ASSUME NEW j \in 1 .. Len(t.tx), j > i, t.tx[j].what = "Segment"
          PROVE  t.tx[i].part < t.tx[j].part
      <4>1. j + 1 \in 1 .. Len(s.tx) /\ t.tx[j] = s.tx[j + 1] /\ j + 1 > i + 1
        BY <1>2, <3>3
      <4> QED
        BY <3>1, <3>2, <3>3, <4>1
    <3> QED
      BY <1>1, <3>1, <3>2, <3>3
  <2>2. t.count > 0 => t.got[t.dest] <= ReplyLength - t.count
    BY <1>1 DEF Orderly, SegmentsInOrder
  <2> QED
    BY <2>1, <2>2 DEF SegmentsInOrder
<1>11. Reacted(t) /\ GotWaiting(t)
  BY <1>1, <1>4 DEF Orderly, Reacted, GotWaiting
<1> QED
  BY <1>3, <1>7, <1>8, <1>9, <1>10, <1>11 DEF Orderly

\* A frame that is no answer takes nothing with it.
LEMMA AppendTx ==
  ASSUME NEW s, Orderly(s), NEW f \in TxFrame, f.what \in {"AMD", "Report", "Ident", "RcvOk"},
         NEW t, t = [s EXCEPT !.tx = Append(s.tx, f)]
  PROVE  Orderly(t)
<1>1. /\ t.tx = Append(s.tx, f) /\ t.rx = s.rx /\ t.waits = s.waits /\ t.got = s.got
      /\ t.rq = s.rq /\ t.reserved = s.reserved /\ t.count = s.count /\ t.dest = s.dest
      /\ t.sn = s.sn /\ t.pip = s.pip
  BY DEF Orderly, Typed
<1>2. /\ t.tx \in Seq(TxFrame) /\ Len(s.tx) \in Nat /\ Len(t.tx) = Len(s.tx) + 1
      /\ t.tx[Len(s.tx) + 1] = f
      /\ \A i \in 1 .. Len(s.tx) : t.tx[i] = s.tx[i]
      /\ \A i \in 1 .. Len(t.tx) : i \in 1 .. Len(s.tx) \/ i = Len(s.tx) + 1
  BY <1>1, AppendIs DEF Orderly, Typed
<1>3. Typed(t)
  BY <1>2 DEF Orderly, Typed
<1>4. ~IsAnswer(f) /\ f.what \notin {"Reject", "Snii", "Pip", "Segment"}
  BY DEF IsAnswer
<1>5. HasSegment(t) => HasSegment(s)
  BY <1>2, <1>4 DEF HasSegment
<1>6. Replying(t) => Replying(s)
  BY <1>1, <1>5 DEF Replying
<1>7. ASSUME NEW c
      PROVE  /\ Served(t, c) => Served(s, c)
             /\ Answered(t, c) => Answered(s, c)
  <2>1. Answered(t, c) => Answered(s, c)
    BY <1>2, <1>4 DEF Answered
  <2> QED
    BY <1>1, <1>6, <2>1 DEF Served
<1>8. AskedOnce(t)
  BY <1>1, <1>7, AskedKept DEF Orderly, Untouched
<1>9. ServedOnce(t)
  BY <1>1, <1>6, <1>7 DEF Orderly, ServedOnce
<1>10. AnswersWaited(t)
  BY <1>1, <1>2, <1>4 DEF Orderly, AnswersWaited
<1>11. SegmentsInOrder(t)
  BY <1>1, <1>2, <1>4 DEF Orderly, SegmentsInOrder
<1>12. Reacted(t) /\ GotWaiting(t)
  BY <1>1, <1>5 DEF Orderly, Reacted, GotWaiting
<1> QED
  BY <1>3, <1>8, <1>9, <1>10, <1>11, <1>12 DEF Orderly

\* Nor does an enquiry.
LEMMA AppendRx ==
  ASSUME NEW s, Orderly(s), NEW f \in RxFrame, f.what = "AME",
         NEW t, t = [s EXCEPT !.rx = Append(s.rx, f)]
  PROVE  Orderly(t)
<1>1. /\ t.rx = Append(s.rx, f) /\ t.tx = s.tx /\ t.waits = s.waits /\ t.got = s.got
      /\ t.rq = s.rq /\ t.reserved = s.reserved /\ t.count = s.count /\ t.dest = s.dest
      /\ t.sn = s.sn /\ t.pip = s.pip
  BY DEF Orderly, Typed
<1>2. /\ t.rx \in Seq(RxFrame) /\ Len(s.rx) \in Nat /\ Len(t.rx) = Len(s.rx) + 1
      /\ t.rx[Len(s.rx) + 1] = f
      /\ \A i \in 1 .. Len(s.rx) : t.rx[i] = s.rx[i]
      /\ \A i \in 1 .. Len(t.rx) : i \in 1 .. Len(s.rx) \/ i = Len(s.rx) + 1
  BY <1>1, AppendIs DEF Orderly, Typed
<1>3. Typed(t)
  BY <1>2 DEF Orderly, Typed
<1>4. f.what \notin Request /\ f.what \notin {"Ack", "Nak"}
  BY DEF Request
<1>5. HasSegment(t) <=> HasSegment(s)
  BY <1>1 DEF HasSegment
<1>6. Replying(t) => Replying(s)
  BY <1>1, <1>2, <1>4, <1>5 DEF Replying
<1>7. ASSUME NEW c
      PROVE  /\ Served(t, c) => Served(s, c)
             /\ Answered(t, c) => Answered(s, c)
  BY <1>1, <1>6 DEF Served, Answered
<1>8. AskedOnce(t)
  <2> SUFFICES ASSUME NEW i \in 1 .. Len(t.rx), t.rx[i].what \in Request
               PROVE  /\ t.rx[i].from \in Client
                      /\ t.waits[t.rx[i].from] = t.rx[i].what
                      /\ ~Served(t, t.rx[i].from)
                      /\ ~Answered(t, t.rx[i].from)
                      /\ t.got[t.rx[i].from] = 0
                      /\ \A j \in 1 .. Len(t.rx) :
                           t.rx[j].what \in Request /\ t.rx[j].from = t.rx[i].from => j = i
    BY DEF AskedOnce
  <2>1. i \in 1 .. Len(s.rx) /\ t.rx[i] = s.rx[i]
    BY <1>2, <1>4
  <2>2. /\ s.rx[i].from \in Client
        /\ s.waits[s.rx[i].from] = s.rx[i].what
        /\ ~Served(s, s.rx[i].from)
        /\ ~Answered(s, s.rx[i].from)
        /\ s.got[s.rx[i].from] = 0
        /\ \A j \in 1 .. Len(s.rx) :
             s.rx[j].what \in Request /\ s.rx[j].from = s.rx[i].from => j = i
    BY <2>1 DEF Orderly, AskedOnce
  <2>3. \A j \in 1 .. Len(t.rx) : t.rx[j].what \in Request => j \in 1 .. Len(s.rx) /\ t.rx[j] = s.rx[j]
    BY <1>2, <1>4
  <2> QED
    BY <1>1, <1>7, <2>1, <2>2, <2>3
<1>9. ServedOnce(t)
  BY <1>1, <1>6, <1>7 DEF Orderly, ServedOnce
<1>10. AnswersWaited(t) /\ SegmentsInOrder(t) /\ GotWaiting(t)
  BY <1>1 DEF Orderly, AnswersWaited, SegmentsInOrder, GotWaiting
<1>11. Reacted(t)
  BY <1>1, <1>2, <1>4, <1>5 DEF Orderly, Reacted
<1> QED
  BY <1>3, <1>8, <1>9, <1>10, <1>11 DEF Orderly

\* A request that is read leaves its client free.
LEMMA TakeAsked ==
  ASSUME NEW s, Orderly(s), s.rx # <<>>, Head(s.rx).what \in Request,
         NEW t, t = [s EXCEPT !.rx = Tail(s.rx)]
  PROVE  Free(t, Head(s.rx).from, Head(s.rx).what)
<1>1. /\ t.rx = Tail(s.rx) /\ t.tx = s.tx /\ t.waits = s.waits /\ t.got = s.got /\ t.rq = s.rq
      /\ t.reserved = s.reserved /\ t.count = s.count /\ t.dest = s.dest /\ t.sn = s.sn
      /\ t.pip = s.pip
  BY DEF Orderly, Typed
<1>2. /\ s.rx \in Seq(RxFrame) /\ 1 \in 1 .. Len(s.rx) /\ Head(s.rx) = s.rx[1]
      /\ \A i \in 1 .. Len(t.rx) : i + 1 \in 1 .. Len(s.rx) /\ t.rx[i] = s.rx[i + 1]
  BY <1>1, TailIs DEF Orderly, Typed
<1> DEFINE c == s.rx[1].from
<1>3. /\ c \in Client
      /\ s.waits[c] = s.rx[1].what
      /\ ~Served(s, c)
      /\ ~Answered(s, c)
      /\ s.got[c] = 0
      /\ \A j \in 1 .. Len(s.rx) : s.rx[j].what \in Request /\ s.rx[j].from = c => j = 1
  BY <1>2 DEF Orderly, AskedOnce
<1>4. ~Asking(t, c)
  <2> SUFFICES ASSUME NEW i \in 1 .. Len(t.rx), t.rx[i].what \in Request, t.rx[i].from = c
               PROVE  FALSE
    BY DEF Asking
  <2>1. i + 1 = 1
    BY <1>2, <1>3
  <2> QED
    BY <2>1
<1>5. HasSegment(t) <=> HasSegment(s)
  BY <1>1 DEF HasSegment
<1>6. Replying(t) => Replying(s)
  BY <1>1, <1>2, <1>5 DEF Replying
<1>7. ~Served(t, c) /\ ~Answered(t, c)
  BY <1>1, <1>3, <1>6 DEF Served, Answered
<1> QED
  BY <1>1, <1>2, <1>3, <1>4, <1>7 DEF Free

\* A state that has the same frames, and in which no handler has a request
\* it had not.
Fewer(s, t) ==
  /\ Typed(t)
  /\ t.rx = s.rx /\ t.tx = s.tx /\ t.waits = s.waits /\ t.got = s.got
  /\ t.reserved = s.reserved /\ t.count = s.count /\ t.dest = s.dest
  /\ t.rq = s.rq \/ t.rq.what = "none"
  /\ t.sn = s.sn \/ t.sn = Nobody
  /\ t.pip = s.pip \/ t.pip = Nobody

LEMMA FewerIs ==
  ASSUME NEW s, NEW t, Fewer(s, t)
  PROVE  /\ Replying(t) <=> Replying(s)
         /\ HasSegment(t) <=> HasSegment(s)
         /\ \A c \in Client : /\ Asking(t, c) <=> Asking(s, c)
                              /\ Answered(t, c) <=> Answered(s, c)
                              /\ Served(t, c) => Served(s, c)
<1>1. HasSegment(t) <=> HasSegment(s)
  BY DEF HasSegment, Fewer
<1>2. Replying(t) <=> Replying(s)
  BY <1>1 DEF Replying, Fewer
<1>3. ASSUME NEW c \in Client
      PROVE  /\ Asking(t, c) <=> Asking(s, c)
             /\ Answered(t, c) <=> Answered(s, c)
             /\ Served(t, c) => Served(s, c)
  <2>1. c # Nobody
    BY NodeAssumption
  <2>2. Served(t, c) => Served(s, c)
    BY <1>2, <2>1 DEF Served, Fewer
  <2> QED
    BY <2>2 DEF Asking, Answered, Fewer
<1> QED
  BY <1>1, <1>2, <1>3

LEMMA FewerOrderly ==
  ASSUME NEW s, Orderly(s), NEW t, Fewer(s, t)
  PROVE  Orderly(t)
<1>1. AskedOnce(t)
  <2>1. \A c \in Client : Asking(s, c) => Untouched(s, t, c)
    BY FewerIs DEF Untouched, Fewer
  <2> QED
    BY <2>1, AskedKept DEF Orderly, Fewer
<1>2. ServedOnce(t)
  <2>1. ASSUME t.rq.what # "none"
        PROVE  /\ t.rq.from \in Client
               /\ t.waits[t.rq.from] = t.rq.what
               /\ t.got[t.rq.from] = 0
               /\ ~(Replying(t) /\ t.dest = t.rq.from)
               /\ ~Answered(t, t.rq.from)
    <3>1. t.rq = s.rq
      BY <2>1 DEF Fewer
    <3> QED
      BY <2>1, <3>1, FewerIs DEF Orderly, ServedOnce, Fewer
  <2>2. ASSUME Replying(t)
        PROVE  /\ t.reserved
               /\ t.dest \in Client
               /\ t.waits[t.dest] = "Read"
               /\ ~Answered(t, t.dest)
    BY <2>2, FewerIs DEF Orderly, ServedOnce, Fewer
  <2>3. ASSUME t.sn # Nobody
        PROVE  t.waits[t.sn] = "Snii" /\ ~Answered(t, t.sn)
    <3>1. t.sn = s.sn /\ t.sn \in Client
      BY <2>3 DEF Fewer, Typed, Someone
    <3> QED
      BY <2>3, <3>1, FewerIs DEF Orderly, ServedOnce, Fewer
  <2>4. ASSUME t.pip # Nobody
        PROVE  t.waits[t.pip] = "Pip" /\ ~Answered(t, t.pip)
    <3>1. t.pip = s.pip /\ t.pip \in Client
      BY <2>4 DEF Fewer, Typed, Someone
    <3> QED
      BY <2>4, <3>1, FewerIs DEF Orderly, ServedOnce, Fewer
  <2> QED
    BY <2>1, <2>2, <2>3, <2>4 DEF ServedOnce
<1>3. AnswersWaited(t) /\ SegmentsInOrder(t) /\ GotWaiting(t)
  BY DEF Orderly, AnswersWaited, SegmentsInOrder, GotWaiting, Fewer
<1>4. Reacted(t)
  BY FewerIs DEF Orderly, Reacted, Fewer
<1> QED
  BY <1>1, <1>2, <1>3, <1>4 DEF Orderly, Fewer

\* A handler that gives up a request leaves its client free.
LEMMA TakeRq ==
  ASSUME NEW s, Orderly(s), s.rq.what # "none", NEW t, t = [s EXCEPT !.rq = NoRequest]
  PROVE  Orderly(t) /\ Free(t, s.rq.from, s.rq.what)
<1> DEFINE c == s.rq.from
<1>1. t.rq.what = "none" /\ t.sn = s.sn /\ t.pip = s.pip /\ t.waits = s.waits /\ t.got = s.got
      /\ t.dest = s.dest
  BY DEF Orderly, Typed, NoRequest
<1>2. Fewer(s, t)
  BY <1>1 DEF Fewer, Orderly, Typed, NoRequest, Someone
<1>3. /\ c \in Client /\ s.waits[c] = s.rq.what /\ s.got[c] = 0
      /\ ~(Replying(s) /\ s.dest = c) /\ ~Answered(s, c) /\ s.rq.what \in {"Read", "Write"}
      /\ Served(s, c)
  BY DEF Orderly, ServedOnce, Served, Typed
<1>4. c # Nobody
  BY <1>3, NodeAssumption
<1>5. ~Served(t, c)
  <2>1. s.sn # c /\ s.pip # c
    BY <1>3, <1>4 DEF Orderly, ServedOnce
  <2>2. ~(Replying(t) /\ t.dest = c)
    BY <1>1, <1>2, <1>3, FewerIs
  <2> QED
    BY <1>1, <2>1, <2>2 DEF Served
<1>6. ~Asking(s, c)
  BY <1>3 DEF Orderly, AskedOnce, Asking
<1>7. ~Asking(t, c) /\ ~Answered(t, c)
  BY <1>2, <1>3, <1>6, FewerIs
<1>8. Orderly(t)
  BY <1>2, FewerOrderly
<1> QED
  BY <1>1, <1>3, <1>5, <1>7, <1>8 DEF Free, Request

LEMMA TakePip ==
  ASSUME NEW s, Orderly(s), s.pip # Nobody, NEW t, t = [s EXCEPT !.pip = Nobody]
  PROVE  Orderly(t) /\ Free(t, s.pip, "Pip")
<1> DEFINE c == s.pip
<1>1. t.rq = s.rq /\ t.sn = s.sn /\ t.pip = Nobody /\ t.waits = s.waits /\ t.got = s.got
      /\ t.dest = s.dest
  BY DEF Orderly, Typed
<1>2. Fewer(s, t)
  BY <1>1 DEF Fewer, Orderly, Typed, Someone
<1>3. /\ c \in Client /\ s.waits[c] = "Pip" /\ ~Answered(s, c) /\ Served(s, c)
  BY DEF Orderly, ServedOnce, Served, Typed, Someone
<1>4. c # Nobody /\ s.got[c] = 0
  BY <1>3, NodeAssumption DEF Orderly, GotWaiting
<1>5. ~Served(t, c)
  <2>1. s.sn # c /\ ~(s.rq.what # "none" /\ s.rq.from = c)
    BY <1>3, <1>4 DEF Orderly, ServedOnce, Typed
  <2>2. ~(Replying(s) /\ s.dest = c)
    BY <1>3 DEF Orderly, ServedOnce
  <2>3. ~(Replying(t) /\ t.dest = c)
    BY <1>1, <1>2, <2>2, FewerIs
  <2> QED
    BY <1>1, <1>4, <2>1, <2>3 DEF Served
<1>6. ~Asking(s, c)
  BY <1>3 DEF Orderly, AskedOnce, Asking
<1>7. ~Asking(t, c) /\ ~Answered(t, c)
  BY <1>2, <1>3, <1>6, FewerIs
<1>8. Orderly(t)
  BY <1>2, FewerOrderly
<1> QED
  BY <1>1, <1>3, <1>4, <1>5, <1>7, <1>8 DEF Free, Request

LEMMA TakeSnii ==
  ASSUME NEW s, Orderly(s), s.sn # Nobody, NEW t, t = [s EXCEPT !.sn = Nobody]
  PROVE  Orderly(t) /\ Free(t, s.sn, "Snii")
<1> DEFINE c == s.sn
<1>1. t.rq = s.rq /\ t.sn = Nobody /\ t.pip = s.pip /\ t.waits = s.waits /\ t.got = s.got
      /\ t.dest = s.dest
  BY DEF Orderly, Typed
<1>2. Fewer(s, t)
  BY <1>1 DEF Fewer, Orderly, Typed, Someone
<1>3. /\ c \in Client /\ s.waits[c] = "Snii" /\ ~Answered(s, c) /\ Served(s, c)
  BY DEF Orderly, ServedOnce, Served, Typed, Someone
<1>4. c # Nobody /\ s.got[c] = 0
  BY <1>3, NodeAssumption DEF Orderly, GotWaiting
<1>5. ~Served(t, c)
  <2>1. s.pip # c /\ ~(s.rq.what # "none" /\ s.rq.from = c)
    BY <1>3, <1>4 DEF Orderly, ServedOnce, Typed
  <2>2. ~(Replying(s) /\ s.dest = c)
    BY <1>3 DEF Orderly, ServedOnce
  <2>3. ~(Replying(t) /\ t.dest = c)
    BY <1>1, <1>2, <2>2, FewerIs
  <2> QED
    BY <1>1, <1>4, <2>1, <2>3 DEF Served
<1>6. ~Asking(s, c)
  BY <1>3 DEF Orderly, AskedOnce, Asking
<1>7. ~Asking(t, c) /\ ~Answered(t, c)
  BY <1>2, <1>3, <1>6, FewerIs
<1>8. Orderly(t)
  BY <1>2, FewerOrderly
<1> QED
  BY <1>1, <1>3, <1>4, <1>5, <1>7, <1>8 DEF Free, Request

\* The states differ in what c waits for.
WaitsOnly(s, t, c, w) ==
  /\ Typed(t)
  /\ t.tx = s.tx /\ t.rx = s.rx /\ t.got = s.got /\ t.rq = s.rq
  /\ t.reserved = s.reserved /\ t.count = s.count /\ t.dest = s.dest
  /\ t.sn = s.sn /\ t.pip = s.pip
  /\ t.waits[c] = w /\ \A d \in Client : d # c => t.waits[d] = s.waits[d]
  /\ HasSegment(t) <=> HasSegment(s)
  /\ Replying(t) <=> Replying(s)
  /\ \A d \in Client : /\ Asking(t, d) <=> Asking(s, d)
                       /\ Served(t, d) <=> Served(s, d)
                       /\ Answered(t, d) <=> Answered(s, d)

LEMMA WaitsChanged ==
  ASSUME NEW s, Typed(s), NEW c \in Client, NEW w \in Request \cup {"none"},
         NEW t, t = [s EXCEPT !.waits = [s.waits EXCEPT ![c] = w]]
  PROVE  WaitsOnly(s, t, c, w)
<1>1. /\ Typed(t)
      /\ t.tx = s.tx /\ t.rx = s.rx /\ t.got = s.got /\ t.rq = s.rq
      /\ t.reserved = s.reserved /\ t.count = s.count /\ t.dest = s.dest
      /\ t.sn = s.sn /\ t.pip = s.pip
      /\ t.waits[c] = w /\ \A d \in Client : d # c => t.waits[d] = s.waits[d]
  BY DEF Typed
<1>2. HasSegment(t) <=> HasSegment(s)
  BY <1>1 DEF HasSegment
<1>3. Replying(t) <=> Replying(s)
  BY <1>1, <1>2 DEF Replying
<1>4. \A d \in Client : /\ Asking(t, d) <=> Asking(s, d)
                        /\ Served(t, d) <=> Served(s, d)
                        /\ Answered(t, d) <=> Answered(s, d)
  BY <1>1, <1>3 DEF Asking, Served, Answered
<1> QED
  BY <1>1, <1>2, <1>3, <1>4 DEF WaitsOnly

\* What a client waits for matters only to what has its request.
LEMMA WaitsOrderly ==
  ASSUME NEW s, Orderly(s), NEW c \in Client, NEW w \in Request \cup {"none"},
         NEW t, t = [s EXCEPT !.waits = [s.waits EXCEPT ![c] = w]],
         ~Asking(s, c), ~Served(s, c), s.got[c] = 0,
         \A i \in 1 .. Len(s.tx) : s.tx[i].what \in {"Reject", "Snii", "Pip"} => s.tx[i].to # c
  PROVE  Orderly(t)
<1>1. /\ Typed(t)
      /\ t.tx = s.tx /\ t.rx = s.rx /\ t.got = s.got /\ t.rq = s.rq
      /\ t.reserved = s.reserved /\ t.count = s.count /\ t.dest = s.dest
      /\ t.sn = s.sn /\ t.pip = s.pip
      /\ t.waits[c] = w /\ \A d \in Client : d # c => t.waits[d] = s.waits[d]
      /\ HasSegment(t) <=> HasSegment(s)
      /\ Replying(t) <=> Replying(s)
      /\ \A d \in Client : /\ Asking(t, d) <=> Asking(s, d)
                           /\ Served(t, d) <=> Served(s, d)
                           /\ Answered(t, d) <=> Answered(s, d)
  <2>1. WaitsOnly(s, t, c, w)
    BY WaitsChanged DEF Orderly
  <2> QED
    BY <2>1 DEF WaitsOnly
<1>2. AskedOnce(t)
  <2>1. \A d \in Client : Asking(s, d) => Untouched(s, t, d)
    BY <1>1 DEF Untouched
  <2> QED
    BY <1>1, <2>1, AskedKept DEF Orderly
<1>3. ServedOnce(t)
  <2>1. /\ s.rq.what # "none" => s.rq.from # c
        /\ Replying(s) => s.dest # c
        /\ s.sn # c
        /\ s.pip # c
    BY DEF Served
  <2>2. /\ s.sn # Nobody => s.sn \in Client
        /\ s.pip # Nobody => s.pip \in Client
    BY DEF Orderly, Typed, Someone
  <2> QED
    BY <1>1, <2>1, <2>2 DEF Orderly, ServedOnce
<1>4. AnswersWaited(t)
  BY <1>1 DEF Orderly, AnswersWaited
<1>5. SegmentsInOrder(t) /\ Reacted(t)
  BY <1>1 DEF Orderly, SegmentsInOrder, Reacted
<1>6. GotWaiting(t)
  BY <1>1 DEF Orderly, GotWaiting
<1> QED
  BY <1>1, <1>2, <1>3, <1>4, <1>5, <1>6 DEF Orderly

\* A client that is free, and for whom no part of an answer waits, may stop
\* waiting.
LEMMA Unwait ==
  ASSUME NEW s, Orderly(s), NEW c, NEW w, Free(s, c, w),
         \A i \in 1 .. Len(s.tx) : s.tx[i].what = "Snii" => s.tx[i].to # c,
         NEW t, t = [s EXCEPT !.waits = [s.waits EXCEPT ![c] = "none"]]
  PROVE  Orderly(t)
<1>1. ASSUME NEW i \in 1 .. Len(s.tx), s.tx[i].what \in {"Reject", "Snii", "Pip"}
      PROVE  s.tx[i].to # c
  <2>1. s.tx[i].what \in {"Reject", "Pip"} => IsAnswer(s.tx[i])
    BY DEF IsAnswer
  <2> QED
    BY <1>1, <2>1 DEF Free, Answered
<1>2. c \in Client /\ ~Asking(s, c) /\ ~Served(s, c) /\ s.got[c] = 0
  BY DEF Free
<1>3. "none" \in Request \cup {"none"}
  OBVIOUS
<1> QED
  BY <1>1, <1>2, <1>3, WaitsOrderly

LEMMA UnwaitOther ==
  ASSUME NEW s, Orderly(s), NEW c, NEW w, Free(s, c, w), w # "Snii",
         NEW t, t = [s EXCEPT !.waits = [s.waits EXCEPT ![c] = "none"]]
  PROVE  Orderly(t)
<1>1. \A i \in 1 .. Len(s.tx) : s.tx[i].what = "Snii" => s.tx[i].to # c
  BY DEF Orderly, AnswersWaited, Free
<1> QED
  BY <1>1, Unwait

\* A client that waits for nothing is free to ask.
LEMMA Wait ==
  ASSUME NEW s, Orderly(s), NEW c \in Client, NEW w \in Request, s.waits[c] = "none",
         NEW t, t = [s EXCEPT !.waits = [s.waits EXCEPT ![c] = w]]
  PROVE  Orderly(t) /\ Free(t, c, w)
<1>1. ~Asking(s, c)
  BY DEF Orderly, AskedOnce, Asking, Request
<1>2. c # Nobody
  BY NodeAssumption
<1>3. ~Served(s, c)
  <2>1. s.rq.what \in {"none", "Read", "Write"}
    BY DEF Orderly, Typed
  <2> QED
    BY <1>2, <2>1 DEF Orderly, ServedOnce, Served
<1>4. s.got[c] = 0
  BY DEF Orderly, GotWaiting
<1>5. \A i \in 1 .. Len(s.tx) : s.tx[i].what \in {"Reject", "Snii", "Pip"} => s.tx[i].to # c
  BY DEF Orderly, AnswersWaited
<1>6. ~Answered(s, c)
  BY <1>5 DEF Answered, IsAnswer
<1>7. w \in Request \cup {"none"}
  OBVIOUS
<1>8. Orderly(t)
  BY <1>1, <1>3, <1>4, <1>5, <1>7, WaitsOrderly
<1>9. WaitsOnly(s, t, c, w)
  BY <1>7, WaitsChanged DEF Orderly
<1>10. Free(t, c, w)
  BY <1>1, <1>3, <1>4, <1>6, <1>9 DEF Free, WaitsOnly
<1> QED
  BY <1>8, <1>10

\* States that differ only in what the handlers have, and in c for whom: what
\* is asked and sent stays as it is.
Given(s, t, c) ==
  /\ Typed(t)
  /\ t.rx = s.rx /\ t.tx = s.tx /\ t.waits = s.waits /\ t.got = s.got
  /\ t.reserved = s.reserved /\ t.count = s.count /\ t.dest = s.dest
  /\ t.rq = s.rq \/ t.rq.from = c
  /\ t.sn \in {s.sn, c}
  /\ t.pip \in {s.pip, c}

LEMMA GivenKeeps ==
  ASSUME NEW s, Orderly(s), NEW c, NEW w, Free(s, c, w), NEW t, Given(s, t, c)
  PROVE  /\ AskedOnce(t) /\ AnswersWaited(t) /\ SegmentsInOrder(t) /\ Reacted(t)
         /\ GotWaiting(t)
         /\ Replying(t) <=> Replying(s)
         /\ Answered(t, c) <=> Answered(s, c)
<1>1. HasSegment(t) <=> HasSegment(s)
  BY DEF HasSegment, Given
<1>2. Replying(t) <=> Replying(s)
  BY <1>1 DEF Replying, Given
<1>3. ASSUME NEW d \in Client
      PROVE  /\ Answered(t, d) <=> Answered(s, d)
             /\ d # c /\ Served(t, d) => Served(s, d)
  BY <1>2 DEF Answered, Served, Given
<1>4. \A d \in Client : Asking(s, d) => Untouched(s, t, d)
  <2>1. ~Asking(s, c)
    BY DEF Free
  <2> QED
    BY <1>3, <2>1 DEF Untouched, Given
<1>5. AskedOnce(t)
  BY <1>4, AskedKept DEF Orderly, Given
<1>6. AnswersWaited(t) /\ SegmentsInOrder(t) /\ GotWaiting(t)
  BY DEF Orderly, AnswersWaited, SegmentsInOrder, GotWaiting, Given
<1>7. Reacted(t)
  BY <1>1 DEF Orderly, Reacted, Given
<1> QED
  BY <1>2, <1>3, <1>5, <1>6, <1>7 DEF Free

LEMMA GiveRq ==
  ASSUME NEW s, Orderly(s), NEW c, NEW w \in {"Read", "Write"}, Free(s, c, w),
         s.rq.what = "none", NEW t, t = [s EXCEPT !.rq = [what |-> w, from |-> c]]
  PROVE  Orderly(t)
<1>1. /\ t.rq = [what |-> w, from |-> c] /\ t.sn = s.sn /\ t.pip = s.pip
      /\ t.waits = s.waits /\ t.got = s.got /\ t.dest = s.dest /\ t.reserved = s.reserved
      /\ t.tx = s.tx
  BY DEF Orderly, Typed
<1>2. Given(s, t, c)
  BY <1>1 DEF Given, Orderly, Typed, Free, Someone
<1>3. /\ AskedOnce(t) /\ AnswersWaited(t) /\ SegmentsInOrder(t) /\ Reacted(t)
      /\ GotWaiting(t)
      /\ Replying(t) <=> Replying(s)
      /\ Answered(t, c) <=> Answered(s, c)
  BY <1>2, GivenKeeps
<1>4. \A d : Answered(t, d) <=> Answered(s, d)
  BY <1>1 DEF Answered
<1>5. ~(Replying(s) /\ s.dest = c)
  BY DEF Free, Served
<1>6. ServedOnce(t)
  BY <1>1, <1>3, <1>4, <1>5 DEF Orderly, ServedOnce, Free
<1> QED
  BY <1>2, <1>3, <1>6 DEF Orderly, Given

LEMMA GivePip ==
  ASSUME NEW s, Orderly(s), NEW c, Free(s, c, "Pip"), s.pip = Nobody,
         NEW t, t = [s EXCEPT !.pip = c]
  PROVE  Orderly(t)
<1>1. /\ t.rq = s.rq /\ t.sn = s.sn /\ t.pip = c
      /\ t.waits = s.waits /\ t.got = s.got /\ t.dest = s.dest /\ t.reserved = s.reserved
      /\ t.tx = s.tx
  BY DEF Orderly, Typed
<1>2. Given(s, t, c)
  BY <1>1 DEF Given, Orderly, Typed, Free, Someone
<1>3. /\ AskedOnce(t) /\ AnswersWaited(t) /\ SegmentsInOrder(t) /\ Reacted(t)
      /\ GotWaiting(t)
      /\ Replying(t) <=> Replying(s)
      /\ Answered(t, c) <=> Answered(s, c)
  BY <1>2, GivenKeeps
<1>4. \A d : Answered(t, d) <=> Answered(s, d)
  BY <1>1 DEF Answered
<1>5. ServedOnce(t)
  BY <1>1, <1>3, <1>4 DEF Orderly, ServedOnce, Free
<1> QED
  BY <1>2, <1>3, <1>5 DEF Orderly, Given

LEMMA GiveSnii ==
  ASSUME NEW s, Orderly(s), NEW c, Free(s, c, "Snii"), s.sn = Nobody,
         NEW t, t = [s EXCEPT !.sn = c]
  PROVE  Orderly(t)
<1>1. /\ t.rq = s.rq /\ t.sn = c /\ t.pip = s.pip
      /\ t.waits = s.waits /\ t.got = s.got /\ t.dest = s.dest /\ t.reserved = s.reserved
      /\ t.tx = s.tx
  BY DEF Orderly, Typed
<1>2. Given(s, t, c)
  BY <1>1 DEF Given, Orderly, Typed, Free, Someone
<1>3. /\ AskedOnce(t) /\ AnswersWaited(t) /\ SegmentsInOrder(t) /\ Reacted(t)
      /\ GotWaiting(t)
      /\ Replying(t) <=> Replying(s)
      /\ Answered(t, c) <=> Answered(s, c)
  BY <1>2, GivenKeeps
<1>4. \A d : Answered(t, d) <=> Answered(s, d)
  BY <1>1 DEF Answered
<1>5. ServedOnce(t)
  BY <1>1, <1>3, <1>4 DEF Orderly, ServedOnce, Free
<1> QED
  BY <1>2, <1>3, <1>5 DEF Orderly, Given

\* The reply to a read, for which the transmit buffer is taken
LEMMA GiveReply ==
  ASSUME NEW s, Orderly(s), NEW c, Free(s, c, "Read"), ~s.reserved,
         NEW t, t = [s EXCEPT !.reserved = TRUE, !.count = ReplyLength, !.dest = c]
  PROVE  Orderly(t)
<1>1. /\ t.rq = s.rq /\ t.sn = s.sn /\ t.pip = s.pip
      /\ t.waits = s.waits /\ t.got = s.got /\ t.dest = c /\ t.reserved
      /\ t.tx = s.tx /\ t.rx = s.rx /\ t.count = ReplyLength
      /\ ReplyLength \in Nat \ {0}
  BY NodeAssumption DEF Orderly, Typed
<1>2. Typed(t)
  <2>1. ReplyLength \in 0 .. ReplyLength /\ c \in Someone
    BY <1>1 DEF Free, Someone
  <2> QED
    BY <2>1 DEF Orderly, Typed
<1>3. ~Replying(s) /\ ~HasSegment(s) /\ \A i \in 1 .. Len(s.rx) : s.rx[i].what \notin {"Ack", "Nak"}
  <2>1. ~Replying(s)
    BY DEF Orderly, ServedOnce
  <2> QED
    BY <2>1 DEF Orderly, Reacted, Replying
<1>4. ~HasSegment(t)
  BY <1>1, <1>3 DEF HasSegment
<1>5. ASSUME NEW d
      PROVE  /\ Answered(t, d) <=> Answered(s, d)
             /\ d # c /\ Served(t, d) => Served(s, d)
  BY <1>1 DEF Answered, Served
<1>6. \A d \in Client : Asking(s, d) => Untouched(s, t, d)
  <2>1. ~Asking(s, c)
    BY DEF Free
  <2> QED
    BY <1>1, <1>5, <2>1 DEF Untouched
<1>7. AskedOnce(t)
  BY <1>1, <1>6, AskedKept DEF Orderly
<1>8. ServedOnce(t)
  <2>1. s.rq.what # "none" => s.rq.from # c
    BY DEF Free, Served
  <2>2. c \in Client /\ s.waits[c] = "Read" /\ ~Answered(s, c)
    BY DEF Free
  <2> QED
    BY <1>1, <1>5, <2>1, <2>2 DEF Orderly, ServedOnce
<1>9. AnswersWaited(t) /\ GotWaiting(t)
  BY <1>1 DEF Orderly, AnswersWaited, GotWaiting
<1>10. SegmentsInOrder(t)
  <2>1. t.got[t.dest] = 0
    BY <1>1 DEF Free
  <2> QED
    BY <1>1, <1>4, <2>1 DEF SegmentsInOrder, HasSegment
<1>11. Reacted(t)
  BY <1>1, <1>3 DEF Reacted
<1> QED
  BY <1>2, <1>7, <1>8, <1>9, <1>10, <1>11 DEF Orderly

\* The request of a client that asks
LEMMA GiveRx ==
  ASSUME NEW s, Orderly(s), NEW c, NEW w, Free(s, c, w),
         NEW t, t = [s EXCEPT !.rx = Append(s.rx, [what |-> w, from |-> c])]
  PROVE  Orderly(t)
<1> DEFINE f == [what |-> w, from |-> c]
<1>1. /\ t.rx = Append(s.rx, f) /\ t.tx = s.tx /\ t.waits = s.waits /\ t.got = s.got
      /\ t.rq = s.rq /\ t.reserved = s.reserved /\ t.count = s.count /\ t.dest = s.dest
      /\ t.sn = s.sn /\ t.pip = s.pip
  BY DEF Orderly, Typed
<1>2. f \in RxFrame /\ f.what = w /\ f.from = c /\ w \notin {"Ack", "Nak"} /\ w \in Request
      /\ c \in Client
  BY DEF Free, RxFrame, Someone, Request
<1> HIDE DEF f
<1>3. /\ t.rx \in Seq(RxFrame) /\ Len(s.rx) \in Nat /\ Len(t.rx) = Len(s.rx) + 1
      /\ t.rx[Len(s.rx) + 1] = f
      /\ \A i \in 1 .. Len(s.rx) : t.rx[i] = s.rx[i]
      /\ \A i \in 1 .. Len(t.rx) : i \in 1 .. Len(s.rx) \/ i = Len(s.rx) + 1
  BY <1>1, <1>2, AppendIs DEF Orderly, Typed
<1>4. Typed(t)
  BY <1>1, <1>3 DEF Orderly, Typed
<1>5. HasSegment(t) <=> HasSegment(s)
  BY <1>1 DEF HasSegment
<1>6. Replying(t) => Replying(s)
  BY <1>1, <1>2, <1>3, <1>5 DEF Replying
<1>7. ASSUME NEW d
      PROVE  /\ Served(t, d) => Served(s, d)
             /\ Answered(t, d) <=> Answered(s, d)
  BY <1>1, <1>6 DEF Served, Answered
<1>8. AskedOnce(t)
  <2> SUFFICES ASSUME NEW i \in 1 .. Len(t.rx), t.rx[i].what \in Request
               PROVE  /\ t.rx[i].from \in Client
                      /\ t.waits[t.rx[i].from] = t.rx[i].what
                      /\ ~Served(t, t.rx[i].from)
                      /\ ~Answered(t, t.rx[i].from)
                      /\ t.got[t.rx[i].from] = 0
                      /\ \A j \in 1 .. Len(t.rx) :
                           t.rx[j].what \in Request /\ t.rx[j].from = t.rx[i].from => j = i
    BY DEF AskedOnce
  <2>1. \A j \in 1 .. Len(s.rx) : s.rx[j].what \in Request => s.rx[j].from # c
    BY DEF Free, Asking
  <2>2. CASE i = Len(s.rx) + 1
    <3>1. t.rx[i] = f
      BY <1>3, <2>2
    <3>2. \A j \in 1 .. Len(t.rx) : t.rx[j].what \in Request /\ t.rx[j].from = c => j = i
      BY <1>3, <2>1, <2>2
    <3> QED
      BY <1>1, <1>2, <1>7, <3>1, <3>2 DEF Free
  <2>3. CASE i \in 1 .. Len(s.rx)
    <3>1. t.rx[i] = s.rx[i]
      BY <1>3, <2>3
    <3>2. /\ s.rx[i].from \in Client
          /\ s.waits[s.rx[i].from] = s.rx[i].what
          /\ ~Served(s, s.rx[i].from)
          /\ ~Answered(s, s.rx[i].from)
          /\ s.got[s.rx[i].from] = 0
          /\ \A j \in 1 .. Len(s.rx) :
               s.rx[j].what \in Request /\ s.rx[j].from = s.rx[i].from => j = i
      BY <2>3, <3>1 DEF Orderly, AskedOnce
    <3>3. s.rx[i].from # c
      BY <2>1, <2>3, <3>1
    <3>4. \A j \in 1 .. Len(t.rx) :
            t.rx[j].what \in Request /\ t.rx[j].from = s.rx[i].from => j = i
      BY <1>2, <1>3, <3>2, <3>3
    <3> QED
      BY <1>1, <1>7, <3>1, <3>2, <3>4
  <2> QED
    BY <1>3, <2>2, <2>3
<1>9. ServedOnce(t)
  BY <1>1, <1>6, <1>7 DEF Orderly, ServedOnce
<1>10. AnswersWaited(t) /\ SegmentsInOrder(t) /\ GotWaiting(t)
  BY <1>1 DEF Orderly, AnswersWaited, SegmentsInOrder, GotWaiting
<1>11. Reacted(t)
  BY <1>1, <1>2, <1>3, <1>5 DEF Orderly, Reacted
<1> QED
  BY <1>4, <1>8, <1>9, <1>10, <1>11 DEF Orderly

\* The last frame of an answer takes the request with it.
LEMMA GiveAnswer ==
  ASSUME NEW s, Orderly(s), NEW c, NEW w, Free(s, c, w),
         NEW f \in TxFrame, f.to = c, IsAnswer(f),
         f.what = "Reject" => w \in {"Snii", "Odd"},
         f.what \in {"Snii", "Pip"} => w = f.what,
         NEW t, t = [s EXCEPT !.tx = Append(s.tx, f)]
  PROVE  Orderly(t)
<1>1. /\ t.tx = Append(s.tx, f) /\ t.rx = s.rx /\ t.waits = s.waits /\ t.got = s.got
      /\ t.rq = s.rq /\ t.reserved = s.reserved /\ t.count = s.count /\ t.dest = s.dest
      /\ t.sn = s.sn /\ t.pip = s.pip
  BY DEF Orderly, Typed
<1>2. /\ t.tx \in Seq(TxFrame) /\ Len(s.tx) \in Nat /\ Len(t.tx) = Len(s.tx) + 1
      /\ t.tx[Len(s.tx) + 1] = f
      /\ \A i \in 1 .. Len(s.tx) : t.tx[i] = s.tx[i]
      /\ \A i \in 1 .. Len(t.tx) : i \in 1 .. Len(s.tx) \/ i = Len(s.tx) + 1
  BY <1>1, AppendIs DEF Orderly, Typed
<1>3. Typed(t)
  BY <1>2 DEF Orderly, Typed
<1>4. /\ f.what # "Segment" /\ f.what \in {"Reject", "Pip", "Snii"}
      /\ c \in Client /\ s.waits[c] = w
      /\ ~Asking(s, c) /\ ~Served(s, c) /\ ~Answered(s, c)
  BY DEF IsAnswer, Free
<1>5. HasSegment(t) => HasSegment(s)
  BY <1>2, <1>4 DEF HasSegment
<1>6. Replying(t) => Replying(s)
  BY <1>1, <1>5 DEF Replying
<1>7. ASSUME NEW d, d # c
      PROVE  /\ Served(t, d) => Served(s, d)
             /\ Answered(t, d) => Answered(s, d)
  <2>1. Answered(t, d) => Answered(s, d)
    BY <1>2, <1>7 DEF Answered
  <2> QED
    BY <1>1, <1>6, <2>1 DEF Served
<1>8. AskedOnce(t)
  <2>1. \A d \in Client : Asking(s, d) => Untouched(s, t, d)
    BY <1>1, <1>4, <1>7 DEF Untouched
  <2> QED
    BY <1>1, <2>1, AskedKept DEF Orderly
<1>9. ServedOnce(t)
  <2>1. /\ s.rq.what # "none" => s.rq.from # c
        /\ Replying(s) => s.dest # c
        /\ s.sn # c
        /\ s.pip # c
    BY <1>4 DEF Served
  <2> QED
    BY <1>1, <1>6, <1>7, <2>1 DEF Orderly, ServedOnce
<1>10. AnswersWaited(t)
  <2>1. \A i \in 1 .. Len(s.tx) : IsAnswer(s.tx[i]) => s.tx[i].to # c
    BY <1>4 DEF Answered
  <2> QED
    BY <1>1, <1>2, <1>4, <2>1 DEF Orderly, AnswersWaited
<1>11. SegmentsInOrder(t)
  BY <1>1, <1>2, <1>4 DEF Orderly, SegmentsInOrder
<1>12. Reacted(t) /\ GotWaiting(t)
  BY <1>1, <1>5 DEF Orderly, Reacted, GotWaiting
<1> QED
  BY <1>3, <1>8, <1>9, <1>10, <1>11, <1>12 DEF Orderly

\* A part of an identification, which goes on
LEMMA SniiPart ==
  ASSUME NEW s, Orderly(s), s.sn # Nobody,
         NEW f \in TxFrame, f.what = "Snii", f.to = s.sn, f.part = 0,
         NEW t, t = [s EXCEPT !.tx = Append(s.tx, f)]
  PROVE  Orderly(t)
<1>1. /\ t.tx = Append(s.tx, f) /\ t.rx = s.rx /\ t.waits = s.waits /\ t.got = s.got
      /\ t.rq = s.rq /\ t.reserved = s.reserved /\ t.count = s.count /\ t.dest = s.dest
      /\ t.sn = s.sn /\ t.pip = s.pip
  BY DEF Orderly, Typed
<1>2. /\ t.tx \in Seq(TxFrame) /\ Len(s.tx) \in Nat /\ Len(t.tx) = Len(s.tx) + 1
      /\ t.tx[Len(s.tx) + 1] = f
      /\ \A i \in 1 .. Len(s.tx) : t.tx[i] = s.tx[i]
      /\ \A i \in 1 .. Len(t.tx) : i \in 1 .. Len(s.tx) \/ i = Len(s.tx) + 1
  BY <1>1, AppendIs DEF Orderly, Typed
<1>3. Typed(t)
  BY <1>2 DEF Orderly, Typed
<1>4. ~IsAnswer(f) /\ f.what = "Snii" /\ f.to = s.sn
  BY DEF IsAnswer
<1>5. HasSegment(t) => HasSegment(s)
  BY <1>2, <1>4 DEF HasSegment
<1>6. Replying(t) => Replying(s)
  BY <1>1, <1>5 DEF Replying
<1>7. ASSUME NEW d
      PROVE  /\ Served(t, d) => Served(s, d)
             /\ Answered(t, d) => Answered(s, d)
  <2>1. Answered(t, d) => Answered(s, d)
    BY <1>2, <1>4 DEF Answered
  <2> QED
    BY <1>1, <1>6, <2>1 DEF Served
<1>8. AskedOnce(t)
  BY <1>1, <1>7, AskedKept DEF Orderly, Untouched
<1>9. ServedOnce(t)
  BY <1>1, <1>6, <1>7 DEF Orderly, ServedOnce
<1>10. AnswersWaited(t)
  <2>1. s.sn \in Client /\ s.waits[s.sn] = "Snii" /\ ~Answered(s, s.sn)
    BY DEF Orderly, ServedOnce, Typed, Someone
  <2>2. \A i \in 1 .. Len(s.tx) : IsAnswer(s.tx[i]) => s.tx[i].to # s.sn
    BY <2>1 DEF Answered
  <2> QED
    BY <1>1, <1>2, <1>4, <2>1, <2>2 DEF Orderly, AnswersWaited
<1>11. SegmentsInOrder(t)
  BY <1>1, <1>2, <1>4 DEF Orderly, SegmentsInOrder
<1>12. Reacted(t) /\ GotWaiting(t)
  BY <1>1, <1>5 DEF Orderly, Reacted, GotWaiting
<1> QED
  BY <1>3, <1>8, <1>9, <1>10, <1>11, <1>12 DEF Orderly

\* The next segment of the reply
LEMMA Segment ==
  ASSUME NEW s, Orderly(s), s.count > 0,
         NEW f \in TxFrame, f.what = "Segment", f.to = s.dest, f.part = ReplyLength - s.count + 1,
         NEW t, t = [s EXCEPT !.tx = Append(s.tx, f), !.count = s.count - 1]
  PROVE  Orderly(t)
<1>1. /\ t.tx = Append(s.tx, f) /\ t.rx = s.rx /\ t.waits = s.waits /\ t.got = s.got
      /\ t.rq = s.rq /\ t.reserved = s.reserved /\ t.count = s.count - 1 /\ t.dest = s.dest
      /\ t.sn = s.sn /\ t.pip = s.pip
  BY DEF Orderly, Typed
<1>2. /\ t.tx \in Seq(TxFrame) /\ Len(s.tx) \in Nat /\ Len(t.tx) = Len(s.tx) + 1
      /\ t.tx[Len(s.tx) + 1] = f
      /\ \A i \in 1 .. Len(s.tx) : t.tx[i] = s.tx[i]
      /\ \A i \in 1 .. Len(t.tx) : i \in 1 .. Len(s.tx) \/ i = Len(s.tx) + 1
  BY <1>1, AppendIs DEF Orderly, Typed
<1>3. /\ ReplyLength \in Nat /\ s.count \in 1 .. ReplyLength /\ t.count \in 0 .. ReplyLength
      /\ t.count = s.count - 1 /\ f.part = ReplyLength - t.count
  <2>1. ReplyLength \in Nat /\ s.count \in 0 .. ReplyLength
    BY NodeAssumption DEF Orderly, Typed
  <2> QED
    BY <1>1, <2>1
<1>4. Typed(t)
  BY <1>2, <1>3 DEF Orderly, Typed
<1>5. ~IsAnswer(f)
  BY DEF IsAnswer
<1>6. Replying(s)
  BY DEF Replying
<1>7. ASSUME NEW d
      PROVE  /\ Served(t, d) => Served(s, d)
             /\ Answered(t, d) => Answered(s, d)
  <2>1. Answered(t, d) => Answered(s, d)
    BY <1>2, <1>5 DEF Answered
  <2> QED
    BY <1>1, <1>6, <2>1 DEF Served
<1>8. AskedOnce(t)
  BY <1>1, <1>7, AskedKept DEF Orderly, Untouched
<1>9. ServedOnce(t)
  BY <1>1, <1>6, <1>7 DEF Orderly, ServedOnce
<1>10. AnswersWaited(t)
  BY <1>1, <1>2, <1>5 DEF Orderly, AnswersWaited
<1>11. SegmentsInOrder(t)
  <2>1. s.dest \in Client /\ s.got[s.dest] \in Nat /\ s.got[s.dest] <= ReplyLength - s.count
    BY <1>6 DEF Orderly, ServedOnce, SegmentsInOrder, Typed
  <2>2. ASSUME NEW i \in 1 .. Len(s.tx), s.tx[i].what = "Segment"
        PROVE  /\ s.tx[i].to = s.dest
               /\ s.tx[i].part \in 1 .. ReplyLength - t.count
               /\ s.tx[i].part < f.part
               /\ s.got[s.dest] < s.tx[i].part
               /\ \A j \in 1 .. Len(s.tx) :
                    j > i /\ s.tx[j].what = "Segment" => s.tx[i].part < s.tx[j].part
    <3>1. /\ s.tx[i].to = s.dest
          /\ s.tx[i].part \in 1 .. ReplyLength - s.count
          /\ s.got[s.dest] < s.tx[i].part
          /\ \A j \in 1 .. Len(s.tx) :
               j > i /\ s.tx[j].what = "Segment" => s.tx[i].part < s.tx[j].part
      BY <2>2 DEF Orderly, SegmentsInOrder
    <3> QED
      BY <1>3, <3>1
  <2>3. ASSUME NEW i \in 1 .. Len(t.tx), t.tx[i].what = "Segment"
        PROVE  /\ t.tx[i].to = t.dest
               /\ t.tx[i].part \in 1 .. ReplyLength - t.count
               /\ t.got[t.dest] < t.tx[i].part
               /\ \A j \in 1 .. Len(t.tx) :
                    j > i /\ t.tx[j].what = "Segment" => t.tx[i].part < t.tx[j].part
    <3>1. CASE i \in 1 .. Len(s.tx)
      BY <1>1, <1>2, <2>2, <2>3, <3>1
    <3>2. CASE i = Len(s.tx) + 1
      <4>1. t.tx[i] = f
        BY <1>2, <3>2
      <4>2. f.part \in 1 .. ReplyLength - t.count /\ s.got[s.dest] < f.part
        BY <1>3, <2>1
      <4>3. \A j \in 1 .. Len(t.tx) : ~(j > i)
        BY <1>2, <3>2
      <4> QED
        BY <1>1, <4>1, <4>2, <4>3
    <3> QED
      BY <1>2, <3>1, <3>2
  <2>4. t.got[t.dest] <= ReplyLength - t.count
    BY <1>1, <1>3, <2>1
  <2> QED
    BY <2>3, <2>4 DEF SegmentsInOrder
<1>12. Reacted(t)
  <2>1. \A i \in 1 .. Len(s.rx) : s.rx[i].what \notin {"Ack", "Nak"}
    BY <1>3 DEF Orderly, Reacted
  <2> QED
    BY <1>1, <2>1 DEF Reacted
<1>13. GotWaiting(t)
  BY <1>1 DEF Orderly, GotWaiting
<1> QED
  BY <1>4, <1>8, <1>9, <1>10, <1>11, <1>12, <1>13 DEF Orderly

NoReaction(s) == \A i \in 1 .. Len(s.rx) : s.rx[i].what \notin {"Ack", "Nak"}

\* The transmit buffer is given back when the reply has gone.
LEMMA Release ==
  ASSUME NEW s, Orderly(s), ~Replying(s), NoReaction(s), NEW t, t = [s EXCEPT !.reserved = FALSE]
  PROVE  /\ Orderly(t) /\ ~t.reserved
         /\ \A c, w : Free(s, c, w) => Free(t, c, w)
<1>1. /\ t.tx = s.tx /\ t.rx = s.rx /\ t.waits = s.waits /\ t.got = s.got
      /\ t.rq = s.rq /\ t.reserved = FALSE /\ t.count = s.count /\ t.dest = s.dest
      /\ t.sn = s.sn /\ t.pip = s.pip
  BY DEF Orderly, Typed
<1>2. Typed(t)
  BY DEF Orderly, Typed
<1>3. HasSegment(t) <=> HasSegment(s)
  BY <1>1 DEF HasSegment
<1>4. Replying(t) <=> Replying(s)
  BY <1>1, <1>3 DEF Replying
<1>5. ASSUME NEW d
      PROVE  /\ Served(t, d) <=> Served(s, d)
             /\ Answered(t, d) <=> Answered(s, d)
             /\ Asking(t, d) <=> Asking(s, d)
  BY <1>1, <1>4 DEF Served, Answered, Asking
<1>6. AskedOnce(t)
  <2>1. \A d \in Client : Asking(s, d) => Untouched(s, t, d)
    BY <1>1, <1>5 DEF Untouched
  <2> QED
    BY <1>1, <2>1, AskedKept DEF Orderly
<1>7. ServedOnce(t)
  BY <1>1, <1>4, <1>5 DEF Orderly, ServedOnce
<1>8. AnswersWaited(t) /\ SegmentsInOrder(t) /\ GotWaiting(t)
  BY <1>1 DEF Orderly, AnswersWaited, SegmentsInOrder, GotWaiting
<1>9. Reacted(t)
  BY <1>1 DEF Reacted, NoReaction
<1>10. \A c, w : Free(s, c, w) => Free(t, c, w)
  BY <1>1, <1>5 DEF Free
<1> QED
  BY <1>1, <1>2, <1>6, <1>7, <1>8, <1>9, <1>10 DEF Orderly

\* The reaction that is read was the only one, to a reply that is out.
LEMMA TakeReaction ==
  ASSUME NEW s, Orderly(s), s.rx # <<>>, Head(s.rx).what \in {"Ack", "Nak"},
         NEW t, t = [s EXCEPT !.rx = Tail(s.rx)]
  PROVE  /\ ~Replying(t) /\ NoReaction(t) /\ t.count = 0 /\ t.reserved
         /\ Head(s.rx).what = "Nak" => Free(t, t.dest, "Read")
<1>1. /\ t.rx = Tail(s.rx) /\ t.tx = s.tx /\ t.waits = s.waits /\ t.got = s.got /\ t.rq = s.rq
      /\ t.reserved = s.reserved /\ t.count = s.count /\ t.dest = s.dest /\ t.sn = s.sn
      /\ t.pip = s.pip
  BY DEF Orderly, Typed
<1>2. /\ s.rx \in Seq(RxFrame) /\ 1 \in 1 .. Len(s.rx) /\ Head(s.rx) = s.rx[1]
      /\ \A i \in 1 .. Len(t.rx) : i + 1 \in 1 .. Len(s.rx) /\ t.rx[i] = s.rx[i + 1]
  BY <1>1, TailIs DEF Orderly, Typed
<1>3. /\ s.reserved /\ s.count = 0 /\ ~HasSegment(s)
      /\ \A j \in 1 .. Len(s.rx) : s.rx[j].what \in {"Ack", "Nak"} => j = 1
      /\ s.rx[1].what = "Nak" => s.got[s.dest] = 0
  BY <1>2 DEF Orderly, Reacted
<1>4. NoReaction(t)
  <2> SUFFICES ASSUME NEW i \in 1 .. Len(t.rx), t.rx[i].what \in {"Ack", "Nak"}
               PROVE  FALSE
    BY DEF NoReaction
  <2>1. i + 1 = 1
    BY <1>2, <1>3
  <2> QED
    BY <2>1
<1>5. ~Replying(t)
  BY <1>1, <1>3, <1>4 DEF Replying, NoReaction, HasSegment
<1>6. ASSUME s.rx[1].what = "Nak"
      PROVE  Free(t, t.dest, "Read")
  <2> DEFINE c == s.dest
  <2>1. Replying(s)
    BY <1>2, <1>6 DEF Replying
  <2>2. /\ c \in Client /\ s.waits[c] = "Read" /\ ~Answered(s, c)
        /\ s.rq.what # "none" => s.rq.from # c
        /\ s.sn # c /\ s.pip # c
    BY <2>1, NodeAssumption DEF Orderly, ServedOnce
  <2>3. ~Asking(s, c)
    BY <2>1 DEF Orderly, AskedOnce, Asking, Served
  <2>4. ~Asking(t, c)
    BY <1>2, <2>3 DEF Asking
  <2>5. ~Served(t, c) /\ ~Answered(t, c)
    BY <1>1, <1>5, <2>2 DEF Served, Answered
  <2> QED
    BY <1>1, <1>3, <1>6, <2>2, <2>4, <2>5 DEF Free, Request
<1> QED
  BY <1>1, <1>2, <1>3, <1>4, <1>5, <1>6

LEMMA TakeAck ==
  ASSUME NEW s, Orderly(s), s.rx # <<>>, Head(s.rx).what = "Ack",
         NEW t, t = [s EXCEPT !.rx = Tail(s.rx), !.reserved = FALSE]
  PROVE  Orderly(t)
<1>1. PICK u : u = [s EXCEPT !.rx = Tail(s.rx)]
  OBVIOUS
<1>2. Orderly(u)
  BY <1>1, TailRx
<1>3. ~Replying(u) /\ NoReaction(u)
  BY <1>1, TakeReaction
<1>4. t = [u EXCEPT !.reserved = FALSE]
  BY <1>1 DEF Orderly, Typed
<1> QED
  BY <1>2, <1>3, <1>4, Release

LEMMA TakeNak ==
  ASSUME NEW s, Orderly(s), s.rx # <<>>, Head(s.rx).what = "Nak",
         NEW t, t = [s EXCEPT !.rx = Tail(s.rx), !.count = ReplyLength]
  PROVE  Orderly(t)
<1>1. PICK u : u = [s EXCEPT !.rx = Tail(s.rx)]
  OBVIOUS
<1>2. Orderly(u)
  BY <1>1, TailRx
<1>3. ~Replying(u) /\ NoReaction(u) /\ u.reserved /\ Free(u, u.dest, "Read")
  BY <1>1, TakeReaction
<1>4. PICK v : v = [u EXCEPT !.reserved = FALSE]
  OBVIOUS
<1>5. Orderly(v) /\ ~v.reserved /\ Free(v, u.dest, "Read")
  BY <1>2, <1>3, <1>4, Release
<1>6. t = [v EXCEPT !.reserved = TRUE, !.count = ReplyLength, !.dest = u.dest]
  <2>1. u.reserved = TRUE
    BY <1>2, <1>3 DEF Orderly, Typed
  <2> QED
    BY <1>1, <1>4, <2>1 DEF Orderly, Typed
<1> QED
  BY <1>5, <1>6, GiveReply

\* What the addressee of the reply has received of it may change if it still
\* waits for it.
LEMMA GotChanged ==
  ASSUME NEW s, Orderly(s), NEW n \in 0 .. ReplyLength, s.dest \in Client, NoReaction(s),
         s.waits[s.dest] = "Read", ~Asking(s, s.dest), s.rq.what # "none" => s.rq.from # s.dest,
         \A i \in 1 .. Len(s.tx) : s.tx[i].what = "Segment" => n < s.tx[i].part,
         s.count > 0 => n <= ReplyLength - s.count,
         NEW t, t = [s EXCEPT !.got = [s.got EXCEPT ![s.dest] = n]]
  PROVE  Orderly(t) /\ (~Replying(s) => ~Replying(t))
<1> DEFINE c == s.dest
<1>1. /\ t.tx = s.tx /\ t.rx = s.rx /\ t.waits = s.waits
      /\ t.rq = s.rq /\ t.reserved = s.reserved /\ t.count = s.count /\ t.dest = s.dest
      /\ t.sn = s.sn /\ t.pip = s.pip
      /\ t.got[c] = n /\ \A d \in Client : d # c => t.got[d] = s.got[d]
  BY DEF Orderly, Typed
<1>2. Typed(t)
  BY DEF Orderly, Typed
<1>3. HasSegment(t) <=> HasSegment(s)
  BY <1>1 DEF HasSegment
<1>4. Replying(t) <=> Replying(s)
  BY <1>1, <1>3 DEF Replying
<1>5. ASSUME NEW d
      PROVE  /\ Served(t, d) <=> Served(s, d)
             /\ Answered(t, d) <=> Answered(s, d)
  BY <1>1, <1>4 DEF Served, Answered
<1>6. AskedOnce(t)
  <2>1. \A d \in Client : Asking(s, d) => Untouched(s, t, d)
    BY <1>1, <1>5 DEF Untouched
  <2> QED
    BY <1>1, <2>1, AskedKept DEF Orderly
<1>7. ServedOnce(t)
  BY <1>1, <1>4, <1>5 DEF Orderly, ServedOnce
<1>8. AnswersWaited(t)
  BY <1>1 DEF Orderly, AnswersWaited
<1>9. SegmentsInOrder(t)
  BY <1>1 DEF Orderly, SegmentsInOrder
<1>10. GotWaiting(t)
  BY <1>1 DEF Orderly, GotWaiting
<1>11. Reacted(t)
  BY <1>1 DEF Reacted, NoReaction
<1> QED
  BY <1>2, <1>4, <1>6, <1>7, <1>8, <1>9, <1>10, <1>11 DEF Orderly

\* The reply is acknowledged, or asked for again, once all of it is out.
LEMMA AppendReaction ==
  ASSUME NEW s, Orderly(s), NoReaction(s), s.reserved, s.count = 0, ~HasSegment(s),
         NEW f \in RxFrame, f.what \in {"Ack", "Nak"},
         f.what = "Nak" => Free(s, s.dest, "Read"),
         NEW t, t = [s EXCEPT !.rx = Append(s.rx, f)]
  PROVE  Orderly(t)
<1>1. /\ t.rx = Append(s.rx, f) /\ t.tx = s.tx /\ t.waits = s.waits /\ t.got = s.got
      /\ t.rq = s.rq /\ t.reserved = s.reserved /\ t.count = s.count /\ t.dest = s.dest
      /\ t.sn = s.sn /\ t.pip = s.pip
  BY DEF Orderly, Typed
<1>2. /\ t.rx \in Seq(RxFrame) /\ Len(s.rx) \in Nat /\ Len(t.rx) = Len(s.rx) + 1
      /\ t.rx[Len(s.rx) + 1] = f
      /\ \A i \in 1 .. Len(s.rx) : t.rx[i] = s.rx[i]
      /\ \A i \in 1 .. Len(t.rx) : i \in 1 .. Len(s.rx) \/ i = Len(s.rx) + 1
  BY <1>1, AppendIs DEF Orderly, Typed
<1>3. Typed(t)
  BY <1>2 DEF Orderly, Typed
<1>4. f.what \notin Request
  BY DEF Request
<1>5. ~HasSegment(t)
  BY <1>1 DEF HasSegment
<1>6. ~Replying(s)
  BY DEF Replying, NoReaction
<1>7. Replying(t) => Free(s, t.dest, "Read") /\ t.reserved
  BY <1>1, <1>2, <1>5 DEF Replying, NoReaction
<1>8. ASSUME NEW d, Served(t, d)
      PROVE  Served(s, d) \/ (Free(s, d, "Read") /\ Replying(t))
  BY <1>1, <1>7, <1>8 DEF Served
<1>9. \A d : Answered(t, d) <=> Answered(s, d)
  BY <1>1 DEF Answered
<1>10. AskedOnce(t)
  <2> SUFFICES ASSUME NEW i \in 1 .. Len(t.rx), t.rx[i].what \in Request
               PROVE  /\ t.rx[i].from \in Client
                      /\ t.waits[t.rx[i].from] = t.rx[i].what
                      /\ ~Served(t, t.rx[i].from)
                      /\ ~Answered(t, t.rx[i].from)
                      /\ t.got[t.rx[i].from] = 0
                      /\ \A j \in 1 .. Len(t.rx) :
                           t.rx[j].what \in Request /\ t.rx[j].from = t.rx[i].from => j = i
    BY DEF AskedOnce
  <2>1. i \in 1 .. Len(s.rx) /\ t.rx[i] = s.rx[i]
    BY <1>2, <1>4
  <2>2. /\ s.rx[i].from \in Client
        /\ s.waits[s.rx[i].from] = s.rx[i].what
        /\ ~Served(s, s.rx[i].from)
        /\ ~Answered(s, s.rx[i].from)
        /\ s.got[s.rx[i].from] = 0
        /\ \A j \in 1 .. Len(s.rx) :
             s.rx[j].what \in Request /\ s.rx[j].from = s.rx[i].from => j = i
    BY <2>1 DEF Orderly, AskedOnce
  <2>3. \A j \in 1 .. Len(t.rx) : t.rx[j].what \in Request => j \in 1 .. Len(s.rx) /\ t.rx[j] = s.rx[j]
    BY <1>2, <1>4
  <2>4. ~Free(s, s.rx[i].from, "Read")
    BY <2>1 DEF Free, Asking
  <2> QED
    BY <1>1, <1>8, <1>9, <2>1, <2>2, <2>3, <2>4
<1>11. ServedOnce(t)
  <2>1. \A c : Free(s, c, "Read") =>
                 /\ c \in Client /\ s.waits[c] = "Read" /\ ~Answered(s, c)
                 /\ s.rq.what # "none" => s.rq.from # c
    BY DEF Free, Served
  <2>2. t.rq.what # "none" =>
          /\ t.rq.from \in Client
          /\ t.waits[t.rq.from] = t.rq.what
          /\ t.got[t.rq.from] = 0
          /\ ~(Replying(t) /\ t.dest = t.rq.from)
          /\ ~Answered(t, t.rq.from)
    BY <1>1, <1>7, <1>9, <2>1 DEF Orderly, ServedOnce
  <2>3. Replying(t) =>
          /\ t.reserved
          /\ t.dest \in Client
          /\ t.waits[t.dest] = "Read"
          /\ ~Answered(t, t.dest)
    BY <1>1, <1>7, <1>9, <2>1
  <2>4. /\ t.sn # Nobody => t.waits[t.sn] = "Snii" /\ ~Answered(t, t.sn)
        /\ t.pip # Nobody => t.waits[t.pip] = "Pip" /\ ~Answered(t, t.pip)
    BY <1>1, <1>9 DEF Orderly, ServedOnce
  <2> QED
    BY <2>2, <2>3, <2>4 DEF ServedOnce
<1>12. AnswersWaited(t) /\ SegmentsInOrder(t) /\ GotWaiting(t)
  BY <1>1 DEF Orderly, AnswersWaited, SegmentsInOrder, GotWaiting
<1>13. Reacted(t)
  <2>1. f.what = "Nak" => s.got[s.dest] = 0
    BY DEF Free
  <2> QED
    BY <1>1, <1>2, <1>5, <2>1 DEF Reacted, NoReaction
<1> QED
  BY <1>3, <1>10, <1>11, <1>12, <1>13 DEF Orderly

\* An answer leaves: its client stops waiting.
LEMMA LeaveAnswer ==
  ASSUME NEW s, Orderly(s), s.tx # <<>>, IsAnswer(Head(s.tx)),
         NEW t, t = [s EXCEPT !.tx = Tail(s.tx),
                              !.waits = [s.waits EXCEPT ![Head(s.tx).to] = "none"]]
  PROVE  Orderly(t)
<1>1. PICK u : u = [s EXCEPT !.tx = Tail(s.tx)]
  OBVIOUS
<1>2. Orderly(u)
  BY <1>1, TailTx
<1>3. /\ u.tx = Tail(s.tx) /\ u.rx = s.rx /\ u.waits = s.waits /\ u.got = s.got /\ u.rq = s.rq
      /\ u.reserved = s.reserved /\ u.count = s.count /\ u.dest = s.dest /\ u.sn = s.sn
      /\ u.pip = s.pip
  BY <1>1 DEF Orderly, Typed
<1>4. /\ s.tx \in Seq(TxFrame) /\ 1 \in 1 .. Len(s.tx) /\ Head(s.tx) = s.tx[1]
      /\ \A i \in 1 .. Len(u.tx) : i \in Nat /\ i > 0 /\ i + 1 \in 1 .. Len(s.tx)
                                    /\ u.tx[i] = s.tx[i + 1]
  BY <1>3, TailIs DEF Orderly, Typed
<1> DEFINE c == s.tx[1].to
<1>5. /\ c \in Client /\ s.waits[c] \in {"Snii", "Odd", "Pip"}
      /\ \A j \in 1 .. Len(s.tx) : j > 1 /\ s.tx[j].what \in {"Reject", "Pip", "Snii"} => s.tx[j].to # c
  BY <1>4 DEF Orderly, AnswersWaited, IsAnswer
<1>6. Answered(s, c)
  BY <1>4 DEF Answered
<1>7. ~Asking(s, c)
  BY <1>6 DEF Orderly, AskedOnce, Asking
<1>8. ~Served(s, c)
  <2>1. c # Nobody
    BY <1>5, NodeAssumption
  <2> QED
    BY <1>6, <2>1 DEF Orderly, ServedOnce, Served
<1>9. ASSUME NEW i \in 1 .. Len(u.tx), u.tx[i].what \in {"Reject", "Pip", "Snii"}
      PROVE  u.tx[i].to # c
  <2>1. i + 1 > 1
    BY <1>4
  <2> QED
    BY <1>4, <1>5, <1>9, <2>1
<1>10. ~Asking(u, c)
  BY <1>3, <1>7 DEF Asking
<1>11. HasSegment(u) => HasSegment(s)
  BY <1>3, <1>4 DEF HasSegment
<1>12. Replying(u) => Replying(s)
  BY <1>3, <1>11 DEF Replying
<1>13. ~Served(u, c)
  BY <1>3, <1>8, <1>12 DEF Served
<1>14. ~Answered(u, c)
  BY <1>9 DEF Answered, IsAnswer
<1>15. s.got[c] = 0
  BY <1>5 DEF Orderly, GotWaiting
<1>16. Free(u, c, u.waits[c])
  BY <1>3, <1>5, <1>10, <1>13, <1>14, <1>15 DEF Free, Request
<1>17. t = [u EXCEPT !.waits = [u.waits EXCEPT ![c] = "none"]]
  BY <1>1, <1>4 DEF Orderly, Typed
<1> QED
  BY <1>2, <1>9, <1>16, <1>17, Unwait

\* A segment at the head of what is to be sent
LEMMA SegmentFirst ==
  ASSUME NEW s, Orderly(s), s.tx # <<>>, Head(s.tx).what = "Segment",
         NEW u, u = [s EXCEPT !.tx = Tail(s.tx)]
  PROVE  /\ Orderly(u) /\ NoReaction(u) /\ u.reserved
         /\ u.dest = s.dest /\ s.dest \in Client /\ Head(s.tx).to = s.dest
         /\ u.waits[u.dest] = "Read" /\ ~Asking(u, u.dest)
         /\ u.rq.what # "none" => u.rq.from # u.dest
         /\ u.sn # u.dest /\ u.pip # u.dest /\ ~Answered(u, u.dest)
         /\ \A i \in 1 .. Len(u.tx) : u.tx[i].what = "Segment" => Head(s.tx).part < u.tx[i].part
         /\ Head(s.tx).part \in 1 .. ReplyLength
         /\ u.count > 0 => Head(s.tx).part <= ReplyLength - u.count
         /\ u.got[u.dest] \in Nat /\ u.got[u.dest] < Head(s.tx).part
         /\ ~(Head(s.tx).part < ReplyLength) => ~HasSegment(u) /\ u.count = 0 /\ ~Replying(u)
<1>1. Orderly(u)
  BY TailTx
<1>2. /\ u.tx = Tail(s.tx) /\ u.rx = s.rx /\ u.waits = s.waits /\ u.got = s.got /\ u.rq = s.rq
      /\ u.reserved = s.reserved /\ u.count = s.count /\ u.dest = s.dest /\ u.sn = s.sn
      /\ u.pip = s.pip
  BY DEF Orderly, Typed
<1>3. /\ s.tx \in Seq(TxFrame) /\ 1 \in 1 .. Len(s.tx) /\ Head(s.tx) = s.tx[1]
      /\ \A i \in 1 .. Len(u.tx) : i \in Nat /\ i > 0 /\ i + 1 \in 1 .. Len(s.tx)
                                    /\ u.tx[i] = s.tx[i + 1]
  BY <1>2, TailIs DEF Orderly, Typed
<1> DEFINE c == s.dest
           p == s.tx[1].part
<1>4. HasSegment(s)
  BY <1>3 DEF HasSegment
<1>5. Replying(s)
  BY <1>4 DEF Replying
<1>6. /\ s.reserved /\ c \in Client /\ s.waits[c] = "Read" /\ ~Answered(s, c)
      /\ s.rq.what # "none" => s.rq.from # c
  BY <1>5 DEF Orderly, ServedOnce
<1>7. s.sn # c /\ s.pip # c
  BY <1>6, NodeAssumption DEF Orderly, ServedOnce
<1>8. ~Asking(s, c)
  BY <1>5 DEF Orderly, AskedOnce, Asking, Served
<1>9. NoReaction(s)
  BY <1>4 DEF Orderly, Reacted, NoReaction
<1>10. NoReaction(u) /\ ~Asking(u, c)
  BY <1>2, <1>8, <1>9 DEF NoReaction, Asking
<1>11. ~Answered(u, c)
  BY <1>3, <1>6 DEF Answered
<1>12. /\ s.tx[1].to = c
       /\ p \in 1 .. ReplyLength - s.count
       /\ s.got[c] < p
       /\ \A j \in 1 .. Len(s.tx) : j > 1 /\ s.tx[j].what = "Segment" => p < s.tx[j].part
  BY <1>3 DEF Orderly, SegmentsInOrder
<1>13. ReplyLength \in Nat /\ s.count \in 0 .. ReplyLength /\ s.got[c] \in 0 .. ReplyLength
  BY <1>6, NodeAssumption DEF Orderly, Typed
<1>14. ASSUME NEW i \in 1 .. Len(u.tx), u.tx[i].what = "Segment"
       PROVE  p < u.tx[i].part
  <2>1. i + 1 > 1
    BY <1>3
  <2> QED
    BY <1>3, <1>12, <1>14, <2>1
<1>15. p \in 1 .. ReplyLength /\ (s.count > 0 => p <= ReplyLength - s.count)
  BY <1>12, <1>13
<1>16. ASSUME ~(p < ReplyLength)
       PROVE  ~HasSegment(u) /\ u.count = 0 /\ ~Replying(u)
  <2>1. p = ReplyLength /\ s.count = 0
    BY <1>12, <1>13, <1>16
  <2>2. ASSUME NEW i \in 1 .. Len(u.tx), u.tx[i].what = "Segment"
        PROVE  FALSE
    <3>1. u.tx[i].part \in 1 .. ReplyLength - u.count
      BY <1>1, <2>2 DEF Orderly, SegmentsInOrder
    <3>2. p < u.tx[i].part
      BY <1>14, <2>2
    <3> QED
      BY <1>2, <1>13, <2>1, <3>1, <3>2
  <2>3. ~HasSegment(u)
    BY <2>2 DEF HasSegment
  <2> QED
    BY <1>2, <1>10, <2>1, <2>3 DEF Replying, NoReaction
<1> QED
  BY <1>1, <1>2, <1>3, <1>6, <1>7, <1>10, <1>11, <1>12, <1>13, <1>14, <1>15, <1>16

\* A segment that leaves as a link frame is none to its addressee.
LEMMA LeaveMiddle ==
  ASSUME NEW s, Orderly(s), s.tx # <<>>, Head(s.tx).what = "Segment",
         Head(s.tx).part < ReplyLength,
         NEW t, t = [s EXCEPT !.tx = Tail(s.tx),
                              !.got = [s.got EXCEPT ![Head(s.tx).to] = s.got[Head(s.tx).to] + 1]]
  PROVE  Orderly(t)
<1>1. PICK u : u = [s EXCEPT !.tx = Tail(s.tx)]
  OBVIOUS
<1>2. PICK n : n = u.got[u.dest] + 1
  OBVIOUS
<1>3. /\ Orderly(u) /\ NoReaction(u)
      /\ u.dest = s.dest /\ s.dest \in Client /\ Head(s.tx).to = s.dest
      /\ u.waits[u.dest] = "Read" /\ ~Asking(u, u.dest)
      /\ u.rq.what # "none" => u.rq.from # u.dest
      /\ \A i \in 1 .. Len(u.tx) : u.tx[i].what = "Segment" => Head(s.tx).part < u.tx[i].part
      /\ Head(s.tx).part \in 1 .. ReplyLength
      /\ u.count > 0 => Head(s.tx).part <= ReplyLength - u.count
      /\ u.got[u.dest] \in Nat /\ u.got[u.dest] < Head(s.tx).part
  BY <1>1, SegmentFirst
<1>4. /\ ReplyLength \in Nat /\ u.count \in 0 .. ReplyLength
      /\ \A i \in 1 .. Len(u.tx) : u.tx[i].part \in Nat
  <2>1. u.tx \in Seq(TxFrame) /\ u.count \in 0 .. ReplyLength
    BY <1>3 DEF Orderly, Typed
  <2>2. ASSUME NEW i \in 1 .. Len(u.tx)
        PROVE  u.tx[i].part \in Nat
    <3>1. u.tx[i] \in TxFrame
      BY <2>1
    <3> QED
      BY <3>1 DEF TxFrame
  <2> QED
    BY <2>1, <2>2, NodeAssumption
<1>5. n \in 0 .. ReplyLength /\ n <= Head(s.tx).part
  BY <1>2, <1>3, <1>4
<1>6. \A i \in 1 .. Len(u.tx) : u.tx[i].what = "Segment" => n < u.tx[i].part
  BY <1>3, <1>4, <1>5
<1>7. u.count > 0 => n <= ReplyLength - u.count
  BY <1>3, <1>4, <1>5
<1>8. t = [u EXCEPT !.got = [u.got EXCEPT ![u.dest] = n]]
  BY <1>1, <1>2, <1>3 DEF Orderly, Typed
<1> QED
  BY <1>3, <1>5, <1>6, <1>7, <1>8, GotChanged

\* The last segment comes without a first: it is asked for again.
LEMMA LeaveAlone ==
  ASSUME NEW s, Orderly(s), s.tx # <<>>, Head(s.tx).what = "Segment",
         ~(Head(s.tx).part < ReplyLength), s.got[Head(s.tx).to] = 0,
         NEW t, t = [s EXCEPT !.tx = Tail(s.tx),
                              !.rx = Append(s.rx, [what |-> "Nak", from |-> Head(s.tx).to])]
  PROVE  Orderly(t)
<1>1. PICK u : u = [s EXCEPT !.tx = Tail(s.tx)]
  OBVIOUS
<1>2. /\ Orderly(u) /\ NoReaction(u) /\ u.reserved
      /\ u.dest = s.dest /\ s.dest \in Client /\ Head(s.tx).to = s.dest
      /\ u.waits[u.dest] = "Read" /\ ~Asking(u, u.dest)
      /\ u.rq.what # "none" => u.rq.from # u.dest
      /\ u.sn # u.dest /\ u.pip # u.dest /\ ~Answered(u, u.dest)
      /\ ~HasSegment(u) /\ u.count = 0 /\ ~Replying(u)
  BY <1>1, SegmentFirst
<1>3. u.got = s.got /\ u.rx = s.rx
  BY <1>1 DEF Orderly, Typed
<1>4. Free(u, u.dest, "Read")
  BY <1>2, <1>3 DEF Free, Served, Request
<1>5. PICK f : f = [what |-> "Nak", from |-> Head(s.tx).to]
  OBVIOUS
<1>6. f \in RxFrame /\ f.what = "Nak"
  BY <1>2, <1>5 DEF RxFrame, Someone
<1>7. t = [u EXCEPT !.rx = Append(u.rx, f)]
  BY <1>1, <1>3, <1>5 DEF Orderly, Typed
<1> QED
  BY <1>2, <1>4, <1>6, <1>7, AppendReaction

\* The last segment completes the reply, and is acknowledged.
LEMMA LeaveLast ==
  ASSUME NEW s, Orderly(s), s.tx # <<>>, Head(s.tx).what = "Segment",
         ~(Head(s.tx).part < ReplyLength),
         NEW t, t = [s EXCEPT !.tx = Tail(s.tx),
                              !.rx = Append(s.rx, [what |-> "Ack", from |-> Head(s.tx).to]),
                              !.waits = [s.waits EXCEPT ![Head(s.tx).to] = "none"],
                              !.got = [s.got EXCEPT ![Head(s.tx).to] = 0]]
  PROVE  Orderly(t)
<1>1. PICK u : u = [s EXCEPT !.tx = Tail(s.tx)]
  OBVIOUS
<1>2. /\ Orderly(u) /\ NoReaction(u) /\ u.reserved
      /\ u.dest = s.dest /\ s.dest \in Client /\ Head(s.tx).to = s.dest
      /\ u.waits[u.dest] = "Read" /\ ~Asking(u, u.dest)
      /\ u.rq.what # "none" => u.rq.from # u.dest
      /\ u.sn # u.dest /\ u.pip # u.dest /\ ~Answered(u, u.dest)
      /\ ~HasSegment(u) /\ u.count = 0 /\ ~Replying(u)
  BY <1>1, SegmentFirst
<1>3. PICK v : v = [u EXCEPT !.got = [u.got EXCEPT ![u.dest] = 0]]
  OBVIOUS
<1>4. Orderly(v) /\ ~Replying(v)
  <2>1. \A i \in 1 .. Len(u.tx) : u.tx[i].what # "Segment"
    BY <1>2 DEF HasSegment
  <2>2. 0 \in 0 .. ReplyLength
    BY NodeAssumption
  <2> QED
    BY <1>2, <1>3, <2>1, <2>2, GotChanged
<1>5. /\ v.tx = u.tx /\ v.rx = u.rx /\ v.waits = u.waits /\ v.rq = u.rq
      /\ v.reserved = u.reserved /\ v.count = u.count /\ v.dest = u.dest /\ v.sn = u.sn
      /\ v.pip = u.pip /\ v.got[v.dest] = 0
  BY <1>2, <1>3 DEF Orderly, Typed
<1>6. Free(v, v.dest, "Read")
  <2>1. ~Asking(v, v.dest) /\ ~Answered(v, v.dest)
    BY <1>2, <1>5 DEF Asking, Answered
  <2>2. ~Served(v, v.dest)
    BY <1>2, <1>4, <1>5 DEF Served
  <2> QED
    BY <1>2, <1>5, <2>1, <2>2 DEF Free, Request
<1>7. PICK x : x = [v EXCEPT !.waits = [v.waits EXCEPT ![v.dest] = "none"]]
  OBVIOUS
<1>8. Orderly(x)
  BY <1>4, <1>6, <1>7, UnwaitOther
<1>9. /\ x.tx = u.tx /\ x.rx = u.rx /\ x.reserved = u.reserved /\ x.count = u.count
  BY <1>4, <1>5, <1>7 DEF Orderly, Typed
<1>10. NoReaction(x) /\ ~HasSegment(x)
  BY <1>2, <1>9 DEF NoReaction, HasSegment
<1>11. PICK f : f = [what |-> "Ack", from |-> Head(s.tx).to]
  OBVIOUS
<1>12. f \in RxFrame /\ f.what = "Ack"
  BY <1>2, <1>11 DEF RxFrame, Someone
<1>13. t = [x EXCEPT !.rx = Append(x.rx, f)]
  BY <1>1, <1>2, <1>3, <1>7, <1>11 DEF Orderly, Typed
<1> QED
  BY <1>2, <1>8, <1>9, <1>10, <1>12, <1>13, AppendReaction

\* A reset leaves nothing but what the clients wait for.
LEMMA Forget ==
  ASSUME NEW s, Orderly(s),
         NEW t, t = [s EXCEPT !.rx = <<>>, !.tx = <<>>, !.rq = NoRequest, !.reserved = FALSE,
                              !.count = 0, !.dest = Nobody, !.sn = Nobody, !.pip = Nobody]
  PROVE  Orderly(t)
<1>1. /\ t.rx = <<>> /\ t.tx = <<>> /\ t.rq.what = "none" /\ t.count = 0
      /\ t.sn = Nobody /\ t.pip = Nobody /\ t.waits = s.waits /\ t.got = s.got
  BY DEF Orderly, Typed, NoRequest
<1>2. Typed(t)
  <2>1. /\ 0 \in 0 .. ReplyLength /\ Nobody \in Someone
        /\ NoRequest \in [what : {"none", "Read", "Write"}, from : Someone]
        /\ <<>> \in Seq(RxFrame) /\ <<>> \in Seq(TxFrame)
    BY NodeAssumption DEF NoRequest, Someone
  <2> HIDE DEF NoRequest
  <2> QED
    BY <2>1 DEF Orderly, Typed
<1>3. Len(t.rx) = 0 /\ Len(t.tx) = 0 /\ \A i : i \notin 1 .. 0
  BY <1>1
<1>4. ~Replying(t)
  BY <1>1, <1>3 DEF Replying, HasSegment
<1>5. AskedOnce(t) /\ AnswersWaited(t) /\ SegmentsInOrder(t) /\ Reacted(t)
  BY <1>1, <1>3 DEF AskedOnce, AnswersWaited, SegmentsInOrder, Reacted
<1>6. ServedOnce(t) /\ GotWaiting(t)
  BY <1>1, <1>4 DEF ServedOnce, GotWaiting, Orderly
<1> QED
  BY <1>2, <1>5, <1>6 DEF Orderly

-----------------------------------------------------------------------------
(* The steps of the node and its clients                                   *)

AnswersInv ==
  /\ Orderly(Now)
  /\ request = NoRequest \/ request \in [what : {"Read", "Write", "Update"}, from : Client]
  /\ snii.state # "Done" => snii.dest \in Client

answerVars == <<rxq, txq, waits, got, request, reservedXmt, sendcount, dest, snii, pip>>

LEMMA NowIs ==
  ASSUME AnswersInv, NEW s, s = Now
  PROVE  /\ Orderly(s)
         /\ s.rx = rxq /\ s.tx = txq /\ s.waits = waits /\ s.got = got
         /\ request.what \in {"Read", "Write"} => s.rq = request
         /\ request.what \notin {"Read", "Write"} => s.rq = NoRequest
         /\ s.reserved = reservedXmt /\ s.count = sendcount /\ s.dest = dest
         /\ snii.state = "Done" => s.sn = Nobody
         /\ snii.state # "Done" => s.sn = snii.dest /\ s.sn \in Client
         /\ s.pip = pip
BY DEF AnswersInv, Now, Unserved, Identifying

LEMMA AnswersSame ==
  ASSUME AnswersInv, UNCHANGED answerVars
  PROVE  AnswersInv'
BY DEF AnswersInv, Now, answerVars

LEMMA FrameIs ==
  ASSUME NEW type \in {"CAN", "OpenLcb"}, NEW to \in Someone, NEW part \in Nat,
         NEW what \in {"AMD", "Reject", "Report", "Ident", "Segment", "RcvOk", "Pip", "Snii"}
  PROVE  /\ Frame(type, what, to, part) \in TxFrame
         /\ Frame(type, what, to, part).what = what
         /\ Frame(type, what, to, part).to = to
         /\ Frame(type, what, to, part).part = part
BY DEF Frame, TxFrame

LEMMA AnswersInit == Init => AnswersInv
<1> SUFFICES ASSUME Init PROVE AnswersInv
  OBVIOUS
<1> DEFINE s == Now
<1>1. /\ rxq = <<>> /\ txq = <<>> /\ reservedXmt = FALSE /\ sendcount = 0 /\ dest = Nobody
      /\ request = NoRequest /\ snii.state = "Done" /\ pip = Nobody
      /\ waits = [c \in Client |-> "none"] /\ got = [c \in Client |-> 0]
  BY DEF Init, NoSnii
<1>2. /\ s.rx = <<>> /\ s.tx = <<>> /\ s.rq = NoRequest /\ s.rq.what = "none" /\ s.count = 0
      /\ s.sn = Nobody /\ s.pip = Nobody /\ s.waits = waits /\ s.got = got
  BY <1>1 DEF Now, NoRequest, Unserved, Identifying
<1>3. Typed(s)
  <2>1. /\ 0 \in 0 .. ReplyLength /\ Nobody \in Someone
        /\ NoRequest \in [what : {"none", "Read", "Write"}, from : Someone]
        /\ <<>> \in Seq(RxFrame) /\ <<>> \in Seq(TxFrame)
        /\ waits \in [Client -> Request \cup {"none"}]
        /\ got \in [Client -> 0 .. ReplyLength]
    BY <1>1, NodeAssumption DEF NoRequest, Someone
  <2>2. s = [rx |-> <<>>, tx |-> <<>>, waits |-> waits, got |-> got, rq |-> NoRequest,
             reserved |-> FALSE, count |-> 0, dest |-> Nobody, sn |-> Nobody, pip |-> Nobody]
    BY <1>1 DEF Now, NoRequest, Unserved, Identifying
  <2> HIDE DEF NoRequest, s
  <2> QED
    BY <2>1, <2>2 DEF Typed
<1> HIDE DEF s
<1>4. Len(s.rx) = 0 /\ Len(s.tx) = 0 /\ \A i : i \notin 1 .. 0
  BY <1>2
<1>5. ~Replying(s)
  BY <1>2, <1>4 DEF Replying, HasSegment
<1>6. AskedOnce(s) /\ AnswersWaited(s) /\ SegmentsInOrder(s) /\ Reacted(s)
  BY <1>2, <1>4 DEF AskedOnce, AnswersWaited, SegmentsInOrder, Reacted
<1>7. ServedOnce(s) /\ GotWaiting(s)
  BY <1>1, <1>2, <1>5 DEF ServedOnce, GotWaiting
<1>8. Orderly(s)
  BY <1>3, <1>6, <1>7 DEF Orderly
<1> QED
  BY <1>1, <1>8 DEF AnswersInv, s

LEMMA AnswersAME ==
  ASSUME AnswersInv, AnswerAME
  PROVE  AnswersInv'
<1>1. PICK s : s = Now
  OBVIOUS
<1>2. PICK f : f = Frame("CAN", "AMD", Nobody, 0)
  OBVIOUS
<1>3. /\ rxq # <<>> /\ rxq' = Tail(rxq) /\ txq' = Append(txq, f)
      /\ UNCHANGED <<waits, got, request, reservedXmt, sendcount, dest, snii, pip>>
  BY <1>2 DEF AnswerAME, Receive, sendWait, datagramVars, configVars, sniiVars
<1>4. f \in TxFrame /\ f.what = "AMD"
  BY <1>2, FrameIs DEF Someone
<1>5. PICK u : u = [s EXCEPT !.rx = Tail(s.rx)]
  OBVIOUS
<1>6. Orderly(u)
  BY <1>1, <1>3, <1>5, NowIs, TailRx
<1>7. PICK v : v = [u EXCEPT !.tx = Append(u.tx, f)]
  OBVIOUS
<1>8. Orderly(v)
  BY <1>4, <1>6, <1>7, AppendTx
<1>9. Now' = v
  BY <1>1, <1>3, <1>5, <1>7, <1>8 DEF Now, Orderly, Typed
<1> QED
  BY <1>3, <1>8, <1>9 DEF AnswersInv

\* A request of an unknown kind, or one that meets a busy handler, is refused.
LEMMA AnswersReject ==
  ASSUME AnswersInv, NEW c \in Client, RejectOther(c) \/ SNII_reject(c)
  PROVE  AnswersInv'
<1>1. PICK s : s = Now
  OBVIOUS
<1>2. PICK f : f = Frame("OpenLcb", "Reject", c, 0)
  OBVIOUS
<1>3. PICK w \in {"Odd", "Snii"} :
         /\ rxq # <<>> /\ Head(rxq) = [what |-> w, from |-> c]
         /\ rxq' = Tail(rxq) /\ txq' = Append(txq, f)
         /\ UNCHANGED <<waits, got, request, reservedXmt, sendcount, dest, snii, pip>>
  BY <1>2 DEF RejectOther, SNII_reject, Receive, sendMessage, sendWait, datagramVars, configVars,
              sniiVars
<1>4. f \in TxFrame /\ f.what = "Reject" /\ f.to = c /\ IsAnswer(f)
  BY <1>2, FrameIs DEF Someone, IsAnswer
<1>5. PICK u : u = [s EXCEPT !.rx = Tail(s.rx)]
  OBVIOUS
<1>6. Orderly(u)
  BY <1>1, <1>3, <1>5, NowIs, TailRx
<1>7. Free(u, c, w)
  <2>1. Orderly(s) /\ s.rx = rxq /\ s.rx # <<>> /\ Head(s.rx).what = w /\ Head(s.rx).from = c
        /\ w \in Request
    BY <1>1, <1>3, NowIs DEF Request
  <2> QED
    BY <1>5, <2>1, TakeAsked
<1>8. PICK v : v = [u EXCEPT !.tx = Append(u.tx, f)]
  OBVIOUS
<1>9. Orderly(v)
  BY <1>4, <1>6, <1>7, <1>8, GiveAnswer
<1>10. Now' = v
  BY <1>1, <1>3, <1>5, <1>8, <1>9 DEF Now, Orderly, Typed
<1> QED
  BY <1>3, <1>9, <1>10 DEF AnswersInv

LEMMA AnswersAck ==
  ASSUME AnswersInv, NEW c \in Client, ReceiveAck(c)
  PROVE  AnswersInv'
<1>1. PICK s : s = Now
  OBVIOUS
<1>2. /\ rxq # <<>> /\ Head(rxq).what = "Ack" /\ rxq' = Tail(rxq) /\ reservedXmt' = FALSE
      /\ UNCHANGED <<txq, waits, got, request, sendcount, dest, snii, pip>>
  BY DEF ReceiveAck, Receive, NoSend, datagramVars, configVars, sniiVars
<1>3. PICK v : v = [s EXCEPT !.rx = Tail(s.rx), !.reserved = FALSE]
  OBVIOUS
<1>4. Orderly(v)
  BY <1>1, <1>2, <1>3, NowIs, TakeAck
<1>5. Now' = v
  BY <1>1, <1>2, <1>3, <1>4 DEF Now, Orderly, Typed
<1> QED
  BY <1>2, <1>4, <1>5 DEF AnswersInv

LEMMA AnswersNak ==
  ASSUME AnswersInv, NEW c \in Client, ReceiveNak(c)
  PROVE  AnswersInv'
<1>1. PICK s : s = Now
  OBVIOUS
<1>2. /\ rxq # <<>> /\ Head(rxq).what = "Nak" /\ rxq' = Tail(rxq) /\ sendcount' = ReplyLength
      /\ UNCHANGED <<txq, waits, got, request, reservedXmt, dest, snii, pip>>
  BY DEF ReceiveNak, Receive, NoSend, datagramVars, configVars, sniiVars
<1>3. PICK v : v = [s EXCEPT !.rx = Tail(s.rx), !.count = ReplyLength]
  OBVIOUS
<1>4. Orderly(v)
  BY <1>1, <1>2, <1>3, NowIs, TakeNak
<1>5. Now' = v
  BY <1>1, <1>2, <1>3, <1>4 DEF Now, Orderly, Typed
<1> QED
  BY <1>2, <1>4, <1>5 DEF AnswersInv

\* A state that has given up Configuration's request, whose client stops
\* waiting unless it is c
RqGone(s, x, c) ==
  /\ Orderly(x)
  /\ x.rq = NoRequest
  /\ x.waits = [d \in Client |->
                  IF d = request.from /\ d # c /\ request.what # "Update" THEN "none"
                  ELSE waits[d]]
  /\ x.rx = s.rx /\ x.tx = s.tx /\ x.got = s.got /\ x.reserved = s.reserved
  /\ x.count = s.count /\ x.dest = s.dest /\ x.sn = s.sn /\ x.pip = s.pip

LEMMA RqGoneIs ==
  ASSUME AnswersInv, NEW s, s = Now, NEW c \in Client, Asking(s, c)
  PROVE  \E x : RqGone(s, x, c)
<1>1. /\ Orderly(s) /\ s.waits = waits
      /\ request.what \in {"Read", "Write"} => s.rq = request
      /\ request.what \notin {"Read", "Write"} => s.rq = NoRequest
  BY NowIs
<1>2. waits \in [Client -> Request \cup {"none"}]
  BY <1>1 DEF Orderly, Typed
<1>3. CASE request.what \in {"Read", "Write"}
  <2> DEFINE e == request.from
  <2>1. s.rq = request /\ s.rq.what # "none" /\ s.rq.what \in {"Read", "Write"}
    BY <1>1, <1>3
  <2>2. e \in Client
    BY <1>1, <2>1 DEF Orderly, ServedOnce
  <2>3. e # c
    <3>1. Served(s, e)
      BY <2>1 DEF Served
    <3>2. ~Served(s, c)
      BY <1>1 DEF Orderly, AskedOnce, Asking
    <3> QED
      BY <3>1, <3>2
  <2>4. PICK r : r = [s EXCEPT !.rq = NoRequest]
    OBVIOUS
  <2>5. Orderly(r) /\ Free(r, e, request.what)
    BY <1>1, <2>1, <2>4, TakeRq
  <2>6. PICK x : x = [r EXCEPT !.waits = [r.waits EXCEPT ![e] = "none"]]
    OBVIOUS
  <2>7. Orderly(x)
    BY <1>3, <2>5, <2>6, UnwaitOther
  <2>8. /\ x.rq = NoRequest
        /\ x.rx = s.rx /\ x.tx = s.tx /\ x.got = s.got /\ x.reserved = s.reserved
        /\ x.count = s.count /\ x.dest = s.dest /\ x.sn = s.sn /\ x.pip = s.pip
        /\ x.waits = [waits EXCEPT ![e] = "none"]
    BY <1>1, <2>4, <2>5, <2>6 DEF Orderly, Typed
  <2>9. x.waits = [d \in Client |->
                     IF d = request.from /\ d # c /\ request.what # "Update" THEN "none"
                     ELSE waits[d]]
    BY <1>2, <1>3, <2>2, <2>3, <2>8
  <2> QED
    BY <2>7, <2>8, <2>9 DEF RqGone
<1>4. CASE request.what \notin {"Read", "Write"}
  <2>1. request.what = "Update" \/ request.from = Nobody
    BY <1>4 DEF AnswersInv, NoRequest
  <2>2. waits = [d \in Client |->
                   IF d = request.from /\ d # c /\ request.what # "Update" THEN "none"
                   ELSE waits[d]]
    BY <1>2, <2>1, NodeAssumption
  <2> QED
    BY <1>1, <1>4, <2>2 DEF RqGone
<1> QED
  BY <1>3, <1>4

LEMMA AnswersDatagram ==
  ASSUME AnswersInv, NEW c \in Client, NEW what \in {"Read", "Write", "Update"},
         receivedDatagram(what, c)
  PROVE  AnswersInv'
<1>1. PICK s : s = Now
  OBVIOUS
<1>2. PICK f : f = Frame("OpenLcb", "RcvOk", c, 0)
  OBVIOUS
<1>3. /\ rxq # <<>> /\ Head(rxq) = [what |-> what, from |-> c]
      /\ rxq' = Tail(rxq) /\ txq' = Append(txq, f)
      /\ request' = [what |-> what, from |-> c]
      /\ waits' = [d \in Client |->
                     IF d = request.from /\ d # c /\ request.what # "Update" THEN "none"
                     ELSE IF d = c /\ what = "Update" THEN "none" ELSE waits[d]]
      /\ UNCHANGED <<got, reservedXmt, sendcount, dest, snii, pip>>
  BY <1>2 DEF receivedDatagram, Receive, sendMessage, sendWait, datagramVars, sniiVars
<1>4. f \in TxFrame /\ f.what = "RcvOk"
  BY <1>2, FrameIs DEF Someone
<1>5. /\ Orderly(s) /\ s.rx = rxq /\ s.rx # <<>> /\ Head(s.rx).what = what
      /\ Head(s.rx).from = c /\ what \in Request
  BY <1>1, <1>3, NowIs DEF Request
<1>6. Asking(s, c)
  <2>1. s.rx \in Seq(RxFrame)
    BY <1>5 DEF Orderly, Typed
  <2>2. 1 \in 1 .. Len(s.rx) /\ Head(s.rx) = s.rx[1]
    BY <1>5, <2>1, TailIs
  <2> QED
    BY <1>5, <2>2 DEF Asking
<1>7. PICK x : RqGone(s, x, c)
  BY <1>1, <1>6, RqGoneIs
<1>8. PICK y : y = [x EXCEPT !.rx = Tail(x.rx)]
  OBVIOUS
<1>9. Orderly(y) /\ Free(y, c, what)
  <2>1. Orderly(x) /\ x.rx = s.rx
    BY <1>7 DEF RqGone
  <2> QED
    BY <1>5, <1>8, <2>1, TailRx, TakeAsked
<1>10. /\ y.rx = Tail(rxq) /\ y.tx = txq /\ y.got = got /\ y.rq = NoRequest
       /\ y.reserved = reservedXmt /\ y.count = sendcount /\ y.dest = dest
       /\ y.sn = Identifying(snii) /\ y.pip = pip
       /\ y.waits = [d \in Client |->
                       IF d = request.from /\ d # c /\ request.what # "Update" THEN "none"
                       ELSE waits[d]]
  BY <1>1, <1>7, <1>8 DEF RqGone, Orderly, Typed, Now
<1>11. PICK z : /\ Orderly(z)
                /\ z.rq = Unserved(request') /\ z.waits = waits'
                /\ z.rx = y.rx /\ z.tx = y.tx /\ z.got = y.got /\ z.reserved = y.reserved
                /\ z.count = y.count /\ z.dest = y.dest /\ z.sn = y.sn /\ z.pip = y.pip
  <2>1. CASE what \in {"Read", "Write"}
    <3>1. PICK z : z = [y EXCEPT !.rq = [what |-> what, from |-> c]]
      OBVIOUS
    <3>2. y.rq.what = "none"
      BY <1>10 DEF NoRequest
    <3>3. Orderly(z)
      BY <1>9, <2>1, <3>1, <3>2, GiveRq
    <3>4. Unserved(request') = [what |-> what, from |-> c]
      BY <1>3, <2>1 DEF Unserved
    <3>5. waits' = y.waits
      BY <1>3, <1>10, <2>1
    <3>6. /\ z.rq = [what |-> what, from |-> c] /\ z.waits = y.waits
          /\ z.rx = y.rx /\ z.tx = y.tx /\ z.got = y.got /\ z.reserved = y.reserved
          /\ z.count = y.count /\ z.dest = y.dest /\ z.sn = y.sn /\ z.pip = y.pip
      BY <1>9, <3>1 DEF Orderly, Typed
    <3> QED
      BY <3>3, <3>4, <3>5, <3>6
  <2>2. CASE what = "Update"
    <3>1. PICK z : z = [y EXCEPT !.waits = [y.waits EXCEPT ![c] = "none"]]
      OBVIOUS
    <3>2. Orderly(z)
      BY <1>9, <2>2, <3>1, UnwaitOther
    <3>3. Unserved(request') = NoRequest
      BY <1>3, <2>2 DEF Unserved
    <3>4. waits' = [y.waits EXCEPT ![c] = "none"]
      BY <1>3, <1>10, <2>2
    <3>5. /\ z.rq = y.rq /\ z.waits = [y.waits EXCEPT ![c] = "none"]
          /\ z.rx = y.rx /\ z.tx = y.tx /\ z.got = y.got /\ z.reserved = y.reserved
          /\ z.count = y.count /\ z.dest = y.dest /\ z.sn = y.sn /\ z.pip = y.pip
      BY <1>9, <3>1 DEF Orderly, Typed
    <3> QED
      BY <1>10, <3>2, <3>3, <3>4, <3>5
  <2> QED
    BY <2>1, <2>2
<1>12. PICK v : v = [z EXCEPT !.tx = Append(z.tx, f)]
  OBVIOUS
<1>13. Orderly(v)
  BY <1>4, <1>11, <1>12, AppendTx
<1>14. Now' = v
  <2>1. /\ v.tx = Append(z.tx, f) /\ v.rx = z.rx /\ v.waits = z.waits /\ v.got = z.got
        /\ v.rq = z.rq /\ v.reserved = z.reserved /\ v.count = z.count /\ v.dest = z.dest
        /\ v.sn = z.sn /\ v.pip = z.pip
    BY <1>11, <1>12 DEF Orderly, Typed
  <2> QED
    BY <1>3, <1>10, <1>11, <1>13, <2>1 DEF Now, Orderly, Typed
<1> QED
  BY <1>3, <1>13, <1>14 DEF AnswersInv

LEMMA AnswersPip ==
  ASSUME AnswersInv, NEW c \in Client, PIP_receivedFrame(c)
  PROVE  AnswersInv'
<1>1. PICK s : s = Now
  OBVIOUS
<1>2. /\ rxq # <<>> /\ Head(rxq) = [what |-> "Pip", from |-> c]
      /\ rxq' = Tail(rxq) /\ pip' = c
      /\ waits' = [d \in Client |-> IF d = pip /\ d # c THEN "none" ELSE waits[d]]
      /\ UNCHANGED <<txq, got, request, reservedXmt, sendcount, dest, snii>>
  BY DEF PIP_receivedFrame, Receive, NoSend, datagramVars, configVars, sniiVars
<1>3. /\ Orderly(s) /\ s.rx = rxq /\ s.rx # <<>> /\ Head(s.rx).what = "Pip"
      /\ Head(s.rx).from = c /\ "Pip" \in Request /\ s.pip = pip /\ s.waits = waits
  BY <1>1, <1>2, NowIs DEF Request
<1>4. waits \in [Client -> Request \cup {"none"}]
  BY <1>3 DEF Orderly, Typed
<1>5. Asking(s, c)
  <2>1. s.rx \in Seq(RxFrame)
    BY <1>3 DEF Orderly, Typed
  <2>2. 1 \in 1 .. Len(s.rx) /\ Head(s.rx) = s.rx[1]
    BY <1>3, <2>1, TailIs
  <2> QED
    BY <1>3, <2>2 DEF Asking
<1>6. PICK x : /\ Orderly(x)
               /\ x.pip = Nobody /\ x.waits = waits'
               /\ x.rx = s.rx /\ x.tx = s.tx /\ x.got = s.got /\ x.rq = s.rq
               /\ x.reserved = s.reserved /\ x.count = s.count /\ x.dest = s.dest
               /\ x.sn = s.sn
  <2>1. CASE pip = Nobody
    <3>1. waits' = waits
      BY <1>2, <1>4, <2>1, NodeAssumption
    <3> QED
      BY <1>3, <2>1, <3>1
  <2>2. CASE pip # Nobody
    <3>1. pip \in Client
      BY <1>3, <2>2 DEF Orderly, Typed, Someone
    <3>2. pip # c
      <4>1. Served(s, pip)
        BY <1>3 DEF Served
      <4>2. ~Served(s, c)
        BY <1>3, <1>5 DEF Orderly, AskedOnce, Asking
      <4> QED
        BY <4>1, <4>2
    <3>3. PICK r : r = [s EXCEPT !.pip = Nobody]
      OBVIOUS
    <3>4. Orderly(r) /\ Free(r, pip, "Pip")
      BY <1>3, <2>2, <3>3, TakePip
    <3>5. PICK x : x = [r EXCEPT !.waits = [r.waits EXCEPT ![pip] = "none"]]
      OBVIOUS
    <3>6. Orderly(x)
      BY <3>4, <3>5, UnwaitOther
    <3>7. waits' = [waits EXCEPT ![pip] = "none"]
      BY <1>2, <1>4, <3>1, <3>2
    <3>8. /\ r.pip = Nobody /\ r.waits = waits
          /\ r.rx = s.rx /\ r.tx = s.tx /\ r.got = s.got /\ r.rq = s.rq
          /\ r.reserved = s.reserved /\ r.count = s.count /\ r.dest = s.dest
          /\ r.sn = s.sn
      BY <1>3, <3>3 DEF Orderly, Typed
    <3>9. /\ x.pip = r.pip /\ x.waits = [r.waits EXCEPT ![pip] = "none"]
          /\ x.rx = r.rx /\ x.tx = r.tx /\ x.got = r.got /\ x.rq = r.rq
          /\ x.reserved = r.reserved /\ x.count = r.count /\ x.dest = r.dest
          /\ x.sn = r.sn
      BY <3>4, <3>5 DEF Orderly, Typed
    <3> QED
      BY <3>6, <3>7, <3>8, <3>9
  <2> QED
    BY <2>1, <2>2
<1>7. PICK y : y = [x EXCEPT !.rx = Tail(x.rx)]
  OBVIOUS
<1>8. Orderly(y) /\ Free(y, c, "Pip")
  BY <1>3, <1>6, <1>7, TailRx, TakeAsked
<1>9. PICK v : v = [y EXCEPT !.pip = c]
  OBVIOUS
<1>10. Orderly(v)
  <2>1. y.pip = Nobody
    BY <1>6, <1>7 DEF Orderly, Typed
  <2> QED
    BY <1>8, <1>9, <2>1, GivePip
<1>11. Now' = v
  <2>1. /\ v.rx = Tail(s.rx) /\ v.tx = s.tx /\ v.waits = waits' /\ v.got = s.got
        /\ v.rq = s.rq /\ v.reserved = s.reserved /\ v.count = s.count /\ v.dest = s.dest
        /\ v.sn = s.sn /\ v.pip = c
    BY <1>6, <1>7, <1>8, <1>9 DEF Orderly, Typed
  <2> QED
    BY <1>1, <1>2, <1>10, <2>1 DEF Now, Orderly, Typed
<1> QED
  BY <1>2, <1>10, <1>11 DEF AnswersInv

LEMMA AnswersSnii ==
  ASSUME AnswersInv, NEW c \in Client, SNII_receivedFrame(c)
  PROVE  AnswersInv'
<1>1. PICK s : s = Now
  OBVIOUS
<1>2. /\ rxq # <<>> /\ Head(rxq) = [what |-> "Snii", from |-> c] /\ snii.state = "Done"
      /\ rxq' = Tail(rxq) /\ snii' = [state |-> "Const", ptr |-> 0, dest |-> c]
      /\ UNCHANGED <<txq, waits, got, request, reservedXmt, sendcount, dest, pip>>
  BY DEF SNII_receivedFrame, Receive, NoSend, datagramVars, configVars
<1>3. /\ Orderly(s) /\ s.rx = rxq /\ s.rx # <<>> /\ Head(s.rx).what = "Snii"
      /\ Head(s.rx).from = c /\ "Snii" \in Request /\ s.sn = Nobody
  BY <1>1, <1>2, NowIs DEF Request
<1>4. PICK u : u = [s EXCEPT !.rx = Tail(s.rx)]
  OBVIOUS
<1>5. Orderly(u) /\ Free(u, c, "Snii")
  BY <1>3, <1>4, TailRx, TakeAsked
<1>6. PICK v : v = [u EXCEPT !.sn = c]
  OBVIOUS
<1>7. Orderly(v)
  <2>1. u.sn = Nobody
    BY <1>3, <1>4 DEF Orderly, Typed
  <2> QED
    BY <1>5, <1>6, <2>1, GiveSnii
<1>8. snii'.state = "Const" /\ snii'.dest = c /\ Identifying(snii') = c
  BY <1>2 DEF Identifying
<1>9. Now' = v
  BY <1>1, <1>2, <1>4, <1>6, <1>7, <1>8 DEF Now, Orderly, Typed
<1> QED
  BY <1>2, <1>7, <1>8, <1>9 DEF AnswersInv

\* A frame that answers nobody
LEMMA AnswersOther ==
  ASSUME AnswersInv, NEW f \in TxFrame, f.what \in {"AMD", "Report", "Ident", "RcvOk"},
         txq' = Append(txq, f),
         UNCHANGED <<rxq, waits, got, request, reservedXmt, sendcount, dest, snii, pip>>
  PROVE  AnswersInv'
<1>1. PICK s : s = Now
  OBVIOUS
<1>2. PICK v : v = [s EXCEPT !.tx = Append(s.tx, f)]
  OBVIOUS
<1>3. Orderly(v)
  BY <1>1, <1>2, NowIs, AppendTx
<1>4. Now' = v
  BY <1>1, <1>2, <1>3 DEF Now, Orderly, Typed
<1> QED
  BY <1>3, <1>4 DEF AnswersInv

LEMMA AnswersReport ==
  ASSUME AnswersInv, InputInv, pce_check
  PROVE  AnswersInv'
<1>1. UNCHANGED <<rxq, waits, got, request, reservedXmt, sendcount, dest, snii, pip>>
  BY DEF pce_check, datagramVars, configVars, sniiVars
<1>2. CASE events = {}
  BY <1>1, <1>2, AnswersSame DEF pce_check, answerVars
<1>3. CASE events # {}
  <2>1. Min(events) \in Nat
    <3>1. events \subseteq Nat
      BY NodeAssumption DEF InputInv, InputTypes
    <3> QED
      BY <1>3, <3>1, MinIs
  <2>2. PICK f : f = Frame("OpenLcb", "Report", Nobody, Min(events))
    OBVIOUS
  <2>3. f \in TxFrame /\ f.what = "Report"
    BY <2>1, <2>2, FrameIs DEF Someone
  <2>4. txq' = Append(txq, f)
    BY <1>3, <2>2 DEF pce_check, sendMessage, sendWait
  <2> QED
    BY <1>1, <2>3, <2>4, AnswersOther
<1> QED
  BY <1>2, <1>3

LEMMA AnswersIdent ==
  ASSUME AnswersInv, bg_check
  PROVE  AnswersInv'
<1>1. UNCHANGED <<rxq, waits, got, request, reservedXmt, sendcount, dest, snii, pip>>
  BY DEF bg_check, datagramVars, configVars, sniiVars
<1>2. CASE NoSend
  BY <1>1, <1>2, AnswersSame DEF NoSend, answerVars
<1>3. CASE sendMessage("Ident", Nobody, 0)
  <2>1. PICK f : f = Frame("OpenLcb", "Ident", Nobody, 0)
    OBVIOUS
  <2>2. f \in TxFrame /\ f.what = "Ident"
    BY <2>1, FrameIs DEF Someone
  <2>3. txq' = Append(txq, f)
    BY <1>3, <2>1 DEF sendMessage, sendWait
  <2> QED
    BY <1>1, <2>2, <2>3, AnswersOther
<1> QED
  BY <1>2, <1>3 DEF bg_check

LEMMA AnswersSegment ==
  ASSUME AnswersInv, LoopInv, dg_check
  PROVE  AnswersInv'
<1>1. UNCHANGED <<rxq, waits, got, request, reservedXmt, dest, snii, pip>>
  BY DEF dg_check, configVars, sniiVars
<1>2. CASE UNCHANGED <<txq, sendcount>>
  BY <1>1, <1>2, AnswersSame DEF answerVars
<1>3. CASE ~UNCHANGED <<txq, sendcount>>
  <2>1. PICK s : s = Now
    OBVIOUS
  <2>2. PICK f : f = Frame(txType, "Segment", dest, ReplyLength - sendcount + 1)
    OBVIOUS
  <2>3. sendcount > 0 /\ txq' = Append(txq, f) /\ sendcount' = sendcount - 1
    BY <1>3, <2>2 DEF dg_check, sendWait
  <2>4. Orderly(s) /\ s.count = sendcount /\ s.dest = dest
    BY <2>1, NowIs
  <2>5. ReplyLength - sendcount + 1 \in Nat /\ dest \in Someone
    <3>1. sendcount \in 0 .. ReplyLength /\ dest \in Someone
      BY <2>4 DEF Orderly, Typed
    <3> QED
      BY <3>1, NodeAssumption
  <2>6. txType \in {"CAN", "OpenLcb"}
    BY DEF LoopInv
  <2>7. /\ f \in TxFrame /\ f.what = "Segment" /\ f.to = s.dest
        /\ f.part = ReplyLength - s.count + 1
    BY <2>2, <2>4, <2>5, <2>6, FrameIs
  <2>8. PICK v : v = [s EXCEPT !.tx = Append(s.tx, f), !.count = s.count - 1]
    OBVIOUS
  <2>9. Orderly(v)
    BY <2>3, <2>4, <2>7, <2>8, Segment
  <2>10. Now' = v
    BY <1>1, <2>1, <2>3, <2>8, <2>9 DEF Now, Orderly, Typed
  <2> QED
    BY <1>1, <2>9, <2>10 DEF AnswersInv
<1> QED
  BY <1>2, <1>3

LEMMA AnswersRead ==
  ASSUME AnswersInv, processRead, UNCHANGED <<rxq, txq, got, pip>>
  PROVE  AnswersInv'
<1>1. PICK s : s = Now
  OBVIOUS
<1>2. /\ request.what = "Read" /\ reservedXmt' = TRUE /\ sendcount' = ReplyLength
      /\ dest' = request.from /\ request' = NoRequest
      /\ UNCHANGED <<rxq, txq, waits, got, snii, pip>>
  BY DEF processRead, sniiVars
<1>3. Orderly(s) /\ s.rq = request /\ s.rq.what # "none" /\ s.rq.what = "Read"
  BY <1>1, <1>2, NowIs
<1>4. PICK u : u = [s EXCEPT !.rq = NoRequest]
  OBVIOUS
<1>5. Orderly(u) /\ Free(u, request.from, "Read")
  BY <1>3, <1>4, TakeRq
<1>6. ~u.reserved
  <2>1. ~reservedXmt /\ s.reserved = reservedXmt
    BY <1>1, NowIs DEF processRead
  <2>2. u.reserved = s.reserved
    BY <1>3, <1>4 DEF Orderly, Typed
  <2> QED
    BY <2>1, <2>2
<1>7. PICK v : v = [u EXCEPT !.reserved = TRUE, !.count = ReplyLength, !.dest = request.from]
  OBVIOUS
<1>8. Orderly(v)
  BY <1>5, <1>6, <1>7, GiveReply
<1>9. Unserved(request') = NoRequest
  BY <1>2 DEF Unserved
<1>10. Now' = v
  BY <1>1, <1>2, <1>4, <1>7, <1>8, <1>9 DEF Now, Orderly, Typed
<1> QED
  BY <1>2, <1>8, <1>10 DEF AnswersInv

LEMMA AnswersWrite ==
  ASSUME AnswersInv, processWrite, UNCHANGED <<rxq, txq, got, pip>>
  PROVE  AnswersInv'
<1>1. PICK s : s = Now
  OBVIOUS
<1>2. /\ request.what = "Write" /\ request' = NoRequest
      /\ waits' = [waits EXCEPT ![request.from] = "none"]
      /\ UNCHANGED <<rxq, txq, got, reservedXmt, sendcount, dest, snii, pip>>
  BY DEF processWrite, datagramVars
<1>3. Orderly(s) /\ s.rq = request /\ s.rq.what # "none" /\ s.rq.what = "Write"
  BY <1>1, <1>2, NowIs
<1>4. PICK u : u = [s EXCEPT !.rq = NoRequest]
  OBVIOUS
<1>5. Orderly(u) /\ Free(u, request.from, "Write")
  BY <1>3, <1>4, TakeRq
<1>6. PICK v : v = [u EXCEPT !.waits = [u.waits EXCEPT ![request.from] = "none"]]
  OBVIOUS
<1>7. Orderly(v)
  BY <1>5, <1>6, UnwaitOther
<1>8. Unserved(request') = NoRequest
  BY <1>2 DEF Unserved
<1>9. Now' = v
  <2>1. u.waits = waits
    BY <1>1, <1>3, <1>4 DEF Now, Orderly, Typed
  <2> QED
    BY <1>1, <1>2, <1>4, <1>6, <1>7, <1>8, <2>1 DEF Now, Orderly, Typed
<1> QED
  BY <1>2, <1>7, <1>9 DEF AnswersInv

LEMMA AnswersReset ==
  ASSUME AnswersInv, bg_reset
  PROVE  AnswersInv'
<1>1. PICK s : s = Now
  OBVIOUS
<1>2. /\ rxq' = <<>> /\ txq' = <<>> /\ reservedXmt' = FALSE /\ sendcount' = 0 /\ dest' = Nobody
      /\ request' = NoRequest /\ snii' = NoSnii /\ pip' = Nobody
      /\ UNCHANGED <<waits, got>>
  BY DEF bg_reset
<1>3. PICK v : v = [s EXCEPT !.rx = <<>>, !.tx = <<>>, !.rq = NoRequest, !.reserved = FALSE,
                             !.count = 0, !.dest = Nobody, !.sn = Nobody, !.pip = Nobody]
  OBVIOUS
<1>4. Orderly(v)
  BY <1>1, <1>3, NowIs, Forget
<1>5. Unserved(request') = NoRequest /\ Identifying(snii') = Nobody /\ snii'.state = "Done"
  BY <1>2, NoSniiIs DEF Unserved, Identifying, NoRequest
<1>6. Now' = v
  BY <1>1, <1>2, <1>3, <1>4, <1>5 DEF Now, Orderly, Typed
<1> QED
  BY <1>2, <1>4, <1>5, <1>6 DEF AnswersInv

LEMMA AnswersProtocols ==
  ASSUME AnswersInv, PIP_check
  PROVE  AnswersInv'
<1>1. UNCHANGED <<rxq, waits, got, request, reservedXmt, sendcount, dest, snii>>
  BY DEF PIP_check, datagramVars, configVars, sniiVars
<1>2. CASE NoSend /\ UNCHANGED pip
  BY <1>1, <1>2, AnswersSame DEF NoSend, answerVars
<1>3. CASE pip # Nobody /\ sendMessage("Pip", pip, 0) /\ pip' = Nobody
  <2>1. PICK s : s = Now
    OBVIOUS
  <2>2. PICK f : f = Frame("OpenLcb", "Pip", pip, 0)
    OBVIOUS
  <2>3. txq' = Append(txq, f)
    BY <1>3, <2>2 DEF sendMessage, sendWait
  <2>4. Orderly(s) /\ s.pip = pip /\ pip \in Someone
    BY <2>1, NowIs DEF Orderly, Typed
  <2>5. f \in TxFrame /\ f.what = "Pip" /\ f.to = pip /\ IsAnswer(f)
    BY <2>2, <2>4, FrameIs DEF IsAnswer
  <2>6. PICK u : u = [s EXCEPT !.pip = Nobody]
    OBVIOUS
  <2>7. Orderly(u) /\ Free(u, pip, "Pip")
    BY <1>3, <2>4, <2>6, TakePip
  <2>8. PICK v : v = [u EXCEPT !.tx = Append(u.tx, f)]
    OBVIOUS
  <2>9. Orderly(v)
    BY <2>5, <2>7, <2>8, GiveAnswer
  <2>10. Now' = v
    BY <1>1, <1>3, <2>1, <2>3, <2>6, <2>8, <2>9 DEF Now, Orderly, Typed
  <2> QED
    BY <1>1, <2>9, <2>10 DEF AnswersInv
<1> QED
  BY <1>2, <1>3 DEF PIP_check

LEMMA AnswersIdentification ==
  ASSUME AnswersInv, SniiInv, SNII_check
  PROVE  AnswersInv'
<1>1. UNCHANGED <<rxq, waits, got, request, reservedXmt, sendcount, dest, pip>>
  BY DEF SNII_check, datagramVars, configVars
<1>2. CASE NoSend /\ UNCHANGED sniiVars
  BY <1>1, <1>2, AnswersSame DEF NoSend, sniiVars, answerVars
<1>3. CASE ~(NoSend /\ UNCHANGED sniiVars)
  <2>1. PICK r : r = SniiRun
    OBVIOUS
  <2>2. PICK f : f = Frame("OpenLcb", "Snii", snii.dest, IF r.at[1] = "Done" THEN 1 ELSE 0)
    OBVIOUS
  <2>3. /\ snii.state # "Done" /\ txq' = Append(txq, f)
        /\ snii' = [snii EXCEPT !.state = r.at[1], !.ptr = r.at[2]]
    BY <1>3, <2>1, <2>2 DEF SNII_check, sendMessage, sendWait
  <2>4. PICK s : s = Now
    OBVIOUS
  <2>5. Orderly(s) /\ s.sn = snii.dest /\ s.sn # Nobody /\ snii.dest \in Client
    BY <2>3, <2>4, NowIs, NodeAssumption
  <2>6. snii'.state = r.at[1] /\ snii'.dest = snii.dest
    BY <2>3 DEF SniiInv
  <2>7. snii.dest \in Someone
    BY <2>5 DEF Someone
  <2>8. CASE r.at[1] = "Done"
    <3>1. f \in TxFrame /\ f.what = "Snii" /\ f.to = snii.dest /\ IsAnswer(f)
      <4>1. f = Frame("OpenLcb", "Snii", snii.dest, 1)
        BY <2>2, <2>8
      <4> QED
        BY <2>7, <4>1, FrameIs DEF IsAnswer
    <3>2. PICK u : u = [s EXCEPT !.sn = Nobody]
      OBVIOUS
    <3>3. Orderly(u) /\ Free(u, snii.dest, "Snii")
      BY <2>5, <3>2, TakeSnii
    <3>4. PICK v : v = [u EXCEPT !.tx = Append(u.tx, f)]
      OBVIOUS
    <3>5. Orderly(v)
      BY <3>1, <3>3, <3>4, GiveAnswer
    <3>6. Identifying(snii') = Nobody
      BY <2>6, <2>8 DEF Identifying
    <3>7. Now' = v
      BY <1>1, <2>3, <2>4, <3>2, <3>4, <3>5, <3>6 DEF Now, Orderly, Typed
    <3> QED
      BY <1>1, <2>6, <2>8, <3>5, <3>7 DEF AnswersInv
  <2>9. CASE r.at[1] # "Done"
    <3>1. f \in TxFrame /\ f.what = "Snii" /\ f.to = s.sn /\ f.part = 0
      <4>1. f = Frame("OpenLcb", "Snii", snii.dest, 0)
        BY <2>2, <2>9
      <4> QED
        BY <2>5, <2>7, <4>1, FrameIs
    <3>2. PICK v : v = [s EXCEPT !.tx = Append(s.tx, f)]
      OBVIOUS
    <3>3. Orderly(v)
      BY <2>5, <3>1, <3>2, SniiPart
    <3>4. Identifying(snii') = Identifying(snii)
      BY <2>3, <2>6, <2>9 DEF Identifying
    <3>5. Now' = v
      BY <1>1, <2>3, <2>4, <3>2, <3>3, <3>4 DEF Now, Orderly, Typed
    <3> QED
      BY <1>1, <2>5, <2>6, <3>3, <3>5 DEF AnswersInv
  <2> QED
    BY <2>8, <2>9
<1> QED
  BY <1>2, <1>3

LEMMA AnswersAsk ==
  ASSUME AnswersInv, NEW c \in Client, NEW w \in Request, Ask(c, w)
  PROVE  AnswersInv'
<1>1. PICK s : s = Now
  OBVIOUS
<1>2. /\ waits[c] = "none" /\ rxq' = Append(rxq, [what |-> w, from |-> c])
      /\ waits' = [waits EXCEPT ![c] = w]
      /\ UNCHANGED <<txq, got, request, reservedXmt, sendcount, dest, snii, pip>>
  BY DEF Ask, datagramVars, configVars, sniiVars
<1>3. PICK u : u = [s EXCEPT !.waits = [s.waits EXCEPT ![c] = w]]
  OBVIOUS
<1>4. Orderly(s) /\ s.waits = waits
  BY <1>1, NowIs
<1>5. Orderly(u) /\ Free(u, c, w)
  BY <1>2, <1>3, <1>4, Wait
<1>6. PICK v : v = [u EXCEPT !.rx = Append(u.rx, [what |-> w, from |-> c])]
  OBVIOUS
<1>7. Orderly(v)
  BY <1>5, <1>6, GiveRx
<1>8. Now' = v
  BY <1>1, <1>2, <1>3, <1>6, <1>7 DEF Now, Orderly, Typed
<1> QED
  BY <1>2, <1>7, <1>8 DEF AnswersInv

LEMMA AnswersEnquire ==
  ASSUME AnswersInv, Enquire
  PROVE  AnswersInv'
<1>1. PICK s : s = Now
  OBVIOUS
<1>2. PICK f : f = [what |-> "AME", from |-> Nobody]
  OBVIOUS
<1>3. /\ rxq' = Append(rxq, f)
      /\ UNCHANGED <<txq, waits, got, request, reservedXmt, sendcount, dest, snii, pip>>
  BY <1>2 DEF Enquire, datagramVars, configVars, sniiVars
<1>4. f \in RxFrame /\ f.what = "AME"
  BY <1>2 DEF RxFrame, Someone
<1>5. PICK v : v = [s EXCEPT !.rx = Append(s.rx, f)]
  OBVIOUS
<1>6. Orderly(v)
  BY <1>1, <1>4, <1>5, NowIs, AppendRx
<1>7. Now' = v
  BY <1>1, <1>3, <1>5, <1>6 DEF Now, Orderly, Typed
<1> QED
  BY <1>3, <1>6, <1>7 DEF AnswersInv

LEMMA AnswersTransmit ==
  ASSUME AnswersInv, Transmit
  PROVE  AnswersInv'
<1>1. PICK s : s = Now
  OBVIOUS
<1>2. PICK f : f = Head(txq)
  OBVIOUS
<1>3. /\ txq # <<>> /\ txq' = Tail(txq)
      /\ UNCHANGED <<request, reservedXmt, sendcount, dest, snii, pip>>
  BY DEF Transmit, datagramVars, configVars, sniiVars
<1>4. /\ Orderly(s) /\ s.tx = txq /\ s.tx # <<>> /\ Head(s.tx) = f /\ s.got = got
      /\ s.rx = rxq /\ s.waits = waits
  BY <1>1, <1>2, <1>3, NowIs
<1>5. SUFFICES \E v : Orderly(v) /\ Now' = v
  BY <1>3 DEF AnswersInv
<1>6. CASE UNCHANGED <<rxq, waits, got>>
  <2>1. PICK v : v = [s EXCEPT !.tx = Tail(s.tx)]
    OBVIOUS
  <2>2. Orderly(v)
    BY <1>4, <2>1, TailTx
  <2>3. Now' = v
    BY <1>1, <1>3, <1>6, <2>1, <2>2 DEF Now, Orderly, Typed
  <2> QED
    BY <2>2, <2>3
<1>7. CASE /\ IsAnswer(f)
           /\ waits' = [waits EXCEPT ![f.to] = "none"]
           /\ UNCHANGED <<rxq, got>>
  <2>1. PICK v : v = [s EXCEPT !.tx = Tail(s.tx),
                               !.waits = [s.waits EXCEPT ![Head(s.tx).to] = "none"]]
    OBVIOUS
  <2>2. Orderly(v)
    BY <1>4, <1>7, <2>1, LeaveAnswer
  <2>3. Now' = v
    BY <1>1, <1>2, <1>3, <1>7, <2>1, <2>2 DEF Now, Orderly, Typed
  <2> QED
    BY <2>2, <2>3
<1>8. CASE /\ f.what = "Segment" /\ f.part < ReplyLength
           /\ got' = [got EXCEPT ![f.to] = @ + 1]
           /\ UNCHANGED <<rxq, waits>>
  <2>1. PICK v : v = [s EXCEPT !.tx = Tail(s.tx),
                        !.got = [s.got EXCEPT ![Head(s.tx).to] = s.got[Head(s.tx).to] + 1]]
    OBVIOUS
  <2>2. Orderly(v)
    BY <1>4, <1>8, <2>1, LeaveMiddle
  <2>3. Now' = v
    BY <1>1, <1>2, <1>3, <1>8, <2>1, <2>2 DEF Now, Orderly, Typed
  <2> QED
    BY <2>2, <2>3
<1>9. CASE /\ f.what = "Segment" /\ ~(f.part < ReplyLength) /\ got[f.to] = 0
           /\ rxq' = Append(rxq, [what |-> "Nak", from |-> f.to])
           /\ UNCHANGED <<waits, got>>
  <2>1. PICK v : v = [s EXCEPT !.tx = Tail(s.tx),
                               !.rx = Append(s.rx, [what |-> "Nak", from |-> Head(s.tx).to])]
    OBVIOUS
  <2>2. Orderly(v)
    BY <1>4, <1>9, <2>1, LeaveAlone
  <2>3. Now' = v
    BY <1>1, <1>2, <1>3, <1>9, <2>1, <2>2 DEF Now, Orderly, Typed
  <2> QED
    BY <2>2, <2>3
<1>10. CASE /\ f.what = "Segment" /\ ~(f.part < ReplyLength)
            /\ rxq' = Append(rxq, [what |-> "Ack", from |-> f.to])
            /\ waits' = [waits EXCEPT ![f.to] = "none"]
            /\ got' = [got EXCEPT ![f.to] = 0]
  <2>1. PICK v : v = [s EXCEPT !.tx = Tail(s.tx),
                               !.rx = Append(s.rx, [what |-> "Ack", from |-> Head(s.tx).to]),
                               !.waits = [s.waits EXCEPT ![Head(s.tx).to] = "none"],
                               !.got = [s.got EXCEPT ![Head(s.tx).to] = 0]]
    OBVIOUS
  <2>2. Orderly(v)
    BY <1>4, <1>10, <2>1, LeaveLast
  <2>3. /\ v.tx = txq' /\ v.rx = rxq' /\ v.waits = waits' /\ v.got = got'
        /\ v.rq = s.rq /\ v.reserved = s.reserved /\ v.count = s.count /\ v.dest = s.dest
        /\ v.sn = s.sn /\ v.pip = s.pip
    BY <1>3, <1>4, <1>10, <2>1 DEF Orderly, Typed
  <2>4. Now' = v
    BY <1>1, <1>3, <2>2, <2>3 DEF Now, Orderly, Typed
  <2> QED
    BY <2>2, <2>4
<1>11. CASE f.what = "Segment"
  <2>1. TakeSegment(f)
    BY <1>2, <1>11 DEF Transmit
  <2> QED
    BY <1>6, <1>8, <1>9, <1>10, <1>11, <2>1 DEF TakeSegment
<1>12. CASE f.what # "Segment"
  <2>1. \/ IsAnswer(f) /\ waits' = [waits EXCEPT ![f.to] = "none"] /\ UNCHANGED <<rxq, got>>
        \/ UNCHANGED <<rxq, waits, got>>
    BY <1>2, <1>12 DEF Transmit, IsAnswer
  <2> QED
    BY <1>6, <1>7, <2>1
<1> QED
  BY <1>11, <1>12

LEMMA AnswersReceived ==
  ASSUME AnswersInv, NEW c \in Client, ReceiveFrom(c)
  PROVE  AnswersInv'
<1>1. CASE RejectOther(c) \/ SNII_reject(c)
  BY <1>1, AnswersReject
<1>2. CASE ReceiveAck(c)
  BY <1>2, AnswersAck
<1>3. CASE ReceiveNak(c)
  BY <1>3, AnswersNak
<1>4. ASSUME NEW what \in {"Read", "Write", "Update"}, receivedDatagram(what, c)
      PROVE  AnswersInv'
  BY <1>4, AnswersDatagram
<1>5. CASE PIP_receivedFrame(c)
  BY <1>5, AnswersPip
<1>6. CASE SNII_receivedFrame(c)
  BY <1>6, AnswersSnii
<1> QED
  BY <1>1, <1>2, <1>3, <1>4, <1>5, <1>6 DEF ReceiveFrom

LEMMA AnswersConfigured ==
  ASSUME AnswersInv, cfg_check
  PROVE  AnswersInv'
<1>1. UNCHANGED <<rxq, txq, got, pip>>
  BY DEF cfg_check
<1>2. CASE processRead
  BY <1>1, <1>2, AnswersRead
<1>3. CASE processWrite
  BY <1>1, <1>3, AnswersWrite
<1>4. CASE KeepRequest
  <2>1. UNCHANGED answerVars
    BY <1>1, <1>4 DEF KeepRequest, datagramVars, configVars, sniiVars, answerVars
  <2> QED
    BY <2>1, AnswersSame
<1> QED
  BY <1>2, <1>3, <1>4 DEF cfg_check

LEMMA AnswersLoop ==
  ASSUME AnswersInv, LoopInv, InputInv, SniiInv, Olcb_loop
  PROVE  AnswersInv'
<1>1. CASE NothingReceived \/ ConsumeEvent \/ produceFromInputs
  <2>1. UNCHANGED answerVars
    BY <1>1 DEF NothingReceived, ConsumeEvent, produceFromInputs, busVars, datagramVars,
                configVars, sniiVars, answerVars
  <2> QED
    BY <2>1, AnswersSame
<1>2. CASE AnswerAME
  BY <1>2, AnswersAME
<1>3. CASE \E c \in Client : ReceiveFrom(c)
  BY <1>3, AnswersReceived
<1>4. CASE pce_check
  BY <1>4, AnswersReport
<1>5. CASE dg_check
  BY <1>5, AnswersSegment
<1>6. CASE cfg_check
  BY <1>6, AnswersConfigured
<1>7. CASE bg_check
  BY <1>7, AnswersIdent
<1>8. CASE bg_reset
  BY <1>8, AnswersReset
<1>9. CASE PIP_check
  BY <1>9, AnswersProtocols
<1>10. CASE SNII_check
  BY <1>10, AnswersIdentification
<1> QED
  BY <1>1, <1>2, <1>3, <1>4, <1>5, <1>6, <1>7, <1>8, <1>9, <1>10 DEF Olcb_loop

LEMMA AnswersStep ==
  ASSUME AnswersInv, LoopInv, InputInv, SniiInv, [Next]_vars
  PROVE  AnswersInv'
<1>1. CASE Olcb_loop
  BY <1>1, AnswersLoop
<1>2. ASSUME NEW c \in Client, NEW what \in Request, Ask(c, what)
      PROVE  AnswersInv'
  BY <1>2, AnswersAsk
<1>3. CASE Enquire
  BY <1>3, AnswersEnquire
<1>4. CASE Transmit
  BY <1>4, AnswersTransmit
<1>5. CASE Press \/ PressBlueGold \/ UNCHANGED vars
  <2>1. UNCHANGED answerVars
    BY <1>5 DEF Press, PressBlueGold, vars, busVars, datagramVars, configVars, sniiVars,
                answerVars
  <2> QED
    BY <2>1, AnswersSame
<1> QED
  BY <1>1, <1>2, <1>3, <1>4, <1>5 DEF Next

LEMMA AnswersAlways == Spec => [](AnswersInv /\ LoopInv /\ InputInv /\ SniiInv)
BY AnswersInit, AnswersStep, LoopInit, LoopStep, InputInit, InputStep, SniiInit, SniiStep, PTL
   DEF Spec

LEMMA OrderlyAsked ==
  ASSUME NEW s, Orderly(s), NEW i \in 1 .. Len(s.tx)
  PROVE  /\ s.tx[i].what = "Segment" => s.waits[s.tx[i].to] = "Read"
         /\ s.tx[i].what = "Snii" => s.waits[s.tx[i].to] = "Snii"
         /\ s.tx[i].what = "Pip" => s.waits[s.tx[i].to] = "Pip"
<1>1. ASSUME s.tx[i].what = "Segment"
      PROVE  s.waits[s.tx[i].to] = "Read"
  <2>1. Replying(s)
    BY <1>1 DEF Replying, HasSegment
  <2>2. s.tx[i].to = s.dest
    BY <1>1 DEF Orderly, SegmentsInOrder
  <2> QED
    BY <2>1, <2>2 DEF Orderly, ServedOnce
<1> QED
  BY <1>1 DEF Orderly, AnswersWaited

\* Whoever is sent a reply asked for it and still waits: no request is
\* answered twice, and none of the handlers sends what one client asked for
\* to another, however many ask and whatever is refused, replaced or lost in
\* a reset.
THEOREM AnswersGoWhereAsked == Spec => []AnswersAsked
<1>1. ASSUME AnswersInv
      PROVE  AnswersAsked
  <2>1. PICK s : s = Now
    OBVIOUS
  <2>2. Orderly(s) /\ s.tx = txq /\ s.waits = waits
    BY <1>1, <2>1, NowIs
  <2> QED
    BY <2>2, OrderlyAsked DEF AnswersAsked
<1> QED
  BY <1>1, AnswersAlways, PTL

\* Every variable keeps its type: the queues hold frames of clients that are,
\* the scan stays among the inputs, and the identification within the texts.
THEOREM TypesKept == Spec => []TypeOK
<1>1. ASSUME AnswersInv, LoopInv, InputInv, SniiInv, PanelInv
      PROVE  TypeOK
  <2>1. PICK s : s = Now
    OBVIOUS
  <2>2. /\ s.rx = rxq /\ s.waits = waits /\ s.got = got /\ s.reserved = reservedXmt
        /\ s.count = sendcount /\ s.pip = pip /\ Typed(s)
    BY <1>1, <2>1, NowIs DEF Orderly
  <2>3. /\ rxq \in Seq([what : Request \cup {"AME", "Ack", "Nak"}, from : Client \cup {Nobody}])
        /\ reservedXmt \in BOOLEAN
        /\ sendcount \in 0 .. ReplyLength
        /\ pip \in Client \cup {Nobody}
        /\ waits \in [Client -> Request \cup {"none"}]
        /\ got \in [Client -> 0 .. ReplyLength]
    BY <2>2 DEF Typed, RxFrame, Someone
  <2>4. request.from \in Client \cup {Nobody}
    BY <1>1 DEF AnswersInv, NoRequest
  <2>5. snii.state \in SniiState /\ snii.ptr \in 0 .. ConstCount + VarSize /\ zeros \in Texts
    <3>1. /\ snii.state \in SniiState /\ snii.ptr \in Nat /\ zeros \in Texts
          /\ snii.state = "Const" => snii.ptr < ConstCount
          /\ snii.state = "Flag" => snii.ptr = ConstCount
          /\ snii.state \in {"Name", "Comment"} => snii.ptr < VarSize
          /\ snii.state = "Done" => snii.ptr <= VarSize
      BY <1>1 DEF SniiInv, Placed
    <3> QED
      BY <3>1, NodeAssumption DEF SniiState
  <2> QED
    BY <1>1, <2>3, <2>4, <2>5 DEF TypeOK, LoopInv, InputInv, InputTypes, PanelInv
<1> QED
  BY <1>1, AnswersAlways, PanelInit, PanelStep, PTL DEF Spec

=============================================================================
