------------------------------ MODULE BlueGold ------------------------------
(***************************************************************************)
(* The blue and the gold button (BG.cpp) with their debouncing             *)
(* (ButtonLed.cpp). With blue the user goes through the node's events; the *)
(* light of the one selected blinks. With gold the selected event is       *)
(* marked to learn, or, after a first press of gold alone, taught. Both    *)
(* together send an identification and, held, bring about a factory reset. *)
(***************************************************************************)
EXTENDS Integers

CONSTANT NumEvents  \* nEvents

ASSUME BlueGoldAssumption == NumEvents \in Nat

VARIABLES
  down,     \* the buttons the user holds
  blue,     \* the blue button: lastState, state and how long it has lasted
  gold,     \* the gold button
  panel,    \* index, the lights of the two buttons, and those of the events
            \* that blink as selected
  cleared   \* history: the marks were cleared while an event was selected

bgVars == <<down, blue, gold, panel, cleared>>

\* held: 0 up to 3 seconds, 1 up to 5 seconds, 2 beyond
Button == [lastState : BOOLEAN, state : BOOLEAN, held : 0 .. 2]

Panel ==
  [index : -1 .. NumEvents - 1, blue : {"off", "lit"}, gold : {"unready", "ready", "lit"},
   lights : SUBSET (0 .. NumEvents - 1)]

\* ButtonLed::process, called in a new period of 32 ms or in the same one: a
\* button has changed when it was read so twice.
Processed(b, isDown) ==
  {b} \cup IF isDown # b.lastState THEN {[b EXCEPT !.lastState = isDown]}
           ELSE IF isDown # b.state THEN {[lastState |-> isDown, state |-> isDown, held |-> 0]}
           ELSE IF b.state /\ b.held < 2 THEN {[b EXCEPT !.held = @ + 1]}
           ELSE {}

\* The last event selected is put out, and the next one, if any, selected.
BluePressed(p) ==
  IF p.index + 1 >= NumEvents
  THEN [p EXCEPT !.index = -1, !.blue = "off", !.lights = @ \ {p.index}]
  ELSE [p EXCEPT !.index = @ + 1, !.blue = "lit",
                 !.lights = (@ \ {p.index}) \cup {p.index + 1}]

\* Mutant: the selection outlives its use.
GoldPressedOn(p) ==
  IF p.gold = "lit"
  THEN [p EXCEPT !.blue = "off", !.gold = "ready", !.lights = @ \ {p.index}]
  ELSE IF p.blue = "lit" THEN [p EXCEPT !.blue = "off", !.lights = @ \ {p.index}]
  ELSE [p EXCEPT !.gold = "lit"]

\* The event selected, if any, is taught (gold lit) or marked to learn (only
\* blue lit): PCE's sendTeach and markToLearn.
GoldPressed(p) ==
  IF p.gold = "lit"
  THEN [index |-> -1, blue |-> "off", gold |-> "ready", lights |-> p.lights \ {p.index}]
  ELSE IF p.blue = "lit"
  THEN [p EXCEPT !.index = -1, !.blue = "off", !.lights = @ \ {p.index}]
  ELSE [p EXCEPT !.gold = "lit"]

Started(p) == IF p.gold = "unready" THEN [p EXCEPT !.gold = "ready"] ELSE p

\* Blue alone has been held for 3 seconds: the marks are cleared.
Clears == blue'.state /\ ~gold.state /\ blue'.held >= 1

PressedBlue == blue'.state /\ ~blue.state

PressedGold == gold'.state /\ ~gold.state

\* Either button was pressed while the other was down.
Identifies == (PressedBlue /\ gold.state) \/ (PressedGold /\ blue'.state)

ResetsNode == blue'.state /\ gold'.state /\ blue'.held = 2 /\ gold'.held = 2

\* The panel after blue, the clearing and gold, in this order.
Panel1 == IF PressedBlue /\ ~gold.state THEN BluePressed(Started(panel)) ELSE Started(panel)

Panel2 == IF Clears THEN [Panel1 EXCEPT !.blue = "off"] ELSE Panel1

Panel3 == IF PressedGold /\ ~blue'.state THEN GoldPressed(Panel2) ELSE Panel2

check ==
  /\ blue' \in Processed(blue, "blue" \in down)
  /\ gold' \in Processed(gold, "gold" \in down)
  /\ panel' = Panel3
  /\ cleared' = (panel'.index # -1 /\ (Clears \/ (cleared /\ panel'.blue = "off")))
  /\ UNCHANGED down

\* pceCallback: an event consumed sets its light, blinking or not.
pceCallback(i) ==
  /\ panel' = [panel EXCEPT !.lights = @ \ {i}]
  /\ UNCHANGED <<down, blue, gold, cleared>>

PressOrRelease ==
  /\ \E b \in {"blue", "gold"} :
       down' = IF b \in down THEN down \ {b} ELSE down \cup {b}
  /\ UNCHANGED <<blue, gold, panel, cleared>>

Released == [lastState |-> FALSE, state |-> FALSE, held |-> 0]

PanelStart == [index |-> -1, blue |-> "off", gold |-> "unready", lights |-> {}]

\* The start is taken with no button held.
BGInit ==
  /\ down = {}
  /\ blue = Released
  /\ gold = Released
  /\ panel = PanelStart
  /\ cleared = FALSE

\* factoryReset starts the program over, whose buttons are still held.
factoryReset ==
  /\ \E b \in Processed(blue, "blue" \in down), g \in Processed(gold, "gold" \in down) :
       b.state /\ g.state /\ b.held = 2 /\ g.held = 2
  /\ blue' = Released
  /\ gold' = Released
  /\ panel' = PanelStart
  /\ cleared' = FALSE
  /\ UNCHANGED down

\* What the panel shows is what gold will act on: no light blinks but that of
\* the event selected; blue is lit only while one is selected; and an event
\* selected without blue lit, which the user does not see to be so, is left
\* over from clearing the marks.
PanelTells ==
  /\ panel.lights \subseteq {panel.index}
  /\ panel.blue = "lit" => panel.index # -1
  /\ panel.blue = "off" /\ panel.index # -1 => cleared
=============================================================================
