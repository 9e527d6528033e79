----------------------------- MODULE CanDrivers -----------------------------
(***************************************************************************)
(* The CAN drivers of the library. A board has one of them, chosen by      *)
(* which of the files is compiled: that of the Tiva boards, of the         *)
(* AT90CAN, or of boards with an MCP2515.                                  *)
(***************************************************************************)
EXTENDS TivaCAN

CONSTANTS
  Mixed,             \* parts of two frames
  TxSize, RxSize     \* queue sizes of the AT90 driver

ASSUME BoardAssumption ==
  /\ Mixed \notin Frame \cup {NoFrame}
  /\ {TxSize, RxSize} \subseteq Nat \ {0}
  /\ TxSize <= RxSize

VARIABLES
  board,
  mob, txok, inProgress, txUsed, rxUsed, arrived, buf, pc, msg, cut, got, txWant, rxWant,
  crowded,                      \* of At90CAN
  txb, rxb, mcpFree, accepted   \* of McpCAN

At90 == INSTANCE At90CAN
Mcp == INSTANCE McpCAN WITH sawFree <- mcpFree

at90Vars == <<mob, txok, inProgress, txUsed, rxUsed, arrived, buf, pc, msg, cut, got, txWant,
              rxWant, crowded>>
mcpVars == <<txb, rxb, mcpFree, accepted>>
allVars == <<board, vars, at90Vars, mcpVars>>

Boards == {"Tiva", "AT90", "MCP2515"}

BoardInit ==
  /\ board \in Boards
  /\ Init
  /\ At90!Init
  /\ Mcp!Init

TivaStep == board = "Tiva" /\ Next /\ UNCHANGED <<board, at90Vars, mcpVars>>
At90Step == board = "AT90" /\ At90!Next /\ UNCHANGED <<board, vars, mcpVars>>
McpStep == board = "MCP2515" /\ Mcp!Next /\ UNCHANGED <<board, vars, at90Vars>>

BoardNext == TivaStep \/ At90Step \/ McpStep

\* What has begun goes on: the controllers send, interrupts are served, and
\* the program, whose loop asks for received frames in every round, ends what
\* it is doing.
BoardSpec ==
  /\ BoardInit
  /\ [][BoardNext]_allVars
  /\ WF_vars(board = "Tiva" /\ FrameSent)
  /\ WF_vars(board = "Tiva" /\ TxInterrupt)
  /\ WF_allVars(At90Step /\ At90!FrameSent)
  /\ WF_allVars(At90Step /\ At90!TxInterrupt)
  /\ WF_allVars(McpStep /\ Mcp!can_get_message)

-----------------------------------------------------------------------------
(* What each driver promises, beside the properties of TivaCAN             *)

\* AT90: as many frames are sent as were accepted, though a transmission may
\* end while the next frame is put into the queue (CanBus.cpp:543).
At90SendsCounted == At90!SendsCounted

\* AT90: a frame that has the global buf to itself arrives; which frame it is
\* that is sent or read when two need it, the code leaves open.
At90AloneKept == At90!AloneKept

\* AT90: a transmit queue that is full has room again, so that the loops that
\* spin on OpenLcb_can_xmt_ready end (OpenLcbCanInterface.cpp:60).
At90QueueMoves == At90!QueueMoves

\* MCP2515: frames are sent in the order accepted (OpenLcbCanInterface.cpp:25),
\* though three buffers are there and the controller prefers the last.
McpInOrder == Mcp!Channel!Spec

\* MCP2515: a frame in the second receive buffer is read, unless the first one
\* is filled again and again (MCP2515can.cpp:483).
McpSecondRead == Mcp!SecondRead
=============================================================================
