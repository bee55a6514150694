-------------------------------- MODULE AllParts -------------------------------
(***************************************************************************)
(* The parts of Parts, the asset inventory and the startup selection: none *)
(* shares state with another, and as in Parts a run has one of Explored.   *)
(***************************************************************************)
EXTENDS Parts, AssetsLimits, SelectionInputs

VARIABLES
  next_id, bytes_held, items, made, holding, pin, told, (* Assets            *)
  doc, cli, phase, options, hop                         (* Selection         *)

inventoryVars == <<next_id, bytes_held, items, made, holding, pin, told>>
startupVars == <<doc, cli, phase, options, hop>>
allVars == <<vars, inventoryVars, startupVars>>

Inventory == INSTANCE Assets WITH bytes <- bytes_held
Startup == INSTANCE Selection

AllInit ==
  /\ Init
  /\ Inventory!Init
  /\ part = "startup" \/ (doc = CHOOSE d \in Documents : TRUE)
  /\ part = "startup" \/ (cli = CHOOSE line \in CommandLines : TRUE)
  /\ Startup!Init

AllNext ==
  \/ Next /\ UNCHANGED <<inventoryVars, startupVars>>
  \/ part = "inventory" /\ Inventory!Next /\ UNCHANGED <<vars, startupVars>>
  \/ part = "startup" /\ Startup!Next /\ UNCHANGED <<vars, inventoryVars>>

AllSpec == AllInit /\ [][AllNext]_allVars
-------------------------------------------------------------------------------
(* The properties of the two, stated and explained in their modules.       *)

(* Rows and bytes within their limits, and counted right (Assets).         *)
WithinCapacity == Inventory!WithinCapacity

(* A row whose blob is being sent stays (Assets).                          *)
PinnedRowStays == Inventory!PinnedRowStays

(* An id once told names that asset or none (Assets).                      *)
IdKeepsItsMeaning == Inventory!IdKeepsItsMeaning

(* A hop decides what a restart with --agent would (Selection).            *)
HopIsRestart == Startup!HopIsRestart

(* The hop startup asks for is let in, as whom it displayed (Selection).   *)
InitialHopAgrees == Startup!InitialHopAgrees
===============================================================================
