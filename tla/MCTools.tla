------------------------------- MODULE MCTools -------------------------------
(* The run of the operator's tools: the control panel in front of a wager, and   *)
(* the faucet script, each explored on its own, fixed in the initial state.      *)
EXTENDS ControlPanel, FaucetRun

CONSTANT b1

VARIABLE tool

toolVars == <<tool, panelVars, scriptVars>>

\* Half the pot for the operator.
OperatorFee == <<[recipient |-> b1, bps |-> 5000]>>

\* One faucet has a rate, the other has none.
Rates == [circle |-> 4, bridge |-> 0]

ToolsInit == tool \in {"panel", "script"} /\ PanelInit /\ ScriptInit

ToolsNext ==
    /\ UNCHANGED tool
    /\ \/ tool = "panel" /\ PanelNext /\ UNCHANGED scriptVars
       \/ tool = "script" /\ ScriptNext /\ UNCHANGED panelVars

ToolsSpec == ToolsInit /\ [][ToolsNext]_toolVars
===============================================================================
