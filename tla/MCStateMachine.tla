--------------------------- MODULE MCStateMachine ---------------------------
(***************************************************************************)
(* Instances of StateMachine for TLC.                                      *)
(***************************************************************************)
EXTENDS StateMachine, TLC

CONSTANTS h1, h2, h3

MCHandles == {h1, h2, h3}
Symmetry  == Permutations(MCHandles)

FE(e) == [event |-> e, dest |-> "Frontend"]

\* Everything the ground may send that the machine tells apart.
GroundAll == {FE("FEPowerSupplied"), FE("FEGarageOpen"), FE("FERoverStop"),
              FE("FERoverMove"), FE("FERestart"), FE("DebugCSPing"), FE("FEPing"),
              [event |-> "AntPing", dest |-> "Ant"],
              [event |-> "CSBLEConnect", dest |-> "CentralStation"]}

\* The commands of the mission.
GroundMission == {FE("FEPowerSupplied"), FE("FEGarageOpen"), FE("FERoverStop"),
                  FE("FERoverMove")}

\* The commands that can disturb a run of the ant.
GroundRun == {FE("FEGarageOpen"), FE("FERoverStop"), FE("FERoverMove")}

GroundRover == {FE("FERoverStop"), FE("FERoverMove")}

\* The rover's commands and the restart of the process.
GroundTurning == GroundRover \union {FE("FERestart")}

SerialAll == {"CSBLEConnect", "CSBLEDisconnect", "CSPing"}
SerialBLE == {"CSBLEConnect", "CSBLEDisconnect"}
=============================================================================
