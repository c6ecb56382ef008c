----------------------------- MODULE ModeControl -----------------------------
(***************************************************************************)
(* What the state machine actor promises, without handles, mailbox, poll   *)
(* order and retries: a mode, the one job going on in the background, the  *)
(* rover stop it still owes a reaction to, and the last rover and BLE      *)
(* events it reacted to.  Every event that is not a repeat replaces the    *)
(* job; a job that ends changes the mode at most once and only while no    *)
(* later event has replaced it.                                            *)
(***************************************************************************)

VARIABLES state, job, owed, rover, ble

mode == <<state, job, owed, rover, ble>>

Init ==
    /\ state = "FlightIdle"
    /\ job = "none"
    /\ owed = FALSE
    /\ rover = "none"
    /\ ble = "none"

-----------------------------------------------------------------------------
(* Events.                                                                  *)

PowerSupplied ==
    /\ state # "PingCentralStation"
    /\ state' = "PingCentralStation"
    /\ job' = "Pings"
    /\ UNCHANGED <<owed, rover, ble>>

RequestGarage ==
    /\ state # "GarageOpen"
    /\ job' = "GarageOpen"
    /\ UNCHANGED <<state, owed, rover, ble>>

Connect ==
    /\ ble' = "CSBLEConnect"
    /\ IF state = "BLEConnected"
       THEN UNCHANGED <<state, job>>
       ELSE state' = "BLEConnected" /\ job' = "ReadyTimer"
    /\ UNCHANGED <<owed, rover>>

Disconnect ==
    /\ ble' = "CSBLEDisconnect"
    /\ state' = "GarageOpen"
    /\ job' = "none"
    /\ UNCHANGED <<owed, rover>>

StartRun ==
    /\ state = "AntReady"
    /\ state' = "AntRun"
    /\ job' = "StartTimer"

RoverStop ==
    /\ rover' = "FERoverStop"
    /\ \/ StartRun /\ UNCHANGED owed
       \/ state = "AntRun" /\ UNCHANGED <<state, job, owed>>
       \/ /\ state \notin {"AntReady", "AntRun"}
          /\ owed' = TRUE
          /\ UNCHANGED <<state, job>>
    /\ UNCHANGED ble

RoverMove ==
    /\ rover' = "FERoverMove"
    /\ owed' = FALSE
    /\ IF state = "AntRun"
       THEN state' = "AntReady" /\ job' = "AntStop"
       ELSE UNCHANGED <<state, job>>
    /\ UNCHANGED ble

-----------------------------------------------------------------------------
(* What jobs do.                                                            *)

\* The ant has been connected for a minute.
Settle ==
    /\ job = "ReadyTimer"
    /\ state' = "AntReady"
    /\ job' = "none"
    /\ UNCHANGED <<owed, rover, ble>>

\* The reaction owed to an earlier rover stop.
Replay ==
    /\ owed
    /\ StartRun
    /\ owed' = FALSE
    /\ UNCHANGED <<rover, ble>>

Repeat ==
    /\ job = "StartTimer"
    /\ job' = "StartInterval"
    /\ UNCHANGED <<state, owed, rover, ble>>

GarageOpened ==
    /\ job = "GarageOpen"
    /\ state' = "GarageOpen"
    /\ job' = "none"
    /\ UNCHANGED <<owed, rover, ble>>

\* A request ends without a change of mode.
Finish ==
    /\ job \in {"GarageOpen", "AntStop"}
    /\ job' = "none"
    /\ UNCHANGED <<state, owed, rover, ble>>

Reboot ==
    /\ state' = "FlightIdle" /\ job' = "none" /\ owed' = FALSE
    /\ rover' = "none" /\ ble' = "none"

Next ==
    \/ PowerSupplied \/ RequestGarage \/ Connect \/ Disconnect
    \/ RoverStop \/ RoverMove
    \/ Settle \/ Replay \/ Repeat \/ GarageOpened \/ Finish
    \/ Reboot

Spec == Init /\ [][Next]_mode

=============================================================================
