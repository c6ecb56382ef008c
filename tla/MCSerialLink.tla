---------------------------- MODULE MCSerialLink ----------------------------
(***************************************************************************)
(* Instances of SerialLink for TLC.  To the layers "plain" is less than    *)
(* "ack", and "ack" the same as "badRelay".                                *)
(***************************************************************************)
EXTENDS SerialLink

RelayPackets == {"junk", "relay", "emptyRelay", "badRelay"}
OnePacket    == {"ack"}
=============================================================================
