----------------------------- MODULE MCFormats -----------------------------
(***************************************************************************)
(* The instance of Formats for TLC, with the sizes and numbers of the code.*)
(***************************************************************************)
EXTENDS Formats

Headers ==
    [destination : DOMAIN Destination, time : {<<0, 0>>}, seq : {0},
     disposition : DOMAIN Disposition, invalid : BOOLEAN, event : DOMAIN Event] \cup
    [destination : {"Ant"}, time : {<<0, 1>>, <<258, 772>>, <<65535, 65535>>}, seq : {0, 1, 128, 255},
     disposition : {"Ack"}, invalid : BOOLEAN, event : {"AntPing"}]

Some == [destination |-> "CentralStation", time |-> <<1, 2>>, seq |-> 3,
         disposition |-> "Command", invalid |-> FALSE, event |-> "CSPing"]

Sources == {Empty} \cup [kind : {"Info"}, header : {Some, [Some EXCEPT !.invalid = TRUE]}, checksum : {0, 255}]
Payloads == {<<>>, <<0>>, <<235, 144>>, [i \in 1..40 |-> i]}

\* The ant's telemetry, alone and within a relay.
Telemetry(first) ==
    [header |-> [Some EXCEPT !.event = "AntPing", !.disposition = "Ack"], source |-> Empty,
     payload |-> [i \in 1..AntBytes |-> (first + i) % 256]]
TwoRelays == [cs : {[i \in 1..CsBytes |-> 7 * i]}, ant : {Telemetry(n) : n \in {0, 230}}]

\* Two of 144 bits, which every damage and patch is tried on.
FewMessages ==
    {Command(<<0, 0>>, 0, "Frontend", "FERoverStop"),
     [header |-> Some, source |-> [kind |-> "Info", header |-> Some, checksum |-> 9], payload |-> <<>>]}

AllMessages ==
    FewMessages \cup
    [header : Headers, source : {Empty}, payload : {<<>>}] \cup
    [header : {Some}, source : Sources, payload : Payloads] \cup
    {RelayMessage(r.cs, r.ant) : r \in TwoRelays}

\* Up to eight bits next to each other, or two anywhere.
AnyDamage ==
    LET Bits == 1..144
    IN  {{k + d : d \in D} : k \in Bits, D \in (SUBSET (0..7)) \ {{}}} \cup
        {{i, j} : i, j \in Bits}

AnyPatch == [at : 1..17, value : Byte]
=============================================================================
