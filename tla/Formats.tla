------------------------------ MODULE Formats ------------------------------
(***************************************************************************)
(* The packed messages (message/src): header.rs, source_info.rs,           *)
(* header_packet.rs, bytes_wrap.rs, magic_value.rs and the checksum that   *)
(* crc.rs puts around them; the messages that rovermsgs.rs prints and      *)
(* serial_console makes; and their way over a line that may damage them.   *)
(* CRC-8/SMBUS and the packers derived by packed_struct are external.      *)
(*                                                                         *)
(* Unpacking gives the set of its results: one message, or none (an error).*)
(* A timestamp is a pair of 16-bit halves.                                 *)
(***************************************************************************)
EXTENDS Integers, Sequences, SequencesExt, FiniteSets

CONSTANTS
    Messages,    \* what is sent first
    Exposed,     \* bound: those of them that meet Damage and Patches
    Relays,      \* those of Messages that are relays: [cs |-> ..., ant |-> ...]
    Damage,      \* sets of bits that may be flipped on the way
    Patches,     \* [at, value]: a byte some other sender has elsewise
    CsBytes,     \* size of the payloads of central station and ant: 20 and 52
    AntBytes

ASSUME SizeAssumption == CsBytes \in Nat /\ AntBytes \in Nat

VARIABLES
    stage,       \* "built", "packed", "arrived", "unpacked"
    sent,        \* the message
    wire,        \* its bytes
    flipped,     \* history: bits damaged
    patched,     \* history: the bytes are not those of sent
    got,         \* what came out
    request      \* history: the message that sent acknowledges, or {}

vars == <<stage, sent, wire, flipped, patched, got, request>>

Byte == 0..255
Half == {n \in Nat : n < 65536}
Rest(s, n) == SubSeq(s, n + 1, Len(s))

-----------------------------------------------------------------------------
(* CRC-8/SMBUS: polynomial x^8 + x^2 + x + 1, initially zero.               *)

CrcBit(r, bit) ==
    LET s == (2 * r) % 256
    IN  IF r \div 128 = bit THEN s ELSE 8 * (s \div 8) + (7 - (s % 8))

Bit(byte, i) == (byte \div 2^(8 - i)) % 2

\* The register after each byte.
CrcByte ==
    [r \in Byte |-> [byte \in Byte |->
        LET crc[i \in 0..8] == IF i = 0 THEN r ELSE CrcBit(crc[i - 1], Bit(byte, i)) IN crc[8]]]

\* The register after bytes, which are taken by halves.
CrcFrom(start, bytes) ==
    LET crc[r \in Byte, at \in Nat, n \in Nat] ==
            IF n <= 1 THEN IF n = 0 THEN r ELSE CrcByte[r][bytes[at]]
            ELSE LET half == n \div 2 IN crc[crc[r, at, half], at + half, n - half]
    IN  crc[start, 1, Len(bytes)]

Checksum(bytes) == CrcFrom(0, bytes)

\* The damaged bytes.
Flip(bytes, bits) ==
    LET Now(k, b) == IF 8 * (k - 1) + b \in bits THEN 1 - Bit(bytes[k], b) ELSE Bit(bytes[k], b)
    IN  [k \in DOMAIN bytes |->
            128 * Now(k, 1) + 64 * Now(k, 2) + 32 * Now(k, 3) + 16 * Now(k, 4)
            + 8 * Now(k, 5) + 4 * Now(k, 6) + 2 * Now(k, 7) + Now(k, 8)]

-----------------------------------------------------------------------------
(* Headers and sources.                                                     *)

Magic == 235

Destination == [Frontend |-> 144, CentralStation |-> 145, Ant |-> 146, Ground |-> 222]

Event == [AntPing |-> 1, AntStart |-> 2, AntCalibrate |-> 3, AntOTA |-> 4, AntStop |-> 5,
          AntPowerOff |-> 6, AntHeaterOn |-> 7, AntHeaterOff |-> 8, AntMoveForward |-> 9,
          AntMoveBackward |-> 10,
          CSGarageOpen |-> 17, CSRoverStop |-> 18, CSRoverMove |-> 19, CSPing |-> 20,
          CSDFUViaBLE |-> 21, CSDFUSerial |-> 22, CSAntDFUInit |-> 23, CSAntDFUPacket |-> 24,
          CSRelay |-> 25, CSBLEConnect |-> 26, CSBLEDisconnect |-> 27,
          FEGarageOpen |-> 33, FERoverStop |-> 34, FERoverMove |-> 35, FEPowerSupplied |-> 36,
          FEPing |-> 37, FERestart |-> 38, FECSPowerCycled |-> 39,
          DebugCSPing |-> 47]

Disposition == [Command |-> 0, Ack |-> 1]

Named(enum, code) == {name \in DOMAIN enum : enum[name] = code}

\* Mutant of PackHeader: the invalid bit is left out.
PackHeaderValid(h) ==
    <<Magic, Destination[h.destination],
      h.time[2] % 256, h.time[2] \div 256, h.time[1] % 256, h.time[1] \div 256,
      h.seq, 128 * Disposition[h.disposition] + Event[h.event]>>

\* Little endian; in the last byte the disposition is the highest bit.
PackHeader(h) ==
    <<Magic, Destination[h.destination],
      h.time[2] % 256, h.time[2] \div 256, h.time[1] % 256, h.time[1] \div 256,
      h.seq,
      128 * Disposition[h.disposition] + (IF h.invalid THEN 64 ELSE 0) + Event[h.event]>>

UnpackHeader(b) ==
    {h \in {[destination |-> d, time |-> <<b[5] + 256 * b[6], b[3] + 256 * b[4]>>, seq |-> b[7],
             disposition |-> k, invalid |-> (b[8] \div 64) % 2 = 1, event |-> e] :
               d \in Named(Destination, b[2]), k \in Named(Disposition, b[8] \div 128),
               e \in Named(Event, b[8] % 64)} : b[1] = Magic}

Header ==
    [destination : DOMAIN Destination, time : Half \X Half, seq : Byte,
     disposition : DOMAIN Disposition, invalid : BOOLEAN, event : DOMAIN Event]

UniqueId(h) == <<h.time, h.seq>>

\* Header::command and message::command, with Params of any time and number.
Empty == [kind |-> "Empty"]
Command(time, seq, dest, event) ==
    [header  |-> [destination |-> dest, time |-> time, seq |-> seq,
                  disposition |-> "Command", invalid |-> FALSE, event |-> event],
     source  |-> Empty,
     payload |-> <<>>]

\* SourceInfo.
PackSource(s) ==
    IF s = Empty THEN [i \in 1..9 |-> 0] ELSE PackHeader(s.header) \o <<s.checksum>>
UnpackSource(b) ==
    IF b = [i \in 1..9 |-> 0] THEN {Empty}
    ELSE {[kind |-> "Info", header |-> h, checksum |-> b[9]] : h \in UnpackHeader(b)}

-----------------------------------------------------------------------------
(* Messages: HeaderPacket within WithCRC.                                   *)

PackBody(m) == PackHeader(m.header) \o PackSource(m.source) \o m.payload

UnpackBody(b) ==
    IF Len(b) < 17 THEN {}
    ELSE {[header |-> h, source |-> s, payload |-> Rest(b, 17)] :
             h \in UnpackHeader(SubSeq(b, 1, 8)), s \in UnpackSource(SubSeq(b, 9, 17))}

Pack(m) == PackBody(m) \o <<Checksum(PackBody(m))>>

Message ==
    [header : Header, source : {Empty} \cup [kind : {"Info"}, header : Header, checksum : Byte],
     payload : Seq(Byte)]

\* Mutant of Unpack: the checksum is not compared.
UnpackUnchecked(b) == IF b = <<>> THEN {} ELSE UnpackBody(Front(b))

\* The checksum is computed from what was unpacked, packed again.
Unpack(b) ==
    IF b = <<>> THEN {} ELSE {m \in UnpackBody(Front(b)) : Checksum(PackBody(m)) = Last(b)}

\* CSRelay: the station's payload, and a message of the ant's with its payload.
PackRelay(cs, ant) == cs \o Pack(ant)

UnpackRelay(b) ==
    IF Len(b) < CsBytes THEN {}
    ELSE {m \in Unpack(Rest(b, CsBytes)) : Len(m.payload) = AntBytes}

\* A message as rand_relay makes it.
RelayMessage(cs, ant) ==
    [header  |-> [destination |-> "Frontend", time |-> <<0, 0>>, seq |-> 0,
                  disposition |-> "Ack", invalid |-> FALSE, event |-> "CSRelay"],
     source  |-> Empty,
     payload |-> PackRelay(cs, ant)]

\* The console's read_uplink: the acknowledgement of a message.
AckOf(m) ==
    [header  |-> [m.header EXCEPT !.disposition = "Ack"],
     source  |-> [kind |-> "Info", header |-> m.header, checksum |-> Checksum(PackBody(m))],
     payload |-> <<>>]

-----------------------------------------------------------------------------
\* What is sent are messages, relays have the sizes of the code, damage changes a
\* bit, and what another sender has elsewise is a byte.
ASSUME MessagesAssumption == Messages \subseteq Message
ASSUME RelaysAssumption ==
    \A r \in Relays :
        r.cs \in [1..CsBytes -> Byte] /\ r.ant \in Message /\ Len(r.ant.payload) = AntBytes
ASSUME DamageAssumption == {} \notin Damage /\ \A p \in Patches : p.value \in Byte

TypeOK ==
    /\ stage \in {"built", "packed", "arrived", "unpacked"}
    /\ wire \in Seq(Byte)
    /\ Cardinality(got) <= 1 /\ Cardinality(request) <= 1
    /\ \A m \in {sent} \cup got : m.header.seq \in Byte /\ m.payload \in Seq(Byte)

Init ==
    /\ stage = "built" /\ sent \in Messages
    /\ wire = <<>> /\ flipped = {} /\ patched = FALSE /\ got = {} /\ request = {}

Send ==
    /\ stage = "built" /\ stage' = "packed"
    /\ wire' = Pack(sent)
    /\ UNCHANGED <<sent, flipped, patched, got, request>>

Deliver ==
    /\ stage = "packed" /\ stage' = "arrived"
    /\ UNCHANGED <<sent, wire, flipped, patched, got, request>>

\* Bits are flipped on the way.
Corrupt ==
    /\ stage = "packed" /\ stage' = "arrived" /\ sent \in Exposed /\ request = {}
    /\ flipped' \in Damage /\ flipped' \subseteq 1..8 * Len(wire)
    /\ wire' = Flip(wire, flipped')
    /\ UNCHANGED <<sent, patched, got, request>>

\* Another sender's message, with a byte of its own and the right checksum.
Patch ==
    /\ stage = "packed" /\ stage' = "arrived" /\ sent \in Exposed /\ request = {}
    /\ patched' = TRUE
    /\ \E p \in Patches :
         /\ p.at < Len(wire)
         /\ LET body == [Front(wire) EXCEPT ![p.at] = p.value] IN wire' = Append(body, Checksum(body))
    /\ UNCHANGED <<sent, flipped, got, request>>

Receive ==
    /\ stage = "arrived" /\ stage' = "unpacked"
    /\ got' = Unpack(wire)
    /\ UNCHANGED <<sent, wire, flipped, patched, request>>

\* A console on the other side acknowledges what it got.
AutoAck ==
    /\ stage = "unpacked" /\ got # {} /\ request = {}
    /\ \E m \in got : sent' = AckOf(m)
    /\ request' = got /\ got' = {}
    /\ stage' = "built" /\ flipped' = {} /\ patched' = FALSE
    /\ UNCHANGED wire

Done == stage = "unpacked" /\ (got = {} \/ request # {}) /\ UNCHANGED vars

Next == Send \/ Deliver \/ Corrupt \/ Patch \/ Receive \/ AutoAck \/ Done

Spec == Init /\ [][Next]_vars

-----------------------------------------------------------------------------
\* The listing of rovermsgs: destination, event and checksum of messages with time
\* and number zero.
Listing ==
    {<<"Frontend", "FEPowerSupplied", 154>>, <<"Frontend", "FEGarageOpen", 85>>,
     <<"Frontend", "FERoverStop", 237>>, <<"Frontend", "FERoverMove", 133>>,
     <<"Ant", "AntStart", 202>>, <<"Ant", "AntStop", 213>>, <<"Ant", "AntMoveForward", 59>>,
     <<"Ant", "AntMoveBackward", 131>>, <<"Ant", "AntPing", 114>>}

\* What rovermsgs prints are the bytes README.md:72-105 says are stable.
ListedBytes ==
    stage = "packed" =>
        \A l \in Listing :
            sent = Command(<<0, 0>>, 0, l[1], l[2]) =>
                wire = <<235, Destination[l[1]], 0, 0, 0, 0, 0, Event[l[2]],
                         0, 0, 0, 0, 0, 0, 0, 0, 0, l[3]>>

\* An undamaged message comes out as it went in.
RoundTrip == stage = "unpacked" /\ flipped = {} /\ ~patched => got = {sent}

\* Whatever bytes are accepted are the bytes that the message packs to, so that
\* the checksum of what was unpacked is that of what arrived, no two forms of one
\* message exist, and the re-encoded echo has the bytes of the raw one.
AcceptedIsCanonical == stage = "unpacked" => \A m \in got : Pack(m) = wire

\* An acknowledgement names its request by id and checksum, and says what it was,
\* although its own header differs from the request's.
AckNamesRequest ==
    stage = "unpacked" /\ request # {} /\ flipped = {} /\ ~patched =>
        \E m \in got, r \in request :
            /\ m.source # Empty /\ UniqueId(m.source.header) = UniqueId(r.header)
            /\ m.source.checksum = Last(Pack(r)) /\ m.source.header = r.header
            /\ m.header.disposition = "Ack"

\* What the ant said is what comes out of the relay that wraps it, twice checked.
RelayUnwraps ==
    stage = "unpacked" /\ flipped = {} /\ ~patched =>
        \A r \in Relays, m \in got :
            sent = RelayMessage(r.cs, r.ant) => UnpackRelay(m.payload) = {r.ant}

\* What holds of every message and its bytes, whatever the checksums are.
FormatsInv == RoundTrip /\ AcceptedIsCanonical /\ AckNamesRequest /\ RelayUnwraps

\* In a message without payload, of 144 bits, damage within eight bits is always
\* noticed, and so are two flipped bits unless they are 127 bits apart, which is
\* the period of the polynomial.
DamageIsNoticed ==
    stage = "unpacked" /\ flipped # {} /\ got # {} =>
        \E b \in flipped : flipped = {b, b + 127}

\* The types, and what depends on the values of the checksums.
ChecksumInv == TypeOK /\ ListedBytes /\ DamageIsNoticed
=============================================================================
