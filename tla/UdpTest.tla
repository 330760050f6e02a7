-------------------------------- MODULE UdpTest --------------------------------
(***************************************************************************)
(* The UDP test of voya-udptest/src/lib.rs: a SOCKS5 association, two         *)
(* requests to one server, and the time of the faster answer.  The second     *)
(* request follows whatever became of the first, and decides how it ends.     *)
(*                                                                         *)
(* The relay may answer late, twice, wrongly or never, and every step may     *)
(* fail or outlast the deadline.  A packet is a sequence of bytes.            *)
(***************************************************************************)
EXTENDS Integers, FiniteSets, SequencesExt

CONSTANTS
    MaxTime,        \* bound: how long a test is looked at
    MaxAnswers,     \* bound: answers of the relay
    UdpTargets,     \* what a user may enter: parts between colons, and a bracket
    UdpHosts,       \* hosts of packets: [type, bytes]
    KnownKinds,     \* "dns", "stun", "mcbe"
    UdpResponses,   \* what may come back, of the kind that is tested
    PortTexts       \* the numbers among the parts: text |-> port

ASSUME UdpBounds ==
    /\ MaxTime \in Nat /\ MaxAnswers \in Nat
    /\ UdpResponses \subseteq
          [kind : {"ntp", "dns", "stun", "mcbe"}, length : Nat, first : Nat, id : BOOLEAN,
           flags : BOOLEAN, count : Nat, cookie : BOOLEAN, body : BOOLEAN]

VARIABLES
    udpPc,          \* where send_via_socks5 is
    udpTime,
    sentAt,         \* of each request, or -1
    answers,        \* on their way: [attempt, right]
    received,       \* what was read: [attempt, right, request, elapsed, travelled]
    udpResult       \* [end, time]

udpVars == <<udpPc, udpTime, sentAt, answers, received, udpResult>>

-----------------------------------------------------------------------------
(* Targets.                                                                 *)

\* from_name, default_target_port: what is not known is asked for the time.
Kind(text) == IF text \in KnownKinds THEN text ELSE "ntp"
DefaultPort(kind) ==
    CASE kind = "dns" -> 53 [] kind = "stun" -> 3478 [] kind = "mcbe" -> 19132
      [] OTHER -> 123
DefaultHost(kind) ==
    CASE kind = "dns" -> <<"8.8.8.8">> [] kind = "stun" -> <<"stun.voztovoice.org">>
      [] kind = "mcbe" -> <<"pms.mc-complex.com">> [] OTHER -> <<"pool.ntp.org">>

\* parse_host_and_port: after a bracket, after the last colon, or the default.
HostAndPort(t, kind) ==
    LET parts == t.parts
    IN  CASE parts \in {<<>>, <<"">>} /\ ~t.bracket ->
                [host |-> DefaultHost(kind), port |-> DefaultPort(kind)]
          [] t.bracket ->
                [host |-> parts,
                 port |-> IF t.after \in DOMAIN PortTexts THEN PortTexts[t.after]
                          ELSE DefaultPort(kind)]
          [] ~t.bracket /\ Len(parts) > 1 /\ parts # <<"", Last(parts)>>
                /\ Last(parts) \in DOMAIN PortTexts ->
                [host |-> Front(parts), port |-> PortTexts[Last(parts)]]
          [] OTHER -> [host |-> parts, port |-> DefaultPort(kind)]

\* parse_udp_test_target: without a colon there is no host in it.
Target(t) ==
    IF ~t.colon THEN [kind |-> "ntp", at |-> HostAndPort([t EXCEPT !.parts = <<>>], "ntp")]
    ELSE [kind |-> Kind(t.name), at |-> HostAndPort(t, Kind(t.name))]

-----------------------------------------------------------------------------
(* Packets.                                                                 *)

AddressLength == [v4 |-> 4, v6 |-> 16]
TypeByte == [v4 |-> 1, domain |-> 3, v6 |-> 4]

\* encode_socks5_address: a name has its length in one byte.
Encodable(host) == host.type # "domain" \/ Len(host.bytes) <= 255
Encoded(host, port) ==
    <<TypeByte[host.type]>>
    \o (IF host.type = "domain" THEN <<Len(host.bytes)>> ELSE <<>>)
    \o host.bytes \o <<port \div 256, port % 256>>

\* build_socks5_udp_packet.
Packet(host, port, data) == <<0, 0, 0>> \o Encoded(host, port) \o data

\* parse_socks5_address_from_packet, from the byte after offset.
Refused(why) == [ok |-> FALSE, why |-> why]
TakenAddress(packet, type, first, length) ==
    IF Len(packet) < first + length + 1 THEN Refused("short")
    ELSE [ok |-> TRUE,
          host |-> [type |-> type, bytes |-> SubSeq(packet, first, first + length - 1)],
          port |-> packet[first + length] * 256 + packet[first + length + 1],
          data |-> SubSeq(packet, first + length + 2, Len(packet))]
ParsedAddress(packet) ==
    IF Len(packet) < 4 THEN Refused("short")
    ELSE CASE packet[4] = 1 -> TakenAddress(packet, "v4", 5, AddressLength.v4)
           [] packet[4] = 4 -> TakenAddress(packet, "v6", 5, AddressLength.v6)
           [] packet[4] = 3 ->
                IF Len(packet) < 5 THEN Refused("short")
                ELSE TakenAddress(packet, "domain", 6, packet[5])
           [] OTHER -> Refused("type")

\* parse_socks5_udp_packet.
ParsedPacket(packet) ==
    IF Len(packet) < 4 THEN Refused("short")
    ELSE IF packet[3] # 0 THEN Refused("fragment")
    ELSE ParsedAddress(packet)

\* verify_response of each kind: [length, first, id, flags, count, cookie, body],
\* body whether the rest of it is as long and reads as the kind demands.
Verified(kind, r) ==
    CASE kind = "ntp" -> r.length >= 48 /\ r.first % 8 = 4
      [] kind = "dns" -> r.length >= 12 /\ r.id /\ r.flags /\ r.count > 0
      [] kind = "stun" -> r.length >= 20 /\ r.id /\ r.cookie /\ r.body
      [] kind = "mcbe" -> r.length >= 48 /\ r.first = 28 /\ r.cookie /\ r.body

-----------------------------------------------------------------------------
(* The test.                                                                *)

UdpInit ==
    /\ udpPc = "connect" /\ udpTime = 0
    /\ sentAt = [a \in {0, 1} |-> -1]
    /\ answers = {} /\ received = <<>>
    /\ udpResult = [end |-> "none", time |-> 0]

UdpEnds(end, time) == udpPc' = "done" /\ udpResult' = [end |-> end, time |-> time]
BestTime(log) == LET times == {log[i].elapsed : i \in DOMAIN log}
                 IN  CHOOSE t \in times : \A u \in times : t <= u

\* read_socks5_address: the relay, whose name is not looked up; one that is
\* everywhere is where the SOCKS5 server is.
Relays == {"address", "everywhere", "name", "unknown"}
RelayRead(relay) == relay # "unknown"
RelayReached(relay) == RelayRead(relay) /\ relay # "name"

\* establish_udp_association: connect, no login, associate, the relay.
Associate(relay) ==
    /\ udpPc \in {"connect", "hello", "associate", "relay"}
    /\ \/ /\ udpPc = "relay" => RelayReached(relay)
          /\ udpPc' = CASE udpPc = "connect" -> "hello" [] udpPc = "hello" -> "associate"
                        [] udpPc = "associate" -> "relay" [] udpPc = "relay" -> "first"
          /\ UNCHANGED udpResult
       \/ UdpEnds("error", 0)
    /\ UNCHANGED <<udpTime, sentAt, answers, received>>

\* send_to_host; an attempt that fails is followed by the second, or is the end.
SendRequest ==
    /\ udpPc \in {"first", "second"}
    /\ LET a == IF udpPc = "first" THEN 0 ELSE 1
       IN  \/ /\ udpPc' = "wait"
              /\ sentAt' = [sentAt EXCEPT ![a] = udpTime]
              /\ UNCHANGED udpResult
           \/ /\ IF a = 0 THEN udpPc' = "second" /\ UNCHANGED udpResult
                 ELSE UdpEnds("error", 0)
              /\ UNCHANGED sentAt
    /\ UNCHANGED <<udpTime, answers, received>>

Waiting == IF sentAt[1] # -1 \/ sentAt[0] = -1 THEN 1 ELSE 0

\* receive: whatever arrives is taken for the answer to the last request.  Its
\* elapsed time is counted from that request; history: travelled, the time since
\* the request it answers.
Read(answer) ==
    [attempt |-> answer.attempt, right |-> answer.right, request |-> Waiting,
     elapsed |-> udpTime - sentAt[Waiting], travelled |-> udpTime - sentAt[answer.attempt]]

\* The first answer that is right ends the test, or the second whatever it is.
Mut_ReadAnswer(answer) ==
    /\ udpPc = "wait" /\ answer \in answers
    /\ answers' = answers \ {answer}
    /\ received' = Append(received, Read(answer))
    /\ IF answer.right \/ Waiting = 1 THEN UdpEnds("ok", BestTime(received'))
       ELSE udpPc' = "second" /\ UNCHANGED udpResult
    /\ UNCHANGED <<udpTime, sentAt>>

\* Right or not, the first answer is followed by the second request.
ReadAnswer(answer) ==
    /\ udpPc = "wait" /\ answer \in answers
    /\ answers' = answers \ {answer}
    /\ received' = Append(received, Read(answer))
    /\ CASE Waiting = 0 -> udpPc' = "second" /\ UNCHANGED udpResult
         [] Waiting = 1 /\ answer.right -> UdpEnds("ok", BestTime(received'))
         [] OTHER -> UdpEnds("unverified", 0)
    /\ UNCHANGED <<udpTime, sentAt>>

\* A packet that cannot be parsed, or an error of the socket.
ReceiveFails ==
    /\ udpPc = "wait"
    /\ IF Waiting = 0 THEN udpPc' = "second" /\ UNCHANGED udpResult ELSE UdpEnds("error", 0)
    /\ UNCHANGED <<udpTime, sentAt, answers, received>>

\* time::timeout around all of it: there is none for one attempt.
DeadlinePasses ==
    /\ udpPc # "done"
    /\ UdpEnds("timeout", 0)
    /\ UNCHANGED <<udpTime, sentAt, answers, received>>

\* The server and the network.
RelayAnswers(a, response) ==
    /\ udpPc # "done" /\ sentAt[a] # -1
    /\ Cardinality(answers) + Len(received) < MaxAnswers
    /\ answers' = answers \cup {[attempt |-> a, right |-> Verified(response.kind, response)]}
    /\ UNCHANGED <<udpPc, udpTime, sentAt, received, udpResult>>
TimePasses ==
    /\ udpPc # "done" /\ udpTime < MaxTime
    /\ udpTime' = udpTime + 1
    /\ UNCHANGED <<udpPc, sentAt, answers, received, udpResult>>

UdpNext ==
    \/ \E relay \in Relays : Associate(relay)
    \/ SendRequest \/ ReceiveFails \/ DeadlinePasses \/ TimePasses
    \/ \E answer \in answers : ReadAnswer(answer)
    \/ \E a \in {0, 1}, r \in UdpResponses : RelayAnswers(a, r)
UdpSpec == UdpInit /\ [][UdpNext]_udpVars

-----------------------------------------------------------------------------
(* Properties.                                                              *)

\* A time is reported only when what was read for the second request is right,
\* whatever the first brought; a wrong one there is reported as such.  The time
\* is the shortest of those counted, never below zero, and a time an answer
\* really took, unless one to the first request was read for the second
\* (send_via_socks5).
Late(read) == read.attempt < read.request
TimesAreOfRightAnswers ==
    /\ udpResult.end \in {"ok", "unverified"} =>
          /\ received # <<>> /\ Last(received).request = 1
          /\ Last(received).right <=> udpResult.end = "ok"
    /\ udpResult.end = "ok" =>
          /\ udpResult.time >= 0
          /\ \A i \in DOMAIN received : udpResult.time <= received[i].travelled
          /\ \E i \in DOMAIN received :
                udpResult.time = received[i].travelled \/ Late(received[i])
    /\ \A i, j \in DOMAIN received : i < j => received[i].request < received[j].request
    /\ udpPc = "done" => udpResult.end # "none"

\* What was packed is unpacked, and every packet that is cut before its data is
\* refused instead of read past its end.
PacketIsRead(host, port, data) ==
    LET packet == Packet(host, port, data)
        head == Len(packet) - Len(data)
    IN  /\ ParsedPacket(packet) = [ok |-> TRUE, host |-> host, port |-> port, data |-> data]
        /\ \A n \in 0 .. head - 1 : ParsedPacket(SubSeq(packet, 1, n)) = Refused("short")
PacketsAreRead ==
    \A host \in UdpHosts, port \in {0, 255, 256, 65535}, data \in {<<>>, <<7, 8>>} :
        Encodable(host) => PacketIsRead(host, port, data)

\* A server is asked where the user wrote, an address in brackets as it is, and
\* at the port of its kind where no port was written.
TargetsAreRead ==
    \A t \in UdpTargets :
        LET at == Target(t).at
        IN  /\ t.colon /\ t.bracket => at.host = t.parts
            /\ (t.after \notin DOMAIN PortTexts
                   /\ (t.parts = <<>> \/ Last(t.parts) \notin DOMAIN PortTexts)) =>
                  at.port = DefaultPort(Target(t).kind)
=============================================================================
