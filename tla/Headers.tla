------------------------------ MODULE Headers ------------------------------
(* The messages of src/util that travel as bytes, over Parser: the IPv4      *)
(* header with the InternetChecksum, ARPMessage, EthernetHeader, and the     *)
(* datagram and the frame that carry a header and a payload.                 *)
(* parse() of an object gives its outcome ("ok", "error", "thrown"), the     *)
(* object, and the parser.                                                   *)
EXTENDS Parser

(* A number of two bytes.                                                    *)
Number(bytes) == bytes[1] * 256 + bytes[2]
Bytes(n)      == <<n \div 256, n % 256>>

(* InternetChecksum: add() counts bytes in odd places 256 times, through all *)
(* the chunks; value() folds the carries and complements.                    *)
Sum(chunks) ==
    LET data == Joined(chunks)
        sum[i \in 0 .. Len(data)] ==
            IF i = 0 THEN 0
            ELSE sum[i - 1] + data[i] * (IF i % 2 = 1 THEN 256 ELSE 1)
    IN  sum[Len(data)]

ChecksumValue(sum) ==
    65535 - (IF sum <= 65535 THEN sum ELSE 1 + ((sum - 1) % 65535))
---------------------------------------------------------------------------
(* EthernetHeader: addresses of six bytes, taken one by one, and a type.     *)
TYPE_IPv4 == <<8, 0>>
TYPE_ARP == <<8, 6>>

SerializeEthernet(header, serializer) ==
    PutInteger(serializer, header.dst \o header.src \o header.type)

Singly(bytes) == [i \in DOMAIN bytes |-> <<bytes[i]>>]

EthernetFrom(read) ==
    [header |-> [dst  |-> Joined(SubSeq(read.outs, 1, 6)),
                 src  |-> Joined(SubSeq(read.outs, 7, 12)),
                 type |-> read.outs[13]],
     parser |-> read.parser]

ParseEthernet(header, parser) ==
    EthernetFrom(Integers(parser, Singly(header.dst) \o Singly(header.src)
                                  \o <<header.type>>))
---------------------------------------------------------------------------
(* IPv4Header.  The two flags and the offset share two bytes, whose first    *)
(* bit no field holds.                                                       *)
LENGTH == 20

DefaultIPv4 ==
    [ver |-> 4, hlen |-> 5, tos |-> <<0>>, len |-> <<0, 0>>, id |-> <<0, 0>>,
     df |-> TRUE, mf |-> FALSE, offset |-> 0, ttl |-> <<128>>,
     proto |-> <<6>>, cksum |-> <<0, 0>>, src |-> <<0, 0, 0, 0>>,
     dst |-> <<0, 0, 0, 0>>]

FlagBits(header) ==
    (IF header.df THEN 16384 ELSE 0) + (IF header.mf THEN 8192 ELSE 0)
    + header.offset

(* What serialize() writes, once it has checked the version.                 *)
IPv4Bytes(header) ==
    <<header.ver * 16 + header.hlen>> \o header.tos \o header.len
    \o header.id \o Bytes(FlagBits(header)) \o header.ttl \o header.proto
    \o header.cksum \o header.src \o header.dst

SerializableIPv4(header) == header.ver = 4

(* compute_checksum(): over the header as it would be written with a         *)
(* checksum of zero; like serialize(), it throws for another version.        *)
WithChecksum(header) ==
    LET blank == [header EXCEPT !.cksum = <<0, 0>>]
        sum   == Sum(output(PutInteger(NewSerializer, IPv4Bytes(blank))))
    IN  [header EXCEPT !.cksum = Bytes(ChecksumValue(sum))]

(* How much remove_prefix() is told to skip behind the fixed fields: hlen    *)
(* words in all.  With less than five of them the unsigned difference is     *)
(* more than any list holds.                                                 *)
OptionsLength(hlen, parser) ==
    IF hlen >= 5 THEN hlen * 4 - LENGTH ELSE parser.input_.size_ + 1

(* Mutant: the checksum is not looked at.                                    *)
ChecksumNeverWrong(header) == FALSE
ChecksumWrong(header) == WithChecksum(header).cksum # header.cksum

FieldsFrom(outs, first, fo) ==
    [ver |-> first \div 16, hlen |-> first % 16,
     tos |-> outs[2], len |-> outs[3], id |-> outs[4],
     df  |-> (fo \div 16384) % 2 = 1,
     mf  |-> (fo \div 8192) % 2 = 1, offset |-> fo % 8192,
     ttl |-> outs[6], proto |-> outs[7],
     cksum |-> outs[8], src |-> outs[9], dst |-> outs[10]]

IPv4Checked(header, parser) ==
    [thrown |-> ~SerializableIPv4(header),
     header |-> WithChecksum(header),
     parser |-> set_error(
         remove_prefix(parser, OptionsLength(header.hlen, parser)),
         header.ver # 4 \/ header.hlen < 5 \/ ChecksumWrong(header))]

IPv4From(read) ==
    IPv4Checked(FieldsFrom(read.outs, read.outs[1][1], Number(read.outs[5])),
                read.parser)

ParseIPv4(header, parser) ==
    IPv4From(Integers(parser,
                      <<<<0>>, header.tos, header.len, header.id, <<0, 0>>,
                        header.ttl, header.proto, header.cksum,
                        header.src, header.dst>>))
---------------------------------------------------------------------------
(* ARPMessage.                                                               *)
OPCODE_REQUEST == <<0, 1>>
OPCODE_REPLY == <<0, 2>>

DefaultARP ==
    [hardware_type |-> <<0, 1>>, protocol_type |-> TYPE_IPv4,
     hardware_address_size |-> <<6>>, protocol_address_size |-> <<4>>,
     opcode |-> <<0, 0>>,
     sender_ethernet_address |-> <<0, 0, 0, 0, 0, 0>>,
     sender_ip_address |-> <<0, 0, 0, 0>>,
     target_ethernet_address |-> <<0, 0, 0, 0, 0, 0>>,
     target_ip_address |-> <<0, 0, 0, 0>>]

supported(msg) ==
    /\ msg.hardware_type = <<0, 1>> /\ msg.protocol_type = TYPE_IPv4
    /\ msg.hardware_address_size = <<6>> /\ msg.protocol_address_size = <<4>>
    /\ msg.opcode \in {OPCODE_REQUEST, OPCODE_REPLY}

(* serialize() throws unless the message is supported.                       *)
SerializeARP(msg, serializer) ==
    PutInteger(serializer,
        msg.hardware_type \o msg.protocol_type \o msg.hardware_address_size
        \o msg.protocol_address_size \o msg.opcode
        \o msg.sender_ethernet_address \o msg.sender_ip_address
        \o msg.target_ethernet_address \o msg.target_ip_address)

KindFrom(msg, outs) ==
    [msg EXCEPT !.hardware_type = outs[1], !.protocol_type = outs[2],
                !.hardware_address_size = outs[3],
                !.protocol_address_size = outs[4], !.opcode = outs[5]]

AddressesFrom(msg, read) ==
    [message |-> [msg EXCEPT
         !.sender_ethernet_address = Joined(SubSeq(read.outs, 1, 6)),
         !.sender_ip_address = read.outs[7],
         !.target_ethernet_address = Joined(SubSeq(read.outs, 8, 13)),
         !.target_ip_address = read.outs[14]],
     parser |-> read.parser]

ParseAddresses(msg, parser) ==
    IF supported(msg)
    THEN AddressesFrom(msg, Integers(parser,
             Singly(msg.sender_ethernet_address) \o <<msg.sender_ip_address>>
             \o Singly(msg.target_ethernet_address)
             \o <<msg.target_ip_address>>))
    ELSE [message |-> msg, parser |-> set_error(parser, TRUE)]

ARPFrom(msg, read) == ParseAddresses(KindFrom(msg, read.outs), read.parser)

ParseARP(msg, parser) ==
    ARPFrom(msg, Integers(parser,
        <<msg.hardware_type, msg.protocol_type, msg.hardware_address_size,
          msg.protocol_address_size, msg.opcode>>))
---------------------------------------------------------------------------
(* serialize() and parse() of whole objects.                                 *)
Frame(dst, src, type, payload) ==
    [header |-> [dst |-> dst, src |-> src, type |-> type],
     payload |-> payload]

FrameToChunks(frame) ==
    output(PutBuffers(SerializeEthernet(frame.header, NewSerializer),
                      frame.payload))

DatagramToChunks(dgram) ==
    output(PutBuffers(PutInteger(NewSerializer, IPv4Bytes(dgram.header)),
                      dgram.payload))

ARPToChunks(msg) == output(SerializeARP(msg, NewSerializer))

Outcome(parser) == IF parser.error_ THEN "error" ELSE "ok"

(* Objects as they are before parse() fills them.                            *)
NoAddress == <<0, 0, 0, 0, 0, 0>>
DefaultEthernet == [dst |-> NoAddress, src |-> NoAddress, type |-> <<0, 0>>]

FrameFrom(read) ==
    [outcome |-> Outcome(read.parser), header |-> read.header,
     payload |-> all_remaining(read.parser)]

ChunksToFrame(chunks) ==
    FrameFrom(ParseEthernet(DefaultEthernet, NewParser(chunks)))

DatagramFrom(read) ==
    [outcome |-> IF read.thrown THEN "thrown" ELSE Outcome(read.parser),
     header  |-> read.header,
     payload |-> all_remaining(read.parser)]

ChunksToDatagram(chunks) ==
    DatagramFrom(ParseIPv4(DefaultIPv4, NewParser(chunks)))

MessageFrom(read) ==
    [outcome |-> Outcome(read.parser), message |-> read.message]

ChunksToARP(chunks) == MessageFrom(ParseARP(DefaultARP, NewParser(chunks)))
============================================================================
