--------------------------- MODULE MCConversions ---------------------------
(* The two kinds of conversion between what a host counts with and what it   *)
(* puts on the wire, sequence numbers and headers.  They share no state, so  *)
(* one is run before or after the other and not between its steps: the       *)
(* states are the sum of both, not their product.                            *)
EXTENDS MCWrappingIntegers, Sequences

CONSTANTS MaxHops, MaxFaults, SplitPoints, EmptyPieces

VARIABLES sent, wire, got, hops, faults

Header(proto, len, df, mf, offset, dst) ==
    [ver |-> 4, hlen |-> 5, tos |-> <<0>>, len |-> <<0, len>>,
     id |-> <<18, 52>>, df |-> df, mf |-> mf, offset |-> offset,
     ttl |-> <<128>>, proto |-> <<proto>>, cksum |-> <<0, 0>>,
     src |-> <<10, 0, 0, 1>>, dst |-> dst]

(* A whole datagram in two chunks with an empty one between them, a fragment *)
(* at the largest offset, and a datagram without payload.                    *)
SomeDatagrams ==
    {[header  |-> Header(6, 23, TRUE, FALSE, 0, <<255, 255, 255, 255>>),
      payload |-> <<<<7>>, <<>>, <<0, 9>>>>],
     [header  |-> Header(17, 20, FALSE, TRUE, 8191, <<10, 0, 0, 2>>),
      payload |-> <<>>]}

SomeARPMessages ==
    {[hardware_type |-> <<0, 1>>, protocol_type |-> <<8, 0>>,
      hardware_address_size |-> <<6>>, protocol_address_size |-> <<4>>,
      opcode |-> op,
      sender_ethernet_address |-> <<2, 0, 0, 0, 0, 1>>,
      sender_ip_address |-> <<10, 0, 0, 1>>,
      target_ethernet_address |-> <<0, 0, 0, 0, 0, 0>>,
      target_ip_address |-> <<10, 0, 0, 2>>] : op \in {<<0, 1>>, <<0, 2>>}}

Wire == INSTANCE FramesOnWire WITH Datagrams   <- SomeDatagrams,
                                   ARPMessages <- SomeARPMessages

ConversionsInit == NumbersInit /\ Wire!FramesInit

ConversionsNext ==
    \/ /\ sent = Wire!Nothing
       /\ NumbersNext
       /\ UNCHANGED <<sent, wire, got, hops, faults>>
    \/ /\ initial = 0 /\ absolute = 0 /\ reference = 0
       /\ Wire!FramesNext
       /\ UNCHANGED numberVars

ConversionsSpec ==
    ConversionsInit /\ [][ConversionsNext]_<<numberVars, Wire!frameVars>>
---------------------------------------------------------------------------
(* An undamaged message arrives with its header and its bytes, in whatever   *)
(* chunks its frames were handed on (FramesOnWire).                          *)
FramesArriveWhole == Wire!FramesArriveWhole

(* A damaged header is not accepted (FramesOnWire).                          *)
AcceptedHeaderIsTrue == Wire!AcceptedHeaderIsTrue
============================================================================
