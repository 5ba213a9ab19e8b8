-------------------------- MODULE DatagramService --------------------------
(* What the interfaces of a LAN promise together: a datagram arrives at the  *)
(* host it was sent to and at no other, and not twice.  Some never arrive,   *)
(* and they arrive in any order.                                             *)
EXTENDS Sequences, SequencesExt

CONSTANTS Host, Datagram

VARIABLES sent,         \* for each datagram sent, the host it is for
          received      \* for each host, the datagrams passed up, in order

vars == <<sent, received>>

Init ==
    /\ sent = [dgram \in {} |-> 0]
    /\ received = [h \in Host |-> <<>>]

Send(dgram, dst) ==
    /\ dgram \notin DOMAIN sent
    /\ DOMAIN sent' = DOMAIN sent \cup {dgram}
    /\ sent'[dgram] = dst
    /\ \A d \in DOMAIN sent : sent'[d] = sent[d]
    /\ UNCHANGED received

Deliver(dgram, h) ==
    /\ dgram \in DOMAIN sent /\ sent[dgram] = h
    /\ ~Contains(received[h], dgram)
    /\ received' = [received EXCEPT ![h] = Append(@, dgram)]
    /\ UNCHANGED sent

Next ==
    \/ \E dgram \in Datagram, dst \in Host : Send(dgram, dst)
    \/ \E dgram \in Datagram, h \in Host : Deliver(dgram, h)

Spec == Init /\ [][Next]_vars
============================================================================
