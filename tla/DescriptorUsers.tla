-------------------------- MODULE DescriptorUsers --------------------------
(* A process that accepts connections, shares their descriptors among        *)
(* handles, reads, writes and closes, while its peers send, take and hang    *)
(* up.  What file_descriptor.cc leaves to the users of a FileDescriptor is   *)
(* named by the constants, for TLC to show what depends on it.               *)
(* Byte i of a connection is <<its file, i>>, in either direction.           *)
EXTENDS FileDescriptor

CONSTANTS MaxOwners,          \* bound: handles on one file
          MaxBytes,           \* bound: bytes in one direction of a busy file
          BusyFiles,          \* bound: others carry one byte, always block
          UsersCheckClosed,   \* users call nothing after closed()
          UsersAwaitData,     \* without blocking, users read what poll() saw
          UsersFillVectors    \* users read() into one buffer they know filled

VARIABLES sent,               \* bytes each peer sent
          received,           \* bytes read() handed to the users
          written             \* bytes the users take for written

historyVars == <<sent, received, written>>
vars == <<kernelVars, descriptorVars, historyVars>>

HistoryStart ==
    /\ sent = [f \in Files |-> 0]
    /\ received = [f \in Files |-> <<>>]
    /\ written = [f \in Files |-> 0]

Init == KernelInit /\ DescriptorInit /\ HistoryStart

Limit(f) == IF f \in BusyFiles THEN MaxBytes ELSE 1
Stream(f, first, last) == [i \in 1 .. last - first + 1 |-> <<f, first + i - 1>>]
---------------------------------------------------------------------------
Peer(f) ==
    \/ /\ sent[f] < Limit(f)
       /\ PeerSends(f, <<f, sent[f] + 1>>)
       /\ sent' = [sent EXCEPT ![f] = @ + 1]
       /\ UNCHANGED <<descriptorVars, received, written>>
    \/ PeerHangsUp(f) /\ UNCHANGED <<descriptorVars, historyVars>>
    \/ PeerTakes(f)   /\ UNCHANGED <<descriptorVars, historyVars>>

Accept(f) == ~Alive(f) /\ accept(f) /\ UNCHANGED historyVars

Duplicate(f) ==
    /\ Alive(f) /\ use_count[f] < MaxOwners
    /\ duplicate(f) /\ UNCHANGED historyVars

Drop(f) ==
    \/ dropShared(f) /\ UNCHANGED historyVars
    \/ /\ dropLast(f)
       /\ sent' = [sent EXCEPT ![f] = 0]
       /\ received' = [received EXCEPT ![f] = <<>>]
       /\ written' = [written EXCEPT ![f] = 0]

(* A call on a number that refers to nothing throws and changes nothing.     *)
MayUse(f) ==
    /\ Alive(f) /\ Target(f) # NoFile
    /\ UsersCheckClosed => ~wrapper[f].closed_

Close(f) == MayUse(f) /\ close(f) /\ UNCHANGED historyVars

SetBlocking(f) ==
    /\ MayUse(f) /\ f \in BusyFiles
    /\ \E blocking \in BOOLEAN : set_blocking(f, blocking)
    /\ UNCHANGED historyVars

Takes(f, buffer) ==
    /\ received' = [received EXCEPT ![f] = @ \o buffer]
    /\ UNCHANGED <<sent, written>>

Read(f) ==
    /\ MayUse(f) /\ ~wrapper[f].eof_
    /\ UsersAwaitData => Readable(Target(f)) \/ ~wrapper[f].non_blocking_
    /\ read(f)
    /\ Takes(f, ReadBuffer(f))

ReadVector(f) ==
    \E front \in {0, 1} :
        /\ MayUse(f) /\ ~wrapper[f].eof_
        /\ UsersFillVectors =>
              front = 0 /\ Len(VectorBytes(f, 0)) = VectorSize(0)
        /\ read_vector(f, front)
        /\ Takes(f, VectorBuffer(f, front))

Write(f) ==
    \E last \in written[f] + 1 .. Limit(f) :
        LET data == Stream(f, written[f] + 1, last)
        IN  /\ MayUse(f)
            /\ write(f, data)
            /\ written' = [written EXCEPT ![f] = @ + BytesWritten(f, data)]
            /\ UNCHANGED <<sent, received>>

Next ==
    \E f \in Files :
        \/ Peer(f) \/ Accept(f) \/ Duplicate(f) \/ Drop(f) \/ Close(f)
        \/ SetBlocking(f) \/ Read(f) \/ ReadVector(f) \/ Write(f)

(* A user reads on until the end, as webget does (webget.cc:36-40).          *)
Spec == Init /\ [][Next]_vars /\ \A f \in Files : WF_vars(Read(f))
---------------------------------------------------------------------------
(* A number is in use exactly while a wrapper stands for it: no file stays   *)
(* open when its last handle is gone, none is closed under a handle, and     *)
(* closing twice never hits the file that got the number next.               *)
OpenIffOwned ==
    \A f \in Files, n \in Numbers :
        table[n] = f <=>
            /\ Alive(f) /\ ~wrapper[f].closed_
            /\ wrapper[f].fd_ = n

(* The users have, in order, what the peer sent and read() has taken from    *)
(* the connection, and the peer gets, in order, what write() reported.       *)
TransfersIntact ==
    \A f \in Files :
        /\ received[f] \o incoming[f] = Stream(f, 1, sent[f])
        /\ arrived[f] \o outgoing[f] = Stream(f, 1, written[f])

(* A handle that reports end of file and was not closed has read everything. *)
EofIsEnd ==
    \A f \in Files :
        wrapper[f].eof_ /\ ~wrapper[f].closed_ =>
            hungup[f] /\ Len(received[f]) = sent[f]

(* Once the peer hung up, a user that goes on reading gets to see the end,   *)
(* whoever duplicates the handle, writes to it or changes its flag.          *)
EndIsSeen ==
    \A f \in Files :
        Alive(f) /\ hungup[f] ~> wrapper[f].eof_ \/ ~Alive(f)
============================================================================
