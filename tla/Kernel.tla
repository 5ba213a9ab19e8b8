------------------------------- MODULE Kernel -------------------------------
(* What the descriptors of src/util rely on the operating system for: the    *)
(* process's table of open files, and for each file a connection to a peer.  *)
(* External: described from how file_descriptor.cc and socket.cc call it and *)
(* from the POSIX calls they name.                                           *)
EXTENDS Naturals, Sequences

CONSTANTS Files, NoFile,
          Numbers,          \* bound: descriptor numbers the process may use
          SendRoom          \* bytes a connection buffers for the peer

ASSUME KernelAssumption ==
    /\ NoFile \notin Files
    /\ Numbers \subseteq Nat
    /\ SendRoom \in Nat \ {0}

VARIABLES table,            \* the file a number refers to, or NoFile
          O_NONBLOCK,       \* the flag of each file
          incoming,         \* bytes of the peer not read yet
          hungup,           \* has the peer ended its stream?
          outgoing,         \* bytes written that the peer has not taken
          arrived           \* bytes the peer has taken

kernelVars == <<table, O_NONBLOCK, incoming, hungup, outgoing, arrived>>

KernelInit ==
    /\ table = [n \in Numbers |-> NoFile]
    /\ O_NONBLOCK = [f \in Files |-> FALSE]
    /\ incoming = [f \in Files |-> <<>>]
    /\ hungup = [f \in Files |-> FALSE]
    /\ outgoing = [f \in Files |-> <<>>]
    /\ arrived = [f \in Files |-> <<>>]

(* open(2), accept(2), socket(2) hand out the lowest number not in use.      *)
IsLowestFree(n) ==
    /\ n \in Numbers /\ table[n] = NoFile
    /\ \A m \in Numbers : table[m] = NoFile => n <= m

(* Is there something for read(2) to report, bytes or the end?               *)
Readable(f) == incoming[f] # <<>> \/ hungup[f]
Room(f)     == SendRoom - Len(outgoing[f])

Smaller(m, n) == IF m <= n THEN m ELSE n
---------------------------------------------------------------------------
PeerSends(f, byte) ==
    /\ ~hungup[f]
    /\ incoming' = [incoming EXCEPT ![f] = Append(@, byte)]
    /\ UNCHANGED <<table, O_NONBLOCK, hungup, outgoing, arrived>>

PeerHangsUp(f) ==
    /\ ~hungup[f]
    /\ hungup' = [hungup EXCEPT ![f] = TRUE]
    /\ UNCHANGED <<table, O_NONBLOCK, incoming, outgoing, arrived>>

PeerTakes(f) ==
    /\ outgoing[f] # <<>>
    /\ arrived' = [arrived EXCEPT ![f] = Append(@, Head(outgoing[f]))]
    /\ outgoing' = [outgoing EXCEPT ![f] = Tail(@)]
    /\ UNCHANGED <<table, O_NONBLOCK, incoming, hungup>>
---------------------------------------------------------------------------
(* What read(2) or readv(2) of at most size bytes returns, and its effect.   *)
Front(f, size) == SubSeq(incoming[f], 1, Smaller(size, Len(incoming[f])))

Reads(f, n) ==
    /\ incoming' = [incoming EXCEPT ![f] = SubSeq(@, n + 1, Len(@))]
    /\ UNCHANGED <<table, O_NONBLOCK, hungup, outgoing, arrived>>

(* writev(2) of data takes all of it if there is room, else what fits.       *)
Taken(f, data) == Smaller(Len(data), Room(f))

Writes(f, data) ==
    /\ outgoing' = [outgoing EXCEPT
                       ![f] = @ \o SubSeq(data, 1, Taken(f, data))]
    /\ UNCHANGED <<table, O_NONBLOCK, incoming, hungup, arrived>>

SetsFlag(f, flag) ==
    /\ O_NONBLOCK' = [O_NONBLOCK EXCEPT ![f] = flag]
    /\ UNCHANGED <<table, incoming, hungup, outgoing, arrived>>

(* close(2) frees the number, also when it reports an error.                 *)
Frees(n) ==
    /\ table' = [table EXCEPT ![n] = NoFile]
    /\ UNCHANGED <<O_NONBLOCK, incoming, hungup, outgoing, arrived>>

(* A connection that is gone makes place for another.                        *)
NextConnection(f) ==
    /\ O_NONBLOCK' = [O_NONBLOCK EXCEPT ![f] = FALSE]
    /\ incoming' = [incoming EXCEPT ![f] = <<>>]
    /\ hungup' = [hungup EXCEPT ![f] = FALSE]
    /\ outgoing' = [outgoing EXCEPT ![f] = <<>>]
    /\ arrived' = [arrived EXCEPT ![f] = <<>>]
============================================================================
