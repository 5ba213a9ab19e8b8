--------------------------- MODULE FileDescriptor ---------------------------
(* src/util/file_descriptor.cc, and TCPSocket::accept(), which makes one: a  *)
(* number of the kernel's table in an FDWrapper that any number of handles   *)
(* share.  The wrapper made for file f is wrapper[f]; it lives while         *)
(* use_count[f], the count of the shared_ptr, is not 0.  The operations are  *)
(* those on a number that is open, Target(f) # NoFile: on any other the      *)
(* system call fails and the operation throws before it changes anything.    *)
(* read_count_ and write_count_ are left out: nothing depends on them.       *)
EXTENDS Kernel

CONSTANTS kReadBufferSize,
          NUL,              \* the byte a buffer is filled with
          CloseMayFail      \* may close(2) report an error?

ASSUME DescriptorAssumption ==
    /\ kReadBufferSize \in Nat \ {0}
    /\ CloseMayFail \in BOOLEAN

VARIABLES wrapper, use_count

descriptorVars == <<wrapper, use_count>>

FDWrapper(n, flag) ==
    [fd_ |-> n, eof_ |-> FALSE, closed_ |-> FALSE, non_blocking_ |-> flag]

DescriptorInit ==
    /\ wrapper = [f \in Files |-> FDWrapper(0, FALSE)]
    /\ use_count = [f \in Files |-> 0]

Alive(f)  == use_count[f] > 0

(* The file a handle's number refers to in the kernel.                       *)
Target(f) == IF wrapper[f].fd_ \in Numbers THEN table[wrapper[f].fd_]
             ELSE NoFile

Filled(size) == [i \in 1..size |-> NUL]
---------------------------------------------------------------------------
(* accept() of a connection that is there: FileDescriptor( int fd ).         *)
accept(f) ==
    \E n \in Numbers :
        /\ IsLowestFree(n)
        /\ table' = [table EXCEPT ![n] = f]
        /\ wrapper' = [wrapper EXCEPT ![f] = FDWrapper(n, O_NONBLOCK[f])]
        /\ use_count' = [use_count EXCEPT ![f] = 1]
        /\ UNCHANGED <<O_NONBLOCK, incoming, hungup, outgoing, arrived>>

duplicate(f) ==
    /\ use_count' = [use_count EXCEPT ![f] = @ + 1]
    /\ UNCHANGED <<kernelVars, wrapper>>

(* FDWrapper::close().  When the system call reports an error it throws      *)
(* before the flags are set.                                                 *)
Closed(w)     == [w EXCEPT !.eof_ = TRUE, !.closed_ = TRUE]
AfterClose(w) == {Closed(w)} \cup (IF CloseMayFail THEN {w} ELSE {})

close(f) ==
    /\ Frees(wrapper[f].fd_)
    /\ \E w \in AfterClose(wrapper[f]) : wrapper' = [wrapper EXCEPT ![f] = w]
    /\ UNCHANGED use_count

(* A handle goes out of scope; ~FDWrapper() runs with the last of them.      *)
DropOne(f) == use_count' = [use_count EXCEPT ![f] = @ - 1]

(* Mutant: the destructor closes also what was closed before.                *)
DestructorClosesAlways(f) == Target(f) # NoFile
DestructorCloses(f) == ~wrapper[f].closed_ /\ Target(f) # NoFile

dropShared(f) ==
    /\ use_count[f] > 1
    /\ DropOne(f)
    /\ UNCHANGED <<kernelVars, wrapper>>

(* The last handle.  Once its number is free, or was before, the connection  *)
(* is over and the file stands for the next one.                             *)
dropLast(f) ==
    /\ use_count[f] = 1
    /\ DropOne(f)
    /\ wrapper' = [wrapper EXCEPT ![f] = FDWrapper(0, FALSE)]
    /\ table' = IF DestructorCloses(f)
                THEN [table EXCEPT ![wrapper[f].fd_] = NoFile] ELSE table
    /\ NextConnection(f)
---------------------------------------------------------------------------
(* read( string& ).  When there is nothing to report it blocks or, without   *)
(* blocking, returns with the buffer at its full size.                       *)
ReadBuffer(f) ==
    IF Readable(Target(f)) THEN Front(Target(f), kReadBufferSize)
    ELSE Filled(kReadBufferSize)

(* Mutant: a read of less than was asked for is taken for the end.           *)
IsEofWhenShort(bytes) == Len(bytes) < kReadBufferSize
(* Mutant: end of file goes unnoticed.                                       *)
IsEofNever(bytes) == FALSE
IsEof(bytes) == bytes = <<>>

read(f) ==
    /\ IF Readable(Target(f))
       THEN /\ Reads(Target(f), Len(ReadBuffer(f)))
            /\ wrapper' = [wrapper EXCEPT ![f].eof_ = @ \/ IsEof(ReadBuffer(f))]
       ELSE /\ wrapper[f].non_blocking_
            /\ UNCHANGED <<kernelVars, wrapper>>
    /\ UNCHANGED use_count

(* read( vector& ) fills the caller's buffers, the last of them made         *)
(* kReadBufferSize long, and then should skip the full ones and cut the next *)
(* to what remains.  The test is the other way round: a buffer that is large *)
(* enough for what remains is left as it is and remaining_size, unsigned,    *)
(* wraps (here it goes below 0); a smaller one is resized to what remains.   *)
(* Resizing to a number that wrapped throws, and nothing is handed over.     *)
Resized(buf, size) ==
    IF size <= Len(buf) THEN SubSeq(buf, 1, size)
    ELSE buf \o Filled(size - Len(buf))

TrimOne(state, buf) ==
    IF state.remaining_size < 0 THEN [state EXCEPT !.thrown = TRUE]
    ELSE IF state.remaining_size <= Len(buf)
    THEN [state EXCEPT !.remaining_size = @ - Len(buf), !.data = @ \o buf]
    ELSE [state EXCEPT !.remaining_size = 0,
                       !.data = @ \o Resized(buf, state.remaining_size)]

TrimmedVector(bufs, bytes_read) ==
    LET after[i \in 0 .. Len(bufs)] ==
            IF i = 0 THEN [remaining_size |-> bytes_read, data |-> <<>>,
                           thrown |-> FALSE]
            ELSE TrimOne(after[i - 1], bufs[i])
        end == after[Len(bufs)]
    IN  IF end.thrown THEN <<>> ELSE end.data

(* Into two buffers, the first of front bytes, or with front = 0 into one.   *)
VectorSize(front) == front + kReadBufferSize
VectorBytes(f, front) == Front(Target(f), VectorSize(front))

(* Without blocking and with nothing to report, nothing is trimmed.          *)
VectorBuffer(f, front) ==
    LET bytes == VectorBytes(f, front)
        full  == bytes \o Filled(VectorSize(front) - Len(bytes))
        last  == SubSeq(full, front + 1, VectorSize(front))
        bufs  == IF front = 0 THEN <<last>>
                 ELSE <<SubSeq(full, 1, front), last>>
    IN  IF Readable(Target(f)) THEN TrimmedVector(bufs, Len(bytes)) ELSE full

read_vector(f, front) ==
    /\ Readable(Target(f)) \/ wrapper[f].non_blocking_
    /\ Reads(Target(f), Len(VectorBytes(f, front)))
    /\ UNCHANGED descriptorVars
---------------------------------------------------------------------------
(* write() returns bytes_written.  On a full connection it blocks or, without*)
(* blocking, throws and has changed nothing.                                 *)
(* Mutant: what was asked for is returned, not what was written.             *)
BytesWrittenAll(f, data) == Len(data)
BytesWritten(f, data) == Taken(f, data)

write(f, data) ==
    /\ Room(Target(f)) > 0
    /\ Writes(Target(f), data)
    /\ UNCHANGED descriptorVars

set_blocking(f, blocking) ==
    /\ SetsFlag(Target(f), ~blocking)
    /\ wrapper' = [wrapper EXCEPT ![f].non_blocking_ = ~blocking]
    /\ UNCHANGED use_count
============================================================================
