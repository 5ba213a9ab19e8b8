-------------------------- MODULE DescriptorProofs --------------------------
(* Proofs about src/util/file_descriptor.cc for any number of files, numbers *)
(* and handles, any size of the buffers and any number of bytes: descriptor  *)
(* numbers and wrappers stay in step, no byte is lost or invented, and the   *)
(* end of file is the end.                                                   *)
EXTENDS DescriptorUsers, DataFacts

Wrappers == [fd_ : Nat, eof_ : BOOLEAN, closed_ : BOOLEAN,
             non_blocking_ : BOOLEAN]

(* What the descriptor's own members and the kernel's table hold.            *)
Types ==
    /\ table \in [Numbers -> Files \cup {NoFile}]
    /\ O_NONBLOCK \in [Files -> BOOLEAN]
    /\ wrapper \in [Files -> Wrappers]
    /\ use_count \in [Files -> Nat]

IInv == Types /\ OpenIffOwned

(* The contract of the users and of the system under which it holds.         *)
Contract == UsersCheckClosed /\ ~CloseMayFail

(* A step that neither opens nor closes changes nothing that OpenIffOwned    *)
(* looks at.                                                                 *)
SamePlaces ==
    /\ table' = table
    /\ \A f \in Files : /\ use_count'[f] > 0 <=> use_count[f] > 0
                        /\ wrapper'[f].fd_ = wrapper[f].fd_
                        /\ wrapper'[f].closed_ = wrapper[f].closed_

LEMMA SamePlacesKeep == OpenIffOwned /\ SamePlaces => OpenIffOwned'
BY DEF OpenIffOwned, SamePlaces, Alive

(* A handle that is open stands for its own file.                            *)
LEMMA TargetIsOwn ==
    ASSUME IInv, Contract, NEW f \in Files, MayUse(f)
    PROVE  /\ Target(f) = f
           /\ wrapper[f].fd_ \in Numbers
           /\ table[wrapper[f].fd_] = f
           /\ Alive(f)
           /\ ~wrapper[f].closed_
<1>1. Alive(f) /\ ~wrapper[f].closed_ /\ Target(f) # NoFile
  BY DEF MayUse, Contract
<1>2. wrapper[f].fd_ \in Numbers
  BY <1>1 DEF Target
<1>3. table[wrapper[f].fd_] = f
  BY <1>1, <1>2 DEF IInv, OpenIffOwned
<1> QED BY <1>1, <1>2, <1>3 DEF Target
---------------------------------------------------------------------------
(* The initial state: nothing is open and no wrapper lives.                  *)
LEMMA InitOwned == Init => IInv
<1> SUFFICES ASSUME Init PROVE IInv
  OBVIOUS
<1>1. Types
  BY DEF Init, KernelInit, DescriptorInit, Types, Wrappers, FDWrapper
<1>2. OpenIffOwned
  BY KernelAssumption DEF Init, KernelInit, DescriptorInit, OpenIffOwned, Alive
<1> QED BY <1>1, <1>2 DEF IInv

(* Accepting takes a number nobody has for a file nobody has open.           *)
LEMMA AcceptOwned ==
    ASSUME IInv, NEW f \in Files, Accept(f) PROVE IInv'
<1>1. PICK n \in Numbers :
        /\ IsLowestFree(n)
        /\ table' = [table EXCEPT ![n] = f]
        /\ wrapper' = [wrapper EXCEPT ![f] = FDWrapper(n, O_NONBLOCK[f])]
        /\ use_count' = [use_count EXCEPT ![f] = 1]
        /\ O_NONBLOCK' = O_NONBLOCK
  BY DEF Accept, accept
<1>2. ~Alive(f)
  BY DEF Accept
<1>3. FDWrapper(n, O_NONBLOCK[f]) \in Wrappers
  BY KernelAssumption DEF FDWrapper, Wrappers, IInv, Types
<1>4. Types'
  BY <1>1, <1>3 DEF IInv, Types
<1>5. wrapper'[f].fd_ = n /\ wrapper'[f].closed_ = FALSE /\ Alive(f)'
  BY <1>1 DEF FDWrapper, Alive, IInv, Types
<1>6. \A g \in Files \ {f} :
        wrapper'[g] = wrapper[g] /\ use_count'[g] = use_count[g]
  BY <1>1 DEF IInv, Types
<1>7. ASSUME NEW g \in Files, NEW m \in Numbers
      PROVE  table'[m] = g <=>
                (Alive(g) /\ ~wrapper[g].closed_ /\ wrapper[g].fd_ = m)'
  <2>1. CASE g = f
    <3>1. table[m] # f
      BY <1>2 DEF IInv, OpenIffOwned
    <3> QED BY <1>1, <1>5, <2>1, <3>1 DEF IInv, Types
  <2>2. CASE g # f
    <3>1. table'[m] = g <=> table[m] = g
      BY <1>1, <2>2, KernelAssumption DEF IsLowestFree, IInv, Types
    <3> QED BY <1>6, <2>2, <3>1 DEF IInv, OpenIffOwned, Alive
  <2> QED BY <2>1, <2>2
<1> QED BY <1>4, <1>7 DEF IInv, OpenIffOwned

(* The number of a file is freed and its wrapper is closed or gone: no other *)
(* file had that number.                                                     *)
LEMMA FreedOwned ==
    ASSUME IInv, NEW f \in Files,
           Alive(f), ~wrapper[f].closed_, wrapper[f].fd_ \in Numbers,
           table' = [table EXCEPT ![wrapper[f].fd_] = NoFile],
           \A g \in Files \ {f} :
               wrapper'[g] = wrapper[g] /\ use_count'[g] = use_count[g],
           ~Alive(f)' \/ wrapper'[f].closed_
    PROVE  OpenIffOwned'
<1>1. table[wrapper[f].fd_] = f
  BY DEF IInv, OpenIffOwned
<1>2. ASSUME NEW g \in Files, NEW m \in Numbers
      PROVE  table'[m] = g <=>
                (Alive(g) /\ ~wrapper[g].closed_ /\ wrapper[g].fd_ = m)'
  <2>1. CASE g = f
    <3>1. table'[m] # f
      <4>1. CASE m = wrapper[f].fd_
        BY <4>1, KernelAssumption DEF IInv, Types
      <4>2. CASE m # wrapper[f].fd_
        BY <4>2 DEF IInv, Types, OpenIffOwned
      <4> QED BY <4>1, <4>2
    <3> QED BY <2>1, <3>1
  <2>2. CASE g # f
    <3>1. table'[m] = g <=> table[m] = g
      BY <1>1, <2>2, KernelAssumption DEF IInv, Types
    <3> QED BY <2>2, <3>1 DEF IInv, OpenIffOwned, Alive
  <2> QED BY <2>1, <2>2
<1> QED BY <1>2 DEF OpenIffOwned

LEMMA CloseOwned ==
    ASSUME IInv, Contract, NEW f \in Files, Close(f) PROVE IInv'
<1>1. MayUse(f)
  BY DEF Close
<1>2. /\ table' = [table EXCEPT ![wrapper[f].fd_] = NoFile]
      /\ wrapper' = [wrapper EXCEPT ![f] = Closed(@)]
      /\ use_count' = use_count /\ O_NONBLOCK' = O_NONBLOCK
  BY DEF Close, close, Frees, AfterClose, Contract
<1>3. Closed(wrapper[f]) \in Wrappers /\ Closed(wrapper[f]).closed_
  BY DEF Closed, Wrappers, IInv, Types
<1>4. Types'
  BY <1>2, <1>3 DEF IInv, Types
<1>5. /\ \A g \in Files \ {f} :
            wrapper'[g] = wrapper[g] /\ use_count'[g] = use_count[g]
      /\ wrapper'[f].closed_
  BY <1>2, <1>3 DEF IInv, Types
<1>6. OpenIffOwned'
  BY <1>1, <1>2, <1>5, TargetIsOwn, FreedOwned
<1> QED BY <1>4, <1>6 DEF IInv

LEMMA DropOwned ==
    ASSUME IInv, NEW f \in Files, Drop(f) PROVE IInv'
<1>1. CASE dropShared(f)
  <2>1. /\ table' = table /\ wrapper' = wrapper /\ O_NONBLOCK' = O_NONBLOCK
        /\ use_count' = [use_count EXCEPT ![f] = @ - 1] /\ use_count[f] > 1
    BY <1>1 DEF dropShared, DropOne, kernelVars
  <2>2. Types'
    BY <2>1 DEF IInv, Types
  <2>3. SamePlaces
    BY <2>1 DEF SamePlaces, IInv, Types
  <2> QED BY <2>2, <2>3, SamePlacesKeep DEF IInv
<1>2. CASE dropLast(f)
  <2>1. /\ use_count[f] = 1
        /\ use_count' = [use_count EXCEPT ![f] = @ - 1]
        /\ wrapper' = [wrapper EXCEPT ![f] = FDWrapper(0, FALSE)]
        /\ table' = IF DestructorCloses(f)
                    THEN [table EXCEPT ![wrapper[f].fd_] = NoFile] ELSE table
        /\ O_NONBLOCK' = [O_NONBLOCK EXCEPT ![f] = FALSE]
    BY <1>2 DEF dropLast, DropOne, NextConnection
  <2>2. FDWrapper(0, FALSE) \in Wrappers
    BY DEF FDWrapper, Wrappers
  <2>3. Types'
    <3>1. table' \in [Numbers -> Files \cup {NoFile}]
      BY <2>1 DEF IInv, Types
    <3>2. O_NONBLOCK' \in [Files -> BOOLEAN] /\ wrapper' \in [Files -> Wrappers]
      BY <2>1, <2>2 DEF IInv, Types
    <3>3. use_count' \in [Files -> Nat]
      BY <2>1 DEF IInv, Types
    <3> QED BY <3>1, <3>2, <3>3 DEF Types
  <2>4. /\ \A g \in Files \ {f} :
              wrapper'[g] = wrapper[g] /\ use_count'[g] = use_count[g]
        /\ Alive(f) /\ ~Alive(f)'
    BY <2>1 DEF IInv, Types, Alive
  <2>5. CASE DestructorCloses(f)
    <3>1. ~wrapper[f].closed_ /\ wrapper[f].fd_ \in Numbers
      BY <2>5 DEF DestructorCloses, Target
    <3>2. OpenIffOwned'
      BY <2>1, <2>4, <2>5, <3>1, FreedOwned
    <3> QED BY <2>3, <3>2 DEF IInv
  <2>6. CASE ~DestructorCloses(f)
    <3>1. \A m \in Numbers : table[m] # f
      <4> SUFFICES ASSUME NEW m \in Numbers, table[m] = f PROVE FALSE
        OBVIOUS
      <4>1. ~wrapper[f].closed_ /\ wrapper[f].fd_ = m
        BY DEF IInv, OpenIffOwned
      <4>2. Target(f) # NoFile
        BY <4>1, KernelAssumption DEF Target
      <4> QED BY <2>6, <4>1, <4>2 DEF DestructorCloses
    <3>2. table' = table
      BY <2>1, <2>6
    <3>3. ASSUME NEW g \in Files, NEW m \in Numbers
          PROVE  table'[m] = g <=>
                    (Alive(g) /\ ~wrapper[g].closed_ /\ wrapper[g].fd_ = m)'
      <4>1. CASE g = f
        BY <2>4, <3>1, <3>2, <4>1
      <4>2. CASE g # f
        BY <2>4, <3>2, <4>2 DEF IInv, OpenIffOwned, Alive
      <4> QED BY <4>1, <4>2
    <3>4. OpenIffOwned'
      BY <3>3 DEF OpenIffOwned
    <3> QED BY <2>3, <3>4 DEF IInv
  <2> QED BY <2>5, <2>6
<1> QED BY <1>1, <1>2 DEF Drop

(* Reading sets no flag but that of the end of file; the mode is no place.   *)
LEMMA ReadOwned ==
    ASSUME IInv, NEW f \in Files, Read(f) PROVE IInv'
<1>1. /\ table' = table /\ use_count' = use_count /\ O_NONBLOCK' = O_NONBLOCK
      /\ \/ wrapper' = wrapper
         \/ wrapper' = [wrapper EXCEPT
                           ![f].eof_ = @ \/ IsEof(ReadBuffer(f))]
  BY DEF Read, read, Reads, kernelVars
<1>2. CASE wrapper' = wrapper
  BY <1>1, <1>2, SamePlacesKeep DEF IInv, Types, SamePlaces
<1>3. CASE wrapper' = [wrapper EXCEPT ![f].eof_ = @ \/ IsEof(ReadBuffer(f))]
  <2> DEFINE ended == wrapper[f].eof_ \/ IsEof(ReadBuffer(f))
             w     == [wrapper[f] EXCEPT !.eof_ = ended]
  <2>1. wrapper' = [wrapper EXCEPT ![f] = w]
    BY <1>3
  <2>2. wrapper[f] \in Wrappers
    BY DEF IInv, Types
  <2>3. ended \in BOOLEAN
    BY <2>2 DEF Wrappers, IsEof
  <2> HIDE DEF ended
  <2>4. /\ w \in Wrappers
        /\ w.fd_ = wrapper[f].fd_
        /\ w.closed_ = wrapper[f].closed_
    BY <2>2, <2>3 DEF Wrappers
  <2> HIDE DEF w
  <2>5. Types' /\ SamePlaces
    BY <1>1, <2>1, <2>4 DEF IInv, Types, SamePlaces
  <2> QED BY <2>5, SamePlacesKeep DEF IInv
<1> QED BY <1>1, <1>2, <1>3

LEMMA SetBlockingOwned ==
    ASSUME IInv, NEW f \in Files, SetBlocking(f) PROVE IInv'
<1>1. PICK blocking \in BOOLEAN : set_blocking(f, blocking)
  BY DEF SetBlocking
<1>2. /\ table' = table /\ use_count' = use_count
      /\ O_NONBLOCK' = [O_NONBLOCK EXCEPT ![Target(f)] = ~blocking]
      /\ wrapper' = [wrapper EXCEPT ![f].non_blocking_ = ~blocking]
  BY <1>1 DEF set_blocking, SetsFlag
<1>3. Types'
  BY <1>2 DEF IInv, Types, Wrappers
<1>4. SamePlaces
  BY <1>2 DEF IInv, Types, SamePlaces, Wrappers
<1> QED BY <1>3, <1>4, SamePlacesKeep DEF IInv

LEMMA DuplicateOwned ==
    ASSUME IInv, NEW f \in Files, Duplicate(f) PROVE IInv'
<1>1. /\ table' = table /\ wrapper' = wrapper /\ O_NONBLOCK' = O_NONBLOCK
      /\ use_count' = [use_count EXCEPT ![f] = @ + 1] /\ use_count[f] > 0
  BY DEF Duplicate, duplicate, kernelVars, Alive
<1>2. Types' /\ SamePlaces
  BY <1>1 DEF IInv, Types, SamePlaces
<1> QED BY <1>2, SamePlacesKeep DEF IInv

(* What a peer, a vector read and a write leave alone.                       *)
LEMMA UntouchedOwned ==
    ASSUME IInv, UNCHANGED <<table, O_NONBLOCK, wrapper, use_count>>
    PROVE  IInv'
<1>1. Types' /\ SamePlaces
  BY DEF IInv, Types, SamePlaces
<1> QED BY <1>1, SamePlacesKeep DEF IInv

LEMMA NextOwned ==
    ASSUME IInv, Contract, [Next]_vars PROVE IInv'
<1>1. ASSUME NEW f \in Files, Peer(f) PROVE IInv'
  BY <1>1, UntouchedOwned
     DEF Peer, PeerSends, PeerHangsUp, PeerTakes, descriptorVars
<1>2. ASSUME NEW f \in Files, ReadVector(f) PROVE IInv'
  BY <1>2, UntouchedOwned
     DEF ReadVector, read_vector, Reads, descriptorVars
<1>3. ASSUME NEW f \in Files, Write(f) PROVE IInv'
  BY <1>3, UntouchedOwned DEF Write, write, Writes, descriptorVars
<1>4. CASE UNCHANGED vars
  BY <1>4, UntouchedOwned DEF vars, kernelVars, descriptorVars
<1> QED BY <1>1, <1>2, <1>3, <1>4, AcceptOwned, DuplicateOwned, DropOwned,
           CloseOwned, SetBlockingOwned, ReadOwned DEF Next
---------------------------------------------------------------------------
(* The bytes of the connections.                                             *)
Bytes == Files \X Nat

DataTypes ==
    /\ sent \in [Files -> Nat] /\ written \in [Files -> Nat]
    /\ hungup \in [Files -> BOOLEAN]
    /\ received \in [Files -> Seq(Bytes)] /\ incoming \in [Files -> Seq(Bytes)]
    /\ outgoing \in [Files -> Seq(Bytes)] /\ arrived \in [Files -> Seq(Bytes)]

(* TransfersIntact and EofIsEnd of one file.                                 *)
IntactAt(f) ==
    /\ received[f] \o incoming[f] = Stream(f, 1, sent[f])
    /\ arrived[f] \o outgoing[f] = Stream(f, 1, written[f])
EofAt(f) ==
    wrapper[f].eof_ /\ ~wrapper[f].closed_ =>
        hungup[f] /\ Len(received[f]) = sent[f]

DataInv == DataTypes /\ \A f \in Files : IntactAt(f) /\ EofAt(f)

DataOf(f) == <<sent[f], written[f], hungup[f], received[f], incoming[f],
               outgoing[f], arrived[f], wrapper[f].eof_, wrapper[f].closed_>>

(* What more is needed of the users for the bytes.                           *)
UserContract == Contract /\ UsersAwaitData /\ UsersFillVectors

LEMMA OneFile ==
    ASSUME DataInv, NEW f \in Files, DataTypes', IntactAt(f)', EofAt(f)',
           \A g \in Files \ {f} : DataOf(g)' = DataOf(g)
    PROVE  DataInv'
<1>1. ASSUME NEW g \in Files \ {f} PROVE IntactAt(g)' /\ EofAt(g)'
  <2>1. /\ sent'[g] = sent[g] /\ written'[g] = written[g]
        /\ hungup'[g] = hungup[g] /\ received'[g] = received[g]
        /\ incoming'[g] = incoming[g] /\ outgoing'[g] = outgoing[g]
        /\ arrived'[g] = arrived[g] /\ wrapper'[g].eof_ = wrapper[g].eof_
        /\ wrapper'[g].closed_ = wrapper[g].closed_
    BY DEF DataOf
  <2>2. IntactAt(g) /\ EofAt(g)
    BY DEF DataInv
  <2> QED BY <2>1, <2>2 DEF IntactAt, EofAt
<1> QED BY <1>1 DEF DataInv

LEMMA StreamIs ==
    ASSUME NEW f \in Files, NEW n \in Nat, NEW last \in Nat, n <= last
    PROVE  /\ Stream(f, n + 1, last) \in Seq(Bytes)
           /\ Len(Stream(f, n + 1, last)) = last - n
           /\ \A i \in 1 .. last - n : Stream(f, n + 1, last)[i] = <<f, n + i>>
<1> DEFINE k == last - n
           s == Stream(f, n + 1, last)
<1>1. k \in Nat /\ last - (n + 1) + 1 = k
  OBVIOUS
<1>2. \A i \in 1..k : n + i \in Nat /\ (n + 1) + i - 1 = n + i
  OBVIOUS
<1>3. s = [i \in 1..k |-> <<f, n + i>>]
  BY <1>1, <1>2 DEF Stream
<1> HIDE DEF s
<1>4. s \in [1..k -> Bytes]
  BY <1>2, <1>3 DEF Bytes
<1> HIDE DEF k
<1>5. s \in Seq(Bytes)
  BY <1>1, <1>4, SeqDef
<1>6. Len(s) = k
  BY <1>1, <1>4, <1>5, LenProperties
<1> QED BY <1>3, <1>5, <1>6 DEF s, k

LEMMA StreamOfAll ==
    ASSUME NEW f \in Files, NEW n \in Nat
    PROVE  /\ Stream(f, 1, n) \in Seq(Bytes)
           /\ Len(Stream(f, 1, n)) = n
           /\ \A i \in 1..n : Stream(f, 1, n)[i] = <<f, i>>
<1> DEFINE zero == 0
           s    == Stream(f, zero + 1, n)
<1>1. zero \in Nat /\ zero <= n
  OBVIOUS
<1> HIDE DEF zero, s
<1>2. /\ s \in Seq(Bytes) /\ Len(s) = n - zero
      /\ \A i \in 1 .. n - zero : s[i] = <<f, zero + i>>
  BY <1>1, StreamIs DEF s
<1>3. /\ zero + 1 = 1 /\ n - zero = n
      /\ \A i \in 1..n : zero + i = i
  BY DEF zero
<1>4. s = Stream(f, 1, n)
  BY <1>3 DEF s
<1> QED BY <1>2, <1>3, <1>4

(* A stream goes on with the bytes that follow.                              *)
LEMMA StreamGrows ==
    ASSUME NEW f \in Files, NEW n \in Nat, NEW last \in Nat, NEW t \in Nat,
           n + t <= last
    PROVE  Stream(f, 1, n) \o SubSeq(Stream(f, n + 1, last), 1, t)
               = Stream(f, 1, n + t)
<1> DEFINE a == Stream(f, 1, n)
           b == Stream(f, n + 1, last)
           c == SubSeq(b, 1, t)
           d == Stream(f, 1, n + t)
<1>1. /\ a \in Seq(Bytes) /\ Len(a) = n
      /\ \A i \in 1..n : a[i] = <<f, i>>
  BY StreamOfAll
<1>2. /\ b \in Seq(Bytes) /\ Len(b) = last - n
      /\ \A i \in 1 .. last - n : b[i] = <<f, n + i>>
  <2>1. n <= last
    OBVIOUS
  <2> QED BY <2>1, StreamIs, SMTT(30)
<1>3. /\ d \in Seq(Bytes) /\ Len(d) = n + t
      /\ \A i \in 1 .. n + t : d[i] = <<f, i>>
  <2> DEFINE m == n + t
  <2>1. m \in Nat
    OBVIOUS
  <2> HIDE DEF m
  <2>2. /\ Stream(f, 1, m) \in Seq(Bytes) /\ Len(Stream(f, 1, m)) = m
        /\ \A i \in 1..m : Stream(f, 1, m)[i] = <<f, i>>
    BY <2>1, StreamOfAll
  <2> QED BY <2>2 DEF m
<1> HIDE DEF a, b, d
<1>4. /\ c \in Seq(Bytes) /\ Len(c) = t
      /\ \A i \in 1..t : c[i] = b[i]
  <2>1. \A i \in 1..t : b[i] \in Bytes
    BY <1>2, ElementOfSeq
  <2> QED BY <2>1, SubSeqProperties
<1> HIDE DEF c
<1>5. /\ a \o c \in Seq(Bytes) /\ Len(a \o c) = n + t
      /\ \A i \in 1 .. n + t : (a \o c)[i] = IF i <= n THEN a[i] ELSE c[i - n]
  BY <1>1, <1>4, ConcatProperties
<1>6. ASSUME NEW i \in 1 .. n + t PROVE (a \o c)[i] = d[i]
  <2>1. d[i] = <<f, i>>
    BY <1>3
  <2>2. CASE i <= n
    <3>1. i \in 1..n
      BY <2>2
    <3> QED BY <1>1, <1>5, <2>1, <2>2, <3>1
  <2>3. CASE i > n
    <3>1. /\ i - n \in 1..t /\ i - n \in 1 .. last - n /\ n + (i - n) = i
          /\ ~(i <= n)
      BY <2>3
    <3>2. c[i - n] = <<f, n + (i - n)>>
      BY <1>2, <1>4, <3>1
    <3>3. (a \o c)[i] = c[i - n]
      BY <1>5, <3>1
    <3>4. c[i - n] = <<f, i>>
      BY <3>1, <3>2
    <3> QED BY <2>1, <3>3, <3>4
  <2>4. i <= n \/ i > n
    OBVIOUS
  <2> QED BY <2>2, <2>3, <2>4
<1>7. a \o c = d
  BY <1>3, <1>5, <1>6, SeqEqual
<1> QED BY <1>7 DEF a, b, c, d

LEMMA StreamAppend ==
    ASSUME NEW f \in Files, NEW n \in Nat
    PROVE  Append(Stream(f, 1, n), <<f, n + 1>>) = Stream(f, 1, n + 1)
<1> DEFINE a == Stream(f, 1, n)
           d == Stream(f, 1, n + 1)
           e == <<f, n + 1>>
<1>1. /\ a \in Seq(Bytes) /\ Len(a) = n
      /\ \A i \in 1..n : a[i] = <<f, i>>
  BY StreamOfAll
<1>2. /\ d \in Seq(Bytes) /\ Len(d) = n + 1
      /\ \A i \in 1 .. n + 1 : d[i] = <<f, i>>
  <2> DEFINE m == n + 1
  <2>1. m \in Nat
    OBVIOUS
  <2> HIDE DEF m
  <2>2. /\ Stream(f, 1, m) \in Seq(Bytes) /\ Len(Stream(f, 1, m)) = m
        /\ \A i \in 1..m : Stream(f, 1, m)[i] = <<f, i>>
    BY <2>1, StreamOfAll
  <2> QED BY <2>2 DEF m
<1>3. e \in Bytes
  BY DEF Bytes
<1> HIDE DEF a, d
<1>4. /\ Append(a, e) \in Seq(Bytes) /\ Len(Append(a, e)) = n + 1
      /\ \A i \in 1..n : Append(a, e)[i] = a[i]
      /\ Append(a, e)[n + 1] = e
  <2> HIDE DEF e
  <2> QED BY <1>1, <1>3, AppendProperties
<1>5. ASSUME NEW i \in 1 .. n + 1 PROVE Append(a, e)[i] = d[i]
  <2>1. d[i] = <<f, i>>
    BY <1>2
  <2>2. CASE i \in 1..n
    BY <1>1, <1>4, <2>1, <2>2
  <2>3. CASE i = n + 1
    <3>1. Append(a, e)[i] = e /\ e = <<f, i>>
      BY <1>4, <2>3
    <3> QED BY <2>1, <3>1
  <2>4. i \in 1..n \/ i = n + 1
    OBVIOUS
  <2> QED BY <2>2, <2>3, <2>4
<1>6. Append(a, e) = d
  BY <1>2, <1>4, <1>5, SeqEqual
<1> QED BY <1>6 DEF a, d

(* A single buffer that was filled is handed over as it is.                  *)
LEMMA TrimOneBuffer ==
    ASSUME NEW S, NEW buf \in Seq(S)
    PROVE  TrimmedVector(<<buf>>, Len(buf)) = buf
<1> DEFINE bufs  == <<buf>>
           start == [remaining_size |-> Len(buf), data |-> <<>>, thrown |-> FALSE]
           end   == [remaining_size |-> 0, data |-> buf, thrown |-> FALSE]
           Step(h) == [i \in 0 .. Len(bufs) |->
                          IF i = 0 THEN start ELSE TrimOne(h[i - 1], bufs[i])]
           g     == [i \in 0..1 |-> IF i = 0 THEN start ELSE end]
           after == CHOOSE h : h = Step(h)
<1>1. Len(bufs) = 1 /\ bufs[1] = buf /\ Len(buf) \in Nat
  BY LenProperties
<1>2. TrimOne(start, buf) = end
  <2>1. <<>> \o buf = buf /\ Len(buf) - Len(buf) = 0
    BY <1>1, ConcatEmptySeq
  <2>2. /\ start.remaining_size = Len(buf) /\ start.data = <<>>
        /\ ~(Len(buf) < 0) /\ Len(buf) <= Len(buf)
    BY <1>1
  <2>3. TrimOne(start, buf) =
            [start EXCEPT !.remaining_size = start.remaining_size - Len(buf),
                          !.data = start.data \o buf]
    <3> HIDE DEF start
    <3> QED BY <2>2 DEF TrimOne
  <2>4. TrimOne(start, buf) = [start EXCEPT !.remaining_size = 0, !.data = buf]
    <3> HIDE DEF start
    <3> QED BY <2>1, <2>2, <2>3
  <2> QED BY <2>4
<1>3. g = Step(g)
  <2>1. Step(g) = [i \in 0..1 |->
                      IF i = 0 THEN start ELSE TrimOne(g[i - 1], bufs[i])]
    BY <1>1
  <2>2. \A i \in 0..1 : (IF i = 0 THEN start ELSE TrimOne(g[i - 1], bufs[i]))
                            = IF i = 0 THEN start ELSE end
    <3> HIDE DEF start, end, bufs
    <3>1. g[1 - 1] = start
      OBVIOUS
    <3>2. \A i \in 0..1 : i # 0 => i = 1
      OBVIOUS
    <3> HIDE DEF g
    <3> QED BY <1>1, <1>2, <3>1, <3>2
  <2> QED BY <2>1, <2>2
<1>4. after = Step(after)
  <2> HIDE DEF g, Step
  <2> QED BY <1>3
<1>5. after[1] = end
  <2> HIDE DEF start, end, bufs, after
  <2>1. after = [i \in 0..1 |->
                      IF i = 0 THEN start ELSE TrimOne(after[i - 1], bufs[i])]
    BY <1>1, <1>4
  <2>2. after[0] = start /\ 1 - 1 = 0
    BY <2>1
  <2>3. after[1] = TrimOne(after[1 - 1], bufs[1])
    BY <2>1
  <2> QED BY <1>1, <1>2, <2>2, <2>3
<1>6. TrimmedVector(bufs, Len(buf)) =
          IF after[Len(bufs)].thrown THEN <<>> ELSE after[Len(bufs)].data
  BY DEF TrimmedVector
<1> QED BY <1>1, <1>5, <1>6
---------------------------------------------------------------------------
LEMMA InitIntact == Init => DataInv
<1> SUFFICES ASSUME Init PROVE DataInv
  OBVIOUS
<1> DEFINE none == <<>>
<1>1. /\ sent = [f \in Files |-> 0] /\ written = [f \in Files |-> 0]
      /\ hungup = [f \in Files |-> FALSE]
      /\ received = [f \in Files |-> none] /\ incoming = [f \in Files |-> none]
      /\ outgoing = [f \in Files |-> none] /\ arrived = [f \in Files |-> none]
  BY DEF Init, KernelInit, HistoryStart
<1>2. none \in Seq(Bytes) /\ none \o none = none
      /\ \A f \in Files : Stream(f, 1, 0) = none
  <2>1. \A f \in Files : Stream(f, 1, 0) \in Seq(Bytes) /\ Len(Stream(f, 1, 0)) = 0
    BY StreamOfAll, 0 \in Nat
  <2> QED BY <2>1, EmptySeq, ConcatEmptySeq
<1> HIDE DEF none
<1>3. DataTypes
  BY <1>1, <1>2 DEF DataTypes
<1>4. \A f \in Files : IntactAt(f)
  BY <1>1, <1>2 DEF IntactAt
<1>5. \A f \in Files : EofAt(f)
  BY DEF Init, DescriptorInit, FDWrapper, EofAt
<1> QED BY <1>3, <1>4, <1>5 DEF DataInv

(* A peer that sends has not hung up, so nobody has seen the end.            *)
LEMMA PeerIntact ==
    ASSUME DataInv, NEW f \in Files, Peer(f) PROVE DataInv'
<1>0. /\ DataTypes /\ IntactAt(f) /\ EofAt(f)
      /\ sent[f] \in Nat /\ written[f] \in Nat
      /\ received[f] \in Seq(Bytes) /\ incoming[f] \in Seq(Bytes)
      /\ outgoing[f] \in Seq(Bytes) /\ arrived[f] \in Seq(Bytes)
  BY DEF DataInv, DataTypes
<1>1. CASE /\ PeerSends(f, <<f, sent[f] + 1>>)
           /\ sent' = [sent EXCEPT ![f] = @ + 1]
           /\ UNCHANGED <<descriptorVars, received, written>>
  <2> DEFINE byte == <<f, sent[f] + 1>>
             more == Append(incoming[f], byte)
  <2>1. /\ incoming' = [incoming EXCEPT ![f] = more] /\ ~hungup[f]
        /\ sent' = [sent EXCEPT ![f] = @ + 1]
        /\ wrapper' = wrapper /\ received' = received /\ written' = written
        /\ hungup' = hungup /\ outgoing' = outgoing /\ arrived' = arrived
    BY <1>1 DEF PeerSends, descriptorVars
  <2>2. /\ more \in Seq(Bytes)
        /\ received[f] \o more = Append(received[f] \o incoming[f], byte)
    <3>1. byte \in Bytes
      BY <1>0 DEF Bytes
    <3> HIDE DEF byte
    <3>2. more \in Seq(Bytes)
      BY <1>0, <3>1, AppendProperties
    <3>3. received[f] \o more = Append(received[f] \o incoming[f], byte)
      <4> DEFINE had  == received[f]
                 here == incoming[f]
      <4>1. had \in Seq(Bytes) /\ here \in Seq(Bytes)
        BY <1>0
      <4> HIDE DEF had, here
      <4>2. had \o Append(here, byte) = Append(had \o here, byte)
        BY <3>1, <4>1, ConcatAppend
      <4> QED BY <4>2 DEF had, here
    <3> QED BY <3>2, <3>3
  <2>3. received[f] \o more = Stream(f, 1, sent[f] + 1)
    <3>1. received[f] \o incoming[f] = Stream(f, 1, sent[f])
      BY <1>0 DEF IntactAt
    <3>2. Append(Stream(f, 1, sent[f]), byte) = Stream(f, 1, sent[f] + 1)
      BY <1>0, StreamAppend
    <3> HIDE DEF more, byte
    <3> QED BY <2>2, <3>1, <3>2
  <2> HIDE DEF more
  <2>4. DataTypes'
    <3>1. incoming' \in [Files -> Seq(Bytes)]
      BY <1>0, <2>1, <2>2 DEF DataTypes
    <3>2. sent' \in [Files -> Nat]
      BY <1>0, <2>1 DEF DataTypes
    <3> QED BY <1>0, <2>1, <3>1, <3>2 DEF DataTypes
  <2>5. incoming'[f] = more /\ sent'[f] = sent[f] + 1
    BY <1>0, <2>1 DEF DataTypes
  <2>6. IntactAt(f)'
    BY <1>0, <2>1, <2>3, <2>5 DEF IntactAt
  <2>7. EofAt(f)'
    BY <1>0, <2>1 DEF EofAt
  <2>8. \A g \in Files \ {f} : DataOf(g)' = DataOf(g)
    BY <1>0, <2>1 DEF DataOf, DataTypes
  <2> QED BY <2>4, <2>6, <2>7, <2>8, OneFile
<1>2. CASE PeerHangsUp(f) /\ UNCHANGED <<descriptorVars, historyVars>>
  <2>1. /\ hungup' = [hungup EXCEPT ![f] = TRUE] /\ ~hungup[f]
        /\ wrapper' = wrapper /\ received' = received /\ written' = written
        /\ sent' = sent /\ incoming' = incoming
        /\ outgoing' = outgoing /\ arrived' = arrived
    BY <1>2 DEF PeerHangsUp, descriptorVars, historyVars
  <2>2. DataTypes'
    BY <1>0, <2>1 DEF DataTypes
  <2>3. IntactAt(f)' /\ EofAt(f)'
    BY <1>0, <2>1 DEF IntactAt, EofAt
  <2>4. \A g \in Files \ {f} : DataOf(g)' = DataOf(g)
    BY <1>0, <2>1 DEF DataOf, DataTypes
  <2> QED BY <2>2, <2>3, <2>4, OneFile
<1>3. CASE PeerTakes(f) /\ UNCHANGED <<descriptorVars, historyVars>>
  <2> DEFINE out  == outgoing[f]
             more == Append(arrived[f], Head(out))
  <2>1. /\ arrived' = [arrived EXCEPT ![f] = more]
        /\ outgoing' = [outgoing EXCEPT ![f] = Tail(out)] /\ out # <<>>
        /\ wrapper' = wrapper /\ received' = received /\ written' = written
        /\ sent' = sent /\ incoming' = incoming /\ hungup' = hungup
    BY <1>3 DEF PeerTakes, descriptorVars, historyVars
  <2>2. /\ more \in Seq(Bytes) /\ Tail(out) \in Seq(Bytes)
        /\ more \o Tail(out) = arrived[f] \o out
    <3>1. out \in Seq(Bytes) /\ arrived[f] \in Seq(Bytes)
      BY <1>0
    <3> HIDE DEF out
    <3>2. Head(out) \in Bytes /\ Tail(out) \in Seq(Bytes)
      BY <2>1, <3>1, HeadTailProperties
    <3>3. more \in Seq(Bytes)
      BY <3>1, <3>2, AppendProperties
    <3>4. more \o Tail(out) = arrived[f] \o out
      BY <2>1, <3>1, HeadMoves
    <3> QED BY <3>2, <3>3, <3>4
  <2>3. more \o Tail(out) = Stream(f, 1, written[f])
    BY <1>0, <2>2 DEF IntactAt
  <2> HIDE DEF more, out
  <2>4. DataTypes'
    BY <1>0, <2>1, <2>2 DEF DataTypes
  <2>5. arrived'[f] = more /\ outgoing'[f] = Tail(out)
    BY <1>0, <2>1 DEF DataTypes
  <2>6. IntactAt(f)' /\ EofAt(f)'
    BY <1>0, <2>1, <2>3, <2>5 DEF IntactAt, EofAt
  <2>7. \A g \in Files \ {f} : DataOf(g)' = DataOf(g)
    BY <1>0, <2>1 DEF DataOf, DataTypes
  <2> QED BY <2>4, <2>6, <2>7, OneFile
<1> QED BY <1>1, <1>2, <1>3 DEF Peer

(* A new handle has seen no end.                                             *)
LEMMA AcceptIntact ==
    ASSUME IInv, DataInv, NEW f \in Files, Accept(f) PROVE DataInv'
<1>1. PICK n \in Numbers :
         wrapper' = [wrapper EXCEPT ![f] = FDWrapper(n, O_NONBLOCK[f])]
  BY DEF Accept, accept
<1>2. /\ received' = received /\ written' = written /\ sent' = sent
      /\ incoming' = incoming /\ hungup' = hungup
      /\ outgoing' = outgoing /\ arrived' = arrived
  BY DEF Accept, accept, historyVars
<1>3. DataTypes' /\ IntactAt(f)'
  BY <1>2 DEF DataInv, DataTypes, IntactAt
<1>4. wrapper'[f].eof_ = FALSE
  BY <1>1 DEF IInv, Types, FDWrapper
<1>5. \A g \in Files \ {f} : wrapper'[g] = wrapper[g]
  BY <1>1 DEF IInv, Types
<1>6. \A g \in Files \ {f} : DataOf(g)' = DataOf(g)
  BY <1>2, <1>5 DEF DataOf
<1> QED BY <1>3, <1>4, <1>6, OneFile DEF EofAt

(* What neither moves bytes nor touches the two flags.                       *)
LEMMA UntouchedIntact ==
    ASSUME DataInv,
           UNCHANGED <<sent, written, hungup, received, incoming, outgoing,
                       arrived>>,
           \A f \in Files : /\ wrapper'[f].eof_ = wrapper[f].eof_
                            /\ wrapper'[f].closed_ = wrapper[f].closed_
    PROVE  DataInv'
<1>1. DataTypes'
  BY DEF DataInv, DataTypes
<1>2. \A f \in Files : IntactAt(f)' /\ EofAt(f)'
  BY DEF DataInv, IntactAt, EofAt
<1> QED BY <1>1, <1>2 DEF DataInv

LEMMA DropIntact ==
    ASSUME IInv, DataInv, NEW f \in Files, Drop(f) PROVE DataInv'
<1>1. CASE dropShared(f) /\ UNCHANGED historyVars
  BY <1>1, UntouchedIntact DEF dropShared, kernelVars, historyVars
<1>2. CASE /\ dropLast(f)
           /\ sent' = [sent EXCEPT ![f] = 0]
           /\ received' = [received EXCEPT ![f] = <<>>]
           /\ written' = [written EXCEPT ![f] = 0]
  <2> DEFINE none == <<>>
  <2>1. /\ sent' = [sent EXCEPT ![f] = 0]
        /\ written' = [written EXCEPT ![f] = 0]
        /\ hungup' = [hungup EXCEPT ![f] = FALSE]
        /\ received' = [received EXCEPT ![f] = none]
        /\ incoming' = [incoming EXCEPT ![f] = none]
        /\ outgoing' = [outgoing EXCEPT ![f] = none]
        /\ arrived' = [arrived EXCEPT ![f] = none]
        /\ wrapper' = [wrapper EXCEPT ![f] = FDWrapper(0, FALSE)]
    BY <1>2 DEF dropLast, NextConnection
  <2>2. none \in Seq(Bytes) /\ none \o none = none /\ Stream(f, 1, 0) = none
    <3>1. Stream(f, 1, 0) \in Seq(Bytes) /\ Len(Stream(f, 1, 0)) = 0
      BY StreamOfAll, 0 \in Nat
    <3> QED BY <3>1, EmptySeq, ConcatEmptySeq
  <2> HIDE DEF none
  <2>3. DataTypes'
    BY <2>1, <2>2 DEF DataInv, DataTypes
  <2>4. /\ sent'[f] = 0 /\ written'[f] = 0
        /\ received'[f] = none /\ incoming'[f] = none
        /\ outgoing'[f] = none /\ arrived'[f] = none
    BY <2>1 DEF DataInv, DataTypes
  <2>5. IntactAt(f)'
    BY <2>2, <2>4 DEF IntactAt
  <2>6. wrapper'[f].eof_ = FALSE
    BY <2>1 DEF IInv, Types, FDWrapper
  <2>7. \A g \in Files \ {f} : wrapper'[g] = wrapper[g]
    BY <2>1 DEF IInv, Types
  <2>8. \A g \in Files \ {f} : DataOf(g)' = DataOf(g)
    BY <2>1, <2>7 DEF DataOf, DataInv, DataTypes
  <2> QED BY <2>3, <2>5, <2>6, <2>8, OneFile DEF EofAt
<1> QED BY <1>1, <1>2 DEF Drop

(* close() sets both flags: what a closed handle reports is no longer read.  *)
LEMMA CloseIntact ==
    ASSUME IInv, Contract, DataInv, NEW f \in Files, Close(f) PROVE DataInv'
<1>1. /\ wrapper' = [wrapper EXCEPT ![f] = Closed(@)]
      /\ received' = received /\ written' = written /\ sent' = sent
      /\ incoming' = incoming /\ hungup' = hungup
      /\ outgoing' = outgoing /\ arrived' = arrived
  BY DEF Close, close, Frees, AfterClose, Contract, historyVars
<1>2. /\ wrapper'[f].closed_
      /\ \A g \in Files \ {f} : wrapper'[g] = wrapper[g]
  BY <1>1 DEF IInv, Types, Closed, Wrappers
<1>3. DataTypes' /\ IntactAt(f)'
  BY <1>1 DEF DataInv, DataTypes, IntactAt
<1>4. \A g \in Files \ {f} : DataOf(g)' = DataOf(g)
  BY <1>1, <1>2 DEF DataOf
<1> QED BY <1>2, <1>3, <1>4, OneFile DEF EofAt

LEMMA SetBlockingIntact ==
    ASSUME IInv, DataInv, NEW f \in Files, SetBlocking(f) PROVE DataInv'
<1>1. PICK blocking \in BOOLEAN : set_blocking(f, blocking)
  BY DEF SetBlocking
<1>2. /\ wrapper' = [wrapper EXCEPT ![f].non_blocking_ = ~blocking]
      /\ received' = received /\ written' = written /\ sent' = sent
      /\ incoming' = incoming /\ hungup' = hungup
      /\ outgoing' = outgoing /\ arrived' = arrived
  BY <1>1 DEF SetBlocking, set_blocking, SetsFlag, historyVars
<1>3. \A g \in Files : /\ wrapper'[g].eof_ = wrapper[g].eof_
                       /\ wrapper'[g].closed_ = wrapper[g].closed_
  BY <1>2 DEF IInv, Types, Wrappers
<1> QED BY <1>2, <1>3, UntouchedIntact
---------------------------------------------------------------------------
(* n bytes that are taken from the front of a connection and handed over.    *)
LEMMA TakenIntact ==
    ASSUME DataInv, NEW f \in Files, NEW n \in 0 .. Len(incoming[f]),
           incoming' = [incoming EXCEPT
                           ![f] = SubSeq(@, n + 1, Len(@))],
           received' = [received EXCEPT
                           ![f] = @ \o SubSeq(incoming[f], 1, n)],
           UNCHANGED <<sent, written, hungup, outgoing, arrived>>
    PROVE  /\ DataTypes' /\ IntactAt(f)'
           /\ \A g \in Files \ {f} :
                 received'[g] = received[g] /\ incoming'[g] = incoming[g]
<1> DEFINE had   == received[f]
           here  == incoming[f]
           taken == SubSeq(here, 1, n)
           rest  == SubSeq(here, n + 1, Len(here))
<1>1. had \in Seq(Bytes) /\ here \in Seq(Bytes) /\ n \in 0 .. Len(here)
  BY DEF DataInv, DataTypes
<1>2. /\ incoming' = [incoming EXCEPT ![f] = rest]
      /\ received' = [received EXCEPT ![f] = had \o taken]
  OBVIOUS
<1> HIDE DEF had, here
<1>3. taken \in Seq(Bytes) /\ rest \in Seq(Bytes) /\ taken \o rest = here
  BY <1>1, SplitAt
<1> HIDE DEF taken, rest
<1>4. had \o taken \in Seq(Bytes) /\ (had \o taken) \o rest = had \o here
  <2>1. had \o taken \in Seq(Bytes)
    BY <1>1, <1>3, ConcatProperties
  <2>2. (had \o SubSeq(here, 1, n)) \o SubSeq(here, n + 1, Len(here))
            = had \o here
    BY <1>1, FrontMoves
  <2> QED BY <2>1, <2>2 DEF taken, rest
<1>5. DataTypes'
  <2> DEFINE now == had \o taken
  <2>1. now \in Seq(Bytes) /\ received' = [received EXCEPT ![f] = now]
    BY <1>2, <1>4
  <2> HIDE DEF now
  <2>2. received' \in [Files -> Seq(Bytes)]
    BY <2>1 DEF DataInv, DataTypes
  <2>3. incoming' \in [Files -> Seq(Bytes)]
    BY <1>2, <1>3 DEF DataInv, DataTypes
  <2> QED BY <2>2, <2>3 DEF DataInv, DataTypes
<1>6. received'[f] = had \o taken /\ incoming'[f] = rest
  BY <1>2 DEF DataInv, DataTypes
<1>7. IntactAt(f)'
  BY <1>4, <1>6 DEF DataInv, IntactAt, had, here
<1>8. \A g \in Files \ {f} :
         received'[g] = received[g] /\ incoming'[g] = incoming[g]
  BY <1>2 DEF DataInv, DataTypes
<1> QED BY <1>5, <1>7, <1>8

(* What read(2) returns of what is there.                                    *)
LEMMA FrontIs ==
    ASSUME DataInv, NEW f \in Files, NEW size \in Nat \ {0}
    PROVE  LET n == Smaller(size, Len(incoming[f]))
           IN  /\ n \in 0 .. Len(incoming[f]) /\ n <= size
               /\ Front(f, size) = SubSeq(incoming[f], 1, n)
               /\ Front(f, size) \in Seq(Bytes)
               /\ Len(Front(f, size)) = n
               /\ n = 0 => incoming[f] = <<>>
<1> DEFINE here == incoming[f]
           n    == Smaller(size, Len(here))
<1>1. here \in Seq(Bytes) /\ Len(here) \in Nat
  BY LenProperties DEF DataInv, DataTypes
<1>2. n \in 0 .. Len(here) /\ n <= size /\ (n = 0 => Len(here) = 0)
  BY <1>1 DEF Smaller
<1>3. Len(here) = 0 => here = <<>>
  BY <1>1, EmptySeq
<1> DEFINE front == SubSeq(here, 1, n)
<1> HIDE DEF here, n
<1>4. front \in Seq(Bytes) /\ Len(front) = n
  BY <1>1, <1>2, SplitAt
<1>5. front = Front(f, size)
  BY DEF Front, front, here, n
<1> HIDE DEF front
<1> QED BY <1>2, <1>3, <1>4, <1>5 DEF here, n, front

(* read() finds something to report, since its user waits for it.            *)
LEMMA ReadIntact ==
    ASSUME IInv, UserContract, DataInv, NEW f \in Files, Read(f) PROVE DataInv'
<1> DEFINE n     == Smaller(kReadBufferSize, Len(incoming[f]))
           bytes == Front(f, kReadBufferSize)
<1>1. /\ Target(f) = f /\ ~wrapper[f].eof_
      /\ Readable(f) \/ ~wrapper[f].non_blocking_
  BY TargetIsOwn DEF Read, UserContract
<1>2. /\ read(f)
      /\ received' = [received EXCEPT ![f] = @ \o ReadBuffer(f)]
      /\ sent' = sent /\ written' = written
  BY DEF Read, Takes
<1>3. Readable(f)
  BY <1>1, <1>2 DEF read
<1>4. ReadBuffer(f) = bytes
  BY <1>1, <1>3 DEF ReadBuffer
<1>5. /\ Reads(f, Len(bytes))
      /\ wrapper' = [wrapper EXCEPT ![f].eof_ = @ \/ IsEof(bytes)]
  BY <1>1, <1>2, <1>3, <1>4 DEF read
<1>6. /\ n \in 0 .. Len(incoming[f])
      /\ bytes = SubSeq(incoming[f], 1, n)
      /\ Len(bytes) = n
      /\ n = 0 => incoming[f] = <<>>
  BY FrontIs, DescriptorAssumption
<1> HIDE DEF n, bytes
<1>7. /\ incoming' = [incoming EXCEPT ![f] = SubSeq(@, n + 1, Len(@))]
      /\ received' = [received EXCEPT ![f] = @ \o SubSeq(incoming[f], 1, n)]
      /\ UNCHANGED <<sent, written, hungup, outgoing, arrived>>
  BY <1>2, <1>4, <1>5, <1>6 DEF Reads
<1>8. /\ DataTypes' /\ IntactAt(f)'
      /\ \A g \in Files \ {f} :
            received'[g] = received[g] /\ incoming'[g] = incoming[g]
  BY <1>6, <1>7, TakenIntact
<1>9. wrapper'[f].eof_ => IsEof(bytes)
  <2>1. wrapper[f] \in Wrappers
    BY DEF IInv, Types
  <2> DEFINE ended == wrapper[f].eof_ \/ IsEof(bytes)
  <2>2. wrapper' = [wrapper EXCEPT ![f].eof_ = ended]
    BY <1>5
  <2>3. wrapper'[f].eof_ = ended
    <3> HIDE DEF ended
    <3> QED BY <2>1, <2>2 DEF IInv, Types, Wrappers
  <2> QED BY <1>1, <2>3
<1>10. IsEof(bytes) => hungup'[f] /\ Len(received'[f]) = sent'[f]
  <2> SUFFICES ASSUME bytes = <<>>
               PROVE  hungup'[f] /\ Len(received'[f]) = sent'[f]
    BY DEF IsEof
  <2>1. n = 0 /\ incoming[f] = <<>>
    <3>1. Len(bytes) = 0
      OBVIOUS
    <3> QED BY <1>6, <3>1
  <2>2. hungup'[f]
    BY <1>3, <1>7, <2>1 DEF Readable
  <2>3. /\ received[f] \in Seq(Bytes) /\ sent[f] \in Nat
        /\ received[f] \o incoming[f] = Stream(f, 1, sent[f])
    BY DEF DataInv, DataTypes, IntactAt
  <2>4. received[f] = Stream(f, 1, sent[f])
    <3> DEFINE had == received[f]
    <3>1. had \o <<>> = had
      BY <2>3, ConcatEmptySeq
    <3> QED BY <2>1, <2>3, <3>1
  <2>5. received'[f] = received[f]
    <3>1. received'[f] = received[f] \o bytes
      BY <1>2, <1>4 DEF DataInv, DataTypes
    <3> DEFINE had == received[f]
    <3>2. had \o <<>> = had
      BY <2>3, ConcatEmptySeq
    <3> QED BY <3>1, <3>2
  <2>6. Len(Stream(f, 1, sent[f])) = sent[f]
    BY <2>3, StreamOfAll
  <2> QED BY <1>7, <2>2, <2>4, <2>5, <2>6
<1>11. \A g \in Files \ {f} : wrapper'[g] = wrapper[g]
  BY <1>5 DEF IInv, Types
<1>12. \A g \in Files \ {f} : DataOf(g)' = DataOf(g)
  BY <1>7, <1>8, <1>11 DEF DataOf
<1> QED BY <1>8, <1>9, <1>10, <1>12, OneFile DEF EofAt

(* A vector read that fills its one buffer hands over what it took.          *)
LEMMA VectorIntact ==
    ASSUME IInv, UserContract, DataInv, NEW f \in Files, ReadVector(f)
    PROVE  DataInv'
<1> DEFINE size  == VectorSize(0)
           n     == Smaller(size, Len(incoming[f]))
           bytes == VectorBytes(f, 0)
<1>1. PICK front \in {0, 1} :
        /\ MayUse(f) /\ ~wrapper[f].eof_
        /\ UsersFillVectors => front = 0 /\ Len(bytes) = size
        /\ read_vector(f, front)
        /\ Takes(f, VectorBuffer(f, front))
  BY DEF ReadVector
<1>2. /\ Target(f) = f /\ ~wrapper[f].eof_ /\ Len(bytes) = size
      /\ read_vector(f, 0) /\ Takes(f, VectorBuffer(f, 0))
  BY <1>1, TargetIsOwn DEF UserContract
<1>3. size = kReadBufferSize /\ size \in Nat \ {0}
  BY DescriptorAssumption DEF VectorSize
<1>4. bytes = Front(f, size)
  BY <1>2 DEF VectorBytes
<1> HIDE DEF size
<1>5. /\ n \in 0 .. Len(incoming[f]) /\ n <= size
      /\ bytes = SubSeq(incoming[f], 1, n) /\ bytes \in Seq(Bytes)
      /\ Len(bytes) = n
      /\ n = 0 => incoming[f] = <<>>
  BY <1>3, <1>4, FrontIs
<1> HIDE DEF n, bytes
<1>6. incoming[f] # <<>> /\ Readable(f)
  <2>1. Len(incoming[f]) # 0
    <3>1. Len(incoming[f]) \in Nat
      BY LenProperties DEF DataInv, DataTypes
    <3> QED BY <1>2, <1>3, <1>5, <3>1
  <2> QED BY <2>1 DEF Readable
<1>7. VectorBuffer(f, 0) = bytes
  <2> DEFINE full == bytes \o Filled(size - Len(bytes))
             last == SubSeq(full, 0 + 1, size)
  <2>1. Filled(size - Len(bytes)) = <<>>
    <3>1. size - Len(bytes) = 0
      BY <1>2, <1>3
    <3>2. Filled(0) = <<>>
      BY DEF Filled
    <3> QED BY <3>1, <3>2
  <2>2. full = bytes
    <3>1. bytes \o <<>> = bytes
      BY <1>5, ConcatEmptySeq
    <3> QED BY <2>1, <3>1
  <2>3. last = bytes
    <3>1. SubSeq(bytes, 1, Len(bytes)) = bytes
      BY <1>5, SubSeqFull
    <3>2. 0 + 1 = 1
      OBVIOUS
    <3> QED BY <1>2, <2>2, <3>1, <3>2
  <2>4. TrimmedVector(<<bytes>>, Len(bytes)) = bytes
    BY <1>5, TrimOneBuffer
  <2>5. VectorBuffer(f, 0) =
            IF Readable(Target(f)) THEN TrimmedVector(<<last>>, Len(bytes))
            ELSE full
    BY DEF VectorBuffer, bytes, size
  <2> QED BY <1>2, <1>6, <2>3, <2>4, <2>5
<1>8. /\ incoming' = [incoming EXCEPT ![f] = SubSeq(@, n + 1, Len(@))]
      /\ received' = [received EXCEPT ![f] = @ \o SubSeq(incoming[f], 1, n)]
      /\ UNCHANGED <<sent, written, hungup, outgoing, arrived>>
      /\ wrapper' = wrapper
  BY <1>2, <1>5, <1>7 DEF Takes, read_vector, Reads, bytes, descriptorVars
<1>9. /\ DataTypes' /\ IntactAt(f)'
      /\ \A g \in Files \ {f} :
            received'[g] = received[g] /\ incoming'[g] = incoming[g]
  BY <1>5, <1>8, TakenIntact
<1>10. EofAt(f)'
  BY <1>2, <1>8 DEF EofAt
<1>11. \A g \in Files \ {f} : DataOf(g)' = DataOf(g)
  BY <1>8, <1>9 DEF DataOf
<1> QED BY <1>9, <1>10, <1>11, OneFile

(* write() reports exactly the bytes the connection took.                    *)
LEMMA WriteIntact ==
    ASSUME IInv, UserContract, DataInv, NEW f \in Files, Write(f)
    PROVE  DataInv'
<1>1. PICK last \in written[f] + 1 .. Limit(f) :
        LET data == Stream(f, written[f] + 1, last)
        IN  /\ MayUse(f)
            /\ write(f, data)
            /\ written' = [written EXCEPT ![f] = @ + BytesWritten(f, data)]
            /\ UNCHANGED <<sent, received>>
  BY DEF Write
<1> DEFINE w    == written[f]
           data == Stream(f, w + 1, last)
           t    == Taken(f, data)
           part == SubSeq(data, 1, t)
           out  == outgoing[f]
<1>2. /\ Target(f) = f
      /\ Room(f) > 0 /\ Writes(f, data)
      /\ written' = [written EXCEPT ![f] = w + t]
      /\ sent' = sent /\ received' = received /\ wrapper' = wrapper
  BY <1>1, TargetIsOwn DEF UserContract, write, BytesWritten, descriptorVars
<1>3. /\ w \in Nat /\ out \in Seq(Bytes) /\ arrived[f] \in Seq(Bytes)
      /\ arrived[f] \o out = Stream(f, 1, w) /\ last \in Nat /\ w + 1 <= last
  BY DEF DataInv, DataTypes, IntactAt
<1>4. /\ data \in Seq(Bytes) /\ Len(data) = last - w
  BY <1>3, StreamIs
<1>5. t \in Nat /\ w + t <= last /\ t \in 0 .. Len(data)
  <2>1. Len(out) \in Nat /\ SendRoom \in Nat
    BY <1>3, LenProperties, KernelAssumption
  <2>2. Room(f) \in Nat \ {0} /\ last - w \in Nat
    BY <1>2, <1>3, <2>1 DEF Room
  <2>3. t = IF Len(data) <= Room(f) THEN Len(data) ELSE Room(f)
    BY DEF Taken, Smaller
  <2> HIDE DEF data, t, w
  <2> QED BY <1>3, <1>4, <2>2, <2>3
<1>6. Stream(f, 1, w) \o part = Stream(f, 1, w + t)
  <2> HIDE DEF w, t
  <2> QED BY <1>3, <1>5, StreamGrows
<1>7. /\ outgoing' = [outgoing EXCEPT ![f] = out \o part]
      /\ incoming' = incoming /\ hungup' = hungup /\ arrived' = arrived
  BY <1>2 DEF Writes
<1>8. part \in Seq(Bytes)
  <2> HIDE DEF data, t
  <2> QED BY <1>4, <1>5, SplitAt
<1> HIDE DEF part, out, t, w
<1>9. out \o part \in Seq(Bytes)
      /\ arrived[f] \o (out \o part) = Stream(f, 1, w + t)
  <2> DEFINE had == arrived[f]
  <2>1. had \in Seq(Bytes)
    BY <1>3
  <2> HIDE DEF had
  <2>2. out \in Seq(Bytes) /\ part \in Seq(Bytes)
    BY <1>3, <1>8
  <2>3. out \o part \in Seq(Bytes)
    BY <2>2, ConcatProperties
  <2>4. (had \o out) \o part = had \o (out \o part)
    BY <2>1, <2>2, ConcatAssociative, SMTT(30)
  <2> QED BY <1>3, <1>6, <2>3, <2>4 DEF had
<1> DEFINE now == out \o part
<1> HIDE DEF now
<1>10. DataTypes'
  <2>1. outgoing' = [outgoing EXCEPT ![f] = now] /\ now \in Seq(Bytes)
    BY <1>7, <1>9 DEF now
  <2>2. w + t \in Nat
    BY <1>3, <1>5
  <2> QED BY <1>2, <1>7, <2>1, <2>2 DEF DataInv, DataTypes
<1>11. outgoing'[f] = out \o part /\ written'[f] = w + t
  BY <1>2, <1>7 DEF DataInv, DataTypes
<1>12. IntactAt(f)' /\ EofAt(f)'
  <2>1. IntactAt(f) /\ EofAt(f)
    BY DEF DataInv
  <2> QED BY <1>2, <1>7, <1>9, <1>11, <2>1 DEF IntactAt, EofAt
<1>13. \A g \in Files \ {f} : DataOf(g)' = DataOf(g)
  BY <1>2, <1>7 DEF DataInv, DataTypes, DataOf
<1> QED BY <1>10, <1>12, <1>13, OneFile
---------------------------------------------------------------------------
(* A number is in use exactly while a wrapper stands for it, whatever the    *)
(* number of files, numbers and handles, as long as the users look at        *)
(* closed() and close() reports no error.                                    *)
THEOREM NumbersAreOwned == Contract => (Spec => []OpenIffOwned)
<1> SUFFICES ASSUME Contract PROVE Spec => []OpenIffOwned
  OBVIOUS
<1>1. IInv /\ [Next]_vars => IInv'
  BY NextOwned
<1>2. IInv => OpenIffOwned
  BY DEF IInv
<1> QED BY InitOwned, <1>1, <1>2, PTL DEF Spec

LEMMA NextIntact ==
    ASSUME IInv, UserContract, DataInv, [Next]_vars PROVE DataInv'
<1>1. ASSUME NEW f \in Files, Duplicate(f) PROVE DataInv'
  BY <1>1, UntouchedIntact DEF Duplicate, duplicate, kernelVars, historyVars
<1>2. CASE UNCHANGED vars
  BY <1>2, UntouchedIntact DEF vars, kernelVars, descriptorVars, historyVars
<1>3. Contract
  BY DEF UserContract
<1> QED BY <1>1, <1>2, <1>3, PeerIntact, AcceptIntact, DropIntact, CloseIntact,
           SetBlockingIntact, ReadIntact, VectorIntact, WriteIntact DEF Next

LEMMA Inductive == UserContract => (Spec => [](IInv /\ DataInv))
<1> SUFFICES ASSUME UserContract PROVE Spec => [](IInv /\ DataInv)
  OBVIOUS
<1>1. IInv /\ DataInv /\ [Next]_vars => (IInv /\ DataInv)'
  BY NextOwned, NextIntact DEF UserContract
<1> QED BY InitOwned, InitIntact, <1>1, PTL DEF Spec

(* No byte is lost, doubled or out of order in either direction, whatever    *)
(* the sizes, the handles and the numbers that are used again, as long as    *)
(* the users also wait for data and read vectors into buffers they fill.     *)
THEOREM NoByteLost == UserContract => (Spec => []TransfersIntact)
<1> SUFFICES ASSUME UserContract PROVE Spec => []TransfersIntact
  OBVIOUS
<1>1. DataInv => TransfersIntact
  BY DEF DataInv, IntactAt, TransfersIntact
<1> QED BY <1>1, Inductive, PTL

(* An open handle that reports the end has handed over all that was sent.    *)
THEOREM EofIsTheEnd == UserContract => (Spec => []EofIsEnd)
<1> SUFFICES ASSUME UserContract PROVE Spec => []EofIsEnd
  OBVIOUS
<1>1. DataInv => EofIsEnd
  BY DEF DataInv, EofAt, EofIsEnd
<1> QED BY <1>1, Inductive, PTL
============================================================================
