# TLA+ models of a user-space TCP/IP stack (CS144, Spring 2023)

The repository implements the lab sequence of a networking course in C++: a
flow-controlled byte stream, a reassembler, wrapping sequence numbers, a TCP
receiver, a TCP sender, and a network interface that speaks ARP. This
directory holds TLA+ modules translated from that source, TLC configurations
that check them on small instances, and TLAPS proofs for all values of their
constants. `PROJECT.json` lists runs, mutants, the source lines of each
definition, findings, hazards and theorems.

Run a check with `tlc -workers 2 -config X.cfg M`, a proof with `tlapm M.tla`.

## 1. Inventory

All classes are single-threaded: an object changes only inside a call of its
owner. What is concurrent is the world around it. Messages are lost, duplicated
and reordered, timers run out between them, the application at either end reads,
writes and closes when it likes, and the owner calls `push`, `maybe_send`,
`receive` and `tick` in any order. Those interleavings are the hard behaviour of
this system, and the models are built to let them all happen.

| Component (source) | State | Operations |
|---|---|---|
| ByteStream (`src/src/byte_stream.cc`) | `Buffer_` of twice the capacity, `size_`, `write_count_`, `read_count_`, `isclose_`, `iserror_` | `Writer::push`, `close`, `set_error`; `Reader::peek`, `pop`, `read()`; counters |
| Reassembler (`src/src/reassembler.cc`) | `Blocks_` (map from first index to block), `byte_ready_`, `byte_pend_` | `insert` (clip, merge, `update_output`), `insert_SYN`, `insert_FIN`, `bytes_pending` |
| Wrap32 (`src/src/wrapping_integers.cc`) | none | `wrap`, `unwrap`, `+` |
| TCPReceiver (`src/src/tcp_receiver.cc`) | `ISN`, `SYN_flag`, `FIN_flag`, `checkpoint` | `receive`, `send` |
| TCPSender, Timer (`src/src/tcp_sender.cc`) | `isn_`, `Seqno`, `num_in_flight`, `window_size_`, `status_`, `Now_RTO_`, `Num_Resend`, `timer_`, `out_Noackqueue`, `out_Readyqueue` | `push`, `maybe_send`, `receive`, `tick`, `send_empty_message` |
| NetworkInterface (`src/src/network_interface.cc`) | `arp_ip2eth_map_`, `arp_valid_time_map_`, `_arpreq_survival_map_`, `wait_map`, `out_que_`, `now_time_t` | `send_datagram`, `recv_frame`, `tick`, `maybe_send` |
| Parser, Serializer, Buffer (`src/util/parser.hh`) | `size_`, `buffer_`, `skip_`, `error_`; `output_`, `buffer_` | `integer`, `remove_prefix`, `all_remaining`, `set_error`; `integer`, `buffer`, `flush`, `output` |
| ARP, Ethernet, IPv4 headers (`src/util/*_header.cc`, `arp_message.cc`) | the fields | `parse`, `serialize`, `supported`, `compute_checksum` |
| FileDescriptor (`src/util/file_descriptor.cc`) | a shared `FDWrapper`: `fd_`, `eof_`, `closed_`, `non_blocking_` | both `read`s, `write`, `close`, `duplicate`, `set_blocking`, destruction |
| Socket, Address (`src/util`) | none beyond the descriptor's | one system call each, `accept` |
| webget (`src/apps/webget.cc`) | none | one request over a kernel socket |

How they interact. A TCPReceiver is handed a Reassembler and the Writer of its
inbound stream with every segment and calls `insert`; the Reassembler pushes to
the stream and closes it; the receiver reads the stream's counters back to make
an ackno and a window. A TCPSender is handed the Reader of the outbound stream
and peeks and pops it in `push`. A segment carries the sender's message to the
peer's receiver, and an acknowledgement the receiver's message to the peer's
sender. Both are datagrams to the network interface, which queues those whose
next hop has no known Ethernet address. It makes the payload of a frame with
`serialize()` and takes it apart with `parse()`, each header over the chunks the
one before it left. A FileDescriptor stands apart from all these: it is how a
program reaches the kernel's own connections, as webget does. The repository has no class that joins
a sender to a receiver; the owner's protocol is taken from the test harnesses.

What makes each component correct, and hard to get right:

* **ByteStream**: bytes come out in order, none twice, none overwritten while
  buffered. Every byte is stored twice so that a view never wraps; both copies
  must be current. After the end is reported there are no more bytes.
* **Wrap32**: `unwrap` must find the closest candidate at lap boundaries, in the
  first lap, and at exactly half a lap.
* **Reassembler**: substrings arrive in any order with any overlap. Stored blocks
  stay disjoint, the pending count matches them, exactly the bytes before the
  first gap are written, and the stream closes with its last byte.
* **TCPReceiver**: the SYN and the FIN shift the index of every byte; the ackno
  is cumulative; the room once offered is never taken back.
* **TCPSender**: outstanding segments are contiguous and counted; the window is
  kept to, with a zero window probed; the timer runs exactly while something is
  outstanding; new data and useless acknowledgements do not put it off, and its
  interval doubles with each retransmission but not with a probe of a zero window.
* **Connection**: the ends never contradict each other, the bytes read are a
  prefix of those written, and with fair hosts everything arrives.
* **NetworkInterface**: datagrams reach the host that owns the next hop's
  address, requests are not repeated within five seconds, mappings live thirty,
  and a datagram that waits does not wait for ever.
* **Parser and headers**: what was serialized parses to the same fields and bytes,
  whatever chunks it was cut into and however often it was nested; a damaged
  header is not accepted.
* **FileDescriptor**: a number is closed once, by its last handle or on demand,
  and never after the kernel gave it away again; what `read` hands over and
  `write` reports is what went through; the end is seen, and only at the end.

## 2. Modules

| Module | Models | Kind |
|---|---|---|
| `StreamFifo` | the promise of ByteStream as operators on a record | operators |
| `ByteStreamSpec` | the same as a specification | abstract specification |
| `ByteStream` | the doubled ring buffer | state machine, refines `ByteStreamSpec` |
| `WrappingIntegers` | wrap, unwrap, `+` with the width of unwrap's signed conversion | operators |
| `MCWrappingIntegers` | two endpoints that convert | instance for TLC |
| `WrappingProofs` | lemmas about wrap and unwrap | proofs |
| `Reassembly` | `Reassembler::insert` and what it calls | operators |
| `PeerStream` | the stream that a caller or a peer cuts into pieces | operators |
| `ReassemblerSpec` | a set of known bytes, no blocks | abstract specification |
| `Reassembler` | the reassembler, its stream, a reader and a caller | state machine, refines `ReassemblerSpec` |
| `TCPMessages` | the two message types | operators |
| `TCPReceiver` | `receive`, `send` | component |
| `ReceiverWithPeer` | a receiver and a peer that cuts, repeats and reorders | composition |
| `ReceiverProofs` | the reassembler's and the receiver's | proofs |
| `TCPSender` | `push`, `maybe_send`, `receive`, `tick` | component |
| `SenderWithPeer` | a sender, its application and a peer that acknowledges anything | composition |
| `SenderProofs` | | proofs |
| `ReliableStream` | what a connection promises | abstract specification |
| `TCPConnection` | sender, receiver, network, both applications | composition, refines `ReliableStream` |
| `ConnectionProofs` | the connection's, the ring buffer's and the sequence numbers' | proofs |
| `NetworkInterface` | `send_datagram`, `recv_frame`, `tick`, `maybe_send` | operators on a record |
| `InterfaceWithNetwork` | one interface, its stack, and a network that delivers any frame | composition |
| `InterfaceProofs` | | proofs |
| `DatagramService` | what interfaces promise together | abstract specification |
| `LAN` | several interfaces on a segment that reorders and loses | composition, refines `DatagramService` |
| `LANProofs` | | proofs |
| `Parser` | `Parser`, its `BufferList` and `Serializer` over lists of chunks | operators |
| `Headers` | Ethernet, ARP and IPv4 headers, checksum, datagram and frame | operators |
| `FramesOnWire` | messages built, nested, cut, joined, damaged, parsed, sent on | composition |
| `MCConversions` | `MCWrappingIntegers` or `FramesOnWire` | instance for TLC |
| `Kernel` | table of descriptors, connections and their peers | external environment |
| `FileDescriptor` | every operation of the class, and `accept` | component |
| `DescriptorUsers` | handles shared, used, closed and dropped, and the peers | composition |
| `DescriptorProofs` | | proofs |
| `DataFacts` | division, least numbers, tables, sequences and what occurs in them | lemmas |

Correspondence. Variables and operators keep the names of the members and
methods they stand for. `map` in `PROJECT.json` gives the source lines of each
definition. Definitions that begin with the comment "Mutant:" are not part of
the model: each is a plausible bug in the definition that follows it, and serves
to confirm that a property can fail.

* The ring buffer keeps the vector, the counts and the marks of the class; the
  history variables `accepted` and `delivered` record what was written and read.
  Components above it use `StreamFifo`, which `ByteStream` is proved to implement.
* A Reassembler is a record of its three members. `Blocks_` is a set of blocks;
  its order in the map is their order by first index.
* A Wrap32 is its raw value; `Base` stands for 2^32 and `Word` for 2^64. The
  8- or 16-number laps of the configurations make sequence numbers wrap.
* `checkpoint` of the sender equals `Seqno` at all times and is not kept apart.
  Of the timer's three members only the time left matters, and that is `timer_`.
* `push_msg` is called in a loop by `push`. A call of `push` is one action: the
  sequence of segments it makes is a function of how many bytes it may send.
* An interface is a record of the members of its class. The two maps that hold a
  time of `now_time_t` hold an age, which is all `tick` looks at. A frame whose
  payload does not parse, or whose ARP message is not `supported()`, is the type
  "garbage".
* An unsigned integer that travels is the sequence of its bytes in network order,
  so that shifting it in and out is putting it before or taking it from the
  others. `parse` of an object has three outcomes: it returns true ("ok") or false
  ("error"), or an exception leaves it ("thrown").
* The members of an `FDWrapper` are the record `wrapper[f]`, one for each file f
  that is open or was; `use_count[f]` counts the handles that share it. An operation
  whose system call fails throws before it changes anything, except `close`
  (`CloseMayFail`); such calls are no steps.
* Elsewhere bytes are numbers: the byte at index i is the number i, so that a lost, doubled
  or misplaced byte shows in any property that looks at a payload.

## 3. Runs

| Run | What it asks |
|---|---|
| `byte_stream` | Is the ring buffer a bounded queue, over more than two laps of the ring? |
| `conversions` | Does `unwrap` agree with the reference definition of "closest", and undo `wrap`? Do messages arrive whole through any chunks, and damaged headers never? |
| `reassembler` | Do blocks stay disjoint, in the window, beyond the next byte to write and counted, and does the block map implement a plain set of known bytes? |
| `reassembler_end_beyond_window` | Finding: does a closed stream hold all bytes when the last substring was cut off? |
| `receiver` | Order, cumulative acknowledgement and window against an arbitrary peer |
| `receiver_syn_with_data` | Finding: is the payload of a repeated SYN put in its place? |
| `sender` | Six invariants and two action properties against an arbitrary peer |
| `connection` | Do both ends over a faulty network implement a reliable stream? |
| `connection_liveness` | Does everything arrive, and does a close complete? |
| `interface` | Are waiting datagrams released once, to a claimed address, and requests spaced, whatever ARP messages come? |
| `lan` | Do three interfaces hold true mappings and implement the datagram service, and does every datagram arrive as long as no frame is lost? |
| `descriptor` | Are numbers open exactly while a wrapper stands for them, transfers whole though every call takes only a part, and is the end of a stream seen, and only at its end? |

Bounds, and why they are enough:

* `byte_stream`: capacity 3, strings up to 4, 7 bytes in all. Strings are longer
  than the buffer, the ring is passed more than twice, and every fill level meets
  every offset. `StreamIntact` and the refinement are proved for all capacities.
* `conversions`: the two kinds of conversion share no state and run one or the
  other. Sequence numbers: laps of 8, a word of 8 laps, all zero points, raw values and
  checkpoints up to half the word. Also proved for all widths. Frames: a datagram
  whose payload has three chunks with an empty one among them and one without
  payload, at the largest fragment offset; both ARP messages; two further hops, in
  each of which a device may cut at any of five places (in the first byte, at each
  border between headers, within an integer) or join; one damage: any
  bit flipped, any cut-off, one byte of padding, before any of the receptions.
* `reassembler*`: 10 bytes, a window of 7, substrings up to 5: three disjoint
  blocks and a fourth that merges with a left neighbour and several right ones.
* `receiver*`: 7 bytes, laps of 8 and initial numbers 0, 5 and 7: the sequence
  number wraps within the stream, at its start and not at all. Segments live
  less than half a lap, which the width of the real numbers stands for.
* `sender`: 4 bytes, payloads up to 2, windows 0 to 3, two consecutive
  retransmissions, ticks shorter than, equal to and longer than the time left.
  Acknowledgements carry any of the 8 raw values. The initial number 6 wraps
  after the first byte.
* `connection`: 3 bytes, a receiver's stream of 2 and a window that closes; two
  messages under way in each direction, one of all lost or doubled (the sender's
  retransmissions double further ones): enough for an old acknowledgement to
  overtake a new one while a probe is under way, and for a lost or doubled SYN, FIN
  or window update.
* `connection_liveness`: 2 bytes, a receiver's stream of 1, one message in each
  direction, one lost. It is small because TLC's check of fairness is slow.
* `interface*`: two peers' IP addresses and Ethernet addresses in all (also
  contradictory) combinations, two datagrams, two frames queued, a mapping's life of
  3 and a request's of 2 with ticks of 1 and 2, so that expiry is met exactly and
  passed over. Datagrams and addresses are symmetric.
* `lan`: three hosts, two of which send and measure time while the third answers
  and overhears; lives of 2 and 1; two datagrams, one loss, one transmission on the
  segment at a time. Queues need no bound: every frame answers one that was
  consumed, so a finite number of datagrams makes a finite number of frames.
  `MaxArpReqTime <= MaxArpMapTime` is an assumption of the module, true of 5000
  and 30000: with a mapping that dies before its request, a datagram sent in
  between waits for a request that has been answered already.

* `descriptor`: two files and two numbers, so that a number is soon reused by the
  other file; up to two handles on each; a busy file with two bytes each way, a mode
  that may change and a buffer of the kernel of one byte (`write` is partial), and
  one that carries one byte and always blocks. `kReadBufferSize` is 2: reads are short
  and full. Connections end and numbers are reused without limit.

Deadlock is checked except where the system really stops: the conversions reach
the end of their bounded numbers, or the last hop of a frame, and a connection that has delivered everything
has nothing left to do.

Fairness (`TCPConnection`). `OwnerPushes`, `OwnerSends` and `TimePasses` are
weakly fair because the owner of a sender is an event loop that calls `push`
after every event, drains `maybe_send`, and calls `tick` periodically (the
contract in `tcp_sender.hh` and the harness). `AckArrives` and `SegmentArrives`
are weakly fair because a message that is not lost arrives; at most `MaxLost`
are. `AppReads` is weakly fair: a receiving application that stops reading stops
the connection. Nothing is assumed of the writing application, of losses and
duplications, or of unasked window updates.

Fairness (`LAN`). `HostTransmits` and `HostHears` are weakly fair for each host:
the owner of an interface drains `maybe_send` and passes on every frame it hears.
Nothing is assumed of `tick`.

Fairness (`DescriptorUsers`). `Read` is weakly fair for each file: a user that
holds a handle reads on until the end, as webget's loop does. Nothing is assumed of
peers, of writing, closing, or of handles going out of scope.

What `byte_stream.hh`, `parser.hh` and `file_descriptor.cc` leave to their users is in
constants. The runs give them the values of a careful user; with the others TLC finds at once what
they protect. What they keep out is therefore covered by no run: the six hazards are
listed in `PROJECT.json` with the constant that excludes each.

| Constant | In the run | Otherwise |
|---|---|---|
| `WriterStopsAtClose` | nobody writes to a stream after `close()` | `FinishedIsFinal` fails: see section 5 |
| `EmptyPieces` | no device hands over an empty chunk in front of a header | `FramesArriveWhole` fails: `integer()` takes a byte that is not there and skips one that is |
| `UsersCheckClosed` | nobody uses a handle that is `closed()` | `OpenIffOwned`, `TransfersIntact` fail: the number is another file's |
| `UsersAwaitData` | a non-blocking `read` is made when there is something | `TransfersIntact`, `EofIsEnd` fail: a buffer of NULs comes back |
| `UsersFillVectors` | `read` into a vector is made into one buffer that comes back full | `TransfersIntact`, `EofIsEnd` fail: see section 5 |
| `CloseMayFail` | `close(2)` reports no error | `OpenIffOwned`, `TransfersIntact` fail: the destructor closes again |

## 4. Proofs

Assumed are only the named assumptions on constants in the modules themselves:
the capacity is positive, bounds are natural numbers, `Base` is positive and
even and `Word` a multiple of two laps, a mapping lives at least as long as a
request, a sender's windows are less than half a lap and its stream less than half of
`Word` (`PeerAssumption`: 65535 against 2^31, and 2^63), the stream of a connection with
its SYN and FIN is shorter than half a lap (`LapAssumption`), an interface's own
addresses are none of its peers' and not the broadcast address, neither is any host's on
a LAN (`AddressAssumption`), descriptor numbers are natural numbers. The theorems of
`DescriptorProofs` have the users' contract as a hypothesis, two of the reassembler's
that the last substring is offered only when it fits, and the receiver's that the peer
is a plain one (`PlainPeer`): no payload in a segment with SYN, which the second finding
needs; a stream shorter than half of `Word`; and no payload longer than half a lap. Two
more of the receiver's conditions are guards of the peer itself (`PeerMaySend`) and so part
of what `Spec` means in its theorems: a segment with FIN is sent only when it fits the
window offered now, without which the first finding refutes `AckIsCumulative`, and no
segment arrives from half a lap or more away. `TCPConnection` has neither guard: there
`EndFitsWindow` is proved of this repository's sender.

`LapAssumption` is stronger than what the sender and the receiver need on their own. The
network of `TCPConnection` may deliver any message at any later time, also a whole stream
later, and no raw number can tell one lap from the next; a real message does not outlive
2^31 numbers. The initial number is any, so that the numbers still wrap anywhere
in the stream. `SentFitsRoom` alone has a hypothesis of its own, `InboundCapacity >= 2`: a
sender that knows no window yet uses two numbers for the SYN and the FIN of an empty
stream, which is one more than a receiver with room for one byte has with its probe.

* `WrappingProofs`, for every width. `UnwrapResult` shows that the search of
  `unwrap` ends within two laps, at a number that lies at the right place of its
  lap, not more than half a lap below the checkpoint and, beyond the first lap,
  less than half a lap above. Since candidates are whole laps apart
  (`LapsApart`), nothing is closer. `UnwrapNearby`, `UnwrapRecovers` and `WrapOfSum` are
  what sender and receiver use of it. The module has no variables, so that their proofs
  extend it; the theorems about `MCWrappingIntegers` are in `ConnectionProofs`.
* `ReceiverProofs`, first for the reassembler on its own (`Reassembler`), for every
  stream, capacity and length of substrings. Neither
  `BlocksWellPlaced` nor `PendingIsStored` is inductive: they do not say what the
  blocks hold. `Holding` adds that every block is a piece of the stream (`Pieces`),
  that no two begin at the same place, that only an end mark may be without bytes, and
  that the stream to write to holds the bytes from what was read to `byte_ready_`;
  `Written`, that nothing that could be written is kept back. The loops of `insert`
  and `update_output` are folds over the blocks in order; `FoldExists` shows that the
  fold's recursion is well defined, `PendingSteps`, `MergeSteps` and `WriteSteps` that
  each goes one block at a time, and an induction over the blocks gives what it does:
  the merged block spans the new one and those it absorbed and touches no other
  (`MergedSpans`, `RestStays`), the lengths of separate blocks add up to the numbers
  they hold (`CountIs`), and a block passed over by the writing loop stays unwritable
  (`FlushIs`). `InsertIs` joins them: `insert` makes known exactly what fits. A block
  without bytes is why `RestStays` needs the test for a block that is there already:
  two of them at the same place would lose one in the map.
  `ClosesWithLastByte` and the refinement have `EndFitsWindow` as hypothesis, without
  which the first finding refutes them; the other two theorems do not need it.
  Then for the receiver, for every stream, capacity and payload of a plain peer, and
  segments repeated and reordered at will: the stream arrives intact, an acknowledgement
  claims exactly the bytes that arrived in one piece, and neither it nor the right edge of the
  window ever goes back. In the receiver the reassembler counts SYN as number 0 and the
  bytes from 1, so that the same lemma `InsertIs` serves: SYN is a first block of one
  number, the rest a reassembly that starts at 1. `IInv` says in which of three conditions it
  is: `Listening` (nothing arrived that counts), `Open`, or `Ended` (the last byte was
  written and the stream closed). To that it adds that only bytes which came are stored
  (`Taken`) and that the end is marked only if a FIN came (`EndSeen`); without
  these an acknowledgement could claim what no segment brought. `ReceiveIs` follows a
  segment through `unwrap`: a number within half a lap of the checkpoint comes back as
  it was (`UnwrapNearby`). Exactly half a lap above it, `unwrap` may answer
  one lap lower; then the segment must end before the byte the receiver waits for, and
  this is where the payload may not be longer than half a lap.
* `SenderProofs`, for every stream, payload size, window and timeout, and a peer that
  acknowledges any raw number. None of the six invariants is inductive alone. `IInv`
  joins them to where each outstanding segment lies: segment i starts at the left
  edge plus the numbers of those before it, and all of them together are
  `num_in_flight` (`Tiled`); what is in flight fits the largest window and what was
  offered last ends at or before the furthest edge (`Windowed`); the bytes still in
  the stream are the next ones (`StreamInOrder`). `push` is a loop in the code and
  one sequence of segments in the model, so that the lemmas about it speak of each
  element: the sum of their lengths is counted as the size of a set of pairs
  (segment, offset), where the library has facts, instead of by recursion. An
  acknowledgement removes a prefix of the queue; that the wrapped numbers compare as
  the absolute ones do follows from the window being less than half a lap. The two
  action properties come out of the same case analysis (`Forward`, `Punctual`), with
  `IntervalIs` for the interval a retransmission gets.
  For this module the initial timeout's doubling is a function (`Backoff`) where it
  was a power, which the provers do not know.
* `ConnectionProofs` begins with two parts that each end of a connection rests on. The
  first is about `ByteStream`, for every capacity and alphabet. `StreamIntact` is not
  inductive: it says nothing of the slots. `RingInv` adds where each byte lies: as
  long as byte number k is buffered it is in slot k mod capacity of the first half
  and of the second (`StoredTwice`), and what was read is a prefix of what was
  accepted (`DeliveredInOrder`). A push writes at most the free capacity, so the
  slots it overwrites differ from those of all buffered bytes
  (`RemaindersDiffer`); a view of `size_` bytes from slot `read_count_` mod
  capacity on crosses into the second half exactly where the remainder starts
  over (`RemainderOfSum`). From `RingInv` follow `StreamIntact`, that a finished
  stream stays finished if its writer stops, and, one step at a time, that the ring
  buffer implements `ByteStreamSpec`. The second part is about `MCWrappingIntegers`: what
  `WrappingProofs` says of any numbers holds of those that two endpoints reach
  (`UnwrapFindsClosest`, `RoundTripHolds`).
  The rest is about `TCPConnection`, for every stream, capacity, window and timeout, any
  number of faults, and messages that stay under way as long as they like. It takes the
  sender's lemmas with
  the furthest number an acknowledgement may have allowed as its edge (`Out`, an instance
  of `SenderProofs` with `AckEdge`), and the receiver's with no peer of its own (`In`, of
  `ReceiverProofs`); `SenderIs` and `ReceiverIs` show that the instances speak of the same
  methods. None of the four invariants is inductive: they say nothing of messages
  that are under way, and an old one may arrive at any time. `CInv` adds to the invariants
  of the ends what every message says (`Messages`). A segment, kept, queued or under
  way, is a cut of the stream, with FIN only behind its last byte (`Genuine`); an
  acknowledgement was true of the receiver once, so that its ackno is not above today's and
  its window does not reach beyond today's right edge (`Honest`). Both stay true, since the
  stream's length, the ackno and the right edge never go back (`GenuineStays`,
  `HonestStays`). `InStep` says that neither end is ahead: the left edge is at or below the
  ackno, the offered window ends at or before the receiver's right edge, and SYN and FIN
  arrived only if they were sent.
  A step changes one end. `SenderMoves` and `ReceiverMoves` reduce each to the messages it
  makes and the numbers it moves, and one lemma for each action (`PushKeeps` to
  `UpdateKeeps`) does the rest. `NewSegmentIsCut` shows that `push` makes cuts only;
  `BelievedAck` that an honest acknowledgement, unwrapped, is no other number than it
  meant; `SegmentIsPlaced` the same for a segment's number, however old: here
  `LapAssumption` is needed. From `CInv` follow the four properties.
  For `ImplementsReliableStream`, `StreamsNow` says what the two applications see: the bytes
  that arrived are the first so many of those written, and the stream ended only if
  all of them arrived and the writer closed. `WriteMoves`, `CloseMoves` and
  `SegmentMoves` are the steps of the abstract stream; all others leave both
  applications' streams as they were.
* `InterfaceProofs`, for any addresses, datagrams and lives, and any ARP messages,
  also lying ones. `IInv` (`Sound`, `Accounted`, `RequestTimes`) says where each
  datagram is: what waits for an address has it for next hop, each
  mapping was claimed, each frame goes where its next hop was claimed to be, and the
  occurrences of a datagram in the queue and among those waiting are one, or none once
  it is released. `ExpiredMeansAskable` belongs to it, since a mapping may only
  be learned when no younger request is remembered. There is one lemma for each method
  of the interface (`SendIs`, `ReceiveIs`, `TickIs`, `LeaveIs`, with `LearnedIs`,
  `FlushedIs` and `PostponeIs` under them) and one for each action of the network.
* `LANProofs`, for any number of hosts, any datagrams and lives, and whatever the
  segment loses or reorders. `MappingsTrue` is not inductive: it says nothing of
  the frames under way, which teach mappings later. `IInv` adds that every frame
  in a queue or on the segment is honest (`HonestFrames`: whoever an ARP message
  presents, it gives that host's own pair of addresses) and that each interface is
  of its type with the same keys in its two tables. One lemma for each method of
  the interface shows that it keeps `Interfaces(h)` when the frame it gets is
  honest (`SendKeeps`, `ReceiveKeeps`, `TickKeeps`, `TransmitKeeps`); a step of the
  segment then only moves honest frames.
  That the hosts together implement `DatagramService` needs to know where each
  datagram is (`ServiceInv`). A host holds it as often as it occurs in the host's queue
  and among what waits there for its next hop (`Held`); `Single` says that one host
  holds it once, or one copy of it travels to the host it was sent to, or that
  host passed it up already, or it is lost, and never two of these at once. Only
  frames addressed to their own host travel (`Placed`, `Addressed`), so that the
  copies the other hosts hear are not theirs to pass up: here the hosts' addresses
  have to differ from the broadcast address, and honest frames from one another.
  `WaitingIsBeingAnswered` is not inductive either, as it does not say why a second
  datagram need not ask again. `AskedInv` adds that a request a host remembers is
  under way, or its answer, or the host knows the mapping; and that this is so until
  the request is forgotten, because no mapping is older than the last request for it
  (`Aging`) and `InterfaceAssumption` gives it at least as long a life. The lemmas
  `SendIs`, `ReceiveIs` (from `LearnIs` and `FlushIs`), `TickIs` and
  `TransmitIs` say what each method does to a queue, to what waits and to what is known;
  `...Serves` and `...Asks` apply them to the actions of the LAN.
* `DescriptorProofs`, for any number of files, numbers and handles. `OpenIffOwned`
  is inductive together with the types of the variables (`IInv`), under the contract
  `UsersCheckClosed /\ ~CloseMayFail`. It has to be an equivalence: that a wrapper in
  use has its number open (`TargetIsOwn`) needs that two wrappers never have the
  same number, and that follows because the table gives a number to one file only.
  Only `Accept`, `Close` and the drop of the last handle touch the table; the freeing
  of a number is one lemma for both ways (`FreedOwned`), and all other steps leave
  everything the invariant looks at in place (`SamePlacesKeep`).
  For the bytes (`NoByteLost`, `EofIsTheEnd`) the contract adds that users wait for
  data and fill their vectors, and `DataInv` adds the types of the connections to
  the two properties, which only hold together: an end of file is seen with nothing
  on the way, and from then on nothing may be sent. A partial write splits a stretch of
  the stream at the byte it stopped (`SplitAt`), a read moves a front from one
  sequence to another (`FrontMoves`); that reading into a vector of one buffer
  trims it rightly unfolds the recursive function of `TrimmedVector` once.
* `DataFacts` proves what several of these need: division, that a non-empty set of
  natural numbers has a least element (which serves as induction where the library's
  induction theorems cannot be used), tables that are functions on a changing set of
  keys, how often a value occurs in a sequence, and moving fronts of sequences.

Only model-checked: liveness (and with it fairness and ENABLED, which the prover
does not support), and of the invariants `FramesArriveWhole` and `AcceptedHeaderIsTrue`,
because taking an integer off a list of chunks and summing a header are recursions
over data, and an induction over data is beyond the provers at hand. The
type invariants of `ByteStream` and `LAN`, and those of the sender, the receiver, the
interface and the descriptors as a part of the inductive invariants, are proved and need
no run. The two findings are violations and have no theorem.

## 5. Findings

Two runs show the code do what its own documentation says it does not; the lines
are in `PROJECT.json`. Both are reachable from the network: a last substring cut
off at the window closes the stream early (`reassembler_end_beyond_window`), and the
payload of a second segment with SYN is inserted one place too early
(`receiver_syn_with_data`). The connection run shows that this repository's own
sender causes neither: `EndFitsWindow` holds, and it never puts data into a segment
with SYN.

Met on the way, and out of reach or no contradiction of any document:

* `Writer::push` does not look at `isclose_`: a writer that goes on after `close()`
  revives a stream already reported finished. `WriterStopsAtClose` says whether the
  writer does; `FinishedIsFinal` holds, and is proved, if it stops.
* A mapping learned from an ARP request releases nothing: datagrams that wait for
  that address go out with the reply to the interface's own request, behind later
  ones. If that request or reply is lost they stay (`WaitingIsBeingAnswered` and
  `DatagramsArrive` are stated for a segment that has lost nothing), because
  `tick` repeats no request and a datagram sent while the mapping lives makes none.
* `unwrap` divides the checkpoint as an `int64_t`: from 2^63 on the search starts up
  to a lap above the closest candidate and does not come down. `MaxCheckpoint` at
  `Word - 1` instead of the middle of the word shows it.
* `parse` of an IPv4 datagram throws, out of `recv_frame`, when the version is
  not 4: `compute_checksum` serializes the header it is checking. One flipped bit or
  a frame without payload is enough (outcome "thrown" in `FramesOnWire`).
* Options of an IPv4 header are skipped, but `hlen` stays as it was and `serialize`
  writes none. `len` is not compared with what came, so that a cut-off payload and
  the padding of a short frame pass.
* `FileDescriptor::read` into a vector tests the remainder the wrong way round
  (`file_descriptor.cc:142`). It is right only if one buffer is given and it comes
  back full, or nothing is trimmed at all. `TrimmedVector` models every case.

## 6. Not modelled, and why

* Address and Socket but for `accept`, exceptions, random numbers: one checked system
  call each, or formatting; no protocol.
* webget beyond its reading loop: connecting, three writes whose results it ignores,
  printing.
* `Parser::string` and `all_remaining` into one buffer, `payload_length`,
  `pseudo_checksum`, `FileDescriptor::size`: nothing in the repository calls them or
  they change nothing. `read_count_` and `write_count_`: nothing reads them.
* Error returns of `read`, `write` and `fcntl`: the call throws and changes nothing.
* Tests, build files and writeups: read as the record of intended use.
* `NetworkInterface` and `LAN` do not carry bytes: that a frame's payload parses is
  one of its properties there, and `FramesOnWire` says which do.
* A host that changes its Ethernet address: `InterfaceWithNetwork` lets claims
  contradict one another, but no run asks how long a stale one may live.

## 7. Plan

1. Done: streams, sequence numbers, reassembler, receiver, sender, connection, and
   the proofs of section 4.
2. Done: `NetworkInterface` alone and on a LAN.
3. Done: `Parser` and the headers over chunks that devices cut and a wire damages;
   `FileDescriptor` against a kernel that reads and writes in part, and that its
   numbers are owned, for any number of files.
4. Done: proofs for all constants of the reassembler's blocks, their count and its
   refinement, of the receiver's order, acknowledgement and window, of the sender's six
   invariants and two action properties, of the connection's four invariants and that
   it implements a reliable stream, of the interface's accounting, claims and
   spacing, that a LAN has true mappings only, implements `DatagramService` and answers
   what waits, and that transfers through descriptors are intact.
5. Open: both directions of a connection at once, which needs the class that joins a
   sender and a receiver and is not part of this repository.
