------------------------------ MODULE Parser ------------------------------
(* src/util/parser.hh: the Parser, which takes integers from the front of a  *)
(* list of chunks, and the Serializer, which builds one.  A chunk is a       *)
(* sequence of bytes, and so is an unsigned integer: its bytes in network    *)
(* order, as many as its type has.                                           *)
EXTENDS Integers, Sequences
LOCAL INSTANCE FiniteSetsExt

Byte == 0 .. 255

(* The bytes of the first n chunks, and how many they are.                   *)
Joined(chunks) ==
    LET upto[i \in 0 .. Len(chunks)] ==
            IF i = 0 THEN <<>> ELSE upto[i - 1] \o chunks[i]
    IN  upto[Len(chunks)]

Ends(chunks) ==
    LET end[i \in 0 .. Len(chunks)] ==
            IF i = 0 THEN 0 ELSE end[i - 1] + Len(chunks[i])
    IN  end

(* Parser::BufferList: size_ bytes in the chunks of buffer_, skip_ of the    *)
(* first already taken.                                                      *)
BufferList(chunks) ==
    [size_ |-> Ends(chunks)[Len(chunks)], buffer_ |-> chunks, skip_ |-> 0]

peek(list) ==
    SubSeq(list.buffer_[1], list.skip_ + 1, Len(list.buffer_[1]))

(* remove_prefix() visits a chunk while it still has bytes to take, and      *)
(* drops it when nothing of it is left, also when nothing was in it.         *)
Emptied(list, len) ==
    LET end == Ends(list.buffer_)
    IN  {i \in DOMAIN list.buffer_ : end[i - 1] < list.skip_ + len
                                     /\ end[i] <= list.skip_ + len}

LastEmptied(list, len) ==
    IF len = 0 THEN 0 ELSE Max({0} \cup Emptied(list, len))

WithoutFirst(list, len, n) ==
    [size_   |-> Max({list.size_ - len, 0}),
     buffer_ |-> SubSeq(list.buffer_, n + 1, Len(list.buffer_)),
     skip_   |-> IF n = Len(list.buffer_) THEN 0
                 ELSE list.skip_ + len - Ends(list.buffer_)[n]]

(* Mutant: a chunk that was taken to its end keeps its place in the list.    *)
RemovePrefixKeepsEmptied(list, len) ==
    [size_   |-> list.size_ - len,
     buffer_ |-> list.buffer_,
     skip_   |-> list.skip_ + len]
RemovePrefix(list, len) == WithoutFirst(list, len, LastEmptied(list, len))

dump_all(list) ==
    IF list.size_ = 0 THEN <<>> ELSE <<peek(list)>> \o Tail(list.buffer_)
---------------------------------------------------------------------------
NewParser(chunks) == [input_ |-> BufferList(chunks), error_ |-> FALSE]

set_error(parser, failed) == [parser EXCEPT !.error_ = @ \/ failed]

check_size(parser, size) == set_error(parser, size > parser.input_.size_)

(* peek().front().  The front of an empty view is the NUL that ends the      *)
(* string it looks into.                                                     *)
FrontByte(list) == IF peek(list) = <<>> THEN 0 ELSE Head(peek(list))

(* integer() into a variable that holds out: the parser it leaves and the    *)
(* variable's value.                                                         *)
TakeByte(taken) ==
    [list |-> RemovePrefix(taken.list, 1),
     out  |-> Append(taken.out, FrontByte(taken.list))]

Filled(parser, taken) ==
    [parser |-> [parser EXCEPT !.input_ = taken.list], out |-> taken.out]

integer(parser, out) ==
    LET checked == check_size(parser, Len(out))
        taken[i \in 0 .. Len(out)] ==
            IF i = 0 THEN [list |-> parser.input_, out |-> <<>>]
            ELSE TakeByte(taken[i - 1])
    IN  IF checked.error_ THEN [parser |-> checked, out |-> out]
        ELSE Filled(checked, taken[Len(out)])

(* One integer() after another, into the fields a header has.                *)
AddInteger(outs, one) ==
    [parser |-> one.parser, outs |-> Append(outs, one.out)]

NextInteger(before, out) ==
    AddInteger(before.outs, integer(before.parser, out))

Integers(parser, outs) ==
    LET after[i \in 0 .. Len(outs)] ==
            IF i = 0 THEN [parser |-> parser, outs |-> <<>>]
            ELSE NextInteger(after[i - 1], outs[i])
    IN  after[Len(outs)]

remove_prefix(parser, len) ==
    [parser EXCEPT !.input_ = RemovePrefix(@, len)]

all_remaining(parser) == dump_all(parser.input_)
---------------------------------------------------------------------------
(* Serializer: the chunks that are done and the one being written.           *)
NewSerializer == [output_ |-> <<>>, buffer_ |-> <<>>]

PutInteger(serializer, val) == [serializer EXCEPT !.buffer_ = @ \o val]

flush(serializer) ==
    [output_ |-> Append(serializer.output_, serializer.buffer_),
     buffer_ |-> <<>>]

(* buffer() of a vector: each chunk goes out behind a flush of its own, so   *)
(* that an empty chunk precedes every chunk but the first.                   *)
PutBuffer(flushed, buf) == [flushed EXCEPT !.output_ = Append(@, buf)]

PutBuffers(serializer, bufs) ==
    LET after[i \in 0 .. Len(bufs)] ==
            IF i = 0 THEN serializer
            ELSE PutBuffer(flush(after[i - 1]), bufs[i])
    IN  after[Len(bufs)]

output(serializer) == flush(serializer).output_
============================================================================
