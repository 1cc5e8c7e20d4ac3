------------------------------- MODULE ByteReader -------------------------------
(***************************************************************************)
(* ByteReader (src/src/reader.cc): a cursor over a buffer, fixed integers  *)
(* in both byte orders, LEB128 integers and strings.                       *)
(*                                                                         *)
(* A byte is a continuation bit above a group of GroupBits bits, 7 in the  *)
(* program, and a word has WordBits bits, 64 in the program: nine groups   *)
(* and one bit more.                                                       *)
(***************************************************************************)
EXTENDS Integers, Sequences

LOCAL INSTANCE SequencesExt
LOCAL INSTANCE Container

CONSTANTS
    GroupBits, WordBits,
    MaxBytes,       \* the bytes of the largest buffer
    Widths          \* the bytes of a fixed integer: 1, 2, 4 and 8

VARIABLES
    buffer, order,      \* data_ and size_, and order_
    position,           \* position_
    read                \* the last call: its name, whether it returned true,
                        \* what it gave, and where it began

reader_vars == <<buffer, order, position, read>>

Group == 2^GroupBits
Byte == 0..(2 * Group - 1)
Modulus == 2^WordBits
LargestWord == Modulus - 1
Groups == (WordBits + GroupBits - 1) \div GroupBits     \* turns of the loops

Size == Len(buffer)
Remaining == Size - position
Payload(byte) == byte % Group
Continues(byte) == byte >= Group
Signed(value, modulus) == IF 2 * value >= modulus THEN value - modulus ELSE value

\* pointer, when it is not null: the bytes from the position on.
IsInside(offset, count) == offset <= Size /\ count <= Size - offset
At(offset, count) == [i \in 1..count |-> buffer[offset + i]]

Returns(name, ok, value, end) ==
    /\ read' = [name |-> name, ok |-> ok, value |-> value, from |-> position]
    /\ position' = end
    /\ UNCHANGED <<buffer, order>>

-----------------------------------------------------------------------------
Seek(target) ==
    LET ok == target <= Size
    IN  Returns("seek", ok, 0, IF ok THEN target ELSE position)

\* skip: the sum is checked before the seek.
Skip(amount) ==
    LET ok == amount <= LargestWord - position /\ position + amount <= Size
    IN  Returns("skip", ok, 0, IF ok THEN position + amount ELSE position)

\* read_u8 to read_i64: the most significant byte comes first or last.
FixedValue(bytes) ==
    FoldLeft(LAMBDA value, byte : value * 2 * Group + byte, 0,
             IF order = "little" THEN Reverse(bytes) ELSE bytes)
ReadFixed(width, signed) ==
    LET value == FixedValue(At(position, width)) IN
    IF IsInside(position, width)
    THEN Returns("fixed", TRUE,
                 IF signed THEN Signed(value, (2 * Group)^width) ELSE value,
                 position + width)
    ELSE Returns("fixed", FALSE, 0, position)

\* The bytes a LEB128 loop reads: to the first without a continuation, to the
\* last turn or to the end of the buffer, whichever comes first.  The bytes
\* stay read when the call fails.
GroupsRead ==
    LET most == IF Remaining < Groups THEN Remaining ELSE Groups
        ends(n) == ~Continues(buffer[position + n])
        first == FirstOf(most, ends)
    IN  At(position, IF first <= most THEN first ELSE most)
Ended(bytes) == bytes # <<>> /\ ~Continues(Last(bytes))

\* The bits that have their place in a word.
Combined(bytes) ==
    FoldLeft(LAMBDA value, i :
                (value + Payload(bytes[i]) * Group^(i - 1)) % Modulus,
             0, [i \in 1..Len(bytes) |-> i])

\* A bug in ReadUleb: the bits of the last group that have no place are lost.
ReadUlebLossy ==
    LET bytes == GroupsRead
    IN  Returns("uleb", Ended(bytes), Combined(bytes), position + Len(bytes))

\* read_uleb128: one bit is left for the last group.
ReadUleb ==
    LET bytes == GroupsRead
        ok == /\ Ended(bytes)
              /\ Len(bytes) = Groups => Payload(Last(bytes)) <= 1
    IN  Returns("uleb", ok, Combined(bytes), position + Len(bytes))

\* read_sleb128: the sign is extended when bits are left above the groups.
ReadSleb ==
    LET bytes == GroupsRead
        bits == GroupBits * Len(bytes)
        extended ==
            IF bits < WordBits /\ 2 * Payload(Last(bytes)) >= Group
            THEN Combined(bytes) + Modulus - 2^bits ELSE Combined(bytes)
    IN  IF Ended(bytes)
        THEN Returns("sleb", TRUE, Signed(extended, Modulus),
                     position + Len(bytes))
        ELSE Returns("sleb", FALSE, 0, position + Len(bytes))

\* read_bytes and read_fixed_string, which keeps what is before a zero.
ReadBytes(count) ==
    IF IsInside(position, count)
    THEN Returns("bytes", TRUE, At(position, count), position + count)
    ELSE Returns("bytes", FALSE, <<>>, position)

ReadFixedString(count) ==
    LET isZero(n) == buffer[position + n] = 0 IN
    IF IsInside(position, count)
    THEN Returns("text", TRUE, At(position, FirstOf(count, isZero) - 1),
                 position + count)
    ELSE Returns("text", FALSE, <<>>, position)

\* read_c_string reads anywhere and leaves the cursor.
ReadCString(offset, limit) ==
    LET isZero(n) == buffer[offset + n] = 0 IN
    IF IsInside(offset, limit) /\ \E n \in 1..limit : isZero(n)
    THEN Returns("c_string", TRUE, At(offset, FirstOf(limit, isZero) - 1),
                 position)
    ELSE Returns("c_string", FALSE, <<>>, position)

-----------------------------------------------------------------------------
ReaderInit ==
    /\ buffer \in UNION {[1..n -> Byte] : n \in 0..MaxBytes}
    /\ order \in {"little", "big"}
    /\ position = 0
    /\ read = [name |-> "seek", ok |-> TRUE, value |-> 0, from |-> 0]

ReaderNext ==
    \/ \E target \in 1..(MaxBytes + 1) : Seek(target)
    \/ \E amount \in {1, LargestWord} : Skip(amount)
    \/ \E width \in Widths, signed \in BOOLEAN : ReadFixed(width, signed)
    \/ ReadUleb
    \/ ReadSleb
    \/ \E count \in {2, LargestWord} : ReadBytes(count) \/ ReadFixedString(count)
    \/ \E offset \in {0, 1, LargestWord}, limit \in {1, MaxBytes} :
          ReadCString(offset, limit)

-----------------------------------------------------------------------------
\* What was read, and the number it stands for, with a sign or without.
Source == SubSeq(buffer, read.from + 1, position)
Number == Total([i \in 1..Len(Source) |-> Payload(Source[i]) * Group^(i - 1)])
SignedNumber == Signed(Number, Group^Len(Source))

\* A LEB128 number that is accepted without a sign is the one that was written,
\* and one that fits a word in as many bytes as a word needs is accepted; a
\* number with a sign loses what does not fit, without an error, and is exact
\* when it fits.  Fixed integers have the weights of their byte order.  Strings
\* have no zero.  The cursor never passes the end, and a call that fails leaves
\* it where it was, except LEB128, which stops after the bytes it has looked at,
\* never more of them than a word needs (ByteReader::read_uleb128, read_sleb128,
\* read_u64, read_c_string, seek, skip).
ReadsAreExact ==
    /\ position <= Size
    /\ ~read.ok =>
          IF read.name \in {"uleb", "sleb"}
          THEN position \in read.from..(read.from + Groups)
          ELSE position = read.from
    /\ read.name = "uleb" =>
          read.ok = (/\ Len(Source) \in 1..Groups
                     /\ ~Continues(Last(Source))
                     /\ Number <= LargestWord)
    /\ read.name = "uleb" /\ read.ok => read.value = Number
    /\ read.name = "sleb" /\ read.ok =>
          /\ (read.value - SignedNumber) % Modulus = 0
          /\ 2 * SignedNumber \in -Modulus..(Modulus - 1) =>
                read.value = SignedNumber
    /\ read.name = "fixed" /\ read.ok =>
          (read.value - Total([i \in 1..Len(Source) |->
              Source[i] * (2 * Group)^(IF order = "little" THEN i - 1
                                       ELSE Len(Source) - i)]))
             % (2 * Group)^Len(Source) = 0
    /\ read.name \in {"text", "c_string"} => 0 \notin ToSet(read.value)
=================================================================================
