----------------------------- MODULE ByteArray -----------------------------
(***************************************************************************)
(* bytearray.cpp: a sequence of bytes in a chain of blocks of m_baseSize   *)
(* bytes, with the current block cached in m_cur. Integers are written     *)
(* with fixed or variable length and strings after their length.           *)
(*                                                                         *)
(* The widths are scaled down: a byte has ByteBits bits, a fixed integer   *)
(* FixBytes bytes, a variable one Width bits, and a string's length        *)
(* LenBytes bytes. Memory that was never written holds NoByte.             *)
(***************************************************************************)
EXTENDS Integers, Sequences, FiniteSets

CONSTANTS BaseSizes, ByteBits, FixBytes, LenBytes, Width, Items, MaxItems,
          MaxCapacity     \* SocketStream::read adds no block beyond this

LOCAL INSTANCE SequencesExt

VARIABLES m_baseSize,
          ba,         \* m_root's chain, m_cur, m_position, m_capacity, m_size
          little,     \* m_endian is LITTLE_ENDIAN
          file,       \* what writeToFile left
          items,      \* what has been written since clear(), in order
          reading,    \* how many of them have been read back, or NotReading
          value,      \* what the last typed read returned
          io          \* the bytes the last operation wrote or took

baVars == <<m_baseSize, ba, little, file, items, reading, value, io>>

Byte == 2 ^ ByteBits
NoByte == Byte
NotReading == -1
Lost == -2          \* the place is not known to be that of an item
Nothing == <<"nothing", 0>>

Block == [i \in 1..m_baseSize |-> NoByte]
Lowest(a, b) == IF a < b THEN a ELSE b

\* The constructor; `fault' is the read of a null m_cur.
Empty == [nodes |-> <<Block>>, cur |-> 1, position |-> 0, capacity |-> m_baseSize,
          size |-> 0, thrown |-> FALSE, fault |-> FALSE]

getReadSize(b) == b.size - b.position
getCapacity(b) == b.capacity - b.position

-----------------------------------------------------------------------------
addCapacity_ForgetsCur(b, size) ==
    LET old == getCapacity(b)
        count == (size - old + m_baseSize - 1) \div m_baseSize
    IN  IF old >= size THEN b
        ELSE [b EXCEPT !.nodes = @ \o [i \in 1..count |-> Block],
                       !.capacity = @ + count * m_baseSize,
                       !.cur = IF old = 0 THEN 1 ELSE @]

addCapacity_RoundsDown(b, size) ==
    LET old == getCapacity(b)
        count == (size - old) \div m_baseSize
    IN  IF old >= size THEN b
        ELSE [b EXCEPT !.nodes = @ \o [i \in 1..count |-> Block],
                       !.capacity = @ + count * m_baseSize,
                       !.cur = IF old = 0 THEN Len(b.nodes) + 1 ELSE @]

\* Blocks are added until `size' bytes fit behind the place; a place at the
\* very end had no current block.
addCapacity(b, size) ==
    LET old == getCapacity(b)
        count == (size - old + m_baseSize - 1) \div m_baseSize
    IN  IF old >= size THEN b
        ELSE [b EXCEPT !.nodes = @ \o [i \in 1..count |-> Block],
                       !.capacity = @ + count * m_baseSize,
                       !.cur = IF old = 0 THEN Len(b.nodes) + 1 ELSE @]

\* The loop of write(): block after block from npos in the current one.
RECURSIVE Put(_, _, _)
Put(b, bytes, npos) ==
    IF bytes = <<>> THEN b
    ELSE IF b.cur > Len(b.nodes) THEN [b EXCEPT !.fault = TRUE]
    ELSE LET ncap == Len(b.nodes[b.cur]) - npos
             n == Lowest(ncap, Len(bytes))
             node == [i \in 1..Len(b.nodes[b.cur]) |->
                        IF i \in (npos + 1)..(npos + n) THEN bytes[i - npos]
                        ELSE b.nodes[b.cur][i]]
         IN  Put([b EXCEPT !.nodes[b.cur] = node, !.position = @ + n,
                           !.cur = IF n = ncap THEN @ + 1 ELSE @],
                 SubSeq(bytes, n + 1, Len(bytes)), 0)

write(b, bytes) ==
    LET c == Put(addCapacity(b, Len(bytes)), bytes, b.position % m_baseSize)
    IN  IF bytes = <<>> THEN b
        ELSE [c EXCEPT !.size = IF c.position > @ THEN c.position ELSE @]

Pieces_KeepsOffset(b, cur, npos, size) ==
    LET n == Lowest(Len(b.nodes[cur]) - npos, size)
        m == Lowest(Len(b.nodes[cur]) - npos, size - n)
    IN  IF size = 0 \/ cur > Len(b.nodes) THEN <<>>
        ELSE IF size = n \/ cur = Len(b.nodes) THEN << <<cur, npos, n>> >>
        ELSE << <<cur, npos, n>>, <<cur + 1, npos, m>> >>

\* The pieces that `size' bytes from npos in block cur on lie in: <<block,
\* first byte, how many>>, as the loops of read(), getReadBuffers() and
\* getWriteBuffers() walk them.
RECURSIVE Pieces(_, _, _, _)
Pieces(b, cur, npos, size) ==
    IF size = 0 \/ cur > Len(b.nodes) THEN <<>>
    ELSE LET n == Lowest(Len(b.nodes[cur]) - npos, size)
         IN  << <<cur, npos, n>> >> \o Pieces(b, cur + 1, 0, size - n)

\* The bytes in pieces.
Gathered(b, pieces) ==
    FlattenSeq([k \in 1..Len(pieces) |->
                  SubSeq(b.nodes[pieces[k][1]], pieces[k][2] + 1, pieces[k][2] + pieces[k][3])])

\* read(): throws when there is not enough; looks into the current block even
\* when nothing is asked for.
read(b, size) ==
    LET pieces == Pieces(b, b.cur, b.position % m_baseSize, size)
        last == pieces[Len(pieces)]
    IN  CASE size > getReadSize(b) -> [b |-> [b EXCEPT !.thrown = TRUE], bytes |-> <<>>]
          [] size <= getReadSize(b) /\ b.cur > Len(b.nodes) ->
               [b |-> [b EXCEPT !.fault = TRUE], bytes |-> <<>>]
          [] size <= getReadSize(b) /\ b.cur <= Len(b.nodes) /\ size = 0 ->
               [b |-> b, bytes |-> <<>>]
          [] OTHER ->
               [b |-> [b EXCEPT !.position = @ + size,
                                !.cur = IF last[2] + last[3] = Len(b.nodes[last[1]])
                                        THEN last[1] + 1 ELSE last[1]],
                bytes |-> Gathered(b, pieces)]

\* read() at a place, for toString(): starts in the current block.
readAt(b, size, position) == Gathered(b, Pieces(b, b.cur, position % m_baseSize, size))
toString(b) == readAt(b, getReadSize(b), b.position)

getReadBuffers(b, len) ==
    Pieces(b, b.cur, b.position % m_baseSize, Lowest(len, getReadSize(b)))

getReadBuffersAt(b, len, position) ==
    Pieces(b, (position \div m_baseSize) + 1, position % m_baseSize, Lowest(len, getReadSize(b)))

setPosition_AtEnd(b, pos) ==
    [b EXCEPT !.position = pos, !.size = IF pos > @ THEN pos ELSE @,
              !.cur = IF pos = 0 THEN 1 ELSE ((pos - 1) \div m_baseSize) + 1]

\* setPosition() counts the blocks from the root; at the end of a block the
\* current one is the next.
setPosition(b, pos) ==
    IF pos > b.capacity THEN [b EXCEPT !.thrown = TRUE]
    ELSE [b EXCEPT !.position = pos, !.size = IF pos > @ THEN pos ELSE @,
                   !.cur = (pos \div m_baseSize) + 1]

clear(b) == [b EXCEPT !.position = 0, !.size = 0, !.capacity = m_baseSize,
                      !.nodes = <<b.nodes[1]>>, !.cur = 1]

-----------------------------------------------------------------------------
\* byteSwap on a little-endian machine: the most significant byte first,
\* unless the array is little-endian.
FixUint(n, val) ==
    LET low == [i \in 1..n |-> (val \div Byte ^ (i - 1)) % Byte]
    IN  IF little THEN low ELSE Reverse(low)

FromFix(bytes) ==
    LET low == IF little THEN bytes ELSE Reverse(bytes)
    IN  FoldRight(LAMBDA d, r : r * Byte + d, low, 0)

\* A variable-length integer: groups of Limb bits, the lowest first, with the
\* top bit of a byte telling that another follows.
Limb == ByteBits - 1
RECURSIVE Vint(_)
Vint(val) == IF val < 2 ^ Limb THEN <<val>>
             ELSE <<2 ^ Limb + (val % 2 ^ Limb)>> \o Vint(val \div 2 ^ Limb)

EncodeZigzag_Doubles(val) == (IF val < 0 THEN -val * 2 ELSE val * 2) % 2 ^ Width

EncodeZigzag(val) == (IF val < 0 THEN -val * 2 - 1 ELSE val * 2) % 2 ^ Width

\* (val >> 1) ^ -(val & 1): with the low bit set, all bits are inverted.
DecodeZigzag(val) == IF val % 2 = 0 THEN val \div 2 ELSE -(val \div 2) - 1

\* What the write function of a kind hands to write(), call by call.
Encoded(kind, val) ==
    CASE kind = "fix" -> <<FixUint(FixBytes, val)>>
      [] kind = "uint" -> <<Vint(val)>>
      [] kind = "int" -> <<Vint(EncodeZigzag(val))>>
      [] kind = "string" -> <<FixUint(LenBytes, Len(val) % Byte ^ LenBytes), val>>
      [] kind = "vstring" -> <<Vint(Len(val)), val>>

\* readUint32/64: a byte at a time, at most Width bits; the last shift cuts
\* off what does not fit. A result is [b, bytes taken, value].
RECURSIVE readUint(_, _, _, _)
readUint(b, i, taken, result) ==
    IF i >= Width THEN [b |-> b, bytes |-> taken, val |-> result]
    ELSE LET r == read(b, 1)
             d == r.bytes[1]
             sum == (result + (d % 2 ^ Limb) * 2 ^ i) % 2 ^ Width
         IN  CASE r.b.thrown \/ r.b.fault -> [b |-> r.b, bytes |-> taken, val |-> 0]
               [] ~r.b.thrown /\ ~r.b.fault /\ d < 2 ^ Limb ->
                    [b |-> r.b, bytes |-> taken \o r.bytes, val |-> sum]
               [] OTHER -> readUint(r.b, i + Limb, taken \o r.bytes, sum)

readFix(b, n) ==
    LET r == read(b, n)
    IN  [b |-> r.b, bytes |-> r.bytes,
         val |-> IF r.b.thrown \/ r.b.fault THEN 0 ELSE FromFix(r.bytes)]

\* A length, then that many bytes.
readString(len) ==
    LET r == read(len.b, len.val)
    IN  IF len.b.thrown \/ len.b.fault THEN [len EXCEPT !.val = <<>>]
        ELSE [b |-> r.b, bytes |-> len.bytes \o r.bytes, val |-> r.bytes]

Decoded(kind, b) ==
    CASE kind = "fix" -> readFix(b, FixBytes)
      [] kind = "uint" -> readUint(b, 0, <<>>, 0)
      [] kind = "int" -> LET r == readUint(b, 0, <<>>, 0) IN [r EXCEPT !.val = DecodeZigzag(@)]
      [] kind = "string" -> readString(readFix(b, LenBytes))
      [] kind = "vstring" -> readString(readUint(b, 0, <<>>, 0))
-----------------------------------------------------------------------------
BAInit ==
    /\ m_baseSize \in BaseSizes
    /\ ba = Empty
    /\ little \in BOOLEAN
    /\ file = <<>>
    /\ items = <<>> /\ reading = NotReading
    /\ value = Nothing /\ io = <<>>

\* An array on which an operation can be called; an exception was caught.
\* Once a file has been written only its way back is followed.
Ready == ~ba.fault /\ file = <<>>
Now == [ba EXCEPT !.thrown = FALSE]

WriteItem ==
    /\ Ready /\ reading = NotReading /\ Len(items) < MaxItems
    /\ \E it \in Items :
         /\ ba' = FoldLeft(write, Now, Encoded(it[1], it[2]))
         /\ io' = FlattenSeq(Encoded(it[1], it[2]))
         /\ items' = Append(items, it)
    /\ value' = Nothing
    /\ UNCHANGED <<m_baseSize, little, file, reading>>

SetPosition(pos) ==
    /\ Ready
    /\ ba' = setPosition(Now, pos)
    /\ io' = <<>> /\ value' = Nothing
    /\ UNCHANGED <<m_baseSize, little, file>>

\* Back to the first item, or somewhere else.
Rewind == SetPosition(0) /\ reading # Lost /\ reading' = 0 /\ UNCHANGED items
Seek == \E pos \in 0..(ba.capacity + 1) : SetPosition(pos) /\ reading' = Lost /\ items' = <<>>

ReadItem ==
    /\ Ready /\ reading \in 0..(Len(items) - 1)
    /\ \E r \in {Decoded(items[reading + 1][1], Now)} :
         /\ ba' = r.b /\ io' = r.bytes
         /\ value' = IF r.b.thrown \/ r.b.fault THEN Nothing
                     ELSE <<items[reading + 1][1], r.val>>
         /\ reading' = IF r.b.thrown \/ r.b.fault THEN Lost ELSE reading + 1
    /\ UNCHANGED <<m_baseSize, little, file, items>>

ReadRaw ==
    /\ Ready
    /\ \E n \in 1..2 :
       \E r \in {read(Now, n)} : ba' = r.b /\ io' = r.bytes
    /\ reading' = Lost /\ items' = <<>> /\ value' = Nothing
    /\ UNCHANGED <<m_baseSize, little, file>>

Clear ==
    /\ ~ba.fault
    /\ ba' = clear(Now)
    /\ items' = <<>> /\ reading' = NotReading
    /\ value' = Nothing /\ io' = <<>>
    /\ UNCHANGED <<m_baseSize, little, file>>

\* SocketStream::read(ba, len): room for len bytes (getWriteBuffers), of which
\* recv fills the first, then the place is moved behind them.
StreamRead ==
    /\ Ready /\ reading = Lost
    /\ \E len \in 1..2 : \E n \in 0..len :
       \E c \in {addCapacity(Now, len)} :
       \E filled \in {Put(c, [i \in 1..n |-> 1], c.position % m_baseSize)} :
         /\ ba' = IF n = 0 THEN c
                  ELSE setPosition([c EXCEPT !.nodes = filled.nodes, !.fault = filled.fault],
                                   c.position + n)
         /\ io' = [i \in 1..n |-> 1]
    /\ ba.capacity < MaxCapacity
    /\ value' = Nothing
    /\ UNCHANGED <<m_baseSize, little, file, items, reading>>

Saved_WholeBlock(b, cur, pos, readSize) ==
    IF readSize = 0 \/ cur > Len(b.nodes) THEN <<>>
    ELSE FlattenSeq(SubSeq(b.nodes, cur, Len(b.nodes)))

\* The loop of writeToFile: a block at a time, the first from the place on.
RECURSIVE Saved(_, _, _, _)
Saved(b, cur, pos, readSize) ==
    LET diff == pos % m_baseSize
        len == Lowest(readSize, m_baseSize) - diff
    IN  IF readSize = 0 \/ len <= 0 \/ cur > Len(b.nodes) THEN <<>>
        ELSE SubSeq(b.nodes[cur], diff + 1, diff + len)
               \o Saved(b, cur + 1, pos + len, readSize - len)

\* writeToFile. From inside a block its lengths are wrong, and wrap; it is
\* taken at the start of a block only.
writeToFile ==
    /\ Ready /\ reading = 0 /\ ba.position % m_baseSize = 0
    /\ file' = Saved(ba, ba.cur, ba.position, getReadSize(ba))
    /\ ba' = Now /\ io' = <<>> /\ value' = Nothing
    /\ UNCHANGED <<m_baseSize, little, items, reading>>

\* readFromFile: writes the file in pieces of m_baseSize.
readFromFile ==
    /\ ~ba.fault /\ reading = NotReading /\ items = <<>> /\ file # <<>>
    /\ LET pieces == [k \in 1..((Len(file) + m_baseSize - 1) \div m_baseSize) |->
                        SubSeq(file, (k - 1) * m_baseSize + 1, Lowest(k * m_baseSize, Len(file)))]
       IN  ba' = FoldLeft(write, Now, pieces)
    /\ io' = file /\ value' = Nothing
    /\ reading' = Lost /\ file' = <<>>
    /\ UNCHANGED <<m_baseSize, little, items>>

BANext == \/ WriteItem \/ Rewind \/ Seek \/ ReadItem \/ ReadRaw \/ Clear
          \/ StreamRead \/ writeToFile \/ readFromFile
BASpec == BAInit /\ [][BANext]_baVars

-----------------------------------------------------------------------------
Contents == SubSeq(FlattenSeq(ba.nodes), 1, ba.size)

\* The chain with its cached block is one sequence with a place in it: no
\* sequence of writes, reads, moves and clears makes a byte appear at another
\* place than the one it was written to (bytearray.cpp 309-417, 462-518).
Flat == INSTANCE ByteBuffer WITH data <- Contents, pos <- ba.position, io <- io
IsFlat == Flat!Spec

\* What was written is read back, in the same order, whatever the kinds, the
\* byte order and the block size (bytearray.cpp 47-307, test_bytearray.cpp
\* 16-20), if a string is not longer than its length field can say.
ReadsBack ==
    reading > 0 /\ (\A i \in 1..reading : items[i][1] = "string" => Len(items[i][2]) < Byte ^ LenBytes)
      => value \in {Nothing, items[reading]}

\* m_cur is the block of the place, or null exactly when the place is the end
\* of the last block (bytearray.cpp 336-338, 370-372, 470-477, 515-517).
CurrentBlock == ba.cur = (ba.position \div m_baseSize) + 1

\* A null block is read only by a read of nothing at the end of the last
\* block: an empty string whose length ends there (bytearray.cpp 364).
NullRead ==
    [][ba'.fault => /\ ba'.position = ba'.capacity
                    /\ reading >= 0 /\ items[reading + 1][2] = <<>>]_baVars

\* The buffers given to readv and writev hold the bytes that read() would
\* return (bytearray.cpp 530-595), also those of toString().
BuffersAgree ==
    LET rest == SubSeq(Contents, ba.position + 1, ba.size) IN
    /\ toString(ba) = rest
    /\ \A n \in 1..2 :
         /\ Gathered(ba, getReadBuffers(ba, n)) = SubSeq(rest, 1, Lowest(n, Len(rest)))
         /\ Gathered(ba, getReadBuffersAt(ba, n, ba.position)) = SubSeq(rest, 1, Lowest(n, Len(rest)))

\* A file holds the bytes behind the place, and reading it into an empty
\* array gives them again (bytearray.cpp 419-460).
FileHolds == [][writeToFile => file' = SubSeq(Contents, ba.position + 1, ba.size)]_baVars

\* What goes into a ByteArray comes out of it: through the typed reads, through
\* the buffers of readv and writev, and from the block the place is in
\* (bytearray.cpp 47-417, 530-595).
BytesRight == ReadsBack /\ CurrentBlock /\ BuffersAgree

\* The array is the flat one, writes to a file what is behind the place, and
\* reads no null block for data (bytearray.cpp 309-460).
ArrayRight == IsFlat /\ FileHolds /\ NullRead
=============================================================================
