----------------------------- MODULE ByteArray ------------------------------
(***************************************************************************)
(* ByteArray (bytearray.h, bytearray.cpp): a chain of blocks of m_basesize  *)
(* bytes with a position, a size, a capacity and m_cur, the block that the  *)
(* position is in, which is null behind the last block.  Every copy walks   *)
(* the chain from m_cur; the walk is the one thing the operations share.    *)
(* The array belongs to one fiber, so an operation is one step.             *)
(***************************************************************************)
EXTENDS Codec, FiniteSets

CONSTANTS
    BaseSize,     \* m_basesize
    MaxCap,       \* bound: the capacity
    MaxWrites,    \* bound: calls of the writers and of readFromFile
    Junk,         \* what a byte holds that nobody has written
    Values        \* Values[kind]: the values that callers write

ASSUME ByteArrayAssumption ==
    /\ BaseSize \in Nat \ {0} /\ MaxCap \in Nat /\ MaxWrites \in Nat
    /\ Junk \notin Byte
    /\ DOMAIN Values = Kinds
    /\ Values["byte"] \subseteq Byte /\ Values["zigzag"] \subseteq Signed
    /\ Values["fixed"] \subseteq Unsigned /\ Values["varint"] \subseteq Unsigned
    /\ Values["string"] \subseteq Seq(Byte) /\ \A v \in Values["string"] : Len(v) < Word

VARIABLES
    nodes,      \* the blocks, from m_root on
    cur,        \* m_cur: the index of a block, or Null
    position,   \* m_position
    size,       \* m_size
    capacity,   \* m_capacity
    endian,     \* m_endian
    arg, out,   \* the bytes that the last call was given and that it delivered
    crashed,    \* a null m_cur was dereferenced
    log,        \* history: the values written and not overwritten since
    writes      \* history: calls of the writers

array == <<nodes, cur, position, size, capacity, endian>>
history == <<log, writes>>
baVars == <<array, arg, out, crashed, history>>

Null == 0
FreshNode == [i \in 1..BaseSize |-> Junk]
Cell(i) == nodes[((i - 1) \div BaseSize) + 1][((i - 1) % BaseSize) + 1]
Contents == [i \in 1..size |-> Cell(i)]

BaTypeOK ==
    /\ nodes \in Seq([1..BaseSize -> Byte \cup {Junk}]) /\ nodes # <<>>
    /\ cur \in 0..Len(nodes)
    /\ position \in Nat /\ size \in Nat /\ capacity \in Nat
    /\ endian \in Orders /\ crashed \in BOOLEAN

BaInit ==
    /\ nodes = <<FreshNode>> /\ cur = 1
    /\ position = 0 /\ size = 0 /\ capacity = BaseSize
    /\ endian = "big"
    /\ arg = <<>> /\ out = <<>> /\ crashed = FALSE /\ log = {} /\ writes = 0

ReadSize == size - position
NextNode(c, count) == IF c < count THEN c + 1 ELSE Null

-----------------------------------------------------------------------------
(* The walk: the pieces of blocks that a copy goes through.  w is where the *)
(* copy is: an offset of a block, the place in the caller's buffer, and the *)
(* bytes that are left to copy; a piece is the same with its length.        *)
Spots == [node : Nat, off : 0..(BaseSize - 1), len : Nat, at : Nat]
Walk[w \in Spots] ==
    LET ncap == BaseSize - w.off IN
    IF ncap >= w.len THEN <<w>>
    ELSE <<[w EXCEPT !.len = ncap]>>
            \o Walk[[node |-> w.node + 1, off |-> 0, len |-> w.len - ncap, at |-> w.at + ncap]]

WalkFrom(c, n) == Walk[[node |-> c, off |-> position % BaseSize, len |-> n, at |-> 0]]

MutCurAfter(walk, count) == walk[Len(walk)].node    \* mutant: m_cur never moves on

(* m_cur behind a copy: the next block once a block is used up.             *)
CurAfter(walk, count) ==
    LET last == walk[Len(walk)] IN
    IF last.off + last.len = BaseSize THEN NextNode(last.node, count) ELSE last.node

(* memcpy for every piece: into the blocks, and out of them.                *)
CopyIn(blocks, walk, bs) ==
    [i \in DOMAIN blocks |-> [j \in 1..BaseSize |->
        LET into == {p \in DOMAIN walk : /\ walk[p].node = i
                                         /\ j \in (walk[p].off + 1)..(walk[p].off + walk[p].len)}
        IN  IF into = {} THEN blocks[i][j]
            ELSE LET p == CHOOSE p \in into : TRUE IN bs[walk[p].at + j - walk[p].off]]]
CopyOut(walk, n) ==
    [k \in 1..n |->
        LET w == walk[CHOOSE p \in DOMAIN walk : k \in (walk[p].at + 1)..(walk[p].at + walk[p].len)]
        IN  nodes[w.node][w.off + k - w.at]]

(* addCapacity: the blocks that make room for n bytes behind the position,  *)
(* and m_cur when it was behind the last block.                             *)
Missing(n) ==
    IF capacity - position >= n THEN 0
    ELSE (n - (capacity - position) + BaseSize - 1) \div BaseSize
Grown(n) == nodes \o [i \in 1..Missing(n) |-> FreshNode]
CurGrown(n) == IF capacity = position /\ Missing(n) > 0 THEN Len(nodes) + 1 ELSE cur

Fits(n) == capacity + Missing(n) * BaseSize <= MaxCap

-----------------------------------------------------------------------------
(* write: nothing for no bytes.                                             *)
WriteBytes(bs) ==
    /\ Fits(Len(bs)) /\ writes < MaxWrites /\ writes' = writes + 1
    /\ IF bs = <<>> THEN UNCHANGED array
       ELSE LET n == Len(bs)
                walk == WalkFrom(CurGrown(n), n) IN
            /\ nodes' = CopyIn(Grown(n), walk, bs)
            /\ capacity' = capacity + Missing(n) * BaseSize
            /\ cur' = CurAfter(walk, Len(Grown(n)))
            /\ position' = position + n
            /\ size' = IF position + n > size THEN position + n ELSE size
            /\ UNCHANGED endian
    /\ arg' = bs /\ out' = <<>>
    /\ UNCHANGED crashed

(* read of n bytes that are there.  m_cur is dereferenced even for none.    *)
ReadBytes(n) ==
    /\ n \in 0..ReadSize /\ cur # Null
    /\ LET walk == WalkFrom(cur, n) IN
        /\ out' = CopyOut(walk, n)
        /\ cur' = CurAfter(walk, Len(nodes))
    /\ position' = position + n
    /\ arg' = <<>>
    /\ UNCHANGED <<nodes, size, capacity, endian, crashed, history>>

(* The values that a write of n bytes leaves alone.                         *)
Kept(n) == {e \in log : e.at + e.len <= position \/ position + n <= e.at}

(* The typed writers.  writeStringVint, whose length is a fixed integer but *)
(* is read as a varint, is left out.                                        *)
Write ==
    \E kind \in Kinds : \E v \in Values[kind] :
        LET bs == Encode(kind, v, endian) IN
        /\ WriteBytes(bs)
        /\ log' = Kept(Len(bs)) \cup {[at |-> position, len |-> Len(bs), kind |-> kind,
                                       value |-> v, order |-> endian]}

(* The typed readers, on bytes that were written.  A string is two reads,   *)
(* its length and its bytes, and the second one looks at m_cur->size even   *)
(* if there are none: the empty string behind which the chain ends crashes. *)
Rest == SubSeq(Contents, position + 1, size)
Readable == \A i \in DOMAIN Rest : Rest[i] # Junk
EmptyAtEnd(kind) ==
    kind = "string" /\ Need(kind, Rest, endian) = Width /\ position + Width = capacity

Read(kind) ==
    /\ Readable /\ ~EmptyAtEnd(kind)
    /\ ReadBytes(Need(kind, Rest, endian))

(* When the bytes run out the array has moved on by the varint's bytes, by  *)
(* the string's length, or not at all.                                      *)
ReadThrows(kind) ==
    LET done == CASE kind \in {"varint", "zigzag"} -> ReadSize
                  [] kind = "string" /\ ReadSize >= Width -> Width
                  [] OTHER -> 0
    IN
    /\ Readable /\ Need(kind, Rest, endian) > ReadSize
    /\ IF done = 0 THEN UNCHANGED cur ELSE cur' = CurAfter(WalkFrom(cur, done), Len(nodes))
    /\ position' = position + done
    /\ arg' = <<>> /\ out' = <<>>
    /\ UNCHANGED <<nodes, size, capacity, endian, crashed, history>>

(* read(buf, 0) with m_cur null, alone or as the second half of a string.   *)
ReadCrashes ==
    /\ cur = Null \/ (Readable /\ EmptyAtEnd("string") /\ ReadSize >= Width)
    /\ crashed' = TRUE
    /\ arg' = <<>> /\ out' = <<>>
    /\ UNCHANGED <<array, history>>

(* setPosition: m_cur is found by walking from the root.                    *)
CurAt(v, count) ==
    IF v = 0 THEN 1
    ELSE LET c == ((v - 1) \div BaseSize) + 1 IN    \* while(v > m_cur->size)
         IF v = c * BaseSize THEN NextNode(c, count) ELSE c

MutMoveTo(v, count) ==      \* mutant: m_size does not grow
    position' = v /\ UNCHANGED size /\ cur' = CurAt(v, count)
MoveTo(v, count) ==
    /\ position' = v
    /\ size' = IF v > size THEN v ELSE size
    /\ cur' = CurAt(v, count)

SetPosition ==
    /\ \E v \in 0..capacity : MoveTo(v, Len(nodes))
    /\ arg' = <<>> /\ out' = <<>>
    /\ UNCHANGED <<nodes, capacity, endian, crashed, history>>

Clear ==
    /\ nodes' = <<nodes[1]>> /\ cur' = 1
    /\ position' = 0 /\ size' = 0 /\ capacity' = BaseSize
    /\ arg' = <<>> /\ out' = <<>> /\ log' = {}
    /\ UNCHANGED <<endian, crashed, writes>>

SetIsLittleEndian ==
    /\ endian' \in Orders \ {endian}
    /\ arg' = <<>> /\ out' = <<>>
    /\ UNCHANGED <<nodes, cur, position, size, capacity, crashed, history>>

(* toString, toHexString and getReadBuffers deliver what is left and leave  *)
(* the position where it is.                                                *)
ToString ==
    /\ out' = IF ReadSize = 0 THEN <<>> ELSE CopyOut(WalkFrom(cur, ReadSize), ReadSize)
    /\ arg' = <<>>
    /\ UNCHANGED <<array, crashed, history>>

(* writeToFile goes through the blocks on its own: piece by piece, len is   *)
(* what is left of the data or of the block, less the offset of the first.  *)
FileSpots == [node : Nat, pos : Nat, left : Nat]
FileLen(w) == (IF w.left > BaseSize THEN BaseSize ELSE w.left) - (w.pos % BaseSize)
FileWalk[w \in FileSpots] ==
    IF w.left = 0 THEN <<>>
    ELSE IF w.node = Null \/ FileLen(w) <= 0 THEN <<Junk>>          \* runs off the chain
    ELSE [k \in 1..FileLen(w) |-> nodes[w.node][(w.pos % BaseSize) + k]]
            \o FileWalk[[node |-> NextNode(w.node, Len(nodes)), pos |-> w.pos + FileLen(w),
                         left |-> w.left - FileLen(w)]]
MutFileBytes == FileWalk[[node |-> 1, pos |-> position, left |-> ReadSize]]    \* mutant: starts at m_root
FileBytes == FileWalk[[node |-> cur, pos |-> position, left |-> ReadSize]]

(* readFromFile: a write for each BaseSize bytes of the file.               *)
ReadFromFile ==
    \E bs \in Values["string"] : WriteBytes(bs) /\ log' = Kept(Len(bs))

BaNext ==
    /\ ~crashed
    /\ \/ Write \/ ReadFromFile
       \/ \E kind \in Kinds : Read(kind) \/ ReadThrows(kind)
       \/ ReadCrashes
       \/ SetPosition \/ Clear \/ SetIsLittleEndian \/ ToString

-----------------------------------------------------------------------------
(* Properties.                                                              *)

(* m_cur is the block the position is in, and null exactly behind the last  *)
(* block: write, read, setPosition and addCapacity each move it in a way of *)
(* their own, and all of them start from it.                                *)
CurExact ==
    /\ capacity = Len(nodes) * BaseSize
    /\ position <= size /\ size <= capacity
    /\ cur = IF position = capacity THEN Null ELSE (position \div BaseSize) + 1

(* Every value that was written and not overwritten since can be read back, *)
(* whichever blocks it spans and in whichever order of bytes (the           *)
(* assertions of tests/test_bytearray.cpp).                                 *)
ReadBack ==
    \A e \in log :
        LET b == SubSeq(Contents, e.at + 1, e.at + e.len) IN
        /\ Need(e.kind, b, e.order) = e.len
        /\ Decode(e.kind, b, e.order) = e.value

(* A file that is written from the start of a block holds what toString     *)
(* gives.                                                                   *)
FileExact == position % BaseSize = 0 => FileBytes = Rest

(* The chain of blocks behaves like one sequence of bytes: every operation  *)
(* of ByteArray, and every transfer of a Stream, is one of FlatBuffer.      *)
Flat == INSTANCE FlatBuffer WITH data <- Contents, pos <- position
IsFlat == Flat!FlatSpec
=============================================================================
