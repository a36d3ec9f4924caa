------------------------------- MODULE Codec --------------------------------
(***************************************************************************)
(* The encodings of ByteArray (bytearray.cpp, endian_.h): fixed integers in *)
(* the byte order of the array, zigzag, varint, and strings behind a fixed  *)
(* length.  A byte is a number below Radix (256 in the code), an integer    *)
(* has Width bytes; one group of a varint is a byte without its top bit.    *)
(* Nothing else depends on the sizes, so small ones show every case.        *)
(***************************************************************************)
EXTENDS Integers, Sequences

CONSTANTS
    Radix,      \* 2^8
    Width,      \* bytes of an integer: 2, 4 or 8
    Groups,     \* groups readUint32 and readUint64 accept at most: 5 and 10
    HostOrder   \* AZURE_BYTE_ORDER

ASSUME CodecAssumption ==
    /\ Radix \in Nat /\ Radix > 2 /\ Radix % 2 = 0
    /\ Width \in Nat \ {0} /\ Groups \in Nat \ {0}
    /\ HostOrder \in {"big", "little"}

Byte == 0..(Radix - 1)
Half == Radix \div 2                \* 0x80
Power[n \in Nat] == IF n = 0 THEN 1 ELSE Radix * Power[n - 1]       \* Radix^n
Word == Power[Width]                \* unsigned integers are modulo Word
Orders == {"big", "little"}
Unsigned == 0..(Word - 1)
Signed == (-(Word \div 2))..(Word \div 2 - 1)

ByteSwap(b) == [i \in 1..Len(b) |-> b[Len(b) + 1 - i]]

(* The bytes of an integer as the machine stores it.                        *)
HostBytes(v) ==
    [i \in 1..Width |->
        (v \div Power[IF HostOrder = "little" THEN i - 1 ELSE Width - i]) % Radix]

ValueOf[b \in Seq(Nat)] ==
    IF b = <<>> THEN 0 ELSE Head(b) + Radix * ValueOf[Tail(b)]
HostValue(b) == ValueOf[IF HostOrder = "little" THEN b ELSE ByteSwap(b)]

(* Mutant: the write does not swap.                                         *)
MutEncodeFixed(v, order) == HostBytes(v)

(* writeF...: swap unless the order of the array is the machine's.          *)
EncodeFixed(v, order) ==
    IF order # HostOrder THEN ByteSwap(HostBytes(v)) ELSE HostBytes(v)

(* readF...: swap if the order of the array is big endian.                  *)
DecodeFixed(b, order) == HostValue(IF order = "big" THEN ByteSwap(b) ELSE b)

(* -v of the smallest integer is itself; the cast makes it positive.        *)
EncodeZigzag(v) == IF v < 0 THEN (2 * ((-v) % Word) - 1) % Word ELSE (2 * v) % Word

(* (v >> 1) ^ -(v & 1), converted to a signed integer.                      *)
DecodeZigzag(u) == IF u % 2 = 0 THEN u \div 2 ELSE -(u \div 2) - 1

(* The top bit says that more follows.                                      *)
EncodeVarint[v \in Nat] ==
    IF v >= Half THEN <<(v % Half) + Half>> \o EncodeVarint[v \div Half] ELSE <<v>>

(* The groups of the largest integer fit.                                   *)
ASSUME GroupsAssumption == Len(EncodeVarint[Word - 1]) <= Groups

(* result |= group << i, for as many groups as fit.                         *)
DecodeVarint[b \in Seq(Nat)] ==
    IF b = <<>> THEN 0 ELSE (Head(b) % Half) + Half * DecodeVarint[Tail(b)]

(* How many bytes readUint reads: up to one without the top bit, Groups at  *)
(* most, or all there are (and then it throws).                             *)
VarintLen(b) ==
    LET ends == {i \in 1..Len(b) : b[i] < Half \/ i = Groups}
    IN  IF ends = {} THEN Len(b) + 1
        ELSE CHOOSE i \in ends : \A j \in ends : i <= j

Kinds == {"byte", "fixed", "varint", "zigzag", "string"}

(* The writers: writeFint8, writeFint16 ... writeDouble, writeUint,         *)
(* writeInt, writeStringF16 ... F64.                                        *)
Encode(kind, v, order) ==
    CASE kind = "byte" -> <<v>>
      [] kind = "fixed" -> EncodeFixed(v, order)
      [] kind = "varint" -> EncodeVarint[v]
      [] kind = "zigzag" -> EncodeVarint[EncodeZigzag(v)]
      [] kind = "string" -> EncodeFixed(Len(v), order) \o v

(* The readers, on the bytes b from the position to the end: the bytes they *)
(* take, and whether they get as far as returning a value.                  *)
Need(kind, b, order) ==
    CASE kind = "byte" -> 1
      [] kind = "fixed" -> Width
      [] kind \in {"varint", "zigzag"} -> VarintLen(b)
      [] kind = "string" ->
            IF Len(b) < Width THEN Width
            ELSE Width + DecodeFixed(SubSeq(b, 1, Width), order)

Decode(kind, b, order) ==
    CASE kind = "byte" -> b[1]
      [] kind = "fixed" -> DecodeFixed(b, order)
      [] kind = "varint" -> DecodeVarint[b]
      [] kind = "zigzag" -> DecodeZigzag(DecodeVarint[b])
      [] kind = "string" -> SubSeq(b, Width + 1, Len(b))
=============================================================================
