------------------------------- MODULE Stream -------------------------------
(***************************************************************************)
(* Stream and SocketStream (stream.cpp, socket_stream.cpp) over a ByteArray:*)
(* readFixSize and writeFixSize repeat read and write until the length is   *)
(* through.  They keep the int result of a call in a size_t, so -1 is a     *)
(* huge length and not an error.  Socket::recv and send are external: they  *)
(* transfer some of the bytes, find the peer gone, or fail.  The peer sends *)
(* an endless series of bytes, of which the i-th is Sent(i).                *)
(***************************************************************************)
EXTENDS ByteArray

CONSTANTS
    SizeMod,     \* 2^64: size_t is modulo this
    Lengths,     \* the lengths callers ask for
    MaxErrors,   \* bound: calls of recv and send that fail
    MaxRounds    \* bound: calls of readFixSize and writeFixSize

ASSUME StreamAssumption ==
    /\ SizeMod \in Nat \ {0} /\ Lengths \subseteq 1..(SizeMod - 1)
    /\ MaxErrors \in Nat /\ MaxRounds \in Nat

VARIABLES
    op,          \* "none", or the call that is under way
    left,        \* what is left of it
    length,      \* what it was asked for
    moved,       \* history: bytes it has transferred
    errors,      \* history: calls that have returned -1
    returned,    \* what the last call returned: "none", "length", "zero"
    net,         \* "open", "eof" (the peer is gone) or "closed" (by us)
    rounds       \* history: calls made

call == <<length, returned, rounds>>
loop == <<op, left, moved, errors, call, net>>
vars == <<baVars, loop>>

StreamInit ==
    /\ op = "none" /\ left = 0 /\ length = 0 /\ moved = 0 /\ errors = 0
    /\ returned = "none" /\ net = "open" /\ rounds = 0

StreamTypeOK ==
    /\ op \in {"none", "read", "write"} /\ left \in 0..(SizeMod - 1)
    /\ returned \in {"none", "length", "zero"} /\ net \in {"open", "eof", "closed"}

(* readFixSize and writeFixSize begin.                                      *)
FixSize(which) ==
    /\ op = "none" /\ ~crashed /\ rounds < MaxRounds
    /\ writes < MaxWrites /\ writes' = writes + 1
    /\ op' = which
    /\ \E n \in Lengths : left' = n /\ length' = n
    /\ moved' = 0 /\ errors' = 0 /\ returned' = "none" /\ rounds' = rounds + 1
    /\ UNCHANGED <<array, arg, out, crashed, log, net>>

MutAdvance(len) == left' = left    \* mutant: left is not decremented
Advance(len) == left' = (left - len) % SizeMod

(* SocketStream::read: getWriteBuffers, recv into the first n bytes of the  *)
(* buffers, setPosition.                                                    *)
Sent(i) == (i + rounds) % Radix
ReadSome ==
    /\ op = "read" /\ left > 0 /\ net = "open" /\ Fits(left)
    /\ \E n \in 1..left :
        LET bs == [i \in 1..n |-> Sent(moved + i)] IN
        /\ nodes' = CopyIn(Grown(left), WalkFrom(CurGrown(left), n), bs)
        /\ capacity' = capacity + Missing(left) * BaseSize
        /\ MoveTo(position + n, Len(Grown(left)))
        /\ arg' = bs /\ out' = <<>>
        /\ log' = Kept(n) /\ UNCHANGED writes
        /\ Advance(n) /\ moved' = moved + n
    /\ UNCHANGED <<endian, crashed, op, errors, call, net>>

(* SocketStream::write: getReadBuffers of what is there, send of a part,    *)
(* setPosition.                                                             *)
Sendable == IF left > ReadSize THEN ReadSize ELSE left
WriteSome ==
    /\ op = "write" /\ left > 0 /\ net = "open"
    /\ \E n \in 1..Sendable :
        /\ out' = CopyOut(WalkFrom(cur, n), n)
        /\ MoveTo(position + n, Len(nodes))
        /\ Advance(n) /\ moved' = moved + n
    /\ arg' = <<>>
    /\ UNCHANGED <<nodes, capacity, endian, crashed, history, op, errors, call, net>>

(* -1, from recv, send or isConnected: (size_t)-1 is not <= 0, and left     *)
(* grows by one.  The room that getWriteBuffers made stays.                 *)
TransferFails ==
    /\ op # "none" /\ left > 0 /\ errors < MaxErrors
    /\ IF op = "read" /\ net # "closed"
       THEN /\ Fits(left)
            /\ nodes' = Grown(left) /\ cur' = CurGrown(left)
            /\ capacity' = capacity + Missing(left) * BaseSize
       ELSE UNCHANGED <<nodes, cur, capacity>>
    /\ Advance(-1) /\ errors' = errors + 1
    /\ arg' = <<>> /\ out' = <<>>
    /\ UNCHANGED <<position, size, endian, crashed, history, op, moved, call, net>>

(* 0: the peer is gone, or the array holds nothing to send.                 *)
TransferEnds ==
    /\ \/ op = "read" /\ left > 0 /\ net = "eof" /\ Fits(left)
          /\ nodes' = Grown(left) /\ cur' = CurGrown(left)
          /\ capacity' = capacity + Missing(left) * BaseSize
       \/ op = "write" /\ left > 0 /\ net # "closed" /\ ReadSize = 0
          /\ UNCHANGED <<nodes, cur, capacity>>
    /\ op' = "none" /\ returned' = "zero"
    /\ arg' = <<>> /\ out' = <<>>
    /\ UNCHANGED <<position, size, endian, crashed, history, left, moved, errors, length, net, rounds>>

Return ==
    /\ op # "none" /\ left = 0
    /\ op' = "none" /\ returned' = "length"
    /\ UNCHANGED <<baVars, left, moved, errors, length, net, rounds>>

(* The peer leaves, or the socket is closed from another fiber, while a call *)
(* is under way; the net of a call before it is that of one after it.       *)
NetChanges ==
    /\ net = "open" /\ op # "none" /\ net' \in {"eof", "closed"}
    /\ UNCHANGED <<baVars, op, left, moved, errors, call>>

(* Between the calls of a Stream the fiber uses the array.                  *)
UseArray == op = "none" /\ BaNext /\ UNCHANGED loop

Stuck == crashed /\ UNCHANGED vars

Init == BaInit /\ StreamInit
Next ==
    \/ UseArray
    \/ \E which \in {"read", "write"} : FixSize(which)
    \/ ReadSome \/ WriteSome \/ TransferFails \/ TransferEnds \/ Return
    \/ NetChanges
    \/ Stuck
Spec == Init /\ [][Next]_vars

-----------------------------------------------------------------------------
(* Properties.                                                              *)

TypeOK == BaTypeOK /\ StreamTypeOK

(* readFixSize and writeFixSize return their length only when they have     *)
(* moved so many bytes, plus one for every call that failed in between      *)
(* (stream.cpp:21-27): no partial transfer is lost or counted twice.        *)
FixSizeExact ==
    /\ op # "none" => (moved + left) % SizeMod = (length + errors) % SizeMod
    /\ returned = "length" => moved = length + errors
=============================================================================
