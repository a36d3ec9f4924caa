----------------------------- MODULE FlatBuffer -----------------------------
(***************************************************************************)
(* What ByteArray promises, without its blocks: one sequence of bytes with  *)
(* a position in it.  Reading gives the bytes behind the position, writing  *)
(* replaces them or extends the sequence, moving the position beyond the    *)
(* end extends it by bytes nobody wrote, and a call that fails has changed  *)
(* nothing but the position.                                                *)
(***************************************************************************)
EXTENDS Naturals, Sequences

VARIABLES
    data,    \* the bytes before m_size
    pos,     \* m_position
    arg,     \* the bytes the last call was given
    out      \* the bytes the last call delivered

flat == <<data, pos, arg, out>>

FlatInit == data = <<>> /\ pos = 0 /\ arg = <<>> /\ out = <<>>

Rest == SubSeq(data, pos + 1, Len(data))

Put(bs) ==
    /\ data' = [i \in 1..(IF pos + Len(bs) > Len(data) THEN pos + Len(bs) ELSE Len(data)) |->
                  IF i \in (pos + 1)..(pos + Len(bs)) THEN bs[i - pos] ELSE data[i]]
    /\ pos' = pos + Len(bs)
    /\ arg' = bs /\ out' = <<>>

Take(n) ==
    /\ n <= Len(Rest)
    /\ out' = SubSeq(Rest, 1, n)
    /\ pos' = pos + n
    /\ arg' = <<>>
    /\ UNCHANGED data

Peek(n) ==
    /\ n <= Len(Rest)
    /\ out' = SubSeq(Rest, 1, n)
    /\ arg' = <<>>
    /\ UNCHANGED <<data, pos>>

(* A reader that throws has taken part of what it needed.                   *)
Fail(n) ==
    /\ pos' = pos + n /\ n <= Len(Rest)
    /\ arg' = <<>> /\ out' = <<>>
    /\ UNCHANGED data

Seek(v) ==
    /\ pos' = v
    /\ arg' = <<>> /\ out' = <<>>
    /\ Len(data') = (IF v > Len(data) THEN v ELSE Len(data))
    /\ SubSeq(data', 1, Len(data)) = data

Reset == data' = <<>> /\ pos' = 0 /\ arg' = <<>> /\ out' = <<>>

FlatNext ==
    \/ \E n \in 0..Len(Rest) : Take(n) \/ Peek(n) \/ Fail(n)
    \/ Put(arg')
    \/ Seek(pos')
    \/ Reset

FlatSpec == FlatInit /\ [][FlatNext]_flat
=============================================================================
