----------------------------- MODULE ByteBuffer -----------------------------
(***************************************************************************)
(* What a ByteArray promises: one sequence of bytes and a place in it,     *)
(* whatever the blocks it is kept in.                                      *)
(***************************************************************************)
EXTENDS Integers, Sequences

VARIABLES data,    \* the bytes
          pos,     \* the place of the next operation
          io       \* the bytes the last operation wrote or read

vars == <<data, pos, io>>

Init == data = <<>> /\ pos = 0 /\ io = <<>>

\* The bytes io' replace those at the place, or extend the sequence.
Write ==
    /\ pos' = pos + Len(io')
    /\ data' = SubSeq(data, 1, pos) \o io' \o SubSeq(data, pos' + 1, Len(data))

\* The next bytes are read.
Read ==
    /\ pos' \in pos..Len(data)
    /\ io' = SubSeq(data, pos + 1, pos')
    /\ UNCHANGED data

\* The place is moved; behind the end, bytes of any value come into being.
Seek ==
    /\ io' = <<>>
    /\ Len(data') = IF pos' > Len(data) THEN pos' ELSE Len(data)
    /\ SubSeq(data', 1, Len(data)) = data

Clear == data' = <<>> /\ pos' = 0 /\ io' = <<>>

Next == Write \/ Read \/ Seek \/ Clear
Spec == Init /\ [][Next]_vars
=============================================================================
