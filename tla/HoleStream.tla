----------------------------- MODULE HoleStream -----------------------------
(***************************************************************************)
(* What a SockBuf promises to those who write to it: an output stream in   *)
(* which a writer may reserve a place (a hole), go on writing after it,    *)
(* and fill the hole later with any number of bytes.  The stream reaches   *)
(* the wire in the order of the places, and never past a hole.             *)
(*                                                                         *)
(* A cell of the stream is a byte, or a hole, told apart by IsHole.        *)
(***************************************************************************)
EXTENDS Naturals, Sequences

CONSTANT IsHole(_)

VARIABLES wire,     \* the bytes handed to the socket
          pending   \* the cells behind them

hsvars == << wire, pending >>

HoleFree(cells) == \A k \in DOMAIN cells : ~IsHole(cells[k])

\* The cells of s from position i to its end.
From(s, i) == SubSeq(s, i, Len(s))

Init == /\ HoleFree(wire)
        /\ pending = << >>

\* The holes behind the first n cells are new ones.
NewHolesBehind(n) ==
  \A k \in (n + 1)..Len(pending'), j \in 1..Len(pending') :
    IsHole(pending'[k]) /\ j # k => pending'[j] # pending'[k]

\* Writers add bytes and new holes at the end.
Extend ==
  LET n == Len(pending)
  IN  /\ Len(pending') > n
      /\ SubSeq(pending', 1, n) = pending
      /\ NewHolesBehind(n)
      /\ UNCHANGED wire

\* A writer fills one hole with n bytes, possibly none; nothing else moves.  The
\* writer may go on at the end in the same step, as a filter's run does.
Fill ==
  \E k \in DOMAIN pending, n \in 0..Len(pending') :
    LET behind == From(pending, k + 1)
        end == k - 1 + n + Len(behind)
    IN  /\ IsHole(pending[k])
        /\ end <= Len(pending')
        /\ SubSeq(pending', 1, k - 1) = SubSeq(pending, 1, k - 1)
        /\ HoleFree(SubSeq(pending', k, k - 1 + n))
        /\ SubSeq(pending', k + n, end) = behind
        /\ NewHolesBehind(end)
        /\ UNCHANGED wire

\* The bytes in front of the first hole go on the wire, some or all of them.
Write ==
  \E n \in DOMAIN pending :
    /\ HoleFree(SubSeq(pending, 1, n))
    /\ wire' = wire \o SubSeq(pending, 1, n)
    /\ pending' = From(pending, n + 1)

Next == Extend \/ Fill \/ Write

HSpec == Init /\ [][Next]_hsvars

=============================================================================
