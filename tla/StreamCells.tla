----------------------------- MODULE StreamCells -----------------------------
(***************************************************************************)
(* A deque of placeholders as a stream of cells: what a SockBuf has still  *)
(* to write, as the abstract stream of HoleStream sees it.                 *)
(***************************************************************************)
EXTENDS Placeholders
Seqs == INSTANCE SequencesExt

ByteCell(b) == << "byte", b >>
HoleCell(id) == << "hole", id >>
IsHoleCell(c) == c[1] = "hole"

ByteCells(s) == [i \in DOMAIN s |-> ByteCell(s[i])]

\* A placeholder is the hole it reserves or the bytes that fill it.
CellsOf(p) == IF p.contentsKnown THEN ByteCells(p.contents)
                                 ELSE << HoleCell(p.id) >>

\* The cells of a deque.
CellsOfAll(phs) == Seqs!FlattenSeq([k \in DOMAIN phs |-> CellsOf(phs[k])])

=============================================================================
