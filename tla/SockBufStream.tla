---------------------------- MODULE SockBufStream ----------------------------
(***************************************************************************)
(* A SockBuf as a HoleStream: the refinement mapping.                      *)
(***************************************************************************)
EXTENDS SockBuf, StreamCells

Wire == ByteCells(bytesWrittenSoFar)
Pending == CellsOfAll(placeholders)

Stream == INSTANCE HoleStream WITH
            IsHole <- IsHoleCell, wire <- Wire, pending <- Pending

\* The deque of placeholders, its merging and its erasing, and the send loop
\* together are an output stream with holes: nothing is lost, doubled or moved.
ImplementsHoleStream == Stream!HSpec

=============================================================================
