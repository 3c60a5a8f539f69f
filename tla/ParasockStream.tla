---------------------------- MODULE ParasockStream ----------------------------
(***************************************************************************)
(* The output of each connection of a Parasock as a HoleStream: the        *)
(* refinement mapping.                                                     *)
(***************************************************************************)
EXTENDS Parasock, StreamCells

\* What connection w has still to write.  The bytes of a send that was given up
\* midway are recorded as written, and their placeholder is still in the deque.
Unwritten(w) ==
  IF stage = "shortSend" /\ Head(todo) = << "send", w >>
    THEN Tail(placeholders[w]) ELSE placeholders[w]

ClientStream == INSTANCE HoleStream WITH
                  IsHole <- IsHoleCell,
                  wire <- ByteCells(bytesWrittenSoFar["client"]),
                  pending <- CellsOfAll(Unwritten("client"))
ServerStream == INSTANCE HoleStream WITH
                  IsHole <- IsHoleCell,
                  wire <- ByteCells(bytesWrittenSoFar["server"]),
                  pending <- CellsOfAll(Unwritten("server"))

\* What filters and callers write to each connection while the loop runs is an
\* output stream with holes (HoleStream).
ImplementsHoleStreams == ClientStream!HSpec /\ ServerStream!HSpec

=============================================================================
