------------------------------- MODULE MCDuplex -------------------------------
(***************************************************************************)
(* Duplex for TLC.                                                         *)
(***************************************************************************)
EXTENDS Duplex

AllKinds == [Conn -> Behaviours]
AllTotals == [Conn -> {0, 2, 4}]

\* An upload and a download at once that neither fit into the sockets' buffers, with
\* peers that read in the end.
Readers == [Conn -> {"both", "writesFirst"}]
LargeTotals == [Conn -> {4}]

=============================================================================
