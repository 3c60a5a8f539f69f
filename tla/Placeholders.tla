---------------------------- MODULE Placeholders ----------------------------
(***************************************************************************)
(* The operations of a SockBuf on its deque of Placeholder objects         *)
(* (parasock/SockBuf.h).  A placeholder keeps a place in an output stream: *)
(* it is a hole until it is fulfilled, and its contents go on the wire     *)
(* when it is at the front of the deque and known.                         *)
(*                                                                         *)
(* The pointer that identifies a Placeholder in the code is the field id;  *)
(* the field owner is the SockBuf whose deque the record is in.            *)
(***************************************************************************)
EXTENDS Naturals, Sequences

\* Faulty variant of Hole: the identity is that of the placeholder before.
HoleBefore(id) == [id |-> id - 1, contentsKnown |-> FALSE, contents |-> << >>]

\* A Placeholder as its constructor leaves it.
Hole(id) == [id |-> id, contentsKnown |-> FALSE, contents |-> << >>]

OutputPlaceholder(placeholders, id) == Append(placeholders, Hole(id))

\* std::deque::erase of the element at index k.
Erase(placeholders, k) ==
  [i \in 1..(Len(placeholders) - 1) |->
      IF i < k THEN placeholders[i] ELSE placeholders[i + 1]]

\* Faulty variants of FulfillAt: the placeholder of an empty string is kept; the
\* contents go to the end of the deque.
FulfillKeepsEmpty(placeholders, k, contents) ==
  [placeholders EXCEPT ![k] = [@ EXCEPT !.contentsKnown = TRUE,
                                        !.contents = contents]]
FulfillAtEnd(placeholders, k, contents) ==
  Append(Erase(placeholders, k),
         [placeholders[k] EXCEPT !.contentsKnown = TRUE, !.contents = contents])

\* fulfillPlaceholder on the placeholder at index k: empty contents leave
\* nothing to send, so the placeholder leaves the deque at once.
FulfillAt(placeholders, k, contents) ==
  IF contents = << >>
    THEN Erase(placeholders, k)
    ELSE [placeholders EXCEPT ![k] = [@ EXCEPT !.contentsKnown = TRUE,
                                               !.contents = contents]]

\* std::find of a placeholder in the deque.
IndexOf(placeholders, id) ==
  CHOOSE k \in DOMAIN placeholders : placeholders[k].id = id

FulfillPlaceholder(placeholders, id, contents) ==
  FulfillAt(placeholders, IndexOf(placeholders, id), contents)

LastIsKnown(placeholders) ==
  /\ placeholders # << >>
  /\ placeholders[Len(placeholders)].contentsKnown

\* A string joins the last placeholder when its contents are known; otherwise
\* it gets a placeholder of its own, fulfilled at once.
OutputString(placeholders, id, sendMe) ==
  LET n == Len(placeholders)
      back == placeholders[n]
  IN  IF LastIsKnown(placeholders)
        THEN [placeholders EXCEPT
                ![n] = [back EXCEPT !.contents = back.contents \o sendMe]]
        ELSE FulfillAt(OutputPlaceholder(placeholders, id), n + 1, sendMe)

HasKnownWritesPending(placeholders) ==
  /\ placeholders # << >>
  /\ placeholders[1].contentsKnown

DefinitelyHasFutureWrites(placeholders) ==
  \E k \in DOMAIN placeholders : placeholders[k].contentsKnown

\* The holes of a deque, by id.
Holes(placeholders) ==
  { placeholders[k].id :
      k \in { k \in DOMAIN placeholders : ~placeholders[k].contentsKnown } }

\* The Placeholder objects whose contents are bytes of Byte.
PlaceholderOf(Byte) ==
  [id : Nat, contentsKnown : BOOLEAN, contents : Seq(Byte)]

=============================================================================
