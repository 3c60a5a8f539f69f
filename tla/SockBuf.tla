------------------------------- MODULE SockBuf -------------------------------
(***************************************************************************)
(* One SockBuf (parasock/SockBuf.h, SockBuf.cpp): the writers' operations  *)
(* on its placeholders, the event loop's writes of the front placeholder,  *)
(* and the ways in which its socket goes away.                             *)
(*                                                                         *)
(* Bytes are abstracted to where they belong: every call that reserves a   *)
(* place in the stream takes the next ticket, and a byte is the ticket of  *)
(* the call whose place it fills.                                          *)
(***************************************************************************)
EXTENDS Placeholders, Naturals, Sequences, FiniteSets

CONSTANTS MaxTickets,   \* bound on the calls that reserve a place
          MaxLength     \* bound on the length of one written string

ASSUME BoundsAssumption == MaxTickets \in Nat /\ MaxLength \in Nat

VARIABLES
  sock,              \* "open" or "invalid" (INVALID_SOCKET)
  disconnected,      \* set by shutdownAndClose
  placeholders,      \* the deque
  bytesWrittenSoFar,
  held,              \* tickets of the Placeholders whose auto_ptr a caller has
  nextTicket,
  unwound            \* an exception has destroyed the callers' auto_ptrs

vars == << sock, disconnected, placeholders, bytesWrittenSoFar, held,
           nextTicket, unwound >>

Tickets == 0..(MaxTickets - 1)

\* The string of n bytes that a call with ticket t writes.
Bytes(t, n) == [i \in 1..n |-> t]

-----------------------------------------------------------------------------

Init ==
  /\ sock = "open"
  /\ disconnected = FALSE
  /\ placeholders = << >>
  /\ bytesWrittenSoFar = << >>
  /\ held = {}
  /\ nextTicket = 0
  /\ unwound = FALSE

\* A caller reserves a place; it holds the auto_ptr until it fulfils it.
OutputPlaceholderCall ==
  /\ ~unwound
  /\ nextTicket < MaxTickets
  /\ placeholders' = OutputPlaceholder(placeholders, nextTicket)
  /\ held' = held \union {nextTicket}
  /\ nextTicket' = nextTicket + 1
  /\ UNCHANGED << sock, disconnected, bytesWrittenSoFar, unwound >>

\* Faulty variant of FulfillPlaceholderCall: the caller keeps its auto_ptr.
FulfillByPointerCall(t, n) ==
  /\ ~unwound
  /\ t \in held
  /\ placeholders' = FulfillPlaceholder(placeholders, t, Bytes(t, n))
  /\ UNCHANGED << sock, disconnected, bytesWrittenSoFar, held, nextTicket, unwound >>

\* A caller gives up its auto_ptr together with the contents.
FulfillPlaceholderCall(t, n) ==
  /\ ~unwound
  /\ t \in held
  /\ placeholders' = FulfillPlaceholder(placeholders, t, Bytes(t, n))
  /\ held' = held \ {t}
  /\ UNCHANGED << sock, disconnected, bytesWrittenSoFar, nextTicket, unwound >>

OutputStringCall(n) ==
  /\ ~unwound
  /\ nextTicket < MaxTickets
  /\ placeholders' = OutputString(placeholders, nextTicket, Bytes(nextTicket, n))
  /\ nextTicket' = nextTicket + 1
  /\ UNCHANGED << sock, disconnected, bytesWrittenSoFar, held, unwound >>

\* Faulty variants of SendFront: the first placeholder that is known is sent, past
\* the holes before it; what was written stays in the deque.
SendFirstKnown ==
  /\ ~unwound
  /\ sock = "open"
  /\ \E k \in DOMAIN placeholders :
       /\ placeholders[k].contentsKnown
       /\ \A j \in 1..(k - 1) : ~placeholders[j].contentsKnown
       /\ bytesWrittenSoFar' = bytesWrittenSoFar \o placeholders[k].contents
       /\ placeholders' = Erase(placeholders, k)
  /\ UNCHANGED << sock, disconnected, held, nextTicket, unwound >>
SendFrontWithoutPop ==
  /\ ~unwound
  /\ sock = "open"
  /\ HasKnownWritesPending(placeholders)
  /\ bytesWrittenSoFar' = bytesWrittenSoFar \o Head(placeholders).contents
  /\ UNCHANGED << sock, disconnected, placeholders, held, nextTicket, unwound >>

\* One turn of the event loop's send: the front placeholder, when known, is
\* written whole and freed.
SendFront ==
  /\ ~unwound
  /\ sock = "open"
  /\ HasKnownWritesPending(placeholders)
  /\ bytesWrittenSoFar' = bytesWrittenSoFar \o Head(placeholders).contents
  /\ placeholders' = Tail(placeholders)
  /\ UNCHANGED << sock, disconnected, held, nextTicket, unwound >>

\* shutdownAndClose: after a reset, when the SockBuf is destroyed, and at the
\* end of failureShutdown.  The deque is left as it is.
ShutdownAndClose ==
  /\ sock = "open"
  /\ disconnected' = TRUE
  /\ sock' = "invalid"
  /\ UNCHANGED << placeholders, bytesWrittenSoFar, held, nextTicket, unwound >>

\* An exception leaves handleIncomingRequest's try block: the callers'
\* auto_ptrs die, the deque keeps the pointers to the freed Placeholders, and
\* only failureShutdown and the destructor run on this SockBuf from here on.
Unwind ==
  /\ ~unwound
  /\ unwound' = TRUE
  /\ held' = {}
  /\ UNCHANGED << sock, disconnected, placeholders, bytesWrittenSoFar, nextTicket >>

Next ==
  \/ OutputPlaceholderCall
  \/ \E t \in held, n \in 0..MaxLength : FulfillPlaceholderCall(t, n)
  \/ \E n \in 0..MaxLength : OutputStringCall(n)
  \/ SendFront
  \/ ShutdownAndClose
  \/ Unwind

Spec == Init /\ [][Next]_vars

-----------------------------------------------------------------------------

\* The values the SockBuf's members and its callers' auto_ptrs range over.
TypeOK ==
  /\ sock \in {"open", "invalid"}
  /\ disconnected \in BOOLEAN
  /\ placeholders \in Seq(PlaceholderOf(Nat))
  /\ bytesWrittenSoFar \in Seq(Nat)
  /\ held \subseteq Nat
  /\ nextTicket \in Nat
  /\ unwound \in BOOLEAN

\* Bytes reach the wire in the order in which their places were reserved,
\* whatever the order in which the places were filled (outputPlaceholder,
\* fulfillPlaceholder, the merge in outputString and the send loop together).
WireInOrder ==
  \A i, j \in DOMAIN bytesWrittenSoFar :
     i < j => bytesWrittenSoFar[i] <= bytesWrittenSoFar[j]

\* No byte that belongs behind a hole is on the wire while the hole's auto_ptr
\* is still in a caller's hands: a header written after a request line that is
\* still being rewritten never overtakes it.
NothingPastAHole ==
  \A h \in held : \A i \in DOMAIN bytesWrittenSoFar : bytesWrittenSoFar[i] < h

\* Until an exception, the holes of the deque are the placeholders callers
\* hold: each can still be fulfilled, none is stranded, none is fulfilled twice.
HolesAreHeld ==
  ~unwound => held = Holes(placeholders)

\* A known placeholder has something to send: the event loop counts on it
\* (Assert(!contents.empty())) to make progress on every turn.
KnownIsNonempty ==
  \A k \in DOMAIN placeholders :
     placeholders[k].contentsKnown <=> placeholders[k].contents # << >>

=============================================================================
