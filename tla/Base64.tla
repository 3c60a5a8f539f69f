-------------------------------- MODULE Base64 --------------------------------
(***************************************************************************)
(* en64 of base64.cpp, which makes the credentials of the Authorization    *)
(* header out of the bytes of a user name and a password.                  *)
(*                                                                         *)
(* Bytes are 0 .. 127: from 128 on a char is negative, and so is the index *)
(* that en64 makes of it.  A code is a sequence of digits 0 .. 63 and Pad. *)
(***************************************************************************)
EXTENDS Integers, Sequences

Pad == 64            \* '='
LengthValues == 64   \* how many values a size_t has

(* The text and the NUL behind it. *)
ByteAt(text, i) == IF i <= Len(text) THEN text[i] ELSE 0

(* The last place that a turn of the loop reads: inptr is at place, and    *)
(* curlen bytes are taken to be there.                                     *)
LastRead(place, curlen) == place + (IF curlen > 2 THEN 2 ELSE curlen - 1)

(* The four digits of a turn.  The first byte is in[0], not inptr[0]: every *)
(* group begins with the first byte of the whole text.                      *)
EncodedGroup(text, place, curlen) ==
    LET first == ByteAt(text, 1)
        second == IF curlen > 1 THEN ByteAt(text, place + 1) ELSE 0
        third == IF curlen > 2 THEN ByteAt(text, place + 2) ELSE 0
    IN  << first \div 4,
           (first % 4) * 16 + second \div 16,
           IF curlen > 1 THEN (second % 16) * 4 + third \div 64 ELSE Pad,
           IF curlen > 2 THEN third % 64 ELSE Pad >>

(* curlen -= 3 of a size_t: 1 and 2 become huge. *)
Rest(curlen) == (curlen - 3) % LengthValues

(* The state of the loop after its first k turns.  It ends when curlen is  *)
(* 0; a turn that would read behind the text's NUL leaves it "outside".    *)
Turn(text, k) ==
    LET start == [code |-> <<>>, curlen |-> Len(text), outside |-> FALSE]
        f[j \in 0 .. k] ==
            IF j = 0 THEN start
            ELSE LET t == f[j - 1]
                     place == 3 * (j - 1) + 1
                 IN  IF t.curlen = 0 \/ t.outside THEN t
                     ELSE IF LastRead(place, t.curlen) > Len(text) + 1
                       THEN [t EXCEPT !.outside = TRUE]
                     ELSE [t EXCEPT !.code = @ \o EncodedGroup(text, place, t.curlen),
                                    !.curlen = Rest(t.curlen)]
    IN  f[k]

(* en64: the code, and whether the loop has left its input, in which case  *)
(* what comes of it is open.  It cannot go on for more turns than these.   *)
En64(text) == Turn(text, Len(text) \div 3 + 2)
=============================================================================
