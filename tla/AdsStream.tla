------------------------------ MODULE AdsStream ------------------------------
(***************************************************************************)
(* AdsStream of src/aioads/stream.py: a cursor on a payload that is never  *)
(* moved or read beyond its end.                                           *)
(***************************************************************************)
EXTENDS Integers, FiniteSets, Sequences, SequencesExt

CONSTANT NoType     \* the empty type_name, or no value

(***************************************************************************)
(* A stream is a sequence of bytes, a cursor the number of bytes before    *)
(* it.  Each operation ends with a value and a cursor, or raises.          *)
(***************************************************************************)
Raised == [ok |-> FALSE, value |-> NoType, pos |-> 0]

Read(s, p, n) ==
    IF p + n > Len(s) THEN Raised
    ELSE [ok |-> TRUE, value |-> [bytes |-> SubSeq(s, p + 1, p + n)], pos |-> p + n]

Seek(s, r, p) == IF ~r.ok \/ p > Len(s) THEN Raised ELSE [r EXCEPT !.pos = p]

SubStream(s, p, n) == SubSeq(s, p + 1, p + n)
=============================================================================
