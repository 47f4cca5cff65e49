--------------------------- MODULE AdsSymbolParser ---------------------------
(***************************************************************************)
(* AdsSymbolParser of src/aioads/ads_symbol_parser.py on the cursor of an  *)
(* AdsStream (src/aioads/stream.py): which bytes of a payload become which *)
(* part of a value.  Pure operators, and the reference definition they are *)
(* checked against.                                                        *)
(*                                                                         *)
(* A pair (data_type, type_name) is abstracted to what the parser does     *)
(* with it.  A type is one of                                              *)
(*   [kind |-> "scalar", size |-> n, codec |-> c]   a type of n bytes:     *)
(*        primitives, strings, references, pointers, the constant types;   *)
(*        VOID has 0.  The codec is "any" if all bytes have a value,       *)
(*        "text" for strings, and "none" if there is no way to read it: a  *)
(*        data type missing from _struct_def, a string without its length  *)
(*   [kind |-> "array", dims |-> d, of |-> t]   ARRAY [..] OF t, with the  *)
(*        lower and upper bound of each dimension                          *)
(*   [kind |-> "named", name |-> m]    looked up in the uploaded types     *)
(* and a definition of a named type is a record of its size, its fields    *)
(* (sub_items), its dimensions (array) and the type it names (base).       *)
(***************************************************************************)
EXTENDS AdsStream

CONSTANT Illegible  \* the bytes that are no text in the encoding of a string

-----------------------------------------------------------------------------
(***************************************************************************)
(* Whether bytes can be decoded: numbers and hexadecimal or latin-1 text   *)
(* always, cp1252 and utf-16 unless there is a byte they do not know.      *)
(***************************************************************************)
Decodes(codec, bytes) ==
    \/ codec = "any"
    \/ codec = "text" /\ ToSet(bytes) \cap Illegible = {}

(***************************************************************************)
(* PrimitiveTypeParser and the types of fixed length: the bytes a value is *)
(* decoded from, a string with the terminator its name does not count.     *)
(***************************************************************************)
ParseScalar(t, s, p) ==
    LET raw == Read(s, p, t.size)
    IN  IF raw.ok /\ Decodes(t.codec, raw.value.bytes) THEN raw ELSE Raised

RECURSIVE Parse(_, _, _, _)

(***************************************************************************)
(* A composite value, extended by a part of type t that is parsed at p.    *)
(***************************************************************************)
Empty(p) == [ok |-> TRUE, value |-> [parts |-> <<>>], pos |-> p]

Extend(defs, acc, t, s, p) ==
    IF ~acc.ok \/ p > Len(s) THEN Raised
    ELSE LET r == Parse(defs, t, s, p)
         IN  IF ~r.ok THEN Raised
             ELSE [r EXCEPT !.value = [parts |-> Append(acc.value.parts, r.value)]]

(***************************************************************************)
(* Parts parsed one after the other, each where the one before ended.      *)
(***************************************************************************)
ParseNext(defs, types, s, p) ==
    FoldLeft(LAMBDA acc, t : Extend(defs, acc, t, s, acc.pos), Empty(p), types)

\* One element for each index of range(lower, upper + 1).
Copies(lower, upper, t) == [i \in 1..(upper + 1 - lower) |-> t]

(***************************************************************************)
(* parse_array(): one dimension, or two as rows; more are refused.         *)
(***************************************************************************)
ParseArray(defs, t, s, p) ==
    LET b == t.dims[1]
    IN  CASE Len(t.dims) = 1 -> ParseNext(defs, Copies(b.lower, b.upper, t.of), s, p)
          [] Len(t.dims) = 2 ->
                ParseNext(defs, Copies(b.lower, b.upper, [t EXCEPT !.dims = Tail(@)]), s, p)
          [] OTHER -> Raised

\* Mutant: a field is read where the one before it ended.
Fields_NoSeek(defs, d, s, origin) ==
    Seek(s, ParseNext(defs, [i \in DOMAIN d.fields |-> d.fields[i].type], s, origin),
         origin + d.size)

(***************************************************************************)
(* parse_struct() with sub_items: each field is read at its offset, and    *)
(* the cursor is left at the end of the struct.                            *)
(***************************************************************************)
Fields(defs, d, s, origin) ==
    Seek(s, FoldLeft(LAMBDA acc, f : Extend(defs, acc, f.type, s, origin + f.offs),
                     Empty(origin), d.fields),
         origin + d.size)

(***************************************************************************)
(* parse_struct() with array: each dimension is read on its own, after the *)
(* one before; of several the cursor is then set to the end.               *)
(***************************************************************************)
Dimensions(defs, d, s, origin) ==
    IF Len(d.array) = 1
    THEN ParseNext(defs, Copies(1, d.array[1], d.base), s, origin)
    ELSE Seek(s, ParseNext(defs,
                    [i \in DOMAIN d.array |->
                        [kind |-> "array", of |-> d.base,
                         dims |-> <<[lower |-> 1, upper |-> d.array[i]]>>]],
                    s, origin),
              origin + d.size)

(***************************************************************************)
(* parse_struct(): unknown types are refused.  Without fields and          *)
(* dimensions the bytes are consumed; an empty type name returns them, any *)
(* other type is then parsed from the bytes that follow.                   *)
(***************************************************************************)
ParseStruct(defs, m, s, p) ==
    IF m \notin DOMAIN defs THEN Raised
    ELSE LET d == defs[m]
         IN  CASE d.fields # <<>> -> Fields(defs, d, s, p)
               [] d.fields = <<>> /\ d.array # <<>> -> Dimensions(defs, d, s, p)
               [] OTHER ->
                    LET raw == Read(s, p, d.size)
                    IN  IF ~raw.ok \/ d.base = NoType THEN raw
                        ELSE Parse(defs, d.base, s, raw.pos)

Parse(defs, t, s, p) ==
    CASE t.kind = "scalar" -> ParseScalar(t, s, p)
      [] t.kind = "array"  -> ParseArray(defs, t, s, p)
      [] t.kind = "named"  -> ParseStruct(defs, t.name, s, p)

-----------------------------------------------------------------------------
(***************************************************************************)
(* The reference: what the definitions say of a value that starts at p,    *)
(* from sizes and offsets alone.                                           *)
(***************************************************************************)
Count(b) == Cardinality(b.lower..b.upper)

RECURSIVE SizeOf(_, _)
SizeOf(defs, t) ==
    CASE t.kind = "scalar" -> t.size
      [] t.kind = "array"  -> FoldLeft(LAMBDA n, b : n * Count(b), SizeOf(defs, t.of), t.dims)
      [] t.kind = "named"  -> defs[t.name].size

RECURSIVE Layout(_, _, _, _)
Layout(defs, t, s, p) ==
    LET Row(n, of) ==
            [parts |-> [i \in 1..n |-> Layout(defs, of, s, p + (i - 1) * SizeOf(defs, of))]]
        Rows(dims, of) ==
            Row(Count(dims[1]),
                IF Len(dims) = 1 THEN of
                ELSE [kind |-> "array", dims |-> Tail(dims), of |-> of])
    IN  CASE t.kind = "scalar" -> [bytes |-> SubStream(s, p, t.size)]
          [] t.kind = "array"  -> Rows(t.dims, t.of)
          [] t.kind = "named"  ->
                LET d == defs[t.name]
                IN  CASE d.fields # <<>> ->
                            [parts |-> [i \in DOMAIN d.fields |->
                                Layout(defs, d.fields[i].type, s, p + d.fields[i].offs)]]
                      [] d.fields = <<>> /\ d.array # <<>> ->
                            Rows([i \in DOMAIN d.array |->
                                    [lower |-> 1, upper |-> d.array[i]]], d.base)
                      [] d.fields = <<>> /\ d.array = <<>> /\ d.base # NoType ->
                            Layout(defs, d.base, s, p)
                      [] OTHER -> [bytes |-> SubStream(s, p, d.size)]

(***************************************************************************)
(* And whether there is a way to read it: every scalar in it can be        *)
(* decoded, its named types are known and are no aliases, and its arrays   *)
(* have at most two dimensions.                                            *)
(***************************************************************************)
RECURSIVE Decodable(_, _, _, _)
Decodable(defs, t, s, p) ==
    LET Elements(n, of) ==
            \A i \in 1..n : Decodable(defs, of, s, p + (i - 1) * SizeOf(defs, of))
    IN  CASE t.kind = "scalar" -> Decodes(t.codec, SubStream(s, p, t.size))
          [] t.kind = "array"  ->
                /\ Len(t.dims) <= 2
                /\ Elements(FoldLeft(LAMBDA n, b : n * Count(b), 1, t.dims), t.of)
          [] t.kind = "named"  ->
                /\ t.name \in DOMAIN defs
                /\ LET d == defs[t.name]
                   IN  CASE d.fields # <<>> ->
                               \A i \in DOMAIN d.fields :
                                    Decodable(defs, d.fields[i].type, s, p + d.fields[i].offs)
                         [] d.fields = <<>> /\ d.array # <<>> ->
                               Elements(FoldLeft(LAMBDA n, k : n * k, 1, d.array), d.base)
                         [] OTHER -> d.base = NoType
=============================================================================
