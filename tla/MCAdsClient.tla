----------------------------- MODULE MCAdsClient -----------------------------
(***************************************************************************)
(* An instance of AdsClient for TLC: a struct with a gap before and after  *)
(* its last field, a struct of structs and arrays, an array of structs and *)
(* one of two dimensions, a named array and a blob; a text, which cannot   *)
(* be decoded for every symbol; and types there is no way to read: without *)
(* a decoder, of three dimensions, an alias, and unknown to the enum.      *)
(***************************************************************************)
EXTENDS AdsClient, AdsSymbolParser

Scalar(n, codec) == [kind |-> "scalar", size |-> n, codec |-> codec]
Number(n) == Scalar(n, "any")
Bounds(l, u) == [lower |-> l, upper |-> u]
Array(dims, t) == [kind |-> "array", dims |-> dims, of |-> t]
Named(m) == [kind |-> "named", name |-> m]

Field(offs, t) == [offs |-> offs, type |-> t]

Struct(size, fields) == [size |-> size, fields |-> fields, array |-> <<>>, base |-> NoType]

MCDefs ==
    [pair  |-> Struct(5, <<Field(0, Number(1)), Field(2, Number(2))>>),
     nest  |-> Struct(12, <<Field(0, Named("pair")), Field(6, Array(<<Bounds(0, 1)>>, Number(1))),
                            Field(8, Scalar(2, "text"))>>),
     list  |-> [size |-> 4, fields |-> <<>>, array |-> <<2>>, base |-> Number(2)],
     blob  |-> Struct(3, <<>>),
     alias |-> [size |-> 2, fields |-> <<>>, array |-> <<>>, base |-> Number(2)]]

Text == Scalar(2, "text")
Odd == Scalar(6, "none")

\* Types that every symbol has in some table, and those of the first two only.
Plain == {Text, Named("blob")}
MCTypes ==
    Plain \cup
    {Named("nest"), Named("list"), Named("alias"), Odd, Scalar(1, "none"),
     Array(<<Bounds(1, 2), Bounds(-1, 1)>>, Number(1)), Array(<<Bounds(1, 2)>>, Named("pair")),
     Array(<<Bounds(0, 1), Bounds(0, 1), Bounds(0, 1)>>, Number(1))}

\* No symbol of type Odd can be decoded.
MCCryptic == Names \X {Odd}

CONSTANTS Dim, Small      \* two of the symbols

\* The bytes of Dim, and some of what is at an address nothing is known of.
MCIllegible == {[of |-> Dim, at |-> 1], [of |-> Dim, at |-> 2], [of |-> NoType, at |-> 2]}

MCTables == {f \in [Names -> MCTypes \cup {NoType}] : f[Small] \in Plain \cup {NoType}}

\* A change moves or removes a symbol; of the sizes one that differs from the others'.
MCNewTypes == {Named("blob"), NoType}

MCTypeSize(t) == SizeOf(Defs, t)
MCLayoutOf(t, s) == Layout(Defs, t, s, 0)
MCReadable(lookup, t, s) == Decodable(lookup, t, s, 0)
MCParseType(lookup, t, s) == Parse(lookup, t, s, 0)
=============================================================================
