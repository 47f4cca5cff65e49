--------------------------- MODULE AdsSymbolUpload ---------------------------
(***************************************************************************)
(* The tables of symbols and of data types that a PLC hands out, and how   *)
(* they are read: SymbolInfo.deserialize(),                                *)
(* SymbolDataTypeResponse.deserialize() and the loops of AdsSymbolUpload   *)
(* and AdsSymbolDataTypeUpload (src/aioads/functions/).  Pure operators.   *)
(*                                                                         *)
(* A table is a sequence of entries, an entry a header that tells its      *)
(* length, what the header announces, and more that the code does not      *)
(* know: attributes, methods.  A token stands for the header and the names *)
(* behind it, for the bounds of a dimension, or for an unknown part.       *)
(***************************************************************************)
EXTENDS AdsStream

CONSTANTS
    Defs,       \* the type definitions of the PLC
    Cryptic     \* the entries, by name and type, that cannot be decoded: their
                \* data type is none of AdsSymbolDataType, or a name or a
                \* comment is no cp1252

(***************************************************************************)
(* A definition is made of a size, the elements of each dimension, the     *)
(* type it is based on, and fields with an offset and a type.              *)
(***************************************************************************)
ASSUME DefsAssumption ==
    /\ IsFiniteSet(DOMAIN Defs)
    /\ Defs = [m \in DOMAIN Defs |-> Defs[m]]
    /\ \A m \in DOMAIN Defs :
        LET d == Defs[m]
        IN  /\ d = [size |-> d.size, array |-> d.array, base |-> d.base, fields |-> d.fields]
            /\ d.array \in Seq(Nat)
            /\ d.fields \in Seq(ToSet(d.fields))
            /\ \A f \in ToSet(d.fields) : f = [offs |-> f.offs, type |-> f.type]

More == [more |-> TRUE]

-----------------------------------------------------------------------------
(***************************************************************************)
(* The PLC: entries that tell their own length.                            *)
(***************************************************************************)
Framed(head, body) == <<[head EXCEPT !.len = 1 + Len(body)]>> \o body

SymbolEntry(n, t, extra) ==
    Framed([len |-> 0, name |-> n, type |-> t], [i \in 1..extra |-> More])

TypeHead(m, size, offs, type, dims, subs) ==
    [len |-> 0, name |-> m, size |-> size, offs |-> offs, type |-> type,
     dims |-> dims, subs |-> subs]

\* (The size of a field is not used later.)
FieldEntry(f) == Framed(TypeHead(NoType, 0, f.offs, f.type, 0, 0), <<More>>)

TypeEntry(m) ==
    LET d == Defs[m]
    IN  Framed(TypeHead(m, d.size, 0, d.base, Len(d.array), Len(d.fields)),
               [i \in DOMAIN d.array |-> [elements |-> d.array[i]]]
                \o FlattenSeq([i \in DOMAIN d.fields |-> FieldEntry(d.fields[i])])
                \o <<More, More>>)

TypeNames == SetToSeq(DOMAIN Defs)

TypeTable == FlattenSeq([i \in DOMAIN TypeNames |-> TypeEntry(TypeNames[i])])

-----------------------------------------------------------------------------
(***************************************************************************)
(* The header of an entry with the strings behind it.  What is read at the *)
(* wrong place is garbage, and taken to raise.                             *)
(***************************************************************************)
ReadHead(s, p) ==
    IF p >= Len(s) \/ "len" \notin DOMAIN s[p + 1] THEN Raised
    ELSE IF <<s[p + 1].name, s[p + 1].type>> \in Cryptic THEN Raised
    ELSE [ok |-> TRUE, value |-> s[p + 1], pos |-> p + 1]

\* Mutant: the length is counted from where the cursor is.
EntryEnd_FromHere(s, r, p) == Seek(s, r, r.pos + s[p + 1].len)

(***************************************************************************)
(* The cursor is moved to the end of the entry that began at p.            *)
(***************************************************************************)
EntryEnd(s, r, p) == Seek(s, r, p + s[p + 1].len)

DeserializeSymbol(s, p) ==
    LET head == ReadHead(s, p)
    IN  IF ~head.ok THEN Raised ELSE EntryEnd(s, head, p)

(***************************************************************************)
(* A list extended by what the next entry is read as.                      *)
(***************************************************************************)
NoEntries(p) == [ok |-> TRUE, value |-> <<>>, pos |-> p]

AppendNext(acc, r) ==
    IF ~acc.ok \/ ~r.ok THEN Raised ELSE [r EXCEPT !.value = Append(acc.value, @)]

(***************************************************************************)
(* The sub items of an entry, from p on; lower is how the entries of the   *)
(* next level are read.                                                    *)
(***************************************************************************)
SubItems(lower, p, n) ==
    LET subs[i \in 0..n] ==
            IF i = 0 THEN NoEntries(p)
            ELSE LET acc == subs[i - 1]
                 IN  IF acc.ok THEN AppendNext(acc, lower[acc.pos]) ELSE Raised
    IN  subs[n]

(***************************************************************************)
(* The bounds of the dimensions and the sub items are read one after the   *)
(* other; of a dimension only the number of elements is used later.        *)
(***************************************************************************)
DeserializeEntry(s, lower, p) ==
    LET head == ReadHead(s, p)
        h == head.value
        array == Read(s, head.pos, h.dims)
        subs == SubItems(lower, array.pos, h.subs)
        info == [name |-> h.name, size |-> h.size, offs |-> h.offs, type |-> h.type,
                 array |-> [i \in 1..h.dims |-> array.value.bytes[i].elements],
                 subs |-> subs.value]
    IN  IF ~head.ok THEN Raised
        ELSE IF ~array.ok \/ ~subs.ok THEN Raised
        ELSE EntryEnd(s, [subs EXCEPT !.value = info], p)

(***************************************************************************)
(* Sub items are entries themselves; there are no more levels of them than *)
(* tokens.                                                                 *)
(***************************************************************************)
DeserializeType(s, p) ==
    LET entry[level \in 0..Len(s)] ==
            [q \in 0..Len(s) |-> IF level = 0 THEN Raised
                                 ELSE DeserializeEntry(s, entry[level - 1], q)]
    IN  entry[Len(s)][p]

(***************************************************************************)
(* deserialize() of both uploads: a payload that has not the size asked    *)
(* for is refused; entries are read until the size is reached.  (Each      *)
(* entry has a token at least.)                                            *)
(***************************************************************************)
Deserialize(kind, s, p) ==
    IF kind = "symbols" THEN DeserializeSymbol(s, p) ELSE DeserializeType(s, p)

Upload(kind, s, size) ==
    LET read[k \in 0..size] ==
            IF k = 0 THEN NoEntries(0)
            ELSE LET acc == read[k - 1]
                 IN  IF ~acc.ok \/ acc.pos >= size THEN acc
                     ELSE AppendNext(acc, Deserialize(kind, s, acc.pos))
    IN  IF Len(s) # size THEN Raised ELSE read[size]

(***************************************************************************)
(* update_datatypes(): the types by name, as the parser uses them.         *)
(***************************************************************************)
Definition(info) ==
    [size |-> info.size, array |-> info.array, base |-> info.type,
     fields |-> [i \in DOMAIN info.subs |->
                    [offs |-> info.subs[i].offs, type |-> info.subs[i].type]]]

UpdateDatatypes(lookup, infos) ==
    [m \in DOMAIN lookup \cup {infos[i].name : i \in DOMAIN infos} |->
        LET new == {i \in DOMAIN infos : infos[i].name = m}
        IN  IF new = {} THEN lookup[m] ELSE Definition(infos[CHOOSE i \in new : \A j \in new : j <= i])]
=============================================================================
