------------------------------ MODULE AdsClient ------------------------------
(***************************************************************************)
(* The calls of src/aioads/ads_client.py that fetch something: values by   *)
(* name, through the lookup of symbol information, the sum commands and    *)
(* the symbol parser; the tables of symbols and types; and the plain       *)
(* commands.  The question is which bytes end up under which name: lists   *)
(* of commands are cut into batches, each answer is one stream that is cut *)
(* into results by the lengths of the commands or of their answers,        *)
(* entries with errors are left out of the second list, and values are     *)
(* parsed from what was cut out.                                           *)
(*                                                                         *)
(* The symbol table may change between the requests of a call; what is in  *)
(* the cache is as new as the call (AdsSymbolCache has older entries).     *)
(* One task calls at a time while another uploads the data types in        *)
(* connect(): calls share nothing else.                                    *)
(***************************************************************************)
EXTENDS AdsSymbolUpload

CONSTANTS
    Names,          \* the symbols, as the caller spells them
    Types,          \* the types of symbols
    BatchSize,      \* sum_batch_size
    Tables,         \* bound: the tables of symbols there may be at first
    NewTypes,       \* bound: what a symbol's type may become
    TypeSize(_),        \* the bytes the PLC keeps for a value of a type
    LayoutOf(_, _),     \* what a type means: the value that bytes stand for
    Readable(_, _, _),  \* whether some definitions say how to read the bytes
    ParseType(_, _, _)  \* AdsSymbolParser.parse() with some definitions

ASSUME ClientAssumption ==
    /\ IsFiniteSet(Names)
    /\ BatchSize \in 1..500
    /\ NoType \notin Names \cup Types
    /\ Tables \subseteq [Names -> Types \cup {NoType}]
    /\ NewTypes \subseteq Types \cup {NoType}

VARIABLES
    symbols,    \* the PLC: the type of each symbol, NoType if there is none
    defs,       \* _type_lookup of the parser
    pc,         \* where the call is
    call,       \* which call it is
    strict,     \* raise_errors
    wanted,     \* the names asked for
    infos,      \* what the lookup has found so far: name -> result
    rest,       \* the names whose commands are still to be sent, in order
    batch,      \* the names in the command under way
    readable,   \* the names whose values are read, in order
    response,   \* the results of the sum read so far
    output,     \* what the caller gets: name -> result
    tableSize,  \* the size of the table that is uploaded
    listing,    \* what the caller of an upload gets
    refused,    \* history: the values the PLC refused to read
    verdict,    \* history: the PLC's answer to the last request as a whole
    edited,     \* history: the symbols that have changed since the call was
                \* told of them
    cause       \* history: why the call raised

readVars == <<strict, infos, rest, batch, readable, response, refused>>
vars == <<symbols, defs, pc, call, wanted, readVars, output, tableSize, listing,
          verdict, edited, cause>>

PCs == {"idle", "lookup", "read", "parse", "info", "upload", "type", "command",
        "returned", "raised"}

Reads == {"single", "bulk"}
Uploads == {"symbols", "types"}
Calls == Reads \cup Uploads \cup {"none", "type", "state", "route"}

(***************************************************************************)
(* A call raises because a request failed, because of an error the PLC     *)
(* reported, or because the stream or the parser refused the data.         *)
(***************************************************************************)
Causes == {"none", "request", "reported", "data"}

NoResults == [n \in {} |-> NoType]

(***************************************************************************)
(* A request as a whole succeeds, or its answer has an error in the AMS    *)
(* header or in the response of the command.                               *)
(***************************************************************************)
Verdicts == {"ok", "header", "response"}

(***************************************************************************)
(* The request() of every command raises for either error.                 *)
(***************************************************************************)
Refused(v) == v \in {"header", "response"}

Byte == [of : Names \cup {NoType}, at : Nat]

(***************************************************************************)
(* The bytes the PLC keeps for symbol n, the entry that describes it (of a *)
(* length that differs between symbols), and the table of all entries.     *)
(***************************************************************************)
Bytes(n, t) == [i \in 1..TypeSize(t) |-> [of |-> n, at |-> i]]

Memory(n) == Bytes(n, symbols[n])

Entry(n) == SymbolEntry(n, symbols[n], TypeSize(symbols[n]) % 3)

Known == SetToSeq({n \in Names : symbols[n] # NoType})

SymbolTable == FlattenSeq([i \in DOMAIN Known |-> Entry(Known[i])])

(***************************************************************************)
(* Whether the entry of a symbol, and of a type with its fields, can be    *)
(* decoded.                                                                *)
(***************************************************************************)
Clear(n) == symbols[n] = NoType \/ <<n, symbols[n]>> \notin Cryptic

ClearType(m) ==
    /\ <<m, Defs[m].base>> \notin Cryptic
    /\ \A i \in DOMAIN Defs[m].fields : <<NoType, Defs[m].fields[i].type>> \notin Cryptic

TypeOK ==
    /\ symbols \in [Names -> Types \cup {NoType}]
    /\ defs \in {NoResults, Defs}
    /\ pc \in PCs
    /\ call \in Calls
    /\ strict \in BOOLEAN
    /\ wanted \subseteq Names \cup DOMAIN Defs
    /\ DOMAIN infos \subseteq wanted
    /\ \A q \in {rest, batch, readable} : q \in Seq(wanted) /\ IsInjective(q)
    /\ Len(batch) <= BatchSize
    /\ response \in Seq([err : {"ok", "failed"}, data : Seq(Byte)])
    /\ Len(response) <= Len(readable)
    /\ DOMAIN output \subseteq wanted
    /\ tableSize \in Nat
    /\ listing # <<>> => pc = "returned"
    /\ refused \subseteq wanted
    /\ verdict \in Verdicts
    /\ edited \subseteq Names
    /\ cause \in Causes
    /\ pc = "raised" <=> cause # "none"

Init ==
    /\ symbols \in Tables
    /\ defs = NoResults
    /\ pc = "idle"
    /\ call = "none"
    /\ strict = FALSE
    /\ wanted = {}
    /\ infos = NoResults
    /\ rest = <<>>
    /\ batch = <<>>
    /\ readable = <<>>
    /\ response = <<>>
    /\ output = NoResults
    /\ tableSize = 0
    /\ listing = <<>>
    /\ refused = {}
    /\ verdict = "ok"
    /\ edited = {}
    /\ cause = "none"

-----------------------------------------------------------------------------
(***************************************************************************)
(* One stream cut into consecutive sub streams of the given lengths; it    *)
(* fits when it is long enough for them.                                   *)
(***************************************************************************)
Before(lens, i) ==
    LET at[j \in 1..(Len(lens) + 1)] == IF j = 1 THEN 0 ELSE at[j - 1] + lens[j - 1]
    IN  at[i]

Cut(s, lens) == [i \in DOMAIN lens |-> SubStream(s, Before(lens, i), lens[i])]

\* Mutant: the end of a stream is taken to be outside of it.
Fits_BeforeEnd(s, lens) == Before(lens, Len(lens) + 1) < Len(s)

Fits(s, lens) == Before(lens, Len(lens) + 1) <= Len(s)

\* Mutant: a batch holds one command more.
StartBatch_OneMore(q) ==
    /\ batch' = SubSeq(q, 1, IF Len(q) < BatchSize + 1 THEN Len(q) ELSE BatchSize + 1)
    /\ rest' = SubSeq(q, BatchSize + 2, Len(q))

(***************************************************************************)
(* execute() of a sum command: the next at most BatchSize commands.        *)
(***************************************************************************)
StartBatch(q) ==
    /\ batch' = SubSeq(q, 1, IF Len(q) < BatchSize THEN Len(q) ELSE BatchSize)
    /\ rest' = SubSeq(q, BatchSize + 1, Len(q))

-----------------------------------------------------------------------------
(***************************************************************************)
(* The call ends, with a result or without; its lists are gone.            *)
(***************************************************************************)
End(where, out, list) ==
    /\ pc' = where
    /\ output' = out
    /\ listing' = list
    /\ infos' = NoResults
    /\ batch' = <<>>
    /\ rest' = <<>>
    /\ readable' = <<>>
    /\ response' = <<>>

Raise(why) == End("raised", NoResults, <<>>) /\ cause' = why
Return(out) == End("returned", out, <<>>) /\ UNCHANGED cause
ReturnList(list) == End("returned", NoResults, list) /\ UNCHANGED cause

(***************************************************************************)
(* What a lookup finds of symbol n: an error code and the symbol the entry *)
(* describes, with its type.                                               *)
(***************************************************************************)
NotFound == [err |-> "notfound", sym |-> NoType, type |-> NoType]

Info(n) ==
    IF symbols[n] = NoType THEN NotFound
    ELSE [err |-> "ok", sym |-> n, type |-> symbols[n]]

(***************************************************************************)
(* The lookup is done, found is its result: with raise_errors any error is *)
(* raised (as it is for a single symbol); else errors go to the output,    *)
(* and the values of the other symbols are read.                           *)
(***************************************************************************)
LookedUp(N, found, raises) ==
    LET good == {n \in N : found[n].err = "ok"}
        errors == [n \in N \ good |-> [err |-> found[n].err, value |-> NoType]]
    IN  IF raises /\ good # N THEN Raise("reported")
        ELSE IF good = {} THEN Return(errors)
        ELSE /\ pc' = "read"
             /\ infos' = found
             /\ output' = errors
             /\ response' = <<>>
             /\ UNCHANGED <<listing, cause>>
             /\ \E q \in SetToSeqs(good) : readable' = q /\ StartBatch(q)

(***************************************************************************)
(* A read begins: names in the cache (C) have their result at once, the    *)
(* others are requested in the order in which the set lists them.  What    *)
(* cannot be decoded has not been cached.                                  *)
(***************************************************************************)
Begin(N, kind, raises) ==
    /\ pc = "idle"
    /\ call' = kind
    /\ strict' = raises
    /\ wanted' = N
    /\ \E C \in SUBSET {n \in N : Clear(n)} :
        LET cached == [n \in C |-> Info(n)]
        IN  \/ /\ C = N
               /\ LookedUp(N, cached, raises)
            \/ /\ C # N
               /\ \E q \in SetToSeqs(N \ C) : StartBatch(q)
               /\ infos' = cached
               /\ pc' = "lookup"
               /\ UNCHANGED <<readable, response, output, listing, cause>>
    /\ UNCHANGED <<symbols, defs, tableSize, refused, verdict, edited>>

ReadSymbolByName(n) == Begin({n}, "single", TRUE)

ReadSymbolsByNames(N, raiseErrors) == Begin(N, "bulk", raiseErrors)

-----------------------------------------------------------------------------
(***************************************************************************)
(* The answer of the PLC to the lookup of the batch: a header with error   *)
(* and length for each name, and the entries of the names it knows.        *)
(***************************************************************************)
Lengths(q) == [i \in DOMAIN q |-> IF symbols[q[i]] = NoType THEN 0 ELSE Len(Entry(q[i]))]

Entries(q) ==
    FlattenSeq([i \in DOMAIN q |-> IF symbols[q[i]] = NoType THEN <<>> ELSE Entry(q[i])])

(***************************************************************************)
(* SymbolInfoByNameExSumRead.deserialize(): an error without a payload is  *)
(* kept with a void entry, everything else is read as an entry.            *)
(***************************************************************************)
Described(n, s) ==
    IF symbols[n] = NoType /\ s = <<>> THEN [ok |-> TRUE, value |-> NotFound]
    ELSE LET entry == DeserializeSymbol(s, 0)
         IN  IF ~entry.ok THEN Raised
             ELSE [ok |-> TRUE,
                   value |-> [err |-> IF symbols[n] = NoType THEN "notfound" ELSE "ok",
                              sym |-> entry.value.name, type |-> entry.value.type]]

LookupAnswered(v) ==
    /\ pc = "lookup"
    /\ verdict' = v
    /\ LET streams == Cut(Entries(batch), Lengths(batch))
           entries == [i \in DOMAIN batch |-> Described(batch[i], streams[i])]
           found == [n \in DOMAIN infos \cup ToSet(batch) |->
                        IF n \in DOMAIN infos THEN infos[n]
                        ELSE entries[CHOOSE i \in DOMAIN batch : batch[i] = n].value]
       IN  IF Refused(v) THEN Raise("reported")
           ELSE IF ~Fits(Entries(batch), Lengths(batch))
                   \/ \E i \in DOMAIN batch : ~entries[i].ok THEN Raise("data")
           ELSE IF rest = <<>> THEN LookedUp(wanted, found, strict)
           ELSE /\ StartBatch(rest)
                /\ infos' = found
                /\ UNCHANGED <<pc, readable, response, output, listing, cause>>
    /\ UNCHANGED <<symbols, defs, call, strict, wanted, tableSize, refused, edited>>

-----------------------------------------------------------------------------
(***************************************************************************)
(* A command has the address and the length of the lookup.  The answer of  *)
(* the PLC: an error code for each command, then as many bytes as each     *)
(* asked for, whether it was refused (F) or not.  At the address of a      *)
(* symbol that has changed since is anything.                              *)
(***************************************************************************)
Length(n) == TypeSize(infos[n].type)

Asked(q) == [i \in DOMAIN q |-> Length(q[i])]

Filler(len) == [i \in 1..len |-> [of |-> NoType, at |-> i]]

AtAddress(n) ==
    LET sym == infos[n].sym
    IN  IF symbols[sym] = infos[n].type THEN Memory(sym) ELSE Filler(Length(n))

Data(q, F) ==
    FlattenSeq([i \in DOMAIN q |-> IF q[i] \in F THEN Filler(Length(q[i])) ELSE AtAddress(q[i])])

\* Mutant: a refused command has no bytes in the answer.
Results_NoFiller(q, F, s) ==
    LET lens == [i \in DOMAIN q |-> IF q[i] \in F THEN 0 ELSE Asked(q)[i]]
        streams == Cut(s, lens)
    IN  [i \in DOMAIN q |->
            [err |-> IF q[i] \in F THEN "failed" ELSE "ok", data |-> streams[i]]]

(***************************************************************************)
(* AdsSumRead.deserialize(): the errors and the bytes of each command, cut *)
(* by the length it asked for.                                             *)
(***************************************************************************)
Results(q, F, s) ==
    LET streams == Cut(s, Asked(q))
    IN  [i \in DOMAIN q |->
            [err |-> IF q[i] \in F THEN "failed" ELSE "ok", data |-> streams[i]]]

(***************************************************************************)
(* A value is parsed from the bytes of its command, with the types that    *)
(* have been uploaded by then.                                             *)
(***************************************************************************)
ParsedValue(n, s) == ParseType(defs, infos[n].type, s)

(***************************************************************************)
(* A batch of the bulk read is answered: the next one is sent, or all      *)
(* results go to a thread to be parsed.                                    *)
(***************************************************************************)
BatchAnswered(v) ==
    /\ pc = "read"
    /\ call = "bulk"
    /\ verdict' = v
    /\ IF Refused(v) THEN Raise("reported") /\ UNCHANGED refused
       ELSE \E F \in SUBSET ToSet(batch) :
            /\ refused' = refused \cup F
            /\ IF ~Fits(Data(batch, F), Asked(batch))
               THEN Raise("data")
               ELSE /\ response' = response \o Results(batch, F, Data(batch, F))
                    /\ StartBatch(rest)
                    /\ pc' = IF rest = <<>> THEN "parse" ELSE "read"
                    /\ UNCHANGED <<infos, readable, output, listing, cause>>
    /\ UNCHANGED <<symbols, defs, call, strict, wanted, tableSize, edited>>

(***************************************************************************)
(* _parse_sum_read_response(): a refused read keeps its error, any other   *)
(* is parsed; one that cannot be parsed makes the whole call raise.        *)
(***************************************************************************)
ParseReturns ==
    /\ pc = "parse"
    /\ LET values == [i \in DOMAIN readable |-> ParsedValue(readable[i], response[i].data)]
           Good(i) == response[i].err = "ok"
           Value(n) == LET i == CHOOSE j \in DOMAIN readable : readable[j] = n
                       IN  [err |-> response[i].err,
                            value |-> IF Good(i) THEN values[i].value ELSE NoType]
       IN  IF \E i \in DOMAIN readable : Good(i) /\ ~values[i].ok
           THEN Raise("data")
           ELSE Return([n \in wanted |->
                        IF n \in DOMAIN output THEN output[n] ELSE Value(n)])
    /\ UNCHANGED <<symbols, defs, call, strict, wanted, tableSize, refused, verdict, edited>>

(***************************************************************************)
(* A single value is answered, and parsed at once; an error is raised.     *)
(***************************************************************************)
ValueAnswered(v) ==
    /\ pc = "read"
    /\ call = "single"
    /\ verdict' = v
    /\ LET n == batch[1]
           r == ParsedValue(n, AtAddress(n))
       IN  IF Refused(v) THEN Raise("reported")
           ELSE IF ~r.ok THEN Raise("data")
           ELSE Return([m \in {n} |-> [err |-> "ok", value |-> r.value]])
    /\ UNCHANGED <<symbols, defs, call, strict, wanted, tableSize, refused, edited>>

-----------------------------------------------------------------------------
(***************************************************************************)
(* get_symbols(), get_symbol_datatypes(), read_datatype_by_name(), and the *)
(* plain commands of read_state() and enable_route().                      *)
(***************************************************************************)
Ask(kind, where, N) ==
    /\ pc = "idle"
    /\ call' = kind
    /\ pc' = where
    /\ wanted' = N
    /\ UNCHANGED <<symbols, defs, readVars, output, tableSize, listing, verdict, edited, cause>>

StartUpload(kind) == Ask(kind, "info", {})
ReadDatatypeByName(m) == Ask("type", "type", {m})
ReadState == Ask("state", "command", {})
EnableRoute == Ask("route", "command", {})

Table == IF call = "symbols" THEN SymbolTable ELSE TypeTable

(***************************************************************************)
(* The PLC tells how large the table is; as much is then asked for.        *)
(***************************************************************************)
InfoAnswered(v) ==
    /\ pc = "info"
    /\ verdict' = v
    /\ IF Refused(v) THEN Raise("reported") /\ UNCHANGED tableSize
       ELSE /\ tableSize' = Len(Table)
            /\ pc' = "upload"
            /\ UNCHANGED <<infos, rest, batch, readable, response, output, listing, cause>>
    /\ UNCHANGED <<symbols, defs, call, strict, wanted, refused, edited>>

(***************************************************************************)
(* The PLC sends the table, or as much of it as was asked for: it may have *)
(* changed since.                                                          *)
(***************************************************************************)
Sent == IF Len(Table) <= tableSize THEN Table ELSE SubSeq(Table, 1, tableSize)

UploadAnswered(v) ==
    /\ pc = "upload"
    /\ verdict' = v
    /\ LET r == Upload(call, Sent, tableSize)
       IN  IF Refused(v) THEN Raise("reported")
           ELSE IF ~r.ok THEN Raise("data")
           ELSE ReturnList(r.value)
    /\ UNCHANGED <<symbols, defs, call, strict, wanted, tableSize, refused, edited>>

TypeAnswered(v) ==
    /\ pc = "type"
    /\ verdict' = v
    /\ \E m \in wanted :
        LET r == DeserializeType(TypeEntry(m), 0)
        IN  IF Refused(v) THEN Raise("reported")
            ELSE IF ~r.ok THEN Raise("data")
            ELSE ReturnList(<<r.value>>)
    /\ UNCHANGED <<symbols, defs, call, strict, wanted, tableSize, refused, edited>>

CommandAnswered(v) ==
    /\ pc = "command"
    /\ verdict' = v
    /\ IF Refused(v) THEN Raise("reported") ELSE Return(NoResults)
    /\ UNCHANGED <<symbols, defs, call, strict, wanted, tableSize, refused, edited>>

(***************************************************************************)
(* A request of the call fails in the transport.                           *)
(***************************************************************************)
RequestFails ==
    /\ pc \in {"lookup", "read", "info", "upload", "type", "command"}
    /\ Raise("request")
    /\ UNCHANGED <<symbols, defs, call, strict, wanted, tableSize, refused, verdict, edited>>

-----------------------------------------------------------------------------
(***************************************************************************)
(* What is taken of the parser: it does not succeed with another value     *)
(* than the one the type means, before and after the types are uploaded.   *)
(***************************************************************************)
ASSUME ParserAssumption ==
    \A t \in Types :
        /\ TypeSize(t) \in Nat
        /\ \A n \in Names, lookup \in {NoResults, Defs} :
              LET r == ParseType(lookup, t, Bytes(n, t))
              IN  r.ok => r.value = LayoutOf(t, Bytes(n, t))

(***************************************************************************)
(* And it succeeds when the definitions it has say how to read the bytes.  *)
(***************************************************************************)
ASSUME CompleteAssumption ==
    \A t \in Types, n \in Names \cup {NoType}, lookup \in {NoResults, Defs} :
        Readable(lookup, t, Bytes(n, t)) => ParseType(lookup, t, Bytes(n, t)).ok

UploadedTypes == Upload("types", TypeTable, Len(TypeTable))

(***************************************************************************)
(* connect() of this or another task has uploaded the data types; if that  *)
(* fails, reads go on without them.  (Once is enough, as the types do not  *)
(* change.)                                                                *)
(***************************************************************************)
DatatypesUploaded ==
    /\ defs = NoResults
    /\ UploadedTypes.ok
    /\ defs' = UpdateDatatypes(defs, UploadedTypes.value)
    /\ UNCHANGED <<symbols, pc, call, wanted, readVars, output, tableSize, listing,
                   verdict, edited, cause>>

(***************************************************************************)
(* The symbol table changes while a call waits for an answer.              *)
(* Bound: of what the call has been told, one symbol changes.              *)
(***************************************************************************)
SymbolChanges(n, t) ==
    /\ pc \in {"lookup", "read", "upload"}
    /\ call # "types"
    /\ edited = {}
    /\ symbols' = [symbols EXCEPT ![n] = t]
    /\ edited' = IF pc = "upload" \/ n \in DOMAIN infos THEN {n} ELSE {}
    /\ UNCHANGED <<defs, pc, call, wanted, readVars, output, tableSize, listing, verdict, cause>>

(***************************************************************************)
(* The caller has the result and may call again.                           *)
(***************************************************************************)
ResultTaken ==
    /\ pc \in {"returned", "raised"}
    /\ End("idle", NoResults, <<>>)
    /\ call' = "none"
    /\ strict' = FALSE
    /\ wanted' = {}
    /\ tableSize' = 0
    /\ refused' = {}
    /\ verdict' = "ok"
    /\ edited' = {}
    /\ cause' = "none"
    /\ UNCHANGED <<symbols, defs>>

Answered(v) ==
    \/ LookupAnswered(v)
    \/ BatchAnswered(v)
    \/ ValueAnswered(v)
    \/ InfoAnswered(v)
    \/ UploadAnswered(v)
    \/ TypeAnswered(v)
    \/ CommandAnswered(v)

Next ==
    \/ \E n \in Names : ReadSymbolByName(n)
    \/ \E N \in SUBSET Names, e \in BOOLEAN : ReadSymbolsByNames(N, e)
    \/ \E kind \in Uploads : StartUpload(kind)
    \/ \E m \in DOMAIN Defs : ReadDatatypeByName(m)
    \/ ReadState
    \/ EnableRoute
    \/ \E v \in Verdicts : Answered(v)
    \/ ParseReturns
    \/ RequestFails
    \/ ResultTaken
    \/ DatatypesUploaded
    \/ \E n \in Names, t \in NewTypes : SymbolChanges(n, t)

Spec == Init /\ [][Next]_vars

-----------------------------------------------------------------------------
(***************************************************************************)
(* A read that returns has exactly one result for each name it was asked   *)
(* for: the error of that name, or the value its own bytes have by the     *)
(* definition of its type, whatever the other names of its batch are, and  *)
(* whatever becomes of their symbols.  Only of a symbol that has changed   *)
(* since it was looked up nothing is known.  And no call returns when the  *)
(* PLC has refused its request.                                            *)
(***************************************************************************)
Expected(n) ==
    CASE symbols[n] = NoType -> [err |-> "notfound", value |-> NoType]
      [] symbols[n] # NoType /\ n \in refused -> [err |-> "failed", value |-> NoType]
      [] OTHER -> [err |-> "ok", value |-> LayoutOf(symbols[n], Memory(n))]

OwnResult ==
    pc = "returned" =>
        /\ verdict = "ok"
        /\ call \in Reads =>
            /\ DOMAIN output = wanted
            /\ \A n \in wanted \ edited : output[n] = Expected(n)

(***************************************************************************)
(* An upload that returns has the PLC's table, entry by entry, with the    *)
(* fields of each type, whatever else its entries hold.  When the table    *)
(* has changed between the two requests of the upload, what it returns is  *)
(* at least in the table, though not all of it need be there.              *)
(***************************************************************************)
TypesIn(list) == [i \in DOMAIN list |-> <<list[i].name, Definition(list[i])>>]
SymbolsIn(list) == [i \in DOMAIN list |-> <<list[i].name, list[i].type>>]

TheTypes(q) == [i \in DOMAIN q |-> <<q[i], Defs[q[i]]>>]
TheSymbols(q) == [i \in DOMAIN q |-> <<q[i], symbols[q[i]]>>]

UploadFaithful ==
    /\ pc = "returned" /\ call = "types" => TypesIn(listing) = TheTypes(TypeNames)
    /\ pc = "returned" /\ call = "type" =>
        \E m \in wanted : TypesIn(listing) = TheTypes(<<m>>)
    /\ pc = "returned" /\ call = "symbols" =>
        IF edited # {} THEN ToSet(SymbolsIn(listing)) \subseteq ToSet(TheSymbols(Known))
        ELSE SymbolsIn(listing) = TheSymbols(Known)

(***************************************************************************)
(* What the PLC sends is refused only for its own sake: an entry that      *)
(* cannot be decoded, a symbol table that has changed during its upload,   *)
(* or a value that the types uploaded so far do not say how to read from   *)
(* the bytes of its symbol (or from anything, when that has changed).  Sub *)
(* streams fit their stream, entries end where the next one begins, and    *)
(* whatever else is in a batch, a value is parsed from all of its bytes.   *)
(***************************************************************************)
CrypticAsked ==
    CASE pc = "lookup" -> \E n \in ToSet(batch) : ~Clear(n)
      [] pc = "type" -> \E m \in wanted : ~ClearType(m)
      [] pc = "upload" /\ call = "symbols" -> \E n \in Names : ~Clear(n)
      [] pc = "upload" /\ call = "types" -> \E m \in DOMAIN Defs : ~ClearType(m)
      [] OTHER -> FALSE

UnreadableAsked ==
    /\ pc \in {"read", "parse"}
    /\ \E n \in ToSet(readable) \ refused :
        \E o \in {n} \cup (IF n \in edited THEN {NoType} ELSE {}) :
            ~Readable(defs, infos[n].type, Bytes(o, infos[n].type))

DataFits ==
    [][cause' = "data" /\ cause # "data" =>
        CrypticAsked \/ UnreadableAsked \/ (pc = "upload" /\ edited # {})]_vars
=============================================================================
