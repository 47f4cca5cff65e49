CONSTANTS
    Dim = b
    Small = c
    Names = {a, b, c}
    NoType = NoType
    BatchSize = 2
    Types <- MCTypes
    Defs <- MCDefs
    Cryptic <- MCCryptic
    Illegible <- MCIllegible
    Tables <- MCTables
    NewTypes <- MCNewTypes
    TypeSize <- MCTypeSize
    LayoutOf <- MCLayoutOf
    Readable <- MCReadable
    ParseType <- MCParseType
SPECIFICATION Spec
INVARIANTS
    TypeOK
    OwnResult
    UploadFaithful
PROPERTIES
    DataFits
