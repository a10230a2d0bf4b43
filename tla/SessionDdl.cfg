SPECIFICATION SessionSpec
CONSTANTS
    Conn = {c1, c2}
    Key <- AllKeys
    Value <- SmallValue
    Prefix <- NoPrefix
    Initial <- NoDatabase
    Absent = Absent
    Untouched = Untouched
    Nil = Nil
    Careful = TRUE
    Rows = {r1, r2}
    Databases = Databases
    Tables = Tables
    Schema = Schema
    Stats = Stats
    Statements <- DdlStatements
    Plans <- OneRange
    Explicit = FALSE
SYMMETRY SessionSymmetry
INVARIANTS
    CatalogConsistent
    SelectSeesOneVersion
