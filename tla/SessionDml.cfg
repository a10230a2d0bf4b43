SPECIFICATION FairSessionSpec
CONSTANTS
    Conn = {c1, c2}
    Key <- AllKeys
    Value <- SmallValue
    Prefix <- NoPrefix
    Initial <- EmptyTable
    Absent = Absent
    Untouched = Untouched
    Nil = Nil
    Careful = TRUE
    Rows = {r1, r2}
    Databases = Databases
    Tables = Tables
    Schema = Schema
    Stats = Stats
    Statements <- DmlStatements
    Plans <- NoPlans
    Explicit = TRUE
INVARIANTS
    SessionsHoldNothing
    RowCountExact
PROPERTIES
    InsertNeverOverwrites
    StatementsEnd
