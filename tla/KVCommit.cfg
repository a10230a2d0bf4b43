SPECIFICATION Spec
CONSTANTS
    Conn = {c1, c2}
    Key = {k1, k2}
    Value = {v1}
    Prefix <- WholeRange
    Initial <- NoData
    Absent = Absent
    Untouched = Untouched
    Nil = Nil
    Careful = TRUE
SYMMETRY ConnSymmetry
PROPERTY CommitsWhatItRead
