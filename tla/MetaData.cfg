\* Two objects (a response's and a caller's), two texts, one key.
CONSTANTS
    Obj = {o1, o2}
    Texts = {"content-type", "content-range"}
    Settable = {"content-type"}
    Keys = {"uid"}
    Headers <- MCHeaders
    Values = {"text"}
    Total <- MCTotal
    Number <- MCNumber
    Cell = {c1, c2, c3, c4, c5}
    Absent = Absent
SYMMETRY CellSymmetry
SPECIFICATION MetaSpec
INVARIANTS
    OneOwner
    SeesReply
PROPERTY StandAlone
