SPECIFICATION Spec
CONSTANTS
    a = a
    b = b
    i = i
    j = j
    u = u
    v = v
    Projects = {a, b}
    Issues = {i, j}
    Columns = {"status"}
    EavFields = {"labels"}
    Vals = {u, v}
    Dimensions = {"status", "labels"}
    MaxChanges = 6
SYMMETRY Sym
INVARIANTS ProfileIsExact NoAxisIsMissing
