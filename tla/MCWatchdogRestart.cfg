SPECIFICATION Spec
CONSTANTS
    Admins = {t1, t2, t3}
    Models = {m1}
    Kinds = {"run", "lru"}
    NoAdmin = NoAdmin
SYMMETRY Symmetry
INVARIANTS NoDoubleClose OneRun
CHECK_DEADLOCK FALSE
