\* One browser, two users, Permissions with two rows and at most one row
\* per (user, mo_name).
CONSTANTS
    Browsers = {b1}
    Users = {u1, u2}
    MONames = {"", "m1"}
    TmplNames = {"", "t1", "t9"}
    NAV <- MC_NAV
    RowIds = {1, 2}
    Ints <- MC_Ints
    TrInts <- MC_TrInts
    DistinctMOs <- MC_DistinctOnly
    NoArg = NoArg
    NoUser = NoUser
SPECIFICATION Spec
INVARIANT TypeOK
INVARIANT PageDataConsistent
