\* One browser, two users, Permissions with two rows, possibly two for
\* the same (user, mo_name): is the chart data from the page's template?
CONSTANTS
    Browsers = {b1}
    Users = {u1, u2}
    MONames = {"", "m1"}
    TmplNames = {"", "t1", "t9"}
    NAV <- MC_NAV
    RowIds = {1, 2}
    Ints <- MC_Ints
    TrInts <- MC_TrInts
    DistinctMOs <- MC_AnyRows
    NoArg = NoArg
    NoUser = NoUser
SPECIFICATION Spec
INVARIANT PageDataConsistent
