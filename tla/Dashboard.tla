-------------------------------- MODULE Dashboard --------------------------------
(***************************************************************************)
(* The web dashboard of src/www/flask/app.py: login, logout, the dashboard *)
(* page and the chart data endpoint r.data, with the Permissions table.   *)
(*                                                                         *)
(* A permission row gives a user a monitoring object (mo_name) and the     *)
(* name of a template file xe-tmpl/<tmpl>.json.  A template is abstracted  *)
(* to its list of reports (the nav[s]["r"][r] entries, flattened to one    *)
(* index) and the number of charts of each.  Query results come in rowid   *)
(* order (SQLite scans the table; neither query has an ORDER BY).  Python  *)
(* list indexing accepts -n..n-1.  An exception is a 500 response.        *)
(***************************************************************************)
EXTENDS Integers, Sequences, FiniteSets

LOCAL Seqs == INSTANCE SequencesExt

CONSTANTS
    Browsers,     \* browsers, each with its own session cookie
    Users,        \* rows of the Users table
    MONames,      \* mo_name values
    TmplNames,    \* tmpl values of permission rows ("" included)
    NAV,          \* NAV[f]: chart counts of the reports of xe-tmpl/f.json;
                  \* DOMAIN NAV are the template files that exist
    RowIds,       \* bound: ids of Permissions rows
    Ints,         \* bound: integer s/r/c query arguments tried
    TrInts,       \* bound: integer tr query arguments tried
    DistinctMOs,  \* whether Permissions holds one row per (user, mo_name)
    NoArg, NoUser \* a missing query argument; the anonymous user

Args   == {NoArg} \cup Ints
\* mo arguments: missing, empty, the names in the table and one that is not.
MOArgs == {NoArg, "", "nosuch"} \cup MONames
Row  == [user : Users, mo : MONames, tmpl : TmplNames]

VARIABLES
    perms,    \* perms[id]: the Permissions row id, or NoRow
    session,  \* session[b]: the user logged in in browser b, or NoUser
    page,     \* page[b]: the page browser b shows
    req,      \* req[b]: the arguments of the last r.data request of b
    resp      \* resp[b]: the response to it

vars == <<perms, session, page, req, resp>>

NoRow   == [user |-> NoUser]
NoPage  == [kind |-> "none"]
NoResp  == [kind |-> "none"]
NoReq   == [user |-> NoUser]

TypeOK ==
    /\ perms \in [RowIds -> Row \cup {NoRow}]
    /\ session \in [Browsers -> Users \cup {NoUser}]
    /\ \A b \in Browsers :
          \/ page[b].kind \in {"none", "login", "err", "500"}
          \/ page[b] \in [kind : {"dash"}, user : Users, mo : MONames,
                          tmpl : DOMAIN NAV, rep : Ints, charts : Nat]
    /\ \A b \in Browsers :
          req[b] \in {NoReq} \cup [user : Users \cup {NoUser}, mo : MOArgs,
                                   rep : Args, c : Args]
    /\ \A b \in Browsers :
          \/ resp[b].kind \in {"none", "login", "400", "500"}
          \/ resp[b] \in [kind : {"data"}, user : Users, mo : MONames,
                          rep : Ints, c : Ints, tmpl : DOMAIN NAV,
                          chart : Nat, tr : Nat \ {0}]

\* The tables created by db.create_all(), with whatever rows they hold.
Init ==
    /\ perms \in [RowIds -> Row \cup {NoRow}]
    /\ DistinctMOs => \A i, j \in RowIds :
          (i # j /\ perms[i] # NoRow /\ perms[j] # NoRow) =>
              <<perms[i].user, perms[i].mo>> # <<perms[j].user, perms[j].mo>>
    /\ session = [b \in Browsers |-> NoUser]
    /\ page = [b \in Browsers |-> NoPage]
    /\ req = [b \in Browsers |-> NoReq]
    /\ resp = [b \in Browsers |-> NoResp]

-----------------------------------------------------------------------------

\* Permissions.query.filter_by(...).all(): the rows with rowids ids, in
\* rowid order.
RowsOf(ids) ==
    LET s == Seqs!SetToSortSeq(ids, <) IN [k \in DOMAIN s |-> perms[s[k]]]

\* The rowids of the user's rows, and of the user's rows for mo.
IdsOf(u)     == {i \in RowIds : perms[i] # NoRow /\ perms[i].user = u}
IdsFor(u, mo) == {i \in IdsOf(u) : perms[i].mo = mo}

\* g.mo in dashboard(): the user's rows.
UserRows(u) == RowsOf(IdsOf(u))

\* Bug variant of amo: the mo_name filter left out.
AmoAnyMO(u, mo)   == RowsOf(IdsOf(u))

\* amo in r_data(): the user's rows for mo.
Amo(u, mo) == RowsOf(IdsFor(u, mo))

\* Python truthiness of a query argument: missing and "" are false.
Falsy(a) == a \in {NoArg, ""}

\* Python indexing of a list of length n by i, and the position it reads.
PyOk(n, i)  == -n <= i /\ i < n
PyPos(n, i) == IF i < 0 THEN n + i ELSE i

\* template_name = row.tmpl, or 'default' when empty.
TmplFile(t) == IF t = "" THEN "default" ELSE t

\* Bug variant: a zero arg_tr kept.
TimeRangeZero(a) == IF a = NoArg THEN 21600 ELSE IF a < 0 THEN 21600 ELSE a

\* arg_tr: 21600 when missing or not positive.
TimeRange(a) == IF a = NoArg THEN 21600 ELSE IF a <= 0 THEN 21600 ELSE a

-----------------------------------------------------------------------------
(***************************************************************************)
(* Requests.  A request runs to its response without interleaving with     *)
(* another request of the same browser; @login_required answers a         *)
(* browser with no session with a redirect to the login page.             *)
(***************************************************************************)

\* POST /lk/login: check_password_hash, then login_user and a redirect to
\* the dashboard, or the form again with an error.  pwOk also stands for
\* an unknown username.
Login(b, u, pwOk) ==
    /\ session' = IF pwOk THEN [session EXCEPT ![b] = u] ELSE session
    /\ page' = [page EXCEPT ![b] = IF pwOk THEN NoPage ELSE [kind |-> "login"]]
    /\ UNCHANGED <<perms, req, resp>>

\* /lk/logout: logout_user and a redirect, through the dashboard, to the
\* login page.
Logout(b) ==
    /\ session' = [session EXCEPT ![b] = NoUser]
    /\ page' = [page EXCEPT ![b] = [kind |-> "login"]]
    /\ UNCHANGED <<perms, req, resp>>

\* GET /lk/dashboard?mo=..&s=..&r=..: the object is the user's first row
\* when mo is missing or empty, else the LAST row with that mo_name (the
\* loop has no break); its template file is loaded and the report read.
Dashboard(b, moArg, repArg) ==
    LET u    == session[b]
        mos  == UserRows(u)
        hits == SelectSeq(mos, LAMBDA r : r.mo = moArg)
        curr == IF Falsy(moArg) THEN mos[1] ELSE hits[Len(hits)]
        f    == TmplFile(curr.tmpl)
        rep  == IF repArg = NoArg THEN 0 ELSE repArg
    IN
    /\ page' = [page EXCEPT ![b] =
         CASE u = NoUser                   -> [kind |-> "login"]
           [] mos = <<>>                   -> [kind |-> "err"]
           [] ~Falsy(moArg) /\ hits = <<>> -> [kind |-> "err"]
           [] f \notin DOMAIN NAV          -> [kind |-> "500"]
           [] ~PyOk(Len(NAV[f]), rep)      -> [kind |-> "500"]
           [] OTHER -> [kind |-> "dash", user |-> u, mo |-> curr.mo,
                        tmpl |-> f, rep |-> rep,
                        charts |-> NAV[f][PyPos(Len(NAV[f]), rep) + 1]]]
    /\ UNCHANGED <<perms, session, req, resp>>

\* GET /lk/: a redirect to the dashboard with no arguments.
Root(b) == Dashboard(b, NoArg, NoArg)

\* GET /lk/r.data?mo=..&s=..&r=..&c=..&tr=..: the user's FIRST row for mo
\* (an empty mo allowed), its template, and the chart's query run with
\* $mo and $tr replaced.
RData(b, moArg, repArg, cArg, trArg) ==
    LET u   == session[b]
        mo  == IF Falsy(moArg) THEN "" ELSE moArg
        amo == Amo(u, mo)
        f   == TmplFile(amo[1].tmpl)
        n   == Len(NAV[f])
        k   == NAV[f][PyPos(n, repArg) + 1]
    IN
    /\ req' = [req EXCEPT ![b] = [user |-> u, mo |-> mo, rep |-> repArg,
                                   c |-> cArg]]
    /\ resp' = [resp EXCEPT ![b] =
         CASE u = NoUser                          -> [kind |-> "login"]
           [] amo = <<>>                          -> [kind |-> "400"]
           [] repArg = NoArg \/ cArg = NoArg      -> [kind |-> "400"]
           [] f \notin DOMAIN NAV                 -> [kind |-> "500"]
           [] ~PyOk(n, repArg) \/ ~PyOk(k, cArg)  -> [kind |-> "500"]
           [] OTHER -> [kind |-> "data", user |-> u, mo |-> mo, rep |-> repArg,
                        c |-> cArg, tmpl |-> f, chart |-> PyPos(k, cArg),
                        tr |-> TimeRange(trArg)]]
    /\ UNCHANGED <<perms, session, page>>

Next ==
    \E b \in Browsers :
        \/ \E u \in Users, ok \in BOOLEAN : Login(b, u, ok)
        \/ Logout(b)
        \/ Root(b)
        \/ \E mo \in MOArgs, rep \in Args : Dashboard(b, mo, rep)
        \/ \E mo \in MOArgs, rep, c \in Args, tr \in {NoArg} \cup TrInts :
              RData(b, mo, rep, c, tr)

Spec == Init /\ [][Next]_vars

-----------------------------------------------------------------------------
(***************************************************************************)
(* Properties.                                                             *)
(***************************************************************************)

\* The last r.data request of b is one the dashboard page shown in b makes
\* (dashboard.html asks for each chart of the report it shows).
FromPage(b) ==
    /\ page[b].kind = "dash" /\ req[b] # NoReq
    /\ req[b].user = page[b].user /\ req[b].mo = page[b].mo
    /\ req[b].rep = page[b].rep /\ req[b].c \in 0..page[b].charts - 1

\* A chart the dashboard page shows gets its data from the same template:
\* dashboard() and r_data() pick the permission row for mo separately, and
\* the template of that row decides both the charts on the page and the
\* query r.data runs for chart c.
PageDataConsistent ==
    \A b \in Browsers :
        FromPage(b) => /\ resp[b].kind = "data"
                       /\ resp[b].tmpl = page[b].tmpl
                       /\ resp[b].chart = req[b].c

=============================================================================
