----------------------------- MODULE MC_Dashboard -----------------------------
(* Model values and bounds for checking Dashboard with TLC. *)
EXTENDS Dashboard

\* xe-tmpl/default.json: one report with one chart; xe-tmpl/t1.json: two
\* reports, with two charts and one chart.  There is no xe-tmpl/t9.json.
MC_NAV == [f \in {"default", "t1"} |-> IF f = "default" THEN <<1>> ELSE <<2, 1>>]

\* DistinctMOs: whether Init only takes tables with one row per (user, mo).
MC_DistinctOnly == TRUE

\* Integer s/r/c arguments: the first entry, and -2 (the first of two,
\* out of range for one).  tr arguments: not positive, and positive.
MC_Ints   == {-2, 0}
MC_TrInts == {0, 600}
MC_AnyRows      == FALSE
=============================================================================
