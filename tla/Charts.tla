------------------------------- MODULE Charts ----------------------------------
(***************************************************************************)
(* The chart scripts of src/scripts.  Two pies: mkchart-prot-mpl.py       *)
(* (traffic by IP protocol) and mkchart-matplotlib-donut-as.py (by source  *)
(* AS: the TOP busiest ASes and an 'Others' row).  Two bar charts:         *)
(* mkchart-matplotlib-ts.py (total traffic per sample) and                 *)
(* mkchart-matplotlib-ts-ip.py (per sample, stacked by the N_IPS busiest   *)
(* source hosts and 'Other').  Each script runs one query, copies the rows *)
(* into lists and hands them, with labels or a bar width, to matplotlib.   *)
(*                                                                         *)
(* The database is one traffic table, flows, with a row per sample time   *)
(* and source (0: no row); ingress_proto, ingress_bytes_by_src_as,         *)
(* ingress_all and ingress_bytes_by_src are its sums per protocol, AS,     *)
(* time and host.  A source stands for one (AS, protocol, host).  The      *)
(* interval is the set Recent of sample times, each its own 30-minute      *)
(* bucket of ts-ip.                                                        *)
(* Nothing in a script runs concurrently with anything else, so each       *)
(* script is one step from its query to plt.pie.                           *)
(***************************************************************************)
EXTENDS Integers, FiniteSets, Sequences

LOCAL INSTANCE SequencesExt

CONSTANTS
    Times,     \* sample times
    Recent,    \* the sample times within INTERVAL of now()
    Sources,   \* traffic sources
    AsOf,      \* src_as of a source
    ProtoOf,   \* iana_protocols.name of a source's protocol number
    HostOf,    \* src_host of a source, NULL when the collector has none
    Octs,      \* octet counts a row may hold
    TOP,       \* LIMIT of top_ases (15 in the script)
    N_IPS,     \* LIMIT of topips (10 in the script)
    NULL       \* SQL NULL, None in Python

ASSUME /\ Recent \subseteq Times
       /\ Octs \subseteq Nat \ {0}
       /\ TOP \in Nat \ {0} /\ N_IPS \in Nat \ {0}
       /\ Times \subseteq Int

\* PTHRESHOLD of each script, in percent.
PROT_PTHRESHOLD == 4
AS_PTHRESHOLD   == 2

Pies    == {"prot", "donut"}
Scripts == Pies \cup {"ts", "tsip"}

VARIABLES
    flows,   \* the traffic table
    out      \* what each script ended with

vars == <<flows, out>>

Cell  == Times \X Sources
Keys  == {AsOf[s] : s \in Sources} \cup {ProtoOf[s] : s \in Sources}
         \cup {HostOf[s] : s \in Sources} \cup {"Others", "Other"}
Wedge == [key : Keys, oct : Nat, shown : BOOLEAN]
NoRun == [st |-> "none"]

TypeOK ==
    /\ flows \in [Cell -> {0} \cup Octs]
    /\ out \in [Scripts -> {NoRun}
                           \cup [st : {"error"}, exc : {"TypeError", "ValueError"}]
                           \cup [st : {"chart"}, wedges : SUBSET Wedge]
                           \cup [st : {"chart"}, width : Int]
                           \cup [st : {"chart"}, bars : SUBSET (Times \X Keys \X Nat)]]
-----------------------------------------------------------------------------
(***************************************************************************)
(* The queries.                                                            *)
(***************************************************************************)

\* The rows among cells, and the sum(octets) of a set of rows.
Rows(cells)     == {c \in cells : flows[c] # 0}
OctetsOf(cells) == MapThenSumSet(LAMBDA c : flows[c], cells)

\* where time >= now() - interval '...'
InInterval == {c \in Cell : c[1] \in Recent}

\* mkchart-prot-mpl.py: sum(octets) per protocol name over the interval,
\* one row per name that has traffic.  The order (order by oct desc) only
\* orders the wedges.
ProtRows ==
    LET cs == Rows(InInterval) IN
    {[key |-> n, oct |-> OctetsOf({c \in cs : ProtoOf[c[2]] = n})] :
        n \in {ProtoOf[c[2]] : c \in cs}}

\* The interval's traffic of AS a, and the ASes with traffic in it.
IntervalOctets(a) == OctetsOf({c \in Rows(InInterval) : AsOf[c[2]] = a})
ActiveAses        == {AsOf[c[2]] : c \in Rows(InInterval)}

\* order by oct desc limit n over the keys with traffic f: keys tied at
\* the limit may come in either order, so any of them may be cut.
TopN(keys, n, f) ==
    {T \in SUBSET keys :
        /\ Cardinality(T) = IF Cardinality(keys) < n THEN Cardinality(keys) ELSE n
        /\ \A a \in T, b \in keys \ T : f[a] >= f[b]}

\* top_ases.
TopAses == TopN(ActiveAses, TOP, [a \in ActiveAses |-> IntervalOctets(a)])

\* The 'Others' row: sum(octets) of every row of the table whose AS is not
\* in top_ases (the query has no time condition here), NULL over no rows.
OthersOctets(T) ==
    LET cs == {c \in Rows(Cell) : AsOf[c[2]] \notin T}
    IN IF cs = {} THEN NULL ELSE OctetsOf(cs)

\* The query's result: top_ases union all the 'Others' row.
DonutRows(T) ==
    {[key |-> a, oct |-> IntervalOctets(a)] : a \in T}
    \cup {[key |-> "Others", oct |-> OthersOctets(T)]}

\* mkchart-matplotlib-ts.py: ingress_all has a row for each sample time
\* with traffic.  The query has no order by: the rows come in any order.
SampleTimes == {c[1] : c \in Rows(InInterval)}

\* wd = np.min(np.diff(dates.date2num(date_time))) * 1.1, in tenths of a
\* sample step, for two or more rows.
BarWidth(order) == 11 * Min({order[i + 1] - order[i] : i \in 1..Len(order) - 1})

\* mkchart-matplotlib-ts-ip.py.  COALESCE(src_host::text, 'Other'):
HostKey(h) == IF h = NULL THEN "Other" ELSE h

\* ingress_bytes_by_src: the octets of host h at time t, and the hosts
\* with a row at t.
HostOctets(t, h) == OctetsOf({c \in Rows({t} \X Sources) : HostOf[c[2]] = h})
HostsAt(t)       == {HostOf[c[2]] : c \in Rows({t} \X Sources)}

\* topips: the N_IPS busiest keys of the interval.
ActiveKeys == {HostKey(HostOf[c[2]]) : c \in Rows(InInterval)}
TopIps ==
    TopN(ActiveKeys, N_IPS,
         [k \in ActiveKeys |->
            OctetsOf({c \in Rows(InInterval) : HostKey(HostOf[c[2]]) = k})])

\* The report: <<time, octets, ips>> rows of the top hosts, of the other
\* hosts as 'Other' and of the rows without a host as 'Other', joined by
\* UNION, which keeps one of equal rows.
Report(T) ==
    LET at == {th \in Recent \X {HostOf[s] : s \in Sources} : th[2] \in HostsAt(th[1])}
    IN {<<th[1], HostOctets(th[1], th[2]), th[2]>> : th \in {x \in at : x[2] \in T}}
       \cup {<<th[1], HostOctets(th[1], th[2]), "Other">> : th \in {x \in at : x[2] \notin T}}

\* GROUP BY time, ips, then pivot_table(aggfunc='sum'): per time and ips,
\* the sum of the report's rows.
Bars(T) ==
    LET R == Report(T) IN
    {<<r[1], r[3], MapThenSumSet(LAMBDA x : x[2], {x \in R : x[1] = r[1] /\ x[3] = r[3]})>> :
        r \in R}
-----------------------------------------------------------------------------
(***************************************************************************)
(* The label loop and plt.pie, shared by both scripts.                     *)
(***************************************************************************)

\* sm = sum(octets) raises TypeError when a row is NULL.  With no rows the
\* loop does nothing and plt.pie gets empty lists: it draws an empty chart
\* or raises, depending on the matplotlib version.  Otherwise every row is
\* a wedge in proportion to its octets, and its name stays on the pie
\* unless 100 * octets[i] / sm < PTHRESHOLD.
Pie(rows, thr) ==
    LET sm == MapThenSumSet(LAMBDA r : r.oct, rows) IN
    CASE \E r \in rows : r.oct = NULL ->
            {[st |-> "error", exc |-> "TypeError"]}
      [] rows = {} ->
            {[st |-> "chart", wedges |-> {}], [st |-> "error", exc |-> "ValueError"]}
      [] OTHER ->
            {[st |-> "chart",
              wedges |-> {[key |-> r.key, oct |-> r.oct,
                           shown |-> ~(100 * r.oct < thr * sm)] : r \in rows}]}
-----------------------------------------------------------------------------
(***************************************************************************)
(* Actions: one run of each script.                                        *)
(***************************************************************************)

RunProt ==
    /\ out["prot"] = NoRun
    /\ \E o \in Pie(ProtRows, PROT_PTHRESHOLD) : out' = [out EXCEPT !["prot"] = o]
    /\ UNCHANGED flows

RunDonut ==
    /\ out["donut"] = NoRun
    /\ \E T \in TopAses :
          \E o \in Pie(DonutRows(T), AS_PTHRESHOLD) :
             out' = [out EXCEPT !["donut"] = o]
    /\ UNCHANGED flows

\* np.min of the empty np.diff of fewer than two rows raises ValueError.
RunTs ==
    /\ out["ts"] = NoRun
    /\ \E order \in SetToSeqs(SampleTimes) :
          out' = [out EXCEPT !["ts"] =
                    IF Len(order) < 2 THEN [st |-> "error", exc |-> "ValueError"]
                    ELSE [st |-> "chart", width |-> BarWidth(order)]]
    /\ UNCHANGED flows

\* With no rows, table.plot.bar of an empty pivot table raises or draws
\* nothing, depending on the pandas version.
RunTsIp ==
    /\ out["tsip"] = NoRun
    /\ \E T \in TopIps :
          \E o \in IF Report(T) = {}
                   THEN {[st |-> "chart", bars |-> {}], [st |-> "error", exc |-> "TypeError"]}
                   ELSE {[st |-> "chart", bars |-> Bars(T)]} :
             out' = [out EXCEPT !["tsip"] = o]
    /\ UNCHANGED flows

Init ==
    /\ flows \in [Cell -> {0} \cup Octs]
    /\ out = [s \in Scripts |-> NoRun]

Next == RunProt \/ RunDonut \/ RunTs \/ RunTsIp

Spec == Init /\ [][Next]_vars
-----------------------------------------------------------------------------
(***************************************************************************)
(* Properties.                                                             *)
(***************************************************************************)

IntervalTotal == OctetsOf(Rows(InInterval))

\* The interval's traffic that a wedge of script s stands for: a protocol,
\* an AS, or for 'Others' every AS without a wedge of its own.
KeyTraffic(s, w, ws) ==
    CASE s = "prot"       -> OctetsOf({c \in Rows(InInterval) : ProtoOf[c[2]] = w.key})
      [] w.key = "Others" -> OctetsOf({c \in Rows(InInterval) :
                                          AsOf[c[2]] \notin {v.key : v \in ws}})
      [] OTHER            -> IntervalOctets(w.key)

\* A pie chart shows the traffic of the last INTERVAL: whenever the
\* interval had traffic, each script draws its pie, and every wedge's share
\* of the pie is its protocol's, AS's or the remaining ASes' share of that
\* traffic.  About the query, the sum over the rows and the label loop of
\* both scripts.
PiesShowInterval ==
    \A s \in Pies :
        /\ out[s].st = "error" => IntervalTotal = 0
        /\ out[s].st = "chart" =>
              LET ws == out[s].wedges
                  sm == MapThenSumSet(LAMBDA w : w.oct, ws)
              IN \A w \in ws : w.oct * IntervalTotal = KeyTraffic(s, w, ws) * sm

\* The traffic of sample time t.
TotalAt(t) == OctetsOf(Rows({t} \X Sources))

\* A bar chart shows the traffic of the last INTERVAL: whenever the interval
\* had traffic, each script draws its bars; the bars of ts have a positive
\* width, and the stack of ts-ip at each sample time adds up to the
\* traffic of that time.  About the unordered query and the bar width of
\* ts, and the UNION, grouping and pivot of ts-ip.
SeriesShowInterval ==
    /\ \A s \in {"ts", "tsip"} : out[s].st = "error" => IntervalTotal = 0
    /\ out["ts"].st = "chart" => out["ts"].width > 0
    /\ out["tsip"].st = "chart" =>
          \A t \in Recent :
             MapThenSumSet(LAMBDA b : b[3], {b \in out["tsip"].bars : b[1] = t}) = TotalAt(t)

\* Every chart shows the traffic of its interval.
ChartsShowInterval == PiesShowInterval /\ SeriesShowInterval
=============================================================================
