------------------------------ MODULE MC_Charts ---------------------------------
(***************************************************************************)
(* Three sources: TCP sources of AS a1 (host h1) and AS a2 (host h2), and *)
(* a UDP source of AS a3 without a host.  Three sample times, the last    *)
(* two within the interval.                                               *)
(***************************************************************************)
EXTENDS Charts

MC_Times   == {0, 1, 2}
MC_Recent  == {1, 2}
MC_Sources == {"s1", "s2", "s3"}
MC_AsOf    == [s \in MC_Sources |-> CASE s = "s1" -> "a1"
                                      [] s = "s2" -> "a2"
                                      [] OTHER    -> "a3"]
MC_ProtoOf == [s \in MC_Sources |-> IF s = "s3" THEN "udp" ELSE "tcp"]
MC_HostOf  == [s \in MC_Sources |-> CASE s = "s1" -> "h1"
                                      [] s = "s2" -> "h2"
                                      [] OTHER    -> NULL]
=============================================================================
