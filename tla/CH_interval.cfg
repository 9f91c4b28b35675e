\* Any traffic table over three sample times and three sources; top_ases
\* keeps two ASes and topips one host.
CONSTANTS
    Times <- MC_Times
    Recent <- MC_Recent
    Sources <- MC_Sources
    AsOf <- MC_AsOf
    ProtoOf <- MC_ProtoOf
    HostOf <- MC_HostOf
    Octs = {1, 2}
    TOP = 2
    N_IPS = 1
    NULL = NULL
SPECIFICATION Spec
INVARIANT ChartsShowInterval
CHECK_DEADLOCK FALSE
