--------------------------- MODULE MC_TeleBotAio3 ---------------------------
(* Model values and bounds for checking TeleBotAio3 with TLC. *)
EXTENDS TeleBotAio3, TLC

CONSTANTS c1, c2

\* CHATS = [c1, c2]
MC_CHATS == <<c1, c2>>

\* CHATS = [c1]
MC_CHATS1 == <<c1>>
=============================================================================
