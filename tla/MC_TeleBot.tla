--------------------------- MODULE MC_TeleBot ---------------------------
(* Model values and bounds for checking TeleBot with TLC. *)
EXTENDS TeleBot, TLC

CONSTANTS c1, c2

\* CHATS = [c1, c2]
MC_CHATS == <<c1, c2>>

\* CHATS = [c1]
MC_CHATS1 == <<c1>>
=============================================================================
