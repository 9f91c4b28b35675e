----------------------------- MODULE AnomalyNotify -----------------------------
(***************************************************************************)
(* What the notification dispatcher promises (spec.md 4.2, 8), per event   *)
(* and per chat, with no reference to marker files or message ids.        *)
(*                                                                         *)
(* The detector reports that an anomaly started, ended, or both.  Each    *)
(* chat is then told exactly one of:                                       *)
(*   - "red", later followed by its resolution ("red_green");             *)
(*   - "green": the anomaly ended and no start was ever reported;         *)
(*   - "yellow": start and end are reported together, in one message.     *)
(* The same story is told in every chat: an event is announced in red in  *)
(* some chats only if no chat got a yellow or a lone green for it.        *)
(***************************************************************************)
CONSTANTS Events, Chats

VARIABLES
    created,  \* created[e]: what the detector has reported of e, in {"n","s"}
    shown     \* shown[e][c]: what chat c has been told about e

vars == <<created, shown>>

States == {"none", "red", "red_green", "green", "yellow"}

TypeOK ==
    /\ created \in [Events -> SUBSET {"n", "s"}]
    /\ shown \in [Events -> [Chats -> States]]

Init ==
    /\ created = [e \in Events |-> {}]
    /\ shown = [e \in Events |-> [c \in Chats |-> "none"]]

\* The other chats have been told only states in ok.
OthersIn(e, ok) == \A d \in Chats : shown[e][d] \in ok

Start(e) ==
    /\ created[e] = {}
    /\ created' = [created EXCEPT ![e] = {"n"}]
    /\ UNCHANGED shown

End(e) ==
    /\ "s" \notin created[e]
    /\ created' = [created EXCEPT ![e] = @ \cup {"s"}]
    /\ UNCHANGED shown

Tell(e, c, from, to) ==
    /\ shown[e][c] = from
    /\ shown' = [shown EXCEPT ![e][c] = to]
    /\ UNCHANGED created

\* A new anomaly is announced.
Announce(e, c) ==
    /\ "n" \in created[e] /\ OthersIn(e, {"none", "red", "red_green"})
    /\ Tell(e, c, "none", "red")

\* An announced anomaly is resolved.
Resolve(e, c) == "s" \in created[e] /\ Tell(e, c, "red", "red_green")

\* An anomaly ended whose start was never reported.
EndAlone(e, c) ==
    /\ created[e] = {"s"} /\ OthersIn(e, {"none", "green"})
    /\ Tell(e, c, "none", "green")

\* Start and end reported together.
Fold(e, c) ==
    /\ created[e] = {"n", "s"} /\ OthersIn(e, {"none", "yellow"})
    /\ Tell(e, c, "none", "yellow")

Notify(e, c) == Announce(e, c) \/ Resolve(e, c) \/ EndAlone(e, c) \/ Fold(e, c)

Next ==
    \/ \E e \in Events : Start(e) \/ End(e)
    \/ \E e \in Events, c \in Chats : Notify(e, c)

\* Whatever a chat can be told about an event, it is eventually told.
Spec == Init /\ [][Next]_vars /\ \A e \in Events, c \in Chats : WF_vars(Notify(e, c))

=============================================================================
