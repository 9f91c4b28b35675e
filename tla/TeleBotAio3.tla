------------------------------ MODULE TeleBotAio3 ------------------------------
(***************************************************************************)
(* The anomaly notification dispatcher of                                  *)
(* src/scripts/telegram-bot/xe-tele-bot-aio3.py: check_events() and the    *)
(* repeat() timer that starts it.                                          *)
(*                                                                         *)
(* check_events() makes two passes: the first over the .s files of one    *)
(* os.listdir (reply, green or yellow), the second over the .n files of a  *)
(* second os.listdir (red, e.-tmp renamed to e.p).  The state, the send    *)
(* loops and the environment are those of module CheckEvents.             *)
(***************************************************************************)
EXTENDS CheckEvents

TypeOK ==
    /\ files \in [Events -> [{"n", "s", "p", "tmp"} -> BOOLEAN]]
    /\ content \in [Events -> [{"p", "tmp"} -> Seq(Line)]]
    /\ msgs \in [Chats -> Seq(Msg)]
    /\ task \in [TaskIds -> [st : {"idle", "pass1", "pass2"},
                             todo : SUBSET Events, ev : Events,
                             kind : Kinds, targets : Seq(Line),
                             i : Nat, buf : Seq(Line)]]
    /\ hloc \in [TaskIds -> {"none", "tmp", "p", "gone"}]
    /\ created \in [Events -> SUBSET {"n", "s"}]
    /\ deleted \in [Chats -> SUBSET (1..MaxId)]
    /\ failures \in 0..MaxFailures /\ crashes \in 0..MaxCrashes
    /\ updates \subseteq Chats \X (1..MaxId)
-----------------------------------------------------------------------------
(***************************************************************************)
(* Running a task up to its next await.                                   *)
(***************************************************************************)

\* First pass, an e.s file: the branch is chosen by which of e.p and e.n
\* exist; e.p's lines are read before the first reply is sent.
BeginEnded(t, S, e, rest) ==
    LET kind == IF S.files[e].p THEN "reply"
                ELSE IF ~S.files[e].n THEN "green" ELSE "yellow"
    IN /\ task' = [task EXCEPT ![t] =
                    [st |-> "pass1", todo |-> rest, ev |-> e, kind |-> kind,
                     targets |-> IF kind = "reply" THEN S.content[e].p
                                 ELSE Broadcast,
                     i |-> 1, buf |-> <<>>]]
       /\ SetFS(S)

\* Second pass, an e.n file: open(e.-tmp, "w") creates or truncates the
\* staging file, then the red message goes to the first chat.
BeginStarted(t, S, e, rest) ==
    /\ task' = [task EXCEPT ![t] =
                 [st |-> "pass2", todo |-> rest, ev |-> e, kind |-> "red",
                  targets |-> Broadcast, i |-> 1, buf |-> <<>>]]
    /\ files' = [S.files EXCEPT ![e].tmp = TRUE]
    /\ content' = [S.content EXCEPT ![e].tmp = <<>>]
    /\ hloc' = [S.hloc EXCEPT ![t] = "tmp"]

\* The second os.listdir and its loop; files listed but no longer present
\* or not ending in .n are skipped.
SecondPass(t, S, todo) ==
    LET cand == {e \in todo : S.files[e].n} IN
    \/ /\ cand # {}
       /\ \E e \in cand : BeginStarted(t, S, e, cand \ {e})
    \/ /\ cand = {}
       /\ task' = [task EXCEPT ![t] = IdleTask]
       /\ SetFS(S)

\* Continue the loop of pass st over the listed files todo.
Advance(t, S, st, todo) ==
    IF st = "pass1"
    THEN LET cand == {e \in todo : S.files[e].s} IN
         \/ /\ cand # {}
            /\ \E e \in cand : BeginEnded(t, S, e, cand \ {e})
         \/ /\ cand = {}
            /\ SecondPass(t, S, {e \in Events : S.files[e].n})
    ELSE SecondPass(t, S, todo)

-----------------------------------------------------------------------------
(***************************************************************************)
(* Actions.                                                                *)
(***************************************************************************)

\* repeat(): the timer fires and a new check_events task lists MSGS_DIR
\* and runs to its first send_message.
Tick ==
    /\ \A c \in Chats : Len(Notifs(c)) < MaxMsgs
    /\ \E t \in TaskIds :
        /\ task[t].st = "idle"
        /\ Advance(t, Current, "pass1", {e \in Events : files[e].s})
    /\ UNCHANGED <<msgs, created, deleted, failures, crashes, updates>>
\* send_message returns: the next send of the same loop, or the end of
\* the loop, the file operations that follow it and the next marker.
Deliver(t) ==
    LET rec == task[t]
        buf == Record(t)
        S   == RunOps(Current, t, rec.ev, buf, FinishOps(rec.kind))
    IN
    /\ rec.st # "idle"
    /\ Accepted(Target(t))
    /\ msgs' = Post(t)
    /\ IF MoreTargets(rec)
       THEN /\ task' = [task EXCEPT ![t].i = @ + 1, ![t].buf = buf]
            /\ UNCHANGED <<files, content, hloc>>
       ELSE IF S.ok THEN Advance(t, S, rec.st, rec.todo)
            ELSE /\ SetFS(S)
                 /\ task' = [task EXCEPT ![t] = IdleTask]
    /\ UNCHANGED <<created, deleted, failures, crashes, updates>>

\* Bug variant: the handlers registered with dp.message only, so a
\* channel post reaches none of them.
HandlerNoChannelPost(c, x) ==
    IF c \in Channels THEN "none"
    ELSE CASE x \in {"/start", "/help"} -> "welcome"
           [] x = "/id"                 -> "chat_id"
           [] OTHER                     -> "none"

\* The handler dp runs for a message with text x in chat c: send_welcome
\* for /start and /help, send_id for /id, registered both with dp.message
\* and with dp.channel_post; any other text has no handler.
Handler(c, x) ==
    CASE x \in {"/start", "/help"} -> "welcome"
      [] x = "/id"                 -> "chat_id"
      [] OTHER                     -> "none"

\* Both handlers answer with message.reply.
Answer(c, k) == HandleUpdate(c, k, Handler(c, msgs[c][k].color), k)

Next ==
    \/ Tick
    \/ \E t \in TaskIds : Deliver(t) \/ SendFails(t) \/ SendRejected(t)
                          \/ CrashInFinish(t)
    \/ CrashAtAwait
    \/ \E e \in Events : DetectStart(e) \/ DetectEnd(e)
    \/ \E c \in Chats : DeleteMessage(c)
    \/ \E c \in Chats, x \in UserTexts : UserSends(c, x)
    \/ \E c \in Chats, k \in 1..MaxId : Answer(c, k)

\* The timer fires every POLL_INTERVAL; every send_message returns or
\* raises (aiogram's request timeout).  The detector and crashes are not
\* required to happen.
Fairness ==
    /\ WF_vars(Tick)
    /\ \A t \in TaskIds : WF_vars(Deliver(t) \/ SendFails(t) \/ SendRejected(t))
    /\ \A c \in Chats, k \in 1..MaxId : WF_vars(Answer(c, k))

Spec == Init /\ [][Next]_vars /\ Fairness

=============================================================================
