-------------------------------- MODULE TeleBot --------------------------------
(***************************************************************************)
(* The anomaly notification dispatcher of                                  *)
(* src/scripts/telegram-bot/xe-tele-bot.py (aiogram 2): check_events() and *)
(* the repeat() timer that starts it.                                      *)
(*                                                                         *)
(* check_events() makes one pass over one os.listdir, in its order, and    *)
(* handles an e.s (yellow if e.n is there, else green, as a reply to the   *)
(* lines of e.- if that exists) or an e.n (red, e.-tmp renamed to e.-)     *)
(* as it meets it.  The sent record e.- is the file "p" of MarkerDir.     *)
(* The state, the send loops and the environment are those of module      *)
(* CheckEvents.                                                            *)
(***************************************************************************)
EXTENDS CheckEvents

\* A listed marker: <<event id, extension>>.
Markers == Events \X {"s", "n"}

TypeOK ==
    /\ files \in [Events -> [{"n", "s", "p", "tmp"} -> BOOLEAN]]
    /\ content \in [Events -> [{"p", "tmp"} -> Seq(Line)]]
    /\ msgs \in [Chats -> Seq(Msg)]
    /\ task \in [TaskIds -> [st : {"idle", "busy"}, todo : SUBSET Markers,
                             ev : Events, kind : Kinds, targets : Seq(Line),
                             i : Nat, buf : Seq(Line)]]
    /\ hloc \in [TaskIds -> {"none", "tmp", "p", "gone"}]
    /\ created \in [Events -> SUBSET {"n", "s"}]
    /\ deleted \in [Chats -> SUBSET (1..MaxId)]
    /\ failures \in 0..MaxFailures /\ crashes \in 0..MaxCrashes
    /\ updates \subseteq Chats \X (1..MaxId)

-----------------------------------------------------------------------------
(***************************************************************************)
(* Running a task up to its next await.                                   *)
(***************************************************************************)

\* Bug variant: the e.n test left out, so an e.s never gives a yellow.
BranchNoYellow(S, e) == IF ~S.files[e].p THEN "green" ELSE "reply"

\* An e.s: yellow if e.n exists, else green, sent as replies to the lines
\* of e.- if that exists.
Branch(S, e) ==
    IF S.files[e].n THEN "yellow"
    ELSE IF ~S.files[e].p THEN "green" ELSE "reply"

BeginEnded(t, S, e, rest) ==
    LET kind == Branch(S, e) IN
    /\ task' = [task EXCEPT ![t] =
                 [st |-> "busy", todo |-> rest, ev |-> e, kind |-> kind,
                  targets |-> IF kind = "reply" THEN S.content[e].p
                              ELSE Broadcast,
                  i |-> 1, buf |-> <<>>]]
    /\ SetFS(S)

\* An e.n: open(e.-tmp, "w") creates or truncates the staging file, then
\* the red message goes to the first chat.
BeginStarted(t, S, e, rest) ==
    /\ task' = [task EXCEPT ![t] =
                 [st |-> "busy", todo |-> rest, ev |-> e, kind |-> "red",
                  targets |-> Broadcast, i |-> 1, buf |-> <<>>]]
    /\ files' = [S.files EXCEPT ![e].tmp = TRUE]
    /\ content' = [S.content EXCEPT ![e].tmp = <<>>]
    /\ hloc' = [S.hloc EXCEPT ![t] = "tmp"]

\* The loop over the listed files goes on with the next one, in
\* os.listdir order, that is still a file (os.path.isfile); it ends when
\* none is left.  Choosing the next file at each step gives the same
\* behaviours as fixing the order at the listing.
Advance(t, S, todo) ==
    LET cand == {f \in todo : S.files[f[1]][f[2]]} IN
    \/ /\ cand = {}
       /\ task' = [task EXCEPT ![t] = IdleTask]
       /\ SetFS(S)
    \/ \E f \in cand :
          IF f[2] = "s" THEN BeginEnded(t, S, f[1], cand \ {f})
          ELSE BeginStarted(t, S, f[1], cand \ {f})

-----------------------------------------------------------------------------
(***************************************************************************)
(* Actions.                                                                *)
(***************************************************************************)

\* repeat(): the timer fires and a new check_events task lists MSGS_DIR
\* (the .s and .n files) and runs to its first send_message.
Tick ==
    /\ \A c \in Chats : Len(Notifs(c)) < MaxMsgs
    /\ \E t \in TaskIds :
        /\ task[t].st = "idle"
        /\ Advance(t, Current, {f \in Markers : files[f[1]][f[2]]})
    /\ UNCHANGED <<msgs, created, deleted, failures, crashes, updates>>

\* send_message returns: the next send of the same loop, or the end of
\* the loop, the file operations that follow it and the next file.
Deliver(t) ==
    LET rec == task[t]
        buf == Record(t)
        S   == RunOps(Current, t, rec.ev, buf, FinishOps(rec.kind))
    IN
    /\ rec.st # "idle"
    /\ Accepted(Target(t))
    /\ msgs' = Post(t)
    /\ IF MoreTargets(rec)
       THEN /\ task' = [task EXCEPT ![t].i = @ + 1, ![t].buf = buf]
            /\ UNCHANGED <<files, content, hloc>>
       ELSE IF S.ok THEN Advance(t, S, rec.todo)
            ELSE /\ SetFS(S)
                 /\ task' = [task EXCEPT ![t] = IdleTask]
    /\ UNCHANGED <<created, deleted, failures, crashes, updates>>

\* The handler dp runs for a message with text x in chat c: send_welcome
\* for /start and /help, send_id for /id and the catch-all any() for every
\* other text.  All are message handlers; a channel post has none.
Handler(c, x) ==
    IF c \in Channels THEN "none"
    ELSE CASE x \in {"/start", "/help"} -> "welcome"
           [] x = "/id"                 -> "chat_id"
           [] OTHER                     -> "only_cmds"

\* send_welcome and send_id use message.reply, any() message.answer.
Answer(c, k) ==
    LET a == Handler(c, msgs[c][k].color) IN
    HandleUpdate(c, k, a, IF a = "only_cmds" THEN 0 ELSE k)

Next ==
    \/ Tick
    \/ \E t \in TaskIds : Deliver(t) \/ SendFails(t) \/ SendRejected(t)
                          \/ CrashInFinish(t)
    \/ CrashAtAwait
    \/ \E e \in Events : DetectStart(e) \/ DetectEnd(e)
    \/ \E c \in Chats : DeleteMessage(c)
    \/ \E c \in Chats, x \in UserTexts : UserSends(c, x)
    \/ \E c \in Chats, k \in 1..MaxId : Answer(c, k)

\* The timer fires every POLL_INTERVAL; every send_message returns or
\* raises (aiohttp's request timeout).  The detector, chat members and
\* crashes are not required to act.
Fairness ==
    /\ WF_vars(Tick)
    /\ \A t \in TaskIds : WF_vars(Deliver(t) \/ SendFails(t) \/ SendRejected(t))
    /\ \A c \in Chats, k \in 1..MaxId : WF_vars(Answer(c, k))

Spec == Init /\ [][Next]_vars /\ Fairness

=============================================================================
