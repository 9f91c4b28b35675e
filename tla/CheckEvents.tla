------------------------------ MODULE CheckEvents ------------------------------
(***************************************************************************)
(* What the two Telegram bots of src/scripts/telegram-bot share:          *)
(* check_events() of xe-tele-bot-aio3.py (aiogram 3) and of xe-tele-bot.py *)
(* (aiogram 2) differ only in the order in which they visit the marker     *)
(* files (modules TeleBotAio3 and TeleBot).  This module holds their      *)
(* common state, the send loops and the file operations that end a        *)
(* branch, the environment (Telegram, the detector, chat members, process  *)
(* crashes) and the properties both are checked against.                  *)
(*                                                                         *)
(* The marker directory MSGS_DIR holds, per event id e, the files e.n      *)
(* (anomaly started), e.s (anomaly ended), both written by the detector,   *)
(* the sent record "p" (e.p in the aiogram 3 bot, e.- in the aiogram 2     *)
(* bot: chat:message_id lines of the red messages) and its staging file   *)
(* e.-tmp, both written by check_events.                                   *)
(*                                                                         *)
(* repeat() calls asyncio.ensure_future(check_events()) every              *)
(* POLL_INTERVAL seconds whether or not the previous call has returned,    *)
(* so several check_events tasks can be alive at once.  A task runs        *)
(* without interruption between two awaits; the only awaits are the        *)
(* bot.send_message calls.  One step of a task is therefore: the answer   *)
(* of one send_message arrives, and the task runs on to the next           *)
(* send_message request (or to its end).  The file operations of such a    *)
(* step are applied in code order, and the process may crash between any  *)
(* two of them.                                                            *)
(***************************************************************************)
EXTENDS Naturals, Sequences, SequencesExt, FiniteSets, MarkerDir

CONSTANTS
    Events,       \* event ids: the <event-id> part of the marker file names
    CHATS,        \* the CHATS list: a sequence of distinct chat ids
    MaxTasks,     \* bound: check_events tasks alive at the same time
    MaxFailures,  \* bound: send_message calls that raise
    MaxCrashes,   \* bound: crashes of the bot process
    MaxMsgs,      \* bound: messages per chat; the timer stops at this count
    MaxDeletes,   \* bound: bot messages deleted by chat members
    Channels,     \* the chats of CHATS that are channels (channel_post updates)
    MaxCmds       \* bound: messages users send to the bot

ASSUME /\ Len(CHATS) >= 1 /\ IsInjective(CHATS)
       /\ MaxTasks \in Nat \ {0}
       /\ {MaxFailures, MaxCrashes, MaxMsgs, MaxDeletes, MaxCmds} \subseteq Nat
       /\ Channels \subseteq Range(CHATS)

Chats   == Range(CHATS)
TaskIds == 1..MaxTasks
Colors  == {"red", "green", "yellow"}
\* Telegram numbers the messages of a chat, the users' included.
MaxId   == MaxMsgs + MaxTasks + 2 * MaxCmds
\* A line "chat_id:message_id" of an e.p file; in a send target, message
\* id 0 stands for "no reply_to_message_id".
Line    == Chats \X (0..MaxId)
\* What users write to the bot, and what its command handlers answer.
UserTexts == {"/start", "/help", "/id", "text"}
Answers   == {"welcome", "chat_id", "only_cmds"}
\* The ev of a message that is not about an anomaly.
NoEvent == "none"
Msg     == [ev : Events \cup {NoEvent}, color : Colors \cup UserTexts \cup Answers,
            reply : 0..MaxId]
Kinds   == {"reply", "green", "yellow", "red"}

VARIABLES
    files,    \* files[e][x]: whether MSGS_DIR/e.x exists, x in {n,s,p,tmp}
    content,  \* content[e].p, content[e].tmp: the lines of e.p and e.-tmp
    msgs,     \* msgs[c]: the messages posted in chat c; a message id is
              \* its index (Telegram numbers messages per chat)
    task,     \* task[t]: the state of the check_events task in slot t
    hloc,     \* hloc[t]: where the file object f of task t writes to:
              \* "tmp", "p" (e.-tmp was renamed), "gone" (that e.p was
              \* replaced) or "none" (closed)
    created,  \* created[e]: the markers the detector has written for e
    deleted,  \* deleted[c]: ids of the messages deleted from chat c
    failures, \* number of send_message calls that raised
    crashes,  \* number of process crashes
    updates   \* the user messages <<c, k>> that dp.start_polling has
              \* fetched and whose handler has not finished

vars == <<files, content, msgs, task, hloc, created, deleted, failures,
          crashes, updates>>

IdleTask == [st |-> "idle", todo |-> {}, ev |-> CHOOSE e \in Events : TRUE,
             kind |-> "red", targets |-> <<>>, i |-> 0, buf |-> <<>>]

Init ==
    /\ files = [e \in Events |-> NoFiles]
    /\ content = [e \in Events |-> [p |-> <<>>, tmp |-> <<>>]]
    /\ msgs = [c \in Chats |-> <<>>]
    /\ task = [t \in TaskIds |-> IdleTask]
    /\ hloc = [t \in TaskIds |-> "none"]
    /\ created = [e \in Events |-> {}]
    /\ deleted = [c \in Chats |-> {}]
    /\ failures = 0 /\ crashes = 0
    /\ updates = {}

-----------------------------------------------------------------------------
(***************************************************************************)
(* The file operations of a step (module MarkerDir) work on               *)
(* S = [files, content, hloc, hev, ok], where hev[t] is the event whose   *)
(* staging file task t has open.                                          *)
(***************************************************************************)

\* Bug variants of FinishOps: the yellow branch, the red branch or the reply
\* branch forgetting one os.remove.
FinishOpsKeepN(kind) ==
    CASE kind = "reply"  -> <<"remove_s", "remove_p">>
      [] kind = "green"  -> <<"remove_s">>
      [] kind = "yellow" -> <<"remove_s">>
      [] kind = "red"    -> <<"close", "rename", "remove_n">>

FinishOpsRedKeepN(kind) ==
    CASE kind = "reply"  -> <<"remove_s", "remove_p">>
      [] kind = "green"  -> <<"remove_s">>
      [] kind = "yellow" -> <<"remove_s", "remove_n">>
      [] kind = "red"    -> <<"close", "rename">>

FinishOpsKeepP(kind) ==
    CASE kind = "reply"  -> <<"remove_s">>
      [] kind = "green"  -> <<"remove_s">>
      [] kind = "yellow" -> <<"remove_s", "remove_n">>
      [] kind = "red"    -> <<"close", "rename", "remove_n">>

\* Bug variant: the red branch closes e.-tmp but never renames it.
FinishOpsNoRename(kind) ==
    CASE kind = "reply"  -> <<"remove_s", "remove_p">>
      [] kind = "green"  -> <<"remove_s">>
      [] kind = "yellow" -> <<"remove_s", "remove_n">>
      [] kind = "red"    -> <<"close", "remove_n">>

\* The file operations that end the handling of one marker, in code order.
FinishOps(kind) ==
    CASE kind = "reply"  -> <<"remove_s", "remove_p">>
      [] kind = "green"  -> <<"remove_s">>
      [] kind = "yellow" -> <<"remove_s", "remove_n">>
      [] kind = "red"    -> <<"close", "rename", "remove_n">>

Current == [files |-> files, content |-> content, hloc |-> hloc,
            hev |-> [u \in TaskIds |-> task[u].ev], ok |-> TRUE]

-----------------------------------------------------------------------------
(***************************************************************************)
(* Running a task up to its next await.                                   *)
(***************************************************************************)

\* for chat_id in CHATS: bot.send_message(chat_id, msg_txt)
Broadcast == [k \in 1..Len(CHATS) |-> <<CHATS[k], 0>>]

SetFS(S) == /\ files' = S.files /\ content' = S.content /\ hloc' = S.hloc

-----------------------------------------------------------------------------
(***************************************************************************)
(* The send loops and the steps every task can take at an await.          *)
(***************************************************************************)

Target(t) == task[t].targets[task[t].i]

\* Bug variant: the message prefix taken from the branch name.
ColorByBranch(kind) == kind

Color(kind) == IF kind = "reply" THEN "green"
               ELSE IF kind = "red" THEN "red" ELSE kind

\* Telegram accepts a reply only to a message that exists in that chat
\* (aiogram 3 sends no allow_sending_without_reply).
Accepted(tg) ==
    tg[2] = 0 \/ (tg[2] \in 1..Len(msgs[tg[1]]) /\ tg[2] \notin deleted[tg[1]])

Post(t) ==
    LET tg == Target(t) IN
    [msgs EXCEPT ![tg[1]] = Append(@, [ev |-> task[t].ev,
                                        color |-> Color(task[t].kind),
                                        reply |-> tg[2]])]

\* Bug variant: the line records the id of the message before it.
RecordPrevId(t) ==
    IF task[t].kind = "red"
    THEN Append(task[t].buf, <<Target(t)[1], Len(msgs[Target(t)[1]])>>)
    ELSE task[t].buf

\* f.write("{}:{}\n".format(chat_id, msg.message_id)) after a red message.
Record(t) ==
    IF task[t].kind = "red"
    THEN Append(task[t].buf, <<Target(t)[1], Len(msgs[Target(t)[1]]) + 1>>)
    ELSE task[t].buf

\* The exception ends the task; its file object is closed when the task
\* is freed, which flushes what it buffered.
Die(t, S) ==
    /\ SetFS(FileClose(S, t, task[t].ev, task[t].buf))
    /\ task' = [task EXCEPT ![t] = IdleTask]

\* Bug variant: the send loop stops one target early.
MoreTargetsShort(rec) == rec.i < Len(rec.targets) - 1

\* The for loop over CHATS or over the lines of e.p has targets left.
MoreTargets(rec) == rec.i < Len(rec.targets)

\* send_message raises: a network error before Telegram got the request,
\* or a timeout after it posted the message.
SendFails(t) ==
    /\ task[t].st # "idle"
    /\ failures < MaxFailures
    /\ failures' = failures + 1
    /\ \/ msgs' = msgs
       \/ Accepted(Target(t)) /\ msgs' = Post(t)
    /\ Die(t, Current)
    /\ UNCHANGED <<created, deleted, crashes, updates>>

\* Telegram refuses a reply to a message that is not there.
SendRejected(t) ==
    /\ task[t].st # "idle"
    /\ ~Accepted(Target(t))
    /\ Die(t, Current)
    /\ UNCHANGED <<msgs, created, deleted, failures, crashes, updates>>

\* The process dies while every task waits on send_message.  Buffered
\* writes are lost; the next process starts with no tasks.
CrashAtAwait ==
    /\ crashes < MaxCrashes
    /\ \E t \in TaskIds : task[t].st # "idle"
    /\ crashes' = crashes + 1
    /\ task' = [t \in TaskIds |-> IdleTask]
    /\ hloc' = [t \in TaskIds |-> "none"]
    /\ UNCHANGED <<files, content, msgs, created, deleted, failures, updates>>

\* The last send of a loop returns and the process dies between two of the
\* file operations that follow it.
CrashInFinish(t) ==
    LET rec == task[t]
        ops == FinishOps(rec.kind)
    IN
    /\ crashes < MaxCrashes
    /\ rec.st # "idle"
    /\ rec.i = Len(rec.targets)
    /\ Accepted(Target(t))
    /\ msgs' = Post(t)
    /\ \E k \in 1..Len(ops) - 1 :
          LET S == RunOps(Current, t, rec.ev, Record(t), SubSeq(ops, 1, k))
          IN /\ files' = S.files /\ content' = S.content
    /\ crashes' = crashes + 1
    /\ task' = [u \in TaskIds |-> IdleTask]
    /\ hloc' = [u \in TaskIds |-> "none"]
    /\ UNCHANGED <<created, deleted, failures, updates>>

\* The detector writes e.n when an anomaly starts ...
DetectStart(e) ==
    /\ created[e] = {}
    /\ files' = [files EXCEPT ![e].n = TRUE]
    /\ created' = [created EXCEPT ![e] = {"n"}]
    /\ UNCHANGED <<content, msgs, task, hloc, deleted, failures, crashes,
                   updates>>

\* ... and e.s when it ends, with or without an e.n before it.
DetectEnd(e) ==
    /\ "s" \notin created[e]
    /\ files' = [files EXCEPT ![e].s = TRUE]
    /\ created' = [created EXCEPT ![e] = @ \cup {"s"}]
    /\ UNCHANGED <<content, msgs, task, hloc, deleted, failures, crashes,
                   updates>>

\* A member of chat c deletes a red message of the bot.
DeleteMessage(c) ==
    /\ \A d \in Chats : Cardinality(deleted[d]) < MaxDeletes
    /\ \E k \in DOMAIN msgs[c] :
          /\ msgs[c][k].color = "red" /\ k \notin deleted[c]
          /\ deleted' = [deleted EXCEPT ![c] = @ \cup {k}]
    /\ UNCHANGED <<files, content, msgs, task, hloc, created, failures,
                   crashes, updates>>

-----------------------------------------------------------------------------
(***************************************************************************)
(* The command handlers.  dp.start_polling runs on the same event loop as *)
(* check_events: it fetches the messages users send and runs the handler  *)
(* registered for each, which awaits one message.reply or message.answer. *)
(* Their answers take message ids in the chats check_events writes to.    *)
(***************************************************************************)

\* The messages users have sent in chat c.
UserMsgs(c) == SelectSeq(msgs[c], LAMBDA m : m.color \in UserTexts)

\* The messages check_events has sent in chat c.
Notifs(c) == SelectSeq(msgs[c], LAMBDA m : m.ev # NoEvent)

\* A user writes x in chat c; polling fetches it as an update.
UserSends(c, x) ==
    /\ MapThenSumSet(LAMBDA d : Len(UserMsgs(d)), Chats) < MaxCmds
    /\ msgs' = [msgs EXCEPT ![c] = Append(@, [ev |-> NoEvent, color |-> x,
                                                reply |-> 0])]
    /\ updates' = updates \cup {<<c, Len(msgs[c]) + 1>>}
    /\ UNCHANGED <<files, content, task, hloc, created, deleted, failures,
                   crashes>>

\* The handler of update <<c, k>> posts answer a (none when no handler is
\* registered for it), replying to message r (0: not a reply).  The
\* request may raise; aiogram logs the exception and the update is done.
HandleUpdate(c, k, a, r) ==
    /\ <<c, k>> \in updates
    /\ updates' = updates \ {<<c, k>>}
    /\ \/ a = "none" /\ UNCHANGED <<msgs, failures>>
       \/ /\ a # "none" /\ failures' = failures
          /\ msgs' = [msgs EXCEPT ![c] = Append(@, [ev |-> NoEvent, color |-> a,
                                                      reply |-> r])]
       \/ /\ a # "none" /\ failures < MaxFailures
          /\ failures' = failures + 1 /\ msgs' = msgs
    /\ UNCHANGED <<files, content, task, hloc, created, deleted, crashes>>

-----------------------------------------------------------------------------
(***************************************************************************)
(* Properties.                                                             *)
(***************************************************************************)

\* The messages chat c has received about event e, in order.
Notes(e, c) == SelectSeq(msgs[c], LAMBDA m : m.ev = e)

ColorsOf(e, c) == [k \in DOMAIN Notes(e, c) |-> Notes(e, c)[k].color]

\* Among the messages check_events sends, a green that ends an event
\* already announced in red in that chat is a reply to a red message of
\* the same event: the chat:message_id lines check_events writes to
\* e.-tmp, renames to e.p and reads back in the first pass name the red
\* messages of e, although user messages and command answers take ids in
\* the same chats.
ReplyThreads ==
    \A c \in Chats : \A k \in DOMAIN msgs[c] :
        LET m == msgs[c][k] IN
        m.ev # NoEvent =>
          /\ m.reply # 0 => /\ msgs[c][m.reply].ev = m.ev
                            /\ msgs[c][m.reply].color = "red"
          /\ (m.color = "green" /\ \E j \in 1..k - 1 :
                 msgs[c][j].ev = m.ev /\ msgs[c][j].color = "red")
             => m.reply # 0

\* Once e.s has been handled, no e.p remains: an e.p left behind is never
\* read again and its red messages never get their green reply.
NoOrphanSent ==
    \A e \in Events :
        ("s" \in created[e] /\ ~files[e].s) => ~files[e].p

\* The e.-tmp files no task is writing: left by a red loop that raised or
\* by a crash.  The next red loop for e truncates and renames the file,
\* but once e is resolved (yellow) nothing ever looks at it again.
LeftoverTmp ==
    {e \in Events : files[e].tmp /\
                    \A t \in TaskIds : ~(hloc[t] = "tmp" /\ task[t].ev = e)}

\* MSGS_DIR grows only through faults: every e.-tmp that outlives the red
\* loop that opened it (open(out_name, "w") ... os.rename) is paid for by
\* a send_message that raised or a crash of the process, one file each.
TmpLeakBounded == Cardinality(LeftoverTmp) <= failures + crashes


\* Message k of chat c is a command the bot has handlers for.
Asked(c, k) ==
    k \in DOMAIN msgs[c] /\ msgs[c][k].color \in {"/start", "/help", "/id"}

Answered(c, k) ==
    \E j \in DOMAIN msgs[c] : msgs[c][j].ev = NoEvent /\ msgs[c][j].reply = k

\* Every /start, /help or /id that a user sends in a chat of CHATS, a group
\* or a channel, is eventually answered by a reply to it (send_welcome,
\* send_id), while check_events keeps posting in the same chats.
CommandsAnswered == \A c \in Chats, k \in 1..MaxId : Asked(c, k) ~> Answered(c, k)

\* Red messages chat c has received about event e.
RedCount(m, e, c) == Len(SelectSeq(m[c], LAMBDA x : x.ev = e /\ x.color = "red"))

\* Every chat is told at most once that anomaly e started: a Started
\* marker gives exactly one sendNew per destination (spec 8), whichever
\* polls, passes and os.listdir orders handle e.n.  A second red starts a
\* thread of its own, which the green reply may not reach.
AnnouncedOnce == \A e \in Events, c \in Chats : RedCount(msgs, e, c) <= 1

\* Once e.p records the red messages of e, no further red message about e
\* is sent (spec 8, crash recovery: the Sent marker wins).  check_events
\* renames e.-tmp to e.p and only then removes e.n, so an e.n seen while
\* e.p exists is sent again unless nothing can come between those two.
NoRedAfterSent ==
    [][\A e \in Events : files[e].p =>
          \A c \in Chats : RedCount(msgs', e, c) = RedCount(msgs, e, c)]_vars

\* Every chat has been told about event e, and told that it ended.
Told(e) == \A c \in Chats : Notes(e, c) # <<>>

Resolved(e) ==
    \A c \in Chats : \E k \in DOMAIN msgs[c] :
        msgs[c][k].ev = e /\ msgs[c][k].color \in {"green", "yellow"}

\* Every anomaly the detector reports with an e.n marker is announced in
\* every chat: neither the two passes nor a failed send, a crash or a task
\* that dies in the first pass keep an e.n from its red message for good.
EventuallyAnnounced == \A e \in Events : ("n" \in created[e]) ~> Told(e)

\* Every anomaly is announced, and every anomaly that ends is reported as
\* ended (green or yellow) in every chat.
EventuallyNotified ==
    /\ EventuallyAnnounced
    /\ \A e \in Events : ("s" \in created[e]) ~> Resolved(e)

\* What chat c has been told about event e, read off its messages.
Shown(e, c) ==
    CASE ColorsOf(e, c) = <<>>               -> "none"
      [] ColorsOf(e, c) = <<"red">>          -> "red"
      [] ColorsOf(e, c) = <<"red", "green">> -> "red_green"
      [] ColorsOf(e, c) = <<"green">>        -> "green"
      [] ColorsOf(e, c) = <<"yellow">>       -> "yellow"
      [] OTHER                               -> "garbled"

Notification == INSTANCE AnomalyNotify
                  WITH shown <- [e \in Events |-> [c \in Chats |-> Shown(e, c)]]

\* The messages check_events sends implement the notification lifecycle of
\* spec.md 4.2: each chat sees red then green, a lone green, or a yellow,
\* only after the detector reported what they say, the same story in every
\* chat, and eventually everything that can be told.
ImplementsAnomalyNotify == Notification!Spec

\* In this step task t decides to send the red message about e (open
\* e.-tmp and request the first send).
BeginsRed(t, e) ==
    /\ task'[t] # task[t] /\ task'[t].st # "idle"
    /\ task'[t].kind = "red" /\ task'[t].ev = e /\ task'[t].i = 1

\* Ended markers are handled before started ones (spec.md 4.2, 8): a task
\* never starts the red message about e while e.s is in MSGS_DIR; a start
\* and an end that are both there give one yellow.  The aiogram 3 bot
\* relies on its two passes for this, the aiogram 2 bot on os.listdir order.
EndedBeforeStarted ==
    [][\A t \in TaskIds, e \in Events : BeginsRed(t, e) => ~files[e].s]_vars

=============================================================================
