------------------------------- MODULE MarkerDir -------------------------------
(***************************************************************************)
(* What the file operations of check_events do to the marker directory,   *)
(* shared by both Telegram bots (xe-tele-bot-aio3.py, xe-tele-bot.py).     *)
(*                                                                         *)
(* Per event e the directory holds e.n, e.s, the sent record "p" (e.p in  *)
(* the aiogram 3 bot, e.- in the aiogram 2 bot) and the staging file "tmp" *)
(* (e.-tmp).  A step works on a record                                     *)
(*   S = [files, content, hloc, hev, ok]                                   *)
(* files[e][x]: whether e.x exists; content[e].p, content[e].tmp: their    *)
(* chat:message_id lines; hloc[t]: where the file object of task t writes *)
(* ("tmp", "p" after the rename, "gone" once that record was replaced,     *)
(* "none" when closed); hev[t]: the event of that file object.  A file    *)
(* operation on a missing file raises (FileNotFoundError): ok becomes      *)
(* FALSE and the operations after it do not happen.                        *)
(***************************************************************************)
EXTENDS Naturals, Sequences

NoFiles == [n |-> FALSE, s |-> FALSE, p |-> FALSE, tmp |-> FALSE]

\* f.close(): the lines buffered in f reach the file at offset 0, over
\* whatever the file holds beyond them.
Overlay(old, buf) == buf \o SubSeq(old, Len(buf) + 1, Len(old))

FileClose(S, t, e, buf) ==
    [S EXCEPT
        !.content[e] =
            CASE S.hloc[t] = "tmp" -> [@ EXCEPT !.tmp = Overlay(@, buf)]
              [] S.hloc[t] = "p"   -> [@ EXCEPT !.p = Overlay(@, buf)]
              [] OTHER             -> @,
        !.hloc[t] = "none"]

\* os.rename(e.-tmp, <sent record>): the record is replaced; open file
\* objects follow the renamed file, and one still on the replaced record
\* writes to nothing.
FileRename(S, e) ==
    IF ~S.files[e].tmp THEN [S EXCEPT !.ok = FALSE]
    ELSE [S EXCEPT
            !.files[e] = [@ EXCEPT !.tmp = FALSE, !.p = TRUE],
            !.content[e] = [p |-> @.tmp, tmp |-> <<>>],
            !.hloc = [u \in DOMAIN @ |->
                        IF S.hev[u] # e THEN @[u]
                        ELSE CASE @[u] = "tmp" -> "p"
                               [] @[u] = "p"   -> "gone"
                               [] OTHER        -> @[u]]]

\* os.remove(e.x)
FileRemove(S, e, x) ==
    IF ~S.files[e][x] THEN [S EXCEPT !.ok = FALSE]
    ELSE [S EXCEPT !.files[e][x] = FALSE]

FileOp(S, t, e, buf, op) ==
    CASE op = "close"    -> FileClose(S, t, e, buf)
      [] op = "rename"   -> FileRename(S, e)
      [] op = "remove_s" -> FileRemove(S, e, "s")
      [] op = "remove_n" -> FileRemove(S, e, "n")
      [] op = "remove_p" -> FileRemove(S, e, "p")

\* The operations ops, in order, stopping at the first that raises.
RECURSIVE RunOps(_, _, _, _, _)
RunOps(S, t, e, buf, ops) ==
    IF ops = <<>> \/ ~S.ok THEN S
    ELSE RunOps(FileOp(S, t, e, buf, Head(ops)), t, e, buf, Tail(ops))

================================================================================
