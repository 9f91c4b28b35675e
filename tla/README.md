# TLA+ models of xenoeye's notification bots, web dashboard and chart scripts

This directory holds TLA+ models of the Python parts of xenoeye and the TLC
configurations that check them. The most intricate part is the anomaly
notification dispatcher in the Telegram bots. It turns marker files written by
the anomaly detector into threaded chat messages. It is modelled in the
most detail, for both bots, and checked against an abstract specification of
what it promises. The Flask dashboard's routes are modelled for access
control and for the template each request uses.

## 1. Inventory

### Components

| Component | Source | State | Operations |
|---|---|---|---|
| Marker directory | `MSGS_DIR` (`/var/lib/xenoeye/telemsg/`) | files `e.n` (started), `e.s` (ended), `e.p` / `e.-` (sent record: `chat:msg_id` lines), `e.-tmp` (staging) | detector writes `e.n`, `e.s`; the dispatcher creates, renames and removes the rest |
| Dispatcher, aiogram 3 | `xe-tele-bot-aio3.py` `check_events`, `repeat`, `main` | none in memory; everything is re-read from the directory | first pass over `.s` files (reply / green / yellow), second pass over `.n` files (red, write `e.-tmp`, rename to `e.p`, remove `e.n`) |
| Dispatcher, aiogram 2 | `xe-tele-bot.py` `check_events`, `repeat` | same, sent record `e.-` | one pass: `.s` (yellow / green / reply), `.n` (red) in `os.listdir` order |
| Bot command handlers | both bots: `send_welcome`, `send_id`, `any` (aiogram 2 only), run by `dp.start_polling` | none | answer one user message, in the chats `check_events` writes to |
| Telegram | external | the messages of each chat, numbered per chat | `send_message` (new or reply), which may fail, time out after posting, or reject a reply to a missing message |
| Detector | external C program | writes `e.n` once, then `e.s` once | — |
| Web dashboard | `www/flask/app.py` | users and permissions (SQLite), the session, per-request `g` | `login`, `logout`, `dashboard` (choose MO, template, section, report), `r_data` (check permission, load template, run the chart query) |
| Chart scripts | `scripts/mkchart-*.py` | none | query, compute labels / percentages, plot |

### How the parts interact

The detector and the dispatcher share only the marker directory. The
dispatcher and Telegram interact by `send_message` calls. Each call is an
`await`, so it is the only point where another asyncio task can run.
`repeat()` schedules a new `check_events()` task every `POLL_INTERVAL` (10 s)
with `asyncio.ensure_future` and never waits for the previous one. So two
polls can run at once when one poll outlasts the interval, for example on slow
sends, flood control or request timeouts. All dispatcher state is in the
directory. A process restart therefore resumes from whatever files a crash
left.

The command handlers run on the same event loop, started by
`dp.start_polling`. They answer user messages in the same chats, so users'
messages and the answers take message ids between the dispatcher's own
messages.

### What is hard

- **Interleaving.** Overlapping polls list the same files. They send the same
  message twice. They open the same `e.-tmp` with two file objects. They race
  a rename against a remove.
- **Crashes.** Several file operations without an await between them run
  atomically with respect to other tasks, but not with respect to a crash:
  rename then remove `e.n`, remove `e.s` then `e.p`, remove `e.s` then `e.n`.
- **Partial failure.** `send_message` may raise in the middle of a loop over
  chats. The exception ends the whole `check_events` task, including both
  passes for all other events.
- **Timeouts.** A request can time out after Telegram has posted the message.
- **Ordering.** `os.listdir` order is arbitrary. `e.n` and `e.s` of one event
  can appear between two polls or between the two passes.

### Properties that make it correct

Per event and per chat, the dispatcher should send one red message, answered
by one green reply. It may instead send one green, for an end without a
start, or one yellow, for a start and end that arrive together (spec §8).
Replies should thread to the red messages. No sent record should outlive its
event. Every reported anomaly should eventually be announced and resolved in
every chat. A sent record should never be followed by a second red (spec §8,
crash recovery). Files the dispatcher leaves behind should come only from
faults, one per fault. A command a user sends should be answered, whatever
the dispatcher is doing in the same chat.

## 2. Plan

1. **`TeleBotAio3`** (done): the aiogram 3 dispatcher, with the marker
   directory, Telegram, the detector, chat members and crashes as its
   environment.
2. **`TeleBot`** (done): the aiogram 2 dispatcher's single-pass loop and its
   `e.-` record. It shares `CheckEvents` and `MarkerDir` with `TeleBotAio3`.
3. **`AnomalyNotify`** (done): the abstract lifecycle per event and chat.
   Both dispatchers are shown to implement it in their core runs.
4. **`Dashboard`** (done): every route of `app.py`, the session, and the
   choice of MO and template in `dashboard` vs `r_data`.
5. **`Charts`** (done): the four chart scripts (`mkchart-prot-mpl.py`,
   `mkchart-matplotlib-donut-as.py`, `mkchart-matplotlib-ts.py`,
   `mkchart-matplotlib-ts-ip.py`). Each runs as one step, from its query
   over one traffic table to the data it hands to matplotlib.
6. **Command handlers and leftover `e.-tmp`** (done): both bots' handlers
   as actions of `TeleBotAio3` and `TeleBot`, sharing the chats with
   `check_events`. A bound on the staging files that faults leave behind.
7. Next: properties the chart scripts satisfy, to sit beside the violation
   run. The protocol pie and the top-host bars of `ts-ip` are right over
   the whole bound.

## 3. Modules

| Module | Models |
|---|---|
| `MarkerDir` | The file operations of `check_events` on `MSGS_DIR`: close of the buffered `e.-tmp` writer, `os.rename`, `os.remove`. An operation on a missing file raises, and `RunOps` stops at it. |
| `CheckEvents` | Shared by both bots: constants, state, `Init`, the send loops (`Deliver`'s helpers `Post`, `Record`, `MoreTargets`), the file operations that end each branch (`FinishOps`), failures, rejected replies, crashes, the detector, chat members, user messages and the shared handler step (`UserSends`, `HandleUpdate`), and every property. |
| `TeleBotAio3` | `xe-tele-bot-aio3.py`: two passes (`Advance`, `BeginEnded`, `SecondPass`, `BeginStarted`), `Tick`, `Deliver`, the command handlers (`Handler`, `Answer`), `Next`, `Spec`. |
| `TeleBot` | `xe-tele-bot.py`: one pass over one listing in any order (`Advance`, `Branch`, `BeginEnded`, `BeginStarted`), `Tick`, `Deliver`, the command handlers (`Handler`, `Answer`), `Next`, `Spec`. |
| `Dashboard` | `www/flask/app.py`: `login`, `logout`, `root`, `dashboard`, `r_data`, over the `Permissions` rows and one session per browser. |
| `Charts` | The four `mkchart-*.py` scripts: each script's query, fetch loop and what it hands to matplotlib (wedges and labels, bar width, stacked bars), as one step. |
| `AnomalyNotify` | The abstract specification (spec.md 4.2 and 8). It is not a model of code. |
| `MC_TeleBotAio3`, `MC_TeleBot` | Model values `c1`, `c2` and the `CHATS` sequences for the cfgs. |
| `MC_Dashboard` | The template contents (`NAV`), the integer arguments and the row-distinctness switch, which a cfg cannot write. |
| `MC_Charts` | The sample times, the sources and their AS, protocol and host. |

### State (CheckEvents)

- `files[e]` and `content[e]`: which of `e.n`, `e.s`, the sent record and
  `e.-tmp` exist. The sent record is `e.p` in the aiogram 3 bot and `e.-` in
  the aiogram 2 bot, and is called `p` in both models. `content` holds the
  `chat:msg_id` lines of the sent record and of `e.-tmp`.
- `msgs[c]`: the messages in chat `c`. A message id is its index, because
  Telegram numbers messages per chat. `deleted[c]` holds the ids removed by
  chat members.
- `task[t]`: one `check_events` task. It records its pass, the markers still
  to visit from its `os.listdir` snapshot, the event and branch being
  handled, the send targets and the next index, and the lines buffered in its
  file object.
- `hloc[t]`: where that file object writes. `tmp` is the staging file. `p`
  means it followed the rename. `gone` means the record it pointed to was
  replaced. `none` means closed.
- `created`, `failures`, `crashes`: detector history and fault counters.
- `updates`: the user messages `dp.start_polling` has fetched whose handler
  has not finished. A user message has `ev = NoEvent` and its text as
  colour. An answer has `ev = NoEvent`, the handler's answer as colour, and
  the id of the command it replies to.

### Actions

- **`Tick`**: the timer fires. A free task slot lists the directory and runs
  to its first `send_message`.
- **`Deliver(t)`**: one `send_message` returns. The task records the id (red)
  and then does one of two things:
  - it issues the next send;
  - or it runs the file operations that end the branch (`FinishOps`, applied
    in code order by `RunOps`) and goes on to the next listed marker.

  A file operation on a missing file raises and ends the task.
- **`SendFails(t)`**: the request is lost, or times out after posting. The
  task dies, and its buffered lines are flushed when it is freed.
- **`SendRejected(t)`**: a reply to a deleted message is refused.
- **`CrashAtAwait`**: the process dies while tasks await.
- **`CrashInFinish(t)`**: the process dies between two file operations of a
  branch.

  After either crash, buffered writes are lost and the next process starts
  with no tasks.
- **`DetectStart`** and **`DetectEnd`**: the detector writes `e.n` once, and
  then `e.s` once. `e.s` may come without `e.n`.
- **`DeleteMessage`**: a chat member deletes a red message.
- **`UserSends(c, x)`**: a user writes `/start`, `/help`, `/id` or other
  text in chat `c`, and polling fetches it.
- **`Answer(c, k)`** (`HandleUpdate`): the handler that message `k`
  reaches posts its answer, or the request raises and aiogram logs it. In
  the aiogram 3 bot `send_welcome` and `send_id` are registered for
  messages and channel posts, and other text has no handler
  (`Handler`). In the aiogram 2 bot they are message handlers only, so a
  channel post reaches none, and `any()` answers every other text without
  a reply.

One step of a task runs from one `await` to the next. Python code between
awaits cannot be interleaved with other tasks. In the aiogram 2 model the
next listed file is chosen at each step. This gives the same behaviours as
fixing the `os.listdir` order when the listing is taken, because the task
never looks at the order.

### Refinement

`CheckEvents` maps each chat's messages about an event to an abstract state
(`Shown`): `<<red>>` to `red`, `<<red, green>>` to `red_green`, and so on.
It checks `ImplementsAnomalyNotify == Notification!Spec`, where
`Notification` is `INSTANCE AnomalyNotify` with `shown` given by this
mapping. Tell steps are the posting steps, and every other step is a
stutter. The abstract specification says three things:
- a chat is told only what the detector has reported;
- every chat hears the same story (red for some chats excludes yellow or a
  lone green for others);
- whatever a chat can be told, it is eventually told (weak fairness per
  event and chat).

### Fairness

`Tick` is weakly fair, because `call_later` always fires. Each task's
`Deliver`, `SendFails` and `SendRejected` together are weakly fair, because
every request returns or raises at the HTTP client's timeout. The detector,
crashes and deletions are not fair. Each fetched update's `Answer` is
weakly fair: aiogram runs the handler of every update it fetches, and the
request returns or raises. Users are not required to write. The dashboard has no fairness and no
liveness property, because every request is a user's choice.

### Bounds

- Two events and `CHATS = <<c1, c2>>`. The deletion and fault runs use
  `<<c1>>`. Two events are enough for two polls, two passes and the
  `os.listdir` order to interleave. Two chats are enough for a send loop to
  stop halfway.
- `MaxTasks`: 1, or 2 in `V_overlap_dup.cfg` and `MC_overlap.cfg`.
- `MaxFailures`, `MaxCrashes` and `MaxDeletes`: 0 or 1 each.
- `MaxCmds`: the messages users send, 1 in `MC_core`, `MC_failures` and
  `TB_core`, 0 elsewhere. In the core runs `c2` is a channel
  (`Channels = {c2}`). One message lands anywhere among the dispatcher's
  messages, in either chat. Two would multiply the core state space by more
  than thirty.
- `MaxMsgs` caps the dispatcher's messages per chat by disabling `Tick`. It is set above
  the most a run can send, so deadlock checking confirms that the cap is
  never reached.
- Dashboard: one browser, two users, two permission rows, MO names `""` and
  `m1`, template names `""`, `t1` and a missing `t9`, and the integer
  arguments `{-2, 0}` (time range `{0, 600}`). These cover every branch: no
  rows, a falsy `mo`, a missing template, negative and out-of-range indexes,
  and another user's row. Two rows are enough for two rows of one user and
  one MO, the case where `dashboard` and `r_data` differ.
- Charts: three sample times, the last two inside the interval. There are
  three sources: `a1`/`h1` and `a2`/`h2` over TCP, and `a3` over UDP with
  no host. Row values are 1 or 2. `TOP` is 2 (15 in the script) and
  `N_IPS` is 1 (10). This bound gives 19,683 tables. Among them are keys
  tied at a limit, all ASes in the top list, old traffic of an AS outside
  it, a single sample, two samples in either order, equal rows of two
  "Other" hosts, and an empty interval.

### Dashboard

- `perms`: the `Permissions` table as a function from rowid to a row
  `[user, mo, tmpl]`. It is fixed after `Init`, which allows any table of
  `RowIds` rows (with `DistinctMOs`, at most one row per user and
  `mo_name`). `RowsWhere` returns matching rows in rowid order, the order
  SQLite returns them for `filter_by(...).all()`.
- `session[b]`: the user logged in on browser `b`, or `NoUser`.
- `page[b]`: what the last `dashboard` response in browser `b` showed: the
  MO and the template whose charts it lists. `req[b]` and `resp[b]`: the last
  `r.data` request and its response (`login`, `400`, `500`, or data with the
  template, chart and time range used).
- Templates are abstracted to `NAV[file]`, the number of charts in each
  report. `TmplFile` maps an empty template name to `default`, and names
  with no file to a 500.
- `Dashboard(b, mo, rep)` models the whole handler. An empty or missing `mo`
  picks the user's first row. Otherwise the loop over the rows keeps the
  last match. A missing template or an index out of range is a 500.
  Python's negative indexes (`PyOk`, `PyPos`) are kept. `Root` is
  `Dashboard` with no arguments, as `root()` redirects to it.
- `RData(b, mo, s, r, c, tr)` takes `amo[0]`, the first matching row, and
  gives 400 without one. A time range at or below zero becomes 21600
  (`TimeRange`).

### Charts

- `flows`: one traffic table, with a row per sample time and source. The
  value 0 means no row. A source stands for one AS, one protocol and one
  host or none. `ingress_proto`, `ingress_bytes_by_src_as`, `ingress_all`
  and `ingress_bytes_by_src` are sums of `flows`, and each sample time is
  its own 30-minute bucket of `ts-ip`. `Init` allows every table over the
  bounds, and the table does not change while a script runs.
- `out[s]`: how script `s` ended. It is `TypeError`, `ValueError` or a
  chart. A pie is its set of wedges, each with key, octets and whether its
  name is shown. A `ts` chart is its bar width. A `ts-ip` chart is its set
  of bars, each a time, a key and octets.
- `ProtRows`: the protocol query. It gives one row per protocol name with
  traffic in the interval (`InInterval`). It assumes `iana_protocols` names
  every protocol number; the inner join drops the rows of a number it
  lacks.
- `TopAses` and `DonutRows(T)`: the donut query. `ORDER BY ... LIMIT TOP`
  may cut either of two keys tied at the limit, so `TopN`, and with it
  `TopAses`, is every set the database may return. The `Others` row
  (`OthersOctets`) sums the rows of the ASes outside `T` with no time
  condition, as the query does, and it is `NULL` over no rows.
- `Pie(rows, thr)`: the label loop and `plt.pie`. `sum()` raises
  `TypeError` on a `NULL`. With no rows the loop never divides, and
  whether `plt.pie` of empty lists draws or raises depends on the
  matplotlib version, so the model allows both. Otherwise every row is a
  wedge, and its name is shown unless `100 * oct / sm < PTHRESHOLD`.
- `SampleTimes` and `BarWidth(order)`: `ts`. The query has no `ORDER BY`,
  so `RunTs` takes the rows in any order. The width is
  `np.min(np.diff(...)) * 1.1`, kept in tenths of a sample step. With
  fewer than two rows, `np.min` raises `ValueError`.
- `TopIps`, `Report(T)` and `Bars(T)`: `ts-ip`. `topips` keys hosts by
  `COALESCE(src_host, 'Other')`. The report is a set, because `UNION` keeps
  one of equal rows. `Bars` is the `GROUP BY` and the `pivot_table` sum.
  Heights stay in octets: the scaling to bits per second (`/1800 * 8`, then
  `int()`) is the same for every bar. With an empty report, whether pandas
  and `plot.bar` draw or raise depends on the version, so both are allowed.
- `RunProt`, `RunDonut`, `RunTs` and `RunTsIp`: one run of each script,
  from the connection to `savefig`. Nothing runs concurrently with a
  script, so a run is one step. The scripts end, so the final state is not
  a deadlock, and `CH_interval.cfg` says `CHECK_DEADLOCK FALSE`.

## 4. Runs

| Run | cfg | Expect | What it shows |
|---|---|---|---|
| core | MC_core | pass | aiogram 3 bot, one poll at a time, no faults, one user message in a group or a channel: it implements `AnomalyNotify`; `ReplyThreads`; `NoOrphanSent`; every `/start`, `/help` or `/id` is answered by a reply (`CommandsAnswered`). |
| failures | MC_failures | pass | One chat, a raising `send_message` (or command reply) and a deleted red: only re-sends of the unfinished loop; no red once `e.p` exists (`NoRedAfterSent`); no orphan `e.p`. |
| faults | MC_faults | pass | Two chats, a failing send and a crash anywhere: replies never misthread, every chat is eventually told (`EventuallyNotified`), and no more `e.-tmp` files are left behind than faults happened (`TmpLeakBounded`). |
| overlap_duplicate_red | V_overlap_dup | violation | `AnnouncedOnce`: an overlapping poll lists the same e.n and sends its red to a chat a second time (spec 8: one `sendNew` per destination; spec 5). |
| crash_resends_red | V_crash_resend | violation | `NoRedAfterSent`: a crash between rename and remove re-sends the red (spec 8/9). |
| deleted_parent_blocks | V_deleted_blocks | violation | `EventuallyAnnounced`: a deleted red blocks every later announcement (spec 4.3). |
| tb_core | TB_core | pass | aiogram 2 bot, one poll at a time, no faults, any `os.listdir` order: it implements `AnomalyNotify`; `ReplyThreads`; `NoOrphanSent`. |
| tb_faults | TB_faults | pass | aiogram 2 bot with one failure, one crash and one deletion: replies still thread to reds of their own event; `TmpLeakBounded`. |
| tb_ended_first | TB_ended_first | violation | `EndedBeforeStarted`: with `e.n` listed before `e.s`, the aiogram 2 bot sends red and then green instead of one yellow (spec 4.2, 8). |
| dashboard | DB_distinct | pass | With one row per user and MO: every chart the page lists is answered from the page's template (`PageDataConsistent`). |
| dashboard_dup_rows | DB_dup_rows | violation | `PageDataConsistent`: with two rows for one user and MO, the page uses the last row's template and `r.data` the first's. |
| charts_interval | CH_interval | violation | `ChartsShowInterval`: the donut script raises `TypeError` when every AS is in the top list. |

`MC_overlap.cfg` is one more configuration and is not among the runs
above. It checks `TypeOK`, `ReplyThreads` and `EventuallyNotified` with two
overlapping polls, and passes (91,420 states, about a minute). So
overlapping polls duplicate reds (`overlap_duplicate_red`), but they never
misthread a reply and never leave a chat untold.

## 5. Findings

- **Overlapping polls.** `repeat()` (both bots) does not keep polls from
  overlapping. Overlapping polls duplicate red messages, and they can leave
  an `e.p` whose red is never answered: adding `NoOrphanSent` to
  `MC_overlap.cfg` makes TLC fail within two thousand states.
- **Crash windows.** The order "rename, then remove `e.n`" makes a crash
  between the two re-send the red. The order "remove `e.s`, then `e.p` /
  `e.n`" makes a crash leave markers that are never cleaned up. A leftover
  `e.n` is even announced as a new anomaly after the anomaly has ended.
  Adding `NoOrphanSent` to `TB_faults.cfg` shows the same in the aiogram 2
  bot.
- **Deleted thread parent.** There is no fallback for a reply whose parent
  was deleted. The exception ends every later poll at that `e.s`, so nothing
  after it is ever handled. With several chats, the replies to the chats
  before it are sent again on every poll. TLC shows this as the `MaxMsgs`
  cap being reached when `TB_faults.cfg` uses two chats.
- **Ended before started.** The aiogram 2 bot relies on `os.listdir` order
  for the rule that ended markers are handled first, and so often sends red
  and then green for a start and end seen together. The aiogram 3 bot gets
  it right for one listing. Its second pass lists the directory again,
  though, so an `e.n` and `e.s` written while the first pass awaits also
  get a red. `EndedBeforeStarted` fails for `MC_TeleBotAio3` under the
  `TB_ended_first` bounds.
- **Chart scripts.** `ChartsShowInterval` is `PiesShowInterval /\
  SeriesShowInterval`. TLC's trace for it is the first bug below. Each
  other bug was shown by checking its script's conjunct alone under the
  same bounds. `TypeOK` holds over all 656,532 states, and the protocol pie
  is right in every one. The donut script fails in two ways:
  - When every AS with a row is in the top list, the `Others` row is
    `sum()` over no rows, which is `NULL`. Then `sum(octets)` raises
    `TypeError`, and a small network gets no chart. This is the case TLC
    shows.
  - The `Others` sum has no time condition (lines 29-34). Traffic of other
    ASes from before the interval is counted, and every share of the donut
    shrinks. With AS `a3`'s old traffic next to `a2`'s, `a2`, the only AS
    in the interval, gets 50%.

  The bar scripts fail in three ways:
  - `ts` raises `ValueError` when the interval has a single sample.
  - The `ts` query has no `ORDER BY`. Rows returned out of order give a
    negative bar width (`-1.1` sample steps in TLC's trace).
  - `ts-ip` joins its rows with `UNION`. Host `h2` and the rows with no
    host both have 1 octet at the same time and are both outside `topips`.
    They make two equal `'Other'` rows, `UNION` drops one, and the stack
    shows 1 of 2 octets.
- **Leftover `e.-tmp`.** A red loop that raises leaves `e.-tmp`, and so
  does a crash before the rename. If the anomaly then ends, the yellow
  branch removes `e.s` and `e.n` but never `e.-tmp`. TLC shows this in six
  steps when `MC_failures.cfg` checks that `e.-tmp` exists only while `e.n`
  does. It costs only a file, because nothing reads it. `TmpLeakBounded`
  shows the leak is bounded: each leftover file is paid for by one failed
  send or one crash, in both bots. It also holds with two overlapping polls
  when added to `MC_overlap.cfg`.
- **Channel commands, aiogram 2.** The aiogram 2 bot registers its
  handlers with `message_handler` only. A channel, the usual destination in
  `CHATS`, sends `/id` as a channel post, which no handler receives. So the
  command that tells an operator a channel's chat id gets no answer there.
  The aiogram 3 bot registers `channel_post` as well, and `core` checks
  that it answers (`CommandsAnswered`). The aiogram 2 model answers nothing
  in a channel, which `TB_core` exercises. Behaviour of the aiogram 2
  library is taken from its documented dispatch, which is not in this
  repository.
- **Duplicate permission rows.** `Permissions` has no unique constraint on
  `(user, mo_name)`. `dashboard()` keeps the last matching row, since its
  loop has no `break`, and `r_data()` takes the first. With two rows of
  different templates the page lists one template's charts and `r.data`
  runs the other's queries, or fails with an `IndexError`.

## 6. Not modelled

- Message text and emoji prefixes are abstracted to a colour. Sent-record
  lines are `<<chat, id>>` pairs.
- File contents are compared line by line. A byte-level overlay of lines of
  different length could leave a broken last line. This is not modelled.
- The detector's own writes are taken as atomic. The detector is not in this
  repository.
- `fsync` and power loss are not modelled: a process crash keeps every
  completed system call.
- Command handlers: the reply text is abstracted to which handler
  answered. Users write only in chats of `CHATS`. A user deleting a command
  before its answer, and updates redelivered after a crash, are left out,
  since they depend on aiogram's polling offsets, which are not in this
  repository. Commands are checked without crashes.
- Dashboard: password hashing, the SQL query text and its results, and
  HTML rendering are left out. `r_data`'s query runs in the database, not in
  the handler; the model stops at choosing the template, chart and range.
- Chart scripts: the `Kb`/`Mb`/`Gb` tick formatter depends on the tick
  values matplotlib's locator chooses, which are not in this repository.
  Plot layout, titles, legend text and the saved file are left out of all
  four scripts.
- `CHATS = []` and `API_TOKEN = '...'` as shipped are placeholders an
  operator fills in. With no chats every poll would consume the markers and
  send nothing, and there is nobody to tell, so no notification property
  tells right from wrong. The modules assume at least one chat, and the
  hazard list leaves this configuration out.
