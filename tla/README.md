# Driftnote, specified

Driftnote is a single-user diary. It mails a prompt every evening, polls a
mailbox for the replies, files each reply as a section of that day's `entry.md`,
keeps a SQLite index of the days for its web pages, mails digests of the week,
month and year, and mails an alert when its disk fills up. It runs as one
process (FastAPI with APScheduler on one event loop) beside a command line that
opens the same files, the same database and the same mailbox.

This directory holds TLA+ modules of that program, TLC configurations that check
them on small instances, and proofs about them for every instance. Paths below
are relative to `src/src/driftnote/` unless they say otherwise; `PROJECT.json`
maps every definition to the lines it stands for.

- [Components](#components)
- [Modules](#modules)
- [Runs](#runs)
- [Fairness](#fairness)
- [Proofs](#proofs)
- [What the code does otherwise than its documents](#what-the-code-does-otherwise-than-its-documents)
- [What is not modelled](#what-is-not-modelled)
- [Plan](#plan)

## Components

### Ingestion pipeline

`ingest/pipeline.py`, with `ingest/parse.py`, `ingest/attachments.py`,
`filesystem/layout.py`, `filesystem/markdown_io.py` and `filesystem/locks.py`.

*State.* Per day: a directory with `entry.md` (front matter and text),
`raw/<received>.eml`, `originals/`, `web/`, `thumbs/`, and a lock file. In the
index: the rows of `entries`, `tags`, `media` and `ingested_messages`.

*Operations.* `ingest_one`: parse, ask `is_ingested`, resolve the date, take the
day's `flock`, read `entry.md`, write the raw file, the attachments and
`entry.md`, then one transaction; on any exception unlink what was written.

*Hard.* Two stores without a common transaction; failures between any two
writes; a rollback that unlinks; several processes on one day; a check before
the lock.

*Correct when* no writer loses what another wrote, index and disk agree once
nobody is at work, a reply has one section and one raw file, a failed attempt
leaves nothing behind, and everything that is shown can be derived again from
a raw file.

### Edit form

`web/routes_edit.py`. Fills a form from the index, and on POST replaces mood,
tags and text of `entry.md` and of its row under the same `flock`, with no
rollback. It is the second writer of a day, with a user who may hold a form open
for as long as they like.

### IMAP poll and restore-imap

`scheduler/poll_job.py`, `mail/imap.py`, `cli.py`.

*State.* The mailbox (inbox, Processed, `\Seen`, `\Deleted`), and
`ingested_messages.imap_moved`.

*Operations.* A poll first retries the moves that are pending, then searches
UNSEEN, fetches, ingests and moves reply by reply. A move is a session of its
own: SELECT, SEARCH, COPY, STORE, EXPUNGE, then `mark_imap_moved`. `restore-imap`
reads both folders and ingests what it finds.

*Hard.* Every command is an await: the process may die there, and another
session may change the mailbox. FETCH has a side effect. Sequence numbers are not
stable. Nothing is caught, so one exception ends the poll; but a command that the
server answers NO to raises nothing, and not every answer is looked at.

*Correct when* a reply leaves the inbox only after it was ingested and copied,
`imap_moved = 1` is true of the mailbox unless a refusal was ignored, every reply
is ingested in the end and every pending move recorded, and a restore brings back
what had arrived in its window and was given to it.

### Disk check and alerts

`scheduler/disk_job.py`, `alerts.py`, `web/banners.py`. A check measures the disk
and compares it with two thresholds in turn. Each has a `disk_state` row while it
is crossed. A crossing is recorded, then mailed, unless a `job_runs` row of that
kind is less than 24 hours old. The pages show a banner from the rows.

*Hard.* Three transactions and an SMTP session per alert, and the exception of
the first threshold ends the check before the second. *Correct when* mails about
a threshold are apart in time and have a drop between them, and the banner is
right in the end.

### Job runs, prompts and the admin page

`scheduler/runner.py`, `scheduler/prompt_job.py`, `mail/smtp.py`,
`repository/jobs.py`, `web/routes_admin.py`, `web/banners.py`.

*State.* `job_runs`: a row per run, `running`, then `ok`, `warn` or `error`, with
an acknowledgement; `pending_prompts`: one Message-ID per day.

*Operations.* `job_run` opens and closes a row around each tick. The prompt job
mails the prompt and then records its Message-ID, which files the replies under
their day. The admin page lists the last runs of a job and acknowledges one
failure or all of them; every page counts the unacknowledged ones.

*Hard.* A tick awaits a server in the middle of its row's life, and may be
cancelled or die there. A mail may be taken and its answer lost. The user acts
on a page that may be days old.

*Correct when* a run under `job_run` that fails reaches the banner, nothing but
the page of its job takes it away, whatever is counted can be acknowledged, and a reply goes to
the day of the prompt it answers, on whatever day it is written and read.

### Digests and the calendar

`digest/`, `scheduler/digest_jobs.py`, the ticks of `app.py`, and `calendar` in
`web/routes_browse.py`. Nothing is kept: a tick takes a window of days from
today's date, reads the index and mails a mood board with sections, highlights,
photos and the longest streak.

*Hard.* The turns of week, month and year; leap years; grids of fixed size; a
selection in four passes; a trigger that comes to nothing. *Correct when* the
digests tell every day once, the boards lose none, and what is chosen is better
than what is passed over.

### reindex

`cli.py`. Rebuilds the index from the `entry.md` files, and with `--from-raw`
these from the raw files first, unless a guard finds edits. *Hard.* It unlinks
what it rebuilds, calls `ingest_one`, which is made to do nothing twice, and may
be run after a loss, after failures and after itself. *Correct when* the index
says again what the files say, every reply is back with one section, and no edit
is undone unasked.

### The others

| component | what it keeps and does | hard part |
|---|---|---|
| SQLite index (`db.py`, `models.py`, `repository/`) | the tables; FTS triggers | shared by all of the above |
| Application (`app.py`) | wires the parts, schedules the ticks | its ticks are the fairness below |
| Web pages (`web/`) | read-only views of the index and of the media files | none of their own |
| Cloudflare Access (`web/auth.py`) | a cache of signing keys for an hour | none that interleaves |
| Configuration, logging, host scripts | read at start; no state | the backup leaves out the database |

### Interactions

```
  mailbox <--(IMAP)-- poll, restore-imap --(ingest_one)--> entry directories + index
                                                ^   flock per day
  browser --(form)--> edit form ----------------+
  reindex --(ingest_one)------------------------+
  scheduler --> poll, prompt, digests, disk check --> SMTP
                poll, prompt, digests --> job_runs ------------> banner, admin page
                prompt --> pending_prompts --> day of a reply
                disk check --> job_runs, disk_state --> banner
  index --> digests, calendar page
```

`ingest_one` and `save_entry` contain no `await`, so within one process they
exclude each other; across processes only the `flock` and SQLite's transactions
do. The poll, the disk check and the digests await network I/O, so anything may
come in between there.

## Modules

**`Journal`** is the abstract specification: what the pages may show of the days.
Its state is the text of every day as a sequence of sections, and the set of
accepted replies. A reply is accepted once, as one more section of one of the
days it may be filed under, in the step that records it. An edit keeps an
initial part of the text and puts a section after it: all of the text when the
form is fresh, less when replies arrived since it was opened. The user's own
deletions are not modelled.

**`Ingest`** is the two writers in detail. `md[d]` is `entry.md`, `files[d]` the
raw files and originals, `index[d]` the row with its tags and media,
`ingested[m]` the `ingested_messages` row, `lock[d]` the `flock`, `form` the
browser's form, `proc[p]` the control state and locals of a process.

| code | actions |
|---|---|
| `ingest_one` to the flock | `Start` (parse, `is_ingested`, date), `Lock` (flock, `read_entry`) |
| raw file, attachments, `entry.md` | `WriteRaw`, `WriteMedia`, `WriteEntry`, each with a `...Fails` |
| transaction | `Commit`, `CommitFails` (key taken, or the database fails) |
| `_rollback_files` | `RollbackFiles`, then `RollbackEntry` |
| `edit_form`, `save_entry` | `OpenForm`, `SaveRequest`, `SaveLock`, `SaveFindsNoEntry`, `SaveWrite`, `SaveCommit`, `SaveFails` |
| a killed process | `Crash` |

A section is the reply it came from. What `parse_reply` finds in a reply is the
constant `Parsed`. The days `_resolve_entry_date` may choose are `DatesFor`: the
prompt's row when there is one, the Date header otherwise. The web and thumb
copies go with their original. The clock advances when it is read, so it tells
apart the order of the readings and whether two fall in one second. A write that
fails may leave a cut-off file (`Torn`). Attachments of one name share a file and
`entry.md` is replaced by a rename, both as in the code.

**`Poll`** is `run_poll_job`, `move_to_processed` and `restore-imap`, one action
per IMAP command and per transaction, against a mailbox written from RFC 3501 as
far as `imap.py` relies on it: FETCH sets `\Seen`, EXPUNGE removes what is
flagged, sequence numbers move, and a session may be told so in the response to
COPY. `ingest_one` is one step here that records the reply or raises. `Ingest`
has its inside. The message of a session is `view[ident]`; `Denoted` is what its
number means to the server.

aioimaplib returns a NO as it returns an OK. Where the code raises on it (LOGIN,
SEARCH HEADER, COPY) it is an `Abort`. Where the code goes on it is `Refuse`: a
SEARCH that is not OK ends the poll, or makes the restore pass over the folder; a
FETCH that gives nothing, or an answer without a message that has set `\Seen` all
the same (`"body"`), passes over the reply; the answers to STORE and EXPUNGE are
dropped and the row is marked. `window` is what was sent in SINCE/BEFORE.
`unmoved` and `owed` are history variables, for what was refused and for what a
restore has still to bring back.

**`Alerts`** is `run_disk_check`, `_maybe_alert` and `dispatch_alert`, one action
per transaction or mail. The `job_runs` rows of the alerts are kept as the age of
the newest one of each kind, all that the dedup looks at. A row has no kind until
it is finished, so a check that dies before that is not counted. A check that is
cancelled dies as well (`Crash`): `except Exception` is no handler of
`CancelledError`. The server may take a mail and its answer be lost
(`SendFails`). The banner asks for 80 and 95, which `web/banners.py:46-47` says in
so many digits; it follows a configuration with these thresholds, such as
`config.example.toml`'s, and no other. `mailAge` and `dropped` are history
variables that no action reads.

**`Reindex`** extends `Ingest` by the command: `Begin` (the guard), `UnlinkDay`,
`DeriveEml`, whose call of `ingest_one` is `Ingest`'s own actions by the process
`Cli`, `Derived`, `BuildDay`, `Finish`. A sorted list that is walked is the set of
what is left of it, and what comes next is its least element. Between commands
everything of `Ingest` may happen, the index may be lost (`LoseIndex`), and a
command may die anywhere.
The command runs while the app is stopped, as the design says (line 445).

**`Jobs`** is `job_run` around two ticks of the app, the prompt and the poll, and
`driftnote send-prompt`, which keeps no row. Only rows that `job_run` opens and
closes are in it, not those of the disk check, its alerts and the backup. A worker
is `task[w]`; `Start` opens the row, `Close` is whatever exit of `job_run` comes,
`Cancel` what `scheduler.shutdown` does to a tick that awaits, `Crash` what no
handler sees. A day is the unit of time; `runs` is in the order of `started_at`.
The poll is what it does to replies here; `Poll` has its inside. `page` is the
history that is open in the browser, with the rows that had a button when it was
fetched.

**`Calendar`** is `datetime.date` as far as it is used: days are numbers.
**`Digests`** has the windows, the query and every builder as operators, and
around them the days going by, with the triggers of each kind. `Digest` is a mail
without its HTML: its kind and window, and a body by kind (`WeeklyDigest`,
`MonthlyDigest`, `YearlyDigest`) with the grid by row and column, the counts, and
which days and photos it shows. `upto` and `missed` are history variables.

**`MCIngest`**, **`MCPoll`**, **`MCAlerts`**, **`MCReindex`**, **`MCJobs`** and
**`MCDigests`** hold the values of the constants.
The theorems are in modules of their own: **`IngestProofs`**, **`RawFileProofs`**
and **`JournalProofs`** about `Ingest`, the latter two on top of the first;
**`ReindexProofs`** about `Reindex`, on top of `IngestProofs`; **`PollProofs`**,
**`AlertsProofs`**, **`JobsProofs`** and **`DigestsProofs`** about their modules.

Definitions commented as a mutant are plausible mistakes: a mapped definition of
the same parameters is replaced by one to see that the property it is listed with
then fails. No specification uses them.

## Runs

| run | question | result |
|---|---|---|
| `Ingest_healthy` | app (two replies, edits) and CLI (one reply) on two days, disk writes may fail: do the two stores agree, is each reply there once with its one raw file, does every call return, is it the journal? | holds, 121,478 states |
| `Ingest_hostile` | the database may fail as well, a process may die, and both processes may hold the same reply: what still holds? | holds, 193,770 states |
| `Ingest_db_failure` | does `entry.md` survive a failed second reply? | violated |
| `Ingest_same_second` | does every accepted reply keep its raw file if two arrive in a second? | violated |
| `Poll_safety` | three replies, a poll, a restore of a window, an abort anywhere, a refused command, the database lost once | holds, 3,443,579 states |
| `Poll_retry` | two pollers, two replies, one failure and one refused command at points where the code can make them good: is every reply ingested, and every pending move recorded? | holds, 86,536 states |
| `Poll_ingest_failure` | is a reply whose ingestion fails ingested by a later poll? | violated |
| `Alerts_disk` | usage below, between and above the thresholds in any order, mails refused, one death | holds, 72,195 states |
| `Reindex_rebuild` | replies, an edit, deaths, a lost index and two `reindex` commands of every kind: is the index what the files say, are all replies back, is an edit kept? | holds, 2,920,273 states |
| `Reindex_from_raw` | does a day still have an `entry.md` after `reindex --from-raw`? | violated |
| `Jobs` | prompt, poll and `send-prompt` with refused and half-answered mails, failing transactions, cancellations and deaths, and a user on an old page: is every failure reported and every reply on its prompt's day? | holds, 1,141,001 states |
| `Digests` | the digests of a year and two of its turns, of chosen months and of every set of days at a year's end: is each day told once, in its place, and is the best chosen? | holds, 19,059 states |

What the properties say is stated above each in its module. Those that hold, in
short:

- *Ingest, healthy.* `IndexMatchesDisk`: the whole row is the whole document, on
  every day nobody works on. `AtMostOneSection`. `RawFilesAreTheRecordedOnes`: an
  equivalence between raw files and rows, so that a failed attempt neither leaves
  one nor takes one. `LostOnlyByStaleSave`: a section leaves a text only by the
  save of a form opened before it arrived. `JournalRefined`. `EveryCallReturns`.
- *Ingest, hostile.* `WrittenFromCurrent`: no lost update. `CommitMatchesDisk`: a
  transaction writes what is on disk, although earlier ones may have been lost.
  `AcceptedReplyKeepsRaw`, `EverySourceOnDisk`, `TextHasRawFile`: raw files are a
  superset of what was derived from them, so a rebuild can work.
- *Poll.* `CopiedBeforeExpunged`, `GoneOnlyWhenIngested`. `MarkedIsMoved`: a row
  that says moved has a copy in Processed, and the reply is still in the inbox only
  if STORE or EXPUNGE was refused. `RestoreRecovers`: what a restore does not bring
  back is outside its window, arrived since, or was not listed or given.
  `EveryReplyIngested`, `EveryPendingMoveRetried`.
- *Alerts.* `MailOnlyAfterDrop`, `MailsApart`, `BannerSettles`.
- *Reindex.* `ReindexRestoresIndex`: the recovery that the program offers for a
  lost or disagreeing index. `FromRawRederives`: with a new index, one section for
  each reply although failed attempts left several raw files, in the order of
  receipt. `EditLostOnlyByForce`: the guard, the loss, and the command's own death.
- *Jobs*, of the rows of `job_run`. `RunningHasAWorker`, `FailureIsReported`,
  `OnlyItsPageAcknowledges`, `EveryFailureHasAButton`, `RepliesFollowTheirPrompt`.
- *Digests.* `WindowIsLastWholePeriod` and `DigestsTile`; `GridShowsEachDayOnce`
  and `CalendarPageIsWhole`; `StreakIsLongest` and
  `HighlightsBetterThanPassedOver` against definitions that do not compute.

### Bounds

- *Processes: two.* The app and one command; the hazards are of two writers on a
  day, or two sessions on a mailbox.
- *Replies: two or three, days: two.* Two replies meet on one day, or one goes to
  another; the third has no attachment. In `Poll`, the third reply is the one that
  a stale sequence number hits.
- *Attachments.* Two replies carry one of the same name.
- *`MaxSecond`* (4, 3, 3, 2) is the number of clock readings, one per call, so it
  bounds attempts: retries after a failure are among them, and `TimeLeft` keeps a
  call from beginning that could not read the clock.
- *`MaxEdits = 1`*: one edit kept in a day's text; a form may be opened and
  discarded any number of times.
- *`SameSecond`* is FALSE but in `Ingest_same_second`, since the raw file's
  name makes `AcceptedReplyKeepsRaw` false when two calls share a second.
- *`CrashAt`* in `Ingest_hostile` is every control state but the middle of a
  rollback, where `EverySourceOnDisk` fails (see below). In `Alerts_disk` it is
  every state before the mail is out: a process that dies between the mail and
  its row forgets the mail, and `MailsApart` then fails after a drop.
- *`MaxAborts = 1`, `Restores = 1`*: one failure at any point; a restore may run
  before, during or after it. `Poll_retry` lets it happen before STORE and not at
  "check" or "ingest", where the reply is already `\Seen` and not yet recorded;
  `Poll_ingest_failure` shows what happens there.
- *`MaxRefusals = 1`*: one command refused, any of them in `Poll_safety`. In
  `Poll_retry` any but `"body"`, after which the reply is `\Seen` and not ingested,
  so that `EveryReplyIngested` fails as it does in `Poll_ingest_failure` (which
  refuses none).
- *`Windows`*: two of the three replies, so that one is outside.
- *`ServerTells`* is FALSE in `Poll_retry`, TRUE elsewhere. With one session at
  work it makes no difference; with two, `CopiedBeforeExpunged` fails under it
  (see below).
- *`Window = 4`* check intervals: ages are told apart up to the first outside it.
  `app.py` runs the check on a cron schedule.
- *`Reindex`.* Two commands and one loss, so that a command meets what another one
  left half done, before and after a loss; three replies, two of a day. The disk
  and the database do not fail there (`Ingest` has that): raw files are whole.
- *`Jobs`.* Two days, two rows, two prompts, one reply, one orphaned row. The
  limits of the code are scaled with them: a page of one row for 100, so that a
  second row is off the page, and a banner of 0 days for 7, so that a row of
  yesterday is out of it.
- *`Digests`.* A walk day by day from 17 December 2023 to 2 January 2025 (a leap
  year, two turns) and one over the turn to 2041, whose year 2040 is a leap year
  that begins on a Sunday, 54 columns wide; months of five days with every
  combination of photo and tags, up to renaming of tags, where four are chosen;
  every set of entries in the last nine days of a year. At most two triggers in a
  row are missed. The dev buttons are pressed on every eleventh day and at the
  ends.

`CHECK_DEADLOCK FALSE` in all but `Alerts`: when every reply is handled, the last day
is over, or the clock's bound is reached, nothing need happen.

## Fairness

- `Ingest`: a call that has begun goes on (`WF` on a process's steps and on the
  save's). It is synchronous code that waits only for the `flock`, which `locks.py`
  releases in a `finally`. Nobody is obliged to start a call, so a reply may stay
  away for ever. Weak fairness is enough because two processes cannot pass a lock
  between them for ever: replies and clock readings are finite.
- `Poll`: a poll begins again when it has ended (the cron tick in `app.py`), and
  runs on. A restore that was started runs on. Failures and deliveries have no
  fairness.
- `Alerts`: the check begins again, and ends. The mail client has a timeout.
- `Reindex`, `Jobs` and `Digests` state none: their properties are of safety. That
  a run ends at all is left to the timeouts of the mail clients; what `Jobs` says
  instead is that `job_run` leaves no row `running` behind (`RunningHasAWorker`).
  Other rows may be left so (see below).
- All runs with liveness check it under these formulas, on instances without
  symmetry reduction. No run uses symmetry.

## Proofs

Every safety property of every passing run is the statement of a theorem, proved
for all values of the constants that the named assumptions allow: any number of
processes, replies and days, any bound on seconds, edits, aborts, commands and
losses. Where a theorem has a hypothesis beyond those assumptions, it is needed,
and the reason is given here.

| theorem | property | hypotheses |
|---|---|---|
| `IngestProofs!TypeCorrect` | `TypeOK` | |
| `IngestProofs!NoLostUpdate` | `WrittenFromCurrent` | |
| `IngestProofs!CommitsAgree` | `CommitMatchesDisk` | |
| `IngestProofs!IndexAgreesWithDisk` | `IndexMatchesDisk` | `Healthy` |
| `RawFileProofs!RecordsNameTheirRawFile` | `AcceptedReplyKeepsRaw` | `~SameSecond` |
| `RawFileProofs!SourcesKeepTheirRawFile` | `EverySourceOnDisk` | `~SameSecond`, no death inside `_rollback_files` |
| `RawFileProofs!TextCanBeDerivedAgain` | `TextHasRawFile` | the same |
| `RawFileProofs!NoOrphanedRawFile` | `RawFilesAreTheRecordedOnes` | `~SameSecond`, `NoLateDeath` |
| `JournalProofs!OneSectionPerReply` | `AtMostOneSection` | `Healthy` |
| `JournalProofs!LossNeedsStaleForm` | `LostOnlyByStaleSave` | `Healthy` |
| `JournalProofs!WritersImplementJournal` | `JournalRefined` | `Healthy` |
| `ReindexProofs!IndexIsRestored` | `ReindexRestoresIndex` | |
| `ReindexProofs!FromRawRestoresReplies` | `FromRawRederives` | `Orderly` |
| `ReindexProofs!EditsAreSafe` | `EditLostOnlyByForce` | `Orderly`, `OneWriter` |
| `PollProofs!TypeCorrect` | `TypeOK` | |
| `PollProofs!NothingIsExpungedUncopied` | `CopiedBeforeExpunged` | `NumbersHold` |
| `PollProofs!NothingIsExpungedUnread` | `GoneOnlyWhenIngested` | `NumbersHold` |
| `PollProofs!MovedMeansMoved` | `MarkedIsMoved` | `NumbersHold` |
| `PollProofs!RestoreMissesNothing` | `RestoreRecovers` | `NumbersHold` |
| `AlertsProofs!TypeCorrect` | `TypeOK` | |
| `AlertsProofs!MailNeedsDrop` | `MailOnlyAfterDrop` | |
| `AlertsProofs!MailsKeepApart` | `MailsApart` | no death between a mail and its row |
| `JobsProofs!TypeCorrect` | `TypeOK` | |
| `JobsProofs!RunningIsWorkedOn` | `RunningHasAWorker` | |
| `JobsProofs!FailuresAreReported` | `FailureIsReported` | |
| `JobsProofs!FailuresStay` | `OnlyItsPageAcknowledges` | |
| `JobsProofs!FailuresHaveButtons` | `EveryFailureHasAButton` | |
| `JobsProofs!RepliesReachTheirDay` | `RepliesFollowTheirPrompt` | |
| `DigestsProofs!TypeCorrect` | `TypeOK` | |
| `DigestsProofs!WindowsAreLast` | `WindowIsLastWholePeriod` | |
| `DigestsProofs!DigestsFollowEachOther` | `DigestsTile` | |
| `DigestsProofs!GridsShowEachDayOnce` | `GridShowsEachDayOnce` | |
| `DigestsProofs!CalendarPagesAreWhole` | `CalendarPageIsWhole` | |
| `DigestsProofs!StreaksAreLongest` | `StreakIsLongest` | |
| `DigestsProofs!HighlightsAreTheBest` | `HighlightsBetterThanPassedOver` | |

### The two writers (`IngestProofs`)

None of the safety properties is inductive. `WrittenFromCurrent` speaks of the
document a process read, but it is preserved only because nobody else writes that
day meanwhile. That is so because a process between its flock and its release is
the holder of the lock (`ProcOK`), and only the holder writes. `IInv` adds this,
what a process that has written knows of the disk, and that a form was opened on
a day that is in the index, since a save may find the row it updates. The proof
is in two halves, as rely and guarantee: `Guarantee(p)` says what a step of `p`
leaves alone, the lemma `Frame` that such a step keeps `ProcOK` of every other
process, and then each action is shown to keep to its guarantee and its own
`ProcOK`. `HInv` adds that a day is out of step only while its holder is between
its two writes (`DayOK`), and that a process that rolls back has not written
`entry.md` (only the transaction comes after it).

`Healthy`: transactions do not fail, nobody dies, replies are handed out apart.
Disk writes may fail. Each of the three is needed for `IndexMatchesDisk`:
`CommitFails` unlinks an `entry.md` whose row stays, a crash after `WriteEntry`
leaves a document without its row, and a reply handed to two processes runs into
the key and is rolled back.

### Raw files (`RawFileProofs`)

The argument is that the name of a raw file belongs to one call. A reading of
the clock that all its calls have returned from is `Settled`; two calls under way
have read different seconds (`SecondsApart`). `RawGuarantee` says that a step of
`p` touches only the raw file `p` owns, so a settled one is never touched again.
On this stand three invariants: `RawInv`, that what a process has written is there
and that the raw file of a recorded reply is settled; `SourceInv`, that everything
an `entry.md`, a row, the open form or a save under way mentions has a whole raw
file, except what a process may still undo (`MayUndo`); and `TraceInv`, that every
whole raw file is recorded or about to be recorded or unlinked (`Writing`).

With `SameSecond` the first theorem is false (`Ingest_same_second`). A death
between the two halves of a rollback leaves an `entry.md` whose raw file is gone.
`NoLateDeath` excludes a death between the raw file and the return; such a raw
file is an orphan. Transactions and disk writes may fail in all four.

### The journal (`JournalProofs`)

`TextInv` carries the argument to the index: every reply in a row is recorded
under that day and is there once (`RowText`); the form shows an initial part of
what the row says now (`FormPrefix`); a writer is about to put one section after
such a part (`TextProcOK`). With `HInv`, by which a day and its row agree, a reply
that is being recorded has no section yet. The refinement is shown step by step:
`Commit` is `J!Accept`, `SaveCommit` is `J!Edit`, every other step a stutter.
`Healthy` is needed, since a failed transaction or a death changes the text of a
day without a step of the journal.

### reindex (`ReindexProofs`)

`ReindexAssumption` says that the walk visits every day once, in any order, and
that the disk does not fail. `CmdInv` adds to `IInv` that the command is alone
while it runs and that the raw files it has listed are there.

- `IndexIsRestored` follows from `BuiltSoFar`: the days the second walk has passed
  agree with their files. It needs nothing of what happened before.
- `FromRawRestoresReplies`. `KeepInv`: no call of `ingest_one` is undone, every raw
  file belongs to its day, every `entry.md` has one. `FreshInv`: each day the
  command found waits untouched, or its `entry.md` tells exactly the raw files
  that were read (`Past`), in increasing order and all older than those that are
  left, and its replies are recorded exactly if told (`Rederived`).
- `EditsAreSafe`. `EditInv`: an edit shows in the times of its document
  (`EditsShow`), what the app is about to write is younger than every entry
  (`AppIsLast`), and what the command writes is of a day whose edits are gone
  already (`CliIsBehind`).

`Orderly`: a reply has one day, no two processes are handed the same one, and the
database does not fail. A reply has two days if it can lose its prompt's row: a
raw file then lies under one and is derived under the other. If the database may
fail, the rollback unlinks the raw file that was being derived from.
`OneWriter`: only the app ingests, no two calls within a second. With a second
ingesting process, a `received_at`, which is read before the flock
(`scheduler/poll_job.py:69`), may be older than the document it is appended to.
`updated_at` is then set back to no later than `created_at`, and the guard takes
an edited day for an untouched one. TLC finds that behaviour in an instance with
two ingesting processes: without `OneWriter` the theorem would be false.

### The poll (`PollProofs`)

The heart is that the number found by SEARCH denotes the same message until STORE
has used it (`PollOK`). That is so if the server keeps quiet about other
sessions' EXPUNGEs between the commands, or if there is one poller, which is
`NumbersHold`; else `CopiedBeforeExpunged` is false. `ViewIsCurrent` says that a
session that could be told has nothing to be told. `BoxOK` orders the mailbox: a
flag `\Deleted` is set only after the copy, and only on what is recorded, unless the
database was lost since. A poll that is past STORE has flagged its message, or it
is `unmoved`, and one that is past EXPUNGE has removed it, or it is `unmoved`.
`Orderly` is what each step leaves a poll that is not at it. For the restore, each reply of the window that had arrived when it
began and was not passed over is ingested or `Owed`: in the folder in hand, listed
or still to be searched, or in the next, since polls move replies the same way in
which the restore reads.

### Alerts (`AlertsProofs`)

`DropInv`: a threshold that is not recorded has dropped since its last mail; one
whose mail is under way is recorded. `ApartInv`: the newest row of a kind is no
older than the newest mail, but while that row is being written; a process that
dies right then (`"finish" \in CrashAt`) breaks it and `MailsApart`.

### Job runs (`JobsProofs`)

Everything rests on who may write a row. As long as it says `running`, the worker
that opened it and nobody else (`Own`, `Apart`); afterwards, the admin page
(`PageOK`, on a page of any age), which writes only failures (`Calm`). The anchors
need a history of each run: none of its prompts before the mail, those of its own
day until the recording, anchored ones thereafter (`Progress`), hence a run that is
`ok` has only anchored ones (`OkIsAnchored`).

### Digests (`DigestsProofs`)

A mail is a function of the day and the index (`MailOK`), so the theorems are
about the operators: the calendar of `datetime.date` for every year from 2 on
(each day has one year, month and weekday), windows as whole periods, grids as a
bijection between the days of a window and the cells, the streak's single pass
against the longest run, the four passes of the highlights against what they pass
over. `TileInv` adds what the digests have told so far: up to the end of the
period before the last trigger, unless one was missed (`TileOK`). The
induction that the streak and the sorted order need is over a set, not over an
operator (lemma `Induction`, from the least element of its complement).
`ConstantsAssumption` asks that days are numbers and the walk begins in year 2 or
later, that the tags of an entry are finitely many and its media photos or videos.

### Only model-checked

The four liveness properties `EveryCallReturns`, `EveryReplyIngested`,
`EveryPendingMoveRetried` and `BannerSettles`: they are about weak fairness, hence
about `ENABLED`, which the provers used here do not treat. The four
violated properties are no theorems. `RecordsNameTheirRawFile` says when
the one of `Ingest_same_second` does hold, and `FromRawRestoresReplies` when
`--from-raw` brings back what `Reindex_from_raw` shows it to lose.

## What the code does otherwise than its documents

"Design" is `src/docs/superpowers/specs/2026-05-06-driftnote-design.md`.

With a run of its own:

- *A failed transaction takes the day along* (`Ingest_db_failure`). `entry.md` is
  in `created_files` once it was rewritten, so the rollback of a second reply
  unlinks the document of the first. "Whole-message rollback ... no entry.md
  mutation" (`ingest/pipeline.py:6`).
- *Two replies in a second share a raw file* (`Ingest_same_second`). "Both
  `raw.eml` files saved" (design, line 443).
- *A reply whose ingestion failed is never tried again* (`Poll_ingest_failure`).
  FETCH has set `\Seen`. "Message left UNSEEN; next poll retries" (design, 440).
- *`reindex --from-raw` loses the entry* (`Reindex_from_raw`) unless the index is
  new: `entry.md` is unlinked, and `ingest_one` does nothing for a reply that is
  recorded. "Also re-derive entry.md from raw/*.eml" (`src/README.md:74`).

Met while modelling, and visible with other constants, without a run here:

- A reply is expunged that was never copied, when the app and `poll-responses`
  poll at once and the server tells a session of the other's EXPUNGE in the
  response to COPY (`ServerTells` with two pollers): the number found by SEARCH
  then denotes another message.
- A crossing is recorded before it is mailed; if the mail is refused or
  suppressed, a recorded threshold is still taken for "already alerted"
  (`scheduler/disk_job.py:101`).
- One reply ingested by two processes at once is written twice, and the second,
  which runs into the key, unlinks `entry.md` (`Handed` not apart): the check
  comes before the flock.
- A raw file whose write is cut short is in no list and stays.
- `received_at` is read before the flock, so `sources` need not be in the order of
  receipt ("chronological list", design, line 225).
- A failed reply's rollback unlinks an attachment that an earlier reply of the day
  had stored under the same name.
- A process that dies inside `_rollback_files` (`"unlink" \in CrashAt`) leaves an
  `entry.md` that names a raw file which is gone.
- A poll that dies between EXPUNGE and `mark_imap_moved` leaves a pending move that
  raises in every later poll, before it reads the inbox. So does `restore-imap` for
  a reply it finds in Processed: it records it with `imap_moved = 0`.
- A STORE or EXPUNGE that the server refuses is ignored (`mail/imap.py:97-98`) and
  the row is marked all the same, although `mark_imap_moved()` is called "after a
  successful move" (`ingest/pipeline.py:9`). The reply stays in the inbox, and no
  poll retries the move.
- `restore-imap` passes over a folder whose SEARCH is not OK and a message whose
  FETCH gives none (`cli.py:186-193`), and ends with "restore-imap complete". In a
  poll, a FETCH that is done and whose answer holds no message leaves the reply
  `\Seen`: no later poll finds it.
- After the database was lost and rebuilt by a plain `reindex`,
  `ingested_messages` and `pending_prompts` stay empty: `restore-imap` appends
  replies again that are in `entry.md` already, and `reindex --from-raw` files a
  late reply under the day of its Date header.
- `reindex --from-raw` that dies after an unlink leaves a day that no later walk
  visits; one whose `ingest_one` fails unlinks the raw file it was given.
- With two processes ingesting, an edit may look untouched to the guard of
  `--from-raw`: a reply whose `received_at` was read before the day's first reply
  may be written after the edit, and sets `updated_at` back to before `created_at`
  (`scheduler/poll_job.py:69`, `cli.py:74`).
- The guard of `--from-raw` refuses any day with a second reply, which sets
  `updated_at` as an edit does.
- `src/README.md:122` and the runbook run `reindex` beside the app, which the
  design (445) says must be stopped; the command takes no `flock`.
- "Acknowledge all" is called "safe against runs that begin between the user's
  click and the request" (`repository/jobs.py:91`), but its `now` is read when
  the request is handled, so it acknowledges what the page never showed.
- A disk check that is cancelled while it awaits the mail server
  (`scheduler.shutdown(wait=False)`) leaves its two rows, `disk_check` and `alert`,
  `running` for ever: `_disk_tick` (`app.py:101-109`) is not under `job_run`, and
  `scheduler/disk_job.py:68` and `alerts.py:57` catch `Exception`, which
  `CancelledError` is not. The banner never counts them.
- A process that dies inside a job leaves its row `running` for ever, with a
  green dot on the admin page and nothing in the banner. `alert` rows are counted
  by the banner and have no card. A backup that never ran has no banner.
- A prompt that the server took although its answer was lost, or whose recording
  failed, is no anchor: replies to it go by their Date header. A second prompt
  for a day replaces the anchor of the first.
- The digest of a period whose trigger is missed, or whose mail is refused, is
  never sent; the design's three retries (line 435) are not there.
- `0 8 * * 1` in the configuration is a Tuesday for `CronTrigger(day_of_week=...)`.
  The window is right on any day.
- "Up to 6 highlight days" (`digest/monthly.py:7`) and "up to 53 columns"
  (`digest/moodboard.py:80`): the code chooses 4, and a leap year that begins on
  a Sunday has 54 columns.
- Triggers fire in the configured time zone, and windows and prompts take
  `date.today()`, which is the process's.
- The banner asks for 80 and 95 by number (`web/banners.py:46-47`): of another
  threshold in the configuration it never says anything.
- The dedup counts rows of mails that failed or were suppressed, so a usage that
  swings around a threshold may be reported never.

## What is not modelled

- MIME parsing, Markdown, image and video conversion, HTML: they compute and keep
  no state. What they find is a constant or left out. Conversion failures are
  failures of `WriteMedia`.
- The number of attachments allowed (`max_photos`, `max_videos`).
- SQLite itself: a transaction is atomic, and it fails or it does not.
- Cloudflare Access (`web/auth.py`): signatures are a library's, and the cache of
  keys is filled by synchronous code that nothing can come between.
- The cards of the admin page, the search, tag and entry pages, and the tag
  cloud: they show rows as they are.
- A `reindex` beside the running app, and messages without a Message-ID in
  `restore-imap`.
- In `Jobs`, the digests: `job_run` is around them as around the prompt and the
  poll. The rows of the disk check, of alerts and of the backup are not
  `job_run`'s. The first two are in `Alerts`, as far as the dedup looks at them; a
  host script writes the third.
- An `unlink` that fails in `_rollback_files`, which suppresses the `OSError`
  (`ingest/pipeline.py:281`): it is taken to succeed. A file would stay behind, as
  the properties of rolled-back calls say it does not.
- The walk of `reindex` as the lazy generator that it is (`cli.py:40-50`). It sorts
  the days of a month at once and months one by one; the days here are of one month.
- Durations, but for the dedup window: a flock held by a slow conversion holds up
  the event loop, which no property here says anything about.
- Replies without a Message-ID, which the poll skips.
- SMTP delivery: a mail that was sent has arrived.

## Plan

All modules of the plan are there (`Journal`, `Ingest`, `Poll`, `Alerts`,
`Digests`, `Jobs`, `Reindex`), and every safety property that a run checks is
proved. What is left:

1. Weaker hypotheses where they would say more: `EverySourceOnDisk` for the days
   that no process died on; `IndexMatchesDisk` after a restart for the days that
   no failure touched.
2. `EditsAreSafe` with the disk and the database failing, where it is the rollback
   that must not touch an edit.
3. That `Ingest` implements the single step that `Poll` and `Jobs` take it for.
4. The parts that are modelled in part: the cards of the admin page, and a
   `reindex` beside the running app.
