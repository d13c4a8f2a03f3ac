-------------------------------- MODULE Jobs --------------------------------
(***************************************************************************)
(* The jobs and what is kept of them: the job_runs row that job_run        *)
(* (scheduler/runner.py) opens and closes around each, the daily prompt,   *)
(* whose Message-ID becomes the anchor of its day, the poll that files the *)
(* replies by it, and the admin page on which failures are acknowledged.   *)
(* The ticks of the app run on one event loop and give way where they await*)
(* a server; `driftnote send-prompt` is a process of its own, without row. *)
(* Other rows of job_runs are none of this module's: disk_check and alert  *)
(* open and close theirs by themselves (Alerts), and a host script writes  *)
(* those of the backup.                                                    *)
(***************************************************************************)
EXTENDS Integers, Sequences, FiniteSets

CONSTANTS
    Workers,      \* the ticks of the app and the commands
    Commands,     \* the workers that are processes of their own
    JobOf,        \* JobOf[w]: the job whose row job_run keeps for w, or None
    Prompters,    \* the workers that send a prompt; the others poll
    PageLimit,    \* rows the history of a job shows
    SmtpMayFail, ImapMayFail, DbMayFail, MayCancel,
    BannerDays,   \* days a failure stays in the banner: 7
    MaxDay,       \* bound: the last day
    MaxRuns,      \* bound: rows of job_runs
    MaxMails,     \* bound: prompts sent
    MaxReplies,   \* bound: replies written
    MaxOrphans,   \* bound: rows that nobody will close
    None

VARIABLES
    today,        \* date.today()
    runs,         \* the rows of job_run, in order of started_at and of id
    task,         \* task[w]: control state and locals of worker w
    mails,        \* the prompts the server took: their date and run
    pending,      \* pending[d]: the Message-ID pending_prompts has for day d
    replies,      \* In-Reply-To, Date header, day filed under
    page,         \* the history open in the user's browser, if it has a button
    orphans       \* history: rows whose worker died or could not close them

vars == <<today, runs, task, mails, pending, replies, page, orphans>>

ASSUME ConstantsAssumption ==
    /\ MaxDay \in Nat \ {0}
    /\ {PageLimit, BannerDays} \subseteq Nat
    /\ None \notin Nat

Days == 1..MaxDay
Jobs == {JobOf[w] : w \in Workers} \ {None}
Failed == {"error", "warn"}

\* sent: the Message-ID of the prompt in hand.
Idle == [pc |-> "idle", run |-> None, date |-> 1, sent |-> None]

Init ==
    /\ today = 1
    /\ runs = <<>>
    /\ task = [w \in Workers |-> Idle]
    /\ mails = <<>>
    /\ pending = [d \in Days |-> None]
    /\ replies = <<>>
    /\ page = None
    /\ orphans = {}

-----------------------------------------------------------------------------
(* The life of a run *)

GoTo(w, pc) == task' = [task EXCEPT ![w].pc = pc]

\* Bound: the prompts sent and those that are on their way.
MaySend == Len(mails) + Cardinality({w \in Prompters : task[w].pc = "work"}) < MaxMails

\* job_run, up to its yield; today becomes the prompt's date.
Start(w) ==
    /\ JobOf[w] # None /\ task[w].pc = "idle" /\ Len(runs) < MaxRuns
    /\ w \in Prompters => MaySend
    /\ runs' = Append(runs, [job |-> JobOf[w], started |-> today,
                             status |-> "running", acked |-> FALSE])
    /\ task' = [task EXCEPT ![w] = [pc |-> "work", run |-> Len(runs) + 1,
                                    sent |-> None,
                                    date |-> IF w \in Prompters THEN today ELSE 1]]
    /\ UNCHANGED <<today, mails, pending, replies, page, orphans>>

\* _run_send_prompt: for any date the user names.
SendByHand(w, d) ==
    /\ JobOf[w] = None /\ task[w].pc = "idle" /\ MaySend
    /\ task' = [task EXCEPT ![w] = [Idle EXCEPT !.pc = "work", !.date = d]]
    /\ UNCHANGED <<today, runs, mails, pending, replies, page, orphans>>

\* The process dies: no handler of job_run runs.  The app takes all its ticks
\* with it.
Dying(w) == IF w \in Commands THEN {w} ELSE Workers \ Commands

Orphan(is) == /\ orphans' = orphans \cup is
              /\ Cardinality(orphans \cup is) <= MaxOrphans

Crash(w) ==
    /\ task[w].pc # "idle"
    /\ task' = [v \in Workers |-> IF v \in Dying(w) THEN Idle ELSE task[v]]
    /\ Orphan({task[v].run : v \in Dying(w)} \ {None})
    /\ UNCHANGED <<today, runs, mails, pending, replies, page>>

\* job_run catches BaseException.  Mutant: only Exception, as disk_job.py does,
\* which CancelledError is not.
NotCaught == "idle"
Caught == "failed"

\* The server takes w's prompt.
Deliver(w) == mails' = Append(mails, [date |-> task[w].date, run |-> task[w].run])

\* scheduler.shutdown(wait=False) cancels the tick where it awaits a server.
Cancel(w) ==
    /\ MayCancel /\ w \notin Commands /\ task[w].pc = "work"
    /\ UNCHANGED mails \/ (w \in Prompters /\ Deliver(w))
    /\ GoTo(w, Caught)
    /\ UNCHANGED <<today, runs, pending, replies, page, orphans>>

\* The rest of job_run: finish_job_run, with status error if anything was
\* raised.  A command without a row just ends.
Close(w) ==
    /\ task[w].pc \in {"done", "failed"}
    /\ IF task[w].run = None THEN UNCHANGED runs
       ELSE runs' = [runs EXCEPT ![task[w].run].status =
                       IF task[w].pc = "done" THEN "ok" ELSE "error"]
    /\ task' = [task EXCEPT ![w] = Idle]
    /\ UNCHANGED <<today, mails, pending, replies, page, orphans>>

\* finish_job_run raises: the row stays as it is.
CloseFails(w) ==
    /\ DbMayFail /\ task[w].pc \in {"done", "failed"} /\ task[w].run # None
    /\ task' = [task EXCEPT ![w] = Idle]
    /\ Orphan({task[w].run})
    /\ UNCHANGED <<today, runs, mails, pending, replies, page>>

-----------------------------------------------------------------------------
(* run_prompt_job *)

\* Mutant: the prompt is sent and not recorded.
NoAnchor == "done"
Sent == "record"

\* The server has the mail, and send_email returns.
Send(w) ==
    /\ w \in Prompters /\ task[w].pc = "work"
    /\ Deliver(w)
    /\ task' = [task EXCEPT ![w].pc = Sent, ![w].sent = Len(mails) + 1]
    /\ UNCHANGED <<today, runs, pending, replies, page, orphans>>

\* send_email raises: the mail was refused, or taken and the answer lost.
SendFails(w) ==
    /\ SmtpMayFail /\ w \in Prompters /\ task[w].pc = "work"
    /\ UNCHANGED mails \/ Deliver(w)
    /\ GoTo(w, "failed")
    /\ UNCHANGED <<today, runs, pending, replies, page, orphans>>

\* Mutant: the prompt is the anchor of the day on which it is recorded.
DayOfRecord(w) == today
PromptDay(w) == task[w].date

\* record_pending_prompt: one row a day, the last prompt's.
Record(w) ==
    /\ task[w].pc = "record"
    /\ pending' = [pending EXCEPT ![PromptDay(w)] = task[w].sent]
    /\ GoTo(w, "done")
    /\ UNCHANGED <<today, runs, mails, replies, page, orphans>>

RecordFails(w) ==
    /\ DbMayFail /\ task[w].pc = "record"
    /\ GoTo(w, "failed")
    /\ UNCHANGED <<today, runs, mails, pending, replies, page, orphans>>

-----------------------------------------------------------------------------
(* Replies and the poll *)

\* The user answers a prompt that arrived; the mail program may leave out
\* In-Reply-To or Date.
WriteReply(inReplyTo, date) ==
    /\ Len(replies) < MaxReplies
    /\ replies' = Append(replies, [inReplyTo |-> inReplyTo, date |-> date, filed |-> None])
    /\ UNCHANGED <<today, runs, task, mails, pending, page, orphans>>

\* find_prompt_by_message_id
Anchors(r) == IF r.inReplyTo = None THEN {} ELSE {d \in Days : pending[d] = r.inReplyTo}

\* _resolve_entry_date
Resolve(r) == IF Anchors(r) # {} THEN CHOOSE d \in Anchors(r) : TRUE
              ELSE IF r.date # None THEN r.date
              ELSE today

\* run_poll_job files a reply, or comes to its end, or an exception ends it.
FileReply(w, i) ==
    /\ w \notin Prompters /\ task[w].pc = "work" /\ replies[i].filed = None
    /\ replies' = [replies EXCEPT ![i].filed = Resolve(replies[i])]
    /\ UNCHANGED <<today, runs, task, mails, pending, page, orphans>>

EndPoll(w) ==
    /\ w \notin Prompters /\ task[w].pc = "work"
    /\ \/ GoTo(w, "done")
       \/ ImapMayFail /\ GoTo(w, "failed")
    /\ UNCHANGED <<today, runs, mails, pending, replies, page, orphans>>

-----------------------------------------------------------------------------
(* The admin page *)

Unacked(i) == runs[i].status \in Failed /\ ~runs[i].acked

RunsOf(j) == {i \in 1..Len(runs) : runs[i].job = j}

\* recent_failures, as the banner asks for them.
Counted == {i \in 1..Len(runs) : Unacked(i) /\ runs[i].started >= today - BannerDays}

\* recent_runs_for_job: the last ones, of all or of the failed.
Recent(j, onlyFailed) ==
    LET these == {i \in RunsOf(j) : onlyFailed => runs[i].status \in Failed} IN
    {i \in these : Cardinality({k \in these : k > i}) < PageLimit}

\* count_unacked_failures_for_job.  Mutant: of the rows the page shows.
CountShown(j, shown) == Cardinality({i \in shown : Unacked(i)})
Count(j, shown) == Cardinality({i \in RunsOf(j) : Unacked(i)})

\* admin_drill: the rows with an ack button, and the number on the button for
\* all, which is there when it is not 0.
History(j, onlyFailed) ==
    LET shown == Recent(j, onlyFailed) IN
    [job |-> j, buttons |-> {i \in shown : Unacked(i)}, count |-> Count(j, shown)]

OpenHistory(j, onlyFailed) ==
    /\ LET p == History(j, onlyFailed) IN
       page' = IF p.count = 0 THEN None ELSE [job |-> j, buttons |-> p.buttons]
    /\ UNCHANGED <<today, runs, task, mails, pending, replies, orphans>>

\* admin_ack, and the redirect to the page without a history.
Acknowledge(i) ==
    /\ page # None /\ i \in page.buttons
    /\ runs' = [runs EXCEPT ![i].acked = TRUE]
    /\ page' = None
    /\ UNCHANGED <<today, task, mails, pending, replies, orphans>>

\* acknowledge_all_for_job.  Mutants: of any job; of any status.
AnyJob(j) == {i \in 1..Len(runs) : Unacked(i) /\ runs[i].started <= today}
AnyStatus(j) == {i \in RunsOf(j) : ~runs[i].acked /\ runs[i].started <= today}
Acknowledged(j) == {i \in RunsOf(j) : Unacked(i) /\ runs[i].started <= today}

\* admin_ack_all; no failure of the job is left on the page it redirects to.
AcknowledgeAll ==
    /\ page # None
    /\ runs' = [i \in 1..Len(runs) |->
                  IF i \in Acknowledged(page.job) THEN [runs[i] EXCEPT !.acked = TRUE]
                  ELSE runs[i]]
    /\ page' = None
    /\ UNCHANGED <<today, task, mails, pending, replies, orphans>>

-----------------------------------------------------------------------------

Midnight ==
    /\ today < MaxDay
    /\ today' = today + 1
    /\ UNCHANGED <<runs, task, mails, pending, replies, page, orphans>>

Work(w) == \/ Close(w) \/ CloseFails(w)
           \/ Send(w) \/ SendFails(w) \/ Record(w) \/ RecordFails(w)
           \/ \E i \in 1..Len(replies) : FileReply(w, i)
           \/ EndPoll(w)

Next ==
    \/ \E w \in Workers : Start(w) \/ Work(w) \/ Crash(w) \/ Cancel(w)
    \/ \E w \in Workers, d \in Days : SendByHand(w, d)
    \/ \E m \in 1..Len(mails) \cup {None}, date \in {today, None} : WriteReply(m, date)
    \/ \E j \in Jobs, onlyFailed \in BOOLEAN : OpenHistory(j, onlyFailed)
    \/ \E i \in 1..Len(runs) : Acknowledge(i)
    \/ AcknowledgeAll
    \/ Midnight

Spec == Init /\ [][Next]_vars

-----------------------------------------------------------------------------
(* Properties *)

\* Every variable keeps its type; the anchor of a day is a prompt about that
\* day (prompt_job.py:38-44), also when it is recorded after midnight.
TypeOK ==
    /\ today \in Days
    /\ runs \in Seq([job : Jobs, started : Days, acked : BOOLEAN,
                     status : {"running", "ok"} \cup Failed])
    /\ task \in [Workers -> [pc : {"idle", "work", "record", "done", "failed"},
                              run : 1..Len(runs) \cup {None}, date : Days,
                              sent : 1..Len(mails) \cup {None}]]
    /\ mails \in Seq([date : Days, run : 1..Len(runs) \cup {None}])
    /\ pending \in [Days -> 1..Len(mails) \cup {None}]
    /\ \A d \in Days : pending[d] # None => mails[pending[d]].date = d
    /\ replies \in Seq([inReplyTo : 1..Len(mails) \cup {None},
                        date : Days \cup {None}, filed : Days \cup {None}])
    /\ page = None \/ page \in [job : Jobs, buttons : SUBSET (1..Len(runs))]
    /\ orphans \subseteq 1..Len(runs)

\* A run that fails turns up in the banner, whatever was acknowledged while it
\* ran (jobs.py:86-106, banners.py:25-34).
FailureIsReported ==
    [][\A i \in 1..Len(runs) :
         runs[i].status # "error" /\ runs'[i].status = "error" =>
           /\ ~runs'[i].acked
           /\ runs[i].started >= today - BannerDays => i \in Counted']_vars

\* A failure is acknowledged only by the user, and only from the history of
\* its own job; no row that failed is made good (jobs.py:82-106).
OnlyItsPageAcknowledges ==
    [][\A i \in 1..Len(runs) :
         Unacked(i) /\ runs'[i] # runs[i] =>
           /\ runs'[i] = [runs[i] EXCEPT !.acked = TRUE]
           /\ page # None /\ page.job = runs[i].job]_vars

\* Every failure the banner counts can be acknowledged on the history of its
\* job, filtered or not: by a button of its own or, when newer rows have
\* pushed it off the page, by the button for all (jobs.py:163-196).
EveryFailureHasAButton ==
    \A i \in Counted, onlyFailed \in BOOLEAN :
      LET p == History(runs[i].job, onlyFailed) IN
      i \in p.buttons \/ p.count >= 1

\* A reply that names its prompt is filed under the prompt's day, on whatever
\* day it is written or read, when the prompt's run is ok and there is no other
\* prompt for that day (prompt_job.py:31-44, pipeline.py:191-201).
RepliesFollowTheirPrompt ==
    [][\A i \in 1..Len(replies) :
         LET m == replies[i].inReplyTo IN
         /\ replies'[i].filed # replies[i].filed
         /\ m # None
         /\ mails[m].run # None /\ runs[mails[m].run].status = "ok"
         /\ \A k \in 1..Len(mails) : k # m => mails[k].date # mails[m].date
         => replies'[i].filed = mails[m].date]_vars

\* A row that job_run keeps says "running" only while its worker is at it, a
\* cancelled tick's included, unless its process died or the database refused
\* the last write: nothing else of these jobs is left for the banner to miss
\* (runner.py:42-76).
RunningHasAWorker ==
    \A i \in (1..Len(runs)) \ orphans : runs[i].status = "running" =>
      \E w \in Workers : task[w].run = i /\ task[w].pc # "idle"

=============================================================================
