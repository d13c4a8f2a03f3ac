------------------------------- MODULE Ingest -------------------------------
(***************************************************************************)
(* ingest_one (ingest/pipeline.py) and save_entry (web/routes_edit.py): the*)
(* two writers of an entry.  Each writes files first and the SQLite index  *)
(* second, under a per-date flock.  Inside one OS process both run without *)
(* an await, so a process is a single thread of control; several processes *)
(* (the app, `driftnote poll-responses`, `driftnote restore-imap`) run at  *)
(* once, and each of their disk and database steps is an action here.      *)
(***************************************************************************)
EXTENDS Integers, Sequences, FiniteSets

CONSTANTS
    Procs, App,  \* OS processes; App serves the edit form
    Messages,    \* replies, by Message-ID
    Handed,      \* Handed[p]: the replies IMAP may hand to process p
    Dates,
    DatesFor,    \* DatesFor[m]: what _resolve_entry_date may return for m
    Parsed,      \* Parsed[m]: mood, tags and attachments parse_reply finds
    Names,       \* attachment file names
    Moods, NoMood, Tags,
    Edited,      \* the text a user's edit adds
    MaxEdits,    \* bound: edits kept in one day's text
    MaxSecond,   \* bound: last value of the clock
    SameSecond,  \* may two calls read the clock within one second?
    FsMayFail,   \* may a disk write raise (disk full, permissions)?
    DbMayFail,   \* may the index transaction raise (locked, disk full)?
    CrashAt,     \* the control states at which a process may die
    Torn,        \* a file whose write was cut short
    None         \* absent: no file, no row, no holder

VARIABLES
    clock,       \* datetime.now(), in whole seconds
    md,          \* md[d]: the parsed entry.md of day d
    files,       \* files[d]: the other files of the day's directory
    lock,        \* lock[d]: the process that holds d's flock
    index,       \* index[d]: the entries row of d with its tags and media
    ingested,    \* ingested[m]: the ingested_messages row of m
    form,        \* the edit form open in the user's browser
    proc         \* proc[p]: control state and locals of process p

vars == <<clock, md, files, lock, index, ingested, form, proc>>

-----------------------------------------------------------------------------
(* Data *)

Seconds == 1..MaxSecond
\* Mutant: the file is named for the day, not for the second.
DailyRawPath(t) == <<"raw", 1>>
RawPath(t) == <<"raw", t>>
OriginalPath(n) == <<"originals", n>>
Paths == {RawPath(t) : t \in Seconds} \cup {OriginalPath(n) : n \in Names}
Sections == Messages \cup {Edited}

Parses == [mood : Moods \cup {NoMood}, tags : SUBSET Tags, media : Seq(Names)]

Docs == [body : Seq(Sections), mood : Moods \cup {NoMood}, tags : SUBSET Tags,
         media : Seq(Names), sources : Seq(Seconds),
         created : Seconds, updated : Seconds]

Rows == [body : Seq(Sections), mood : Moods \cup {NoMood}, tags : SUBSET Tags,
         media : Seq(Names), created : Seconds, updated : Seconds]

Forms == [date : Dates, body : Seq(Sections), mood : Moods \cup {NoMood},
          tags : SUBSET Tags]

IngestPCs == {"lock", "raw", "media", "write", "commit", "rollback", "unlink"}
SavePCs == {"savelock", "savewrite", "savecommit"}
Holding == (IngestPCs \cup SavePCs) \ {"lock", "savelock"}

\* Locals of a call; `old` is the document read under the lock, `new` the
\* one composed from it, `made` the paths in created_files.
Idle == [pc |-> "idle", msg |-> None, date |-> None, rcvd |-> 0,
         old |-> None, new |-> None, made |-> {}]

Locals == [pc : IngestPCs \cup SavePCs \cup {"idle"},
           msg : Messages \cup {None}, date : Dates \cup {None},
           rcvd : Seconds \cup {0}, old : Docs \cup {None},
           new : Docs \cup {None}, made : SUBSET Paths]

ASSUME ConstantsAssumption ==
    /\ App \in Procs
    /\ Handed \in [Procs -> SUBSET Messages]
    /\ DatesFor \in [Messages -> SUBSET Dates]
    /\ Parsed \in [Messages -> Parses]
    /\ MaxEdits \in Nat /\ MaxSecond \in Nat
    /\ {SameSecond, FsMayFail, DbMayFail} \subseteq BOOLEAN
    /\ CrashAt \subseteq IngestPCs \cup SavePCs

ASSUME NoneAssumption ==
    /\ None \notin Procs \cup Messages \cup Dates \cup Docs \cup Rows \cup Forms
    /\ None \notin [date : Dates, eml : Seconds]
    /\ Torn \notin Messages \cup {None}
    /\ Edited \notin Messages

Init ==
    /\ clock = 0
    /\ md = [d \in Dates |-> None]
    /\ files = [d \in Dates |-> [path \in Paths |-> None]]
    /\ lock = [d \in Dates |-> None]
    /\ index = [d \in Dates |-> None]
    /\ ingested = [m \in Messages |-> None]
    /\ form = None
    /\ proc = [p \in Procs |-> Idle]

-----------------------------------------------------------------------------
(* Helpers *)

\* The clock moves only when somebody reads it: only the order of the
\* readings, and whether two of them fall in one second, is told apart.
Now == {t \in Seconds : t = clock + 1 \/ (SameSecond /\ t = clock)}

\* Bound: a call begins only when a second is left for it to read.
TimeLeft == clock + (IF proc[App].pc = "savelock" THEN 1 ELSE 0) < MaxSecond

\* Mutant: a shared lock, or none.
MayAlwaysEnter(p, d) == TRUE
MayEnter(p, d) == lock[d] = None

\* Mutant: an exit that leaves the flock taken.
ReleaseForgotten(p) == lock
Release(p) == IF proc[p].pc \in Holding
              THEN [lock EXCEPT ![proc[p].date] = None]
              ELSE lock

PutFiles(dir, paths, content) ==
    [path \in Paths |-> IF path \in paths THEN content ELSE dir[path]]

MediaPaths(m, n) == {OriginalPath(Parsed[m].media[i]) : i \in 1..n}

\* Mutant: the existing document is not looked at.
ComposeAnew(m, t, old) ==
    [body |-> <<m>>, mood |-> Parsed[m].mood, tags |-> Parsed[m].tags,
     media |-> Parsed[m].media, sources |-> <<t>>, created |-> t, updated |-> t]

\* Mutant: the creation time of a new entry is left at zero.
ComposeEpoch(m, t, old) == [ComposeAnew(m, t, old) EXCEPT !.created = 0]

Compose(m, t, old) ==
    LET new == Parsed[m] IN
    IF old = None
    THEN [body |-> <<m>>, mood |-> new.mood, tags |-> new.tags,
          media |-> new.media, sources |-> <<t>>, created |-> t, updated |-> t]
    ELSE [body |-> Append(old.body, m),
          mood |-> IF old.mood # NoMood THEN old.mood ELSE new.mood,
          tags |-> old.tags \cup new.tags,
          media |-> old.media \o new.media,
          sources |-> Append(old.sources, t),
          created |-> old.created,
          updated |-> t]

ApplyForm(f, old, tags, t) ==
    [old EXCEPT !.body = Append(f.body, Edited), !.mood = f.mood,
                !.tags = tags, !.updated = t]

\* The rows upsert_entry, replace_tags and replace_media leave for a document.
RowOf(doc) == [body |-> doc.body, mood |-> doc.mood, tags |-> doc.tags,
               media |-> doc.media, created |-> doc.created,
               updated |-> doc.updated]

\* Mutants: the tags are not replaced; the row is not upserted.
SavedRowOldTags(doc, row) == [RowOf(doc) EXCEPT !.media = row.media, !.tags = row.tags]
SavedRowOldText(doc, row) == [row EXCEPT !.tags = doc.tags]

\* save_entry calls upsert_entry and replace_tags, and leaves the media rows.
SavedRow(doc, row) == [RowOf(doc) EXCEPT !.media = row.media]

\* Mutants: entry.md is not in created_files; nothing is unlinked.
DocKept(doc, new) == doc
FilesKept(dir, made) == dir

\* _rollback_files: entry.md is in created_files once it has been written.
RolledBackDoc(doc, new) == IF new = None THEN doc ELSE None
RolledBackFiles(dir, made) == PutFiles(dir, made, None)

\* Mutant: no key, and a check that never finds the row.
NeverRecorded(m) == FALSE

\* ingested_messages has message_id as its primary key.
AlreadyRecorded(m) == ingested[m] # None

Edits(body) == {i \in 1..Len(body) : body[i] = Edited}

-----------------------------------------------------------------------------
(* ingest_one *)

\* Parse, check idempotency (an ingested message is a no-op and no step),
\* resolve the date; the caller took received_at from the clock.
Start(p, m) ==
    /\ TimeLeft
    /\ proc[p].pc = "idle"
    /\ m \in Handed[p]
    /\ ~AlreadyRecorded(m)
    /\ \E t \in Now, d \in DatesFor[m] :
         /\ clock' = t
         /\ proc' = [proc EXCEPT ![p] = [Idle EXCEPT !.pc = "lock", !.msg = m,
                                                     !.date = d, !.rcvd = t]]
    /\ UNCHANGED <<md, files, lock, index, ingested, form>>

\* Take the flock and read the existing document.
Lock(p) ==
    /\ proc[p].pc = "lock"
    /\ MayEnter(p, proc[p].date)
    /\ lock' = [lock EXCEPT ![proc[p].date] = p]
    /\ proc' = [proc EXCEPT ![p].pc = "raw", ![p].old = md[proc[p].date]]
    /\ UNCHANGED <<clock, md, files, index, ingested, form>>

\* Write raw/<received-utc>.eml, before anything else.
WriteRaw(p) ==
    /\ proc[p].pc = "raw"
    /\ files' = [files EXCEPT ![proc[p].date] =
                   PutFiles(@, {RawPath(proc[p].rcvd)}, proc[p].msg)]
    /\ proc' = [proc EXCEPT ![p].pc = "media",
                            ![p].made = {RawPath(proc[p].rcvd)}]
    /\ UNCHANGED <<clock, md, lock, index, ingested, form>>

\* write_bytes raises before or after it created the file, which is not yet
\* in created_files.
WriteRawFails(p) ==
    /\ FsMayFail
    /\ proc[p].pc = "raw"
    /\ \E cut \in SUBSET {RawPath(proc[p].rcvd)} :
         files' = [files EXCEPT ![proc[p].date] = PutFiles(@, cut, Torn)]
    /\ proc' = [proc EXCEPT ![p].pc = "rollback"]
    /\ UNCHANGED <<clock, md, lock, index, ingested, form>>

\* Save the originals (and derive their web and thumb copies).
WriteMedia(p) ==
    LET c == proc[p]
        paths == MediaPaths(c.msg, Len(Parsed[c.msg].media)) IN
    /\ c.pc = "media"
    /\ files' = [files EXCEPT ![c.date] = PutFiles(@, paths, c.msg)]
    /\ proc' = [proc EXCEPT ![p].pc = "write", ![p].made = @ \cup paths]
    /\ UNCHANGED <<clock, md, lock, index, ingested, form>>

\* The n-th attachment cannot be written: those before it are tracked, what
\* there is of it is not.
WriteMediaFails(p) ==
    LET c == proc[p] IN
    /\ FsMayFail
    /\ c.pc = "media"
    /\ \E n \in 1..Len(Parsed[c.msg].media) :
         LET done == MediaPaths(c.msg, n - 1)
             dir == PutFiles(files[c.date], done, c.msg) IN
         /\ \E cut \in SUBSET {OriginalPath(Parsed[c.msg].media[n])} :
              files' = [files EXCEPT ![c.date] = PutFiles(dir, cut, Torn)]
         /\ proc' = [proc EXCEPT ![p].pc = "rollback", ![p].made = @ \cup done]
    /\ UNCHANGED <<clock, md, lock, index, ingested, form>>

\* _compose_entry_doc and write_entry (temporary file, then rename).
WriteEntry(p) ==
    LET c == proc[p]
        doc == Compose(c.msg, c.rcvd, c.old) IN
    /\ c.pc = "write"
    /\ md' = [md EXCEPT ![c.date] = doc]
    /\ proc' = [proc EXCEPT ![p].pc = "commit", ![p].new = doc]
    /\ UNCHANGED <<clock, files, lock, index, ingested, form>>

WriteEntryFails(p) ==
    /\ FsMayFail
    /\ proc[p].pc = "write"
    /\ proc' = [proc EXCEPT ![p].pc = "rollback"]
    /\ UNCHANGED <<clock, md, files, lock, index, ingested, form>>

\* One transaction: entries, tags, media and ingested_messages.  Then the
\* call returns and the flock is released.
Commit(p) ==
    LET c == proc[p] IN
    /\ c.pc = "commit"
    /\ ~AlreadyRecorded(c.msg)
    /\ index' = [index EXCEPT ![c.date] = RowOf(c.new)]
    /\ ingested' = [ingested EXCEPT ![c.msg] = [date |-> c.date, eml |-> c.rcvd]]
    /\ lock' = Release(p)
    /\ proc' = [proc EXCEPT ![p] = Idle]
    /\ UNCHANGED <<clock, md, files, form>>

\* The transaction raises: the key is taken, or the database fails.
CommitFails(p) ==
    /\ proc[p].pc = "commit"
    /\ DbMayFail \/ AlreadyRecorded(proc[p].msg)
    /\ proc' = [proc EXCEPT ![p].pc = "rollback"]
    /\ UNCHANGED <<clock, md, files, lock, index, ingested, form>>

\* except BaseException: _rollback_files unlinks what is in created_files, in
\* the order of its creation: the raw file and the originals first.  An
\* unlink that fails is suppressed; here none does.
RollbackFiles(p) ==
    LET c == proc[p] IN
    /\ c.pc = "rollback"
    /\ files' = [files EXCEPT ![c.date] = RolledBackFiles(@, c.made)]
    /\ proc' = [proc EXCEPT ![p].pc = "unlink"]
    /\ UNCHANGED <<clock, md, lock, index, ingested, form>>

\* Then entry.md; then the exception leaves the flock.
RollbackEntry(p) ==
    LET c == proc[p] IN
    /\ c.pc = "unlink"
    /\ md' = [md EXCEPT ![c.date] = RolledBackDoc(@, c.new)]
    /\ lock' = Release(p)
    /\ proc' = [proc EXCEPT ![p] = Idle]
    /\ UNCHANGED <<clock, files, index, ingested, form>>

-----------------------------------------------------------------------------
(* edit_form and save_entry *)

\* GET /entry/{date}/edit fills the form from the index.
OpenForm(d) ==
    /\ proc[App].pc = "idle"
    /\ index[d] # None
    /\ Cardinality(Edits(index[d].body)) < MaxEdits
    /\ form' = [date |-> d, body |-> index[d].body, mood |-> index[d].mood,
                tags |-> index[d].tags]
    /\ UNCHANGED <<clock, md, files, lock, index, ingested, proc>>

\* POST /entry/{date}: 404 unless entry.md exists (tested before the flock).
SaveRequest ==
    /\ TimeLeft
    /\ proc[App].pc = "idle"
    /\ form # None
    /\ md[form.date] # None
    /\ proc' = [proc EXCEPT ![App] = [Idle EXCEPT !.pc = "savelock",
                                                  !.date = form.date]]
    /\ UNCHANGED <<clock, md, files, lock, index, ingested, form>>

\* Take the flock, read the document, put the form's fields into it.
SaveLock ==
    LET d == proc[App].date IN
    /\ proc[App].pc = "savelock"
    /\ MayEnter(App, d)
    /\ md[d] # None
    /\ \E t \in Now, tags \in SUBSET Tags :
         /\ clock' = t
         /\ proc' = [proc EXCEPT ![App].pc = "savewrite", ![App].old = md[d],
                                 ![App].new = ApplyForm(form, md[d], tags, t)]
    /\ lock' = [lock EXCEPT ![d] = App]
    /\ UNCHANGED <<md, files, index, ingested, form>>

\* entry.md went away since the request tested for it: read_entry raises.
SaveFindsNoEntry ==
    /\ proc[App].pc = "savelock"
    /\ MayEnter(App, proc[App].date)
    /\ md[proc[App].date] = None
    /\ proc' = [proc EXCEPT ![App] = Idle]
    /\ form' = None
    /\ UNCHANGED <<clock, md, files, lock, index, ingested>>

SaveWrite ==
    /\ proc[App].pc = "savewrite"
    /\ md' = [md EXCEPT ![proc[App].date] = proc[App].new]
    /\ proc' = [proc EXCEPT ![App].pc = "savecommit"]
    /\ UNCHANGED <<clock, files, lock, index, ingested, form>>

SaveCommit ==
    LET c == proc[App] IN
    /\ c.pc = "savecommit"
    /\ index' = [index EXCEPT ![c.date] = SavedRow(c.new, @)]
    /\ lock' = Release(App)
    /\ proc' = [proc EXCEPT ![App] = Idle]
    /\ form' = None
    /\ UNCHANGED <<clock, md, files, ingested>>

\* write_entry or the transaction raises: nothing is undone.
SaveFails ==
    /\ \/ FsMayFail /\ proc[App].pc = "savewrite"
       \/ DbMayFail /\ proc[App].pc = "savecommit"
    /\ lock' = Release(App)
    /\ proc' = [proc EXCEPT ![App] = Idle]
    /\ form' = None
    /\ UNCHANGED <<clock, md, files, index, ingested>>

-----------------------------------------------------------------------------

\* The kernel drops the flock of a dead process; its files stay.
Crash(p) ==
    /\ proc[p].pc \in CrashAt
    /\ lock' = Release(p)
    /\ proc' = [proc EXCEPT ![p] = Idle]
    /\ UNCHANGED <<clock, md, files, index, ingested, form>>

IngestStep(p) ==
    \/ Lock(p) \/ WriteRaw(p) \/ WriteRawFails(p) \/ WriteMedia(p)
    \/ WriteMediaFails(p) \/ WriteEntry(p) \/ WriteEntryFails(p)
    \/ Commit(p) \/ CommitFails(p) \/ RollbackFiles(p) \/ RollbackEntry(p)

SaveStep == SaveLock \/ SaveFindsNoEntry \/ SaveWrite \/ SaveCommit \/ SaveFails

Next ==
    \/ \E p \in Procs : \/ \E m \in Messages : Start(p, m)
                        \/ IngestStep(p)
                        \/ Crash(p)
    \/ \E d \in Dates : OpenForm(d)
    \/ SaveRequest
    \/ SaveStep

Spec == Init /\ [][Next]_vars

\* A call that has begun is scheduled until it returns: synchronous code of a
\* live process, blocking only in flock.
Fairness == /\ \A p \in Procs : WF_vars(IngestStep(p))
            /\ WF_vars(SaveStep)

FairSpec == Spec /\ Fairness

-----------------------------------------------------------------------------
(* Properties *)

Holds(p, d) == proc[p].pc \in Holding /\ proc[p].date = d
Count(m, body) == Cardinality({i \in 1..Len(body) : body[i] = m})
BodyOf(doc) == IF doc = None THEN <<>> ELSE doc.body
InBody(m, doc) == \E i \in 1..Len(BodyOf(doc)) : BodyOf(doc)[i] = m

\* Every variable has the type the code gives it.
TypeOK ==
    /\ clock \in Seconds \cup {0}
    /\ md \in [Dates -> Docs \cup {None}]
    /\ files \in [Dates -> [Paths -> Messages \cup {Torn, None}]]
    /\ lock \in [Dates -> Procs \cup {None}]
    /\ index \in [Dates -> Rows \cup {None}]
    /\ ingested \in [Messages -> [date : Dates, eml : Seconds] \cup {None}]
    /\ form \in Forms \cup {None}
    /\ proc \in [Procs -> Locals]

\* The document a writer read under the flock is still the one on disk when
\* it replaces it: no reply or edit is lost between the two, whatever fails
\* or dies meanwhile (entry_lock around read_entry and write_entry).
WrittenFromCurrent ==
    \A p \in Procs :
      proc[p].pc \in {"raw", "media", "write", "savewrite"} =>
        proc[p].old = md[proc[p].date]

\* Whenever nobody works on a day, the index says of it what entry.md says:
\* text, mood, tags, media and times, and no row where there is no entry.md
\* (the same values go to write_entry and to the transaction).
IndexMatchesDisk ==
    \A d \in Dates :
      lock[d] = None => index[d] = IF md[d] = None THEN None ELSE RowOf(md[d])

\* A transaction that changes a day's row makes it agree with the entry.md
\* that is on disk at that moment, also after crashes and failed attempts on
\* that day; only the media rows may lag behind, after a save.
CommitMatchesDisk ==
    [][\A d \in Dates : index'[d] # index[d] =>
         /\ md[d] # None
         /\ index'[d] = [RowOf(md[d]) EXCEPT !.media = index'[d].media]
         /\ \/ index'[d].media = md[d].media
            \/ Holds(App, d) /\ index'[d].media = index[d].media]_vars

\* No reply has two sections, on one day or on two (idempotency on
\* Message-ID, while no process dies between entry.md and the index).
AtMostOneSection ==
    \A m \in Messages, d, e \in Dates :
      InBody(m, md[d]) /\ InBody(m, md[e]) => d = e /\ Count(m, BodyOf(md[d])) = 1

\* Whenever nobody works on a day, its whole raw files are those of the
\* replies recorded under it, one each: a failed attempt leaves none behind
\* and takes none away (_rollback_files).
RawFilesAreTheRecordedOnes ==
    \A d \in Dates : lock[d] = None =>
      \A t \in Seconds, m \in Messages :
        files[d][RawPath(t)] = m <=> ingested[m] = [date |-> d, eml |-> t]

\* A reply's section leaves entry.md only by a save whose form was opened
\* before the reply arrived (ingest_one appends, rollback restores).
LostOnlyByStaleSave ==
    [][\A d \in Dates, m \in Messages :
         InBody(m, md[d]) /\ ~InBody(m, md'[d]) =>
           /\ proc[App].pc = "savewrite" /\ proc[App].date = d
           /\ \A i \in 1..Len(form.body) : form.body[i] # m]_vars

\* Every source an entry.md lists has its whole raw file on disk, whenever
\* nobody works on the day: the raw file, "the canonical input record", is
\* written first and outlives crashes and the rollbacks of others.
EverySourceOnDisk ==
    \A d \in Dates : lock[d] = None /\ md[d] # None =>
      \A i \in 1..Len(md[d].sources) :
        files[d][RawPath(md[d].sources[i])] \in Messages

\* Every reply's text in an entry.md or in the index can be derived again
\* from a raw file of that day, whenever nobody works on it.
TextHasRawFile ==
    \A d \in Dates, m \in Messages : lock[d] = None =>
      (InBody(m, md[d]) \/ InBody(m, index[d]) =>
         \E t \in Seconds : files[d][RawPath(t)] = m)

\* The raw file an ingested_messages row names holds that reply.
AcceptedReplyKeepsRaw ==
    \A m \in Messages : ingested[m] # None =>
      files[ingested[m].date][RawPath(ingested[m].eml)] = m

\* Every call returns: nobody waits for a flock for ever.
EveryCallReturns ==
    \A p \in Procs : proc[p].pc # "idle" ~> proc[p].pc = "idle"

\* "Whole-message rollback ... no entry.md mutation": the entry.md of a day
\* that is in the index goes on existing.
IndexedEntryStays ==
    [][\A d \in Dates :
         md[d] # None /\ index[d] # None => md'[d] # None]_vars

\* The detailed writers implement the journal the pages read.
IndexedText(d) == IF index[d] = None THEN <<>> ELSE index[d].body
J == INSTANCE Journal WITH
       journal <- [d \in Dates |-> IndexedText(d)],
       accepted <- {m \in Messages : ingested[m] # None}
JournalRefined == J!Spec

=============================================================================
