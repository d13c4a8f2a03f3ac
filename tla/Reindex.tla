------------------------------- MODULE Reindex -------------------------------
(***************************************************************************)
(* `driftnote reindex` (cli.py), which rebuilds the index from the entry.md*)
(* files, and with --from-raw these from the raw files first, by           *)
(* ingest_one.  The command runs while the app is stopped, as its design   *)
(* asks; before and after, the app of module Ingest writes.  The index may *)
(* be lost in between, and the command may die at any step.                *)
(***************************************************************************)
EXTENDS Ingest, FiniteSetsExt

CONSTANTS
    Cli,          \* the process of the command
    WalkOrder,    \* the days in the order _walk_entries visits them
    MaxCommands,  \* bound: commands in a behaviour
    MaxLosses     \* bound: times index.sqlite is lost

VARIABLES
    cmd,          \* control state and locals of reindex
    commands,     \* number of commands so far
    losses        \* number of losses so far

rvars == <<cmd, commands, losses>>
store == <<clock, files, lock, form>>

\* todo: the places in WalkOrder of the day directories still to visit; day,
\* emls: the one in hand and the seconds that its raw files still to read are
\* named for; history: the days that had an entry.md when the command began,
\* and whether no reply was recorded then.
Off == [pc |-> "off", force |-> FALSE, todo |-> {}, day |-> None,
        emls |-> {}, days |-> {}, fresh |-> FALSE]

\* The raw files that the command reads are whole; the walk visits each day's
\* directory once.
ASSUME ReindexAssumption ==
    /\ ~FsMayFail
    /\ Cli \in Procs \ {App} /\ Handed[Cli] = {}
    /\ WalkOrder \in Seq(Dates)
    /\ \A d \in Dates : \E i \in DOMAIN WalkOrder :
         \A k \in DOMAIN WalkOrder : WalkOrder[k] = d <=> k = i
    /\ MaxCommands \in Nat /\ MaxLosses \in Nat

RInit == Init /\ cmd = Off /\ commands = 0 /\ losses = 0

-----------------------------------------------------------------------------
(* The command *)

\* The days of one month whose directory is there when the month is listed.
\* (The walk is lazy from month to month.)
Listed == {i \in DOMAIN WalkOrder : \/ md[WalkOrder[i]] # None
                                    \/ \E path \in Paths : files[WalkOrder[i]][path] # None}

\* Mutant: every entry counts as untouched.
NeverEdited == {}
LooksEdited == {d \in Dates : md[d] # None /\ md[d].updated > md[d].created}

\* The guard against the loss of edits, then the first walk.  A refused
\* command exits and changes nothing.
Begin(fromRaw, force) ==
    /\ cmd.pc = "off" /\ commands < MaxCommands
    /\ \A p \in Procs : proc[p].pc = "idle"
    /\ fromRaw /\ ~force => LooksEdited = {}
    /\ commands' = commands + 1
    /\ cmd' = [Off EXCEPT !.pc = IF fromRaw THEN "derive" ELSE "build",
                          !.force = force, !.todo = Listed,
                          !.days = {d \in Dates : md[d] # None},
                          !.fresh = fromRaw /\ \A m \in Messages : ~AlreadyRecorded(m)]
    /\ UNCHANGED <<vars, losses>>

\* Mutant: the newest raw file only.
NewestRawFile(d) ==
    LET all == {t \in Seconds : files[d][RawPath(t)] # None} IN
    {t \in all : \A u \in all : u <= t}

\* sorted(raw_dir.glob("*.eml")), by the time in each name
RawFilesOf(d) == {t \in Seconds : files[d][RawPath(t)] # None}

Deriving == cmd.pc = "derive" /\ proc[Cli].pc = "idle"

\* entry.md is unlinked, without the day's flock.
UnlinkDay ==
    /\ Deriving /\ cmd.emls = {} /\ cmd.todo # {}
    /\ LET i == Min(cmd.todo)
           d == WalkOrder[i] IN
       /\ cmd' = [cmd EXCEPT !.todo = @ \ {i}, !.day = d,
                             !.emls = IF md[d] = None THEN {} ELSE RawFilesOf(d)]
       /\ md' = [md EXCEPT ![d] = None]
    /\ UNCHANGED <<store, index, ingested, proc, commands, losses>>

\* ingest_one is called with the time in the file's name; for a reply that is
\* recorded it returns at once.
DeriveEml ==
    /\ Deriving /\ cmd.emls # {}
    /\ LET t == Min(cmd.emls)
           m == files[cmd.day][RawPath(t)] IN
       /\ cmd' = [cmd EXCEPT !.emls = @ \ {t}]
       /\ IF AlreadyRecorded(m) THEN UNCHANGED proc
          ELSE \E d \in DatesFor[m] :
                 proc' = [proc EXCEPT ![Cli] = [Idle EXCEPT !.pc = "lock", !.msg = m,
                                                            !.date = d, !.rcvd = t]]
    /\ UNCHANGED <<store, md, index, ingested, commands, losses>>

\* A step of that call; an exception that leaves it ends the command.
DeriveStep ==
    /\ cmd.pc = "derive" /\ IngestStep(Cli)
    /\ cmd' = IF proc[Cli].pc = "unlink" THEN Off ELSE cmd
    /\ UNCHANGED <<commands, losses>>

\* The second walk begins.
Derived ==
    /\ Deriving /\ cmd.emls = {} /\ cmd.todo = {}
    /\ cmd' = [cmd EXCEPT !.pc = "build", !.todo = Listed]
    /\ UNCHANGED <<vars, commands, losses>>

\* upsert_entry, replace_tags and replace_media.  Mutant: the media stay.
BuiltRowOldMedia(doc, row) == IF row = None THEN [RowOf(doc) EXCEPT !.media = <<>>]
                              ELSE SavedRow(doc, row)
BuiltRow(doc, row) == RowOf(doc)

\* Nothing is done about a row whose day has no entry.md.
BuildDay ==
    /\ cmd.pc = "build" /\ cmd.todo # {}
    /\ LET i == Min(cmd.todo)
           d == WalkOrder[i] IN
       /\ index' = IF md[d] = None THEN index
                   ELSE [index EXCEPT ![d] = BuiltRow(md[d], @)]
       /\ cmd' = [cmd EXCEPT !.todo = @ \ {i}]
    /\ UNCHANGED <<store, md, ingested, proc, commands, losses>>

Finish ==
    /\ cmd.pc = "build" /\ cmd.todo = {}
    /\ cmd' = Off
    /\ UNCHANGED <<vars, commands, losses>>

CommandDies ==
    /\ cmd.pc # "off"
    /\ cmd' = Off
    /\ lock' = Release(Cli)
    /\ proc' = [proc EXCEPT ![Cli] = Idle]
    /\ UNCHANGED <<clock, md, files, index, ingested, form, commands, losses>>

Command == \/ \E force \in BOOLEAN : Begin(TRUE, force)
           \/ Begin(FALSE, FALSE)
           \/ UnlinkDay \/ DeriveEml \/ DeriveStep \/ Derived
           \/ BuildDay \/ Finish \/ CommandDies

-----------------------------------------------------------------------------

\* index.sqlite is gone; init_db makes an empty one.
LoseIndex ==
    /\ cmd.pc = "off" /\ losses < MaxLosses
    /\ \A p \in Procs : proc[p].pc = "idle"
    /\ index' = [d \in Dates |-> None]
    /\ ingested' = [m \in Messages |-> None]
    /\ form' = None
    /\ losses' = losses + 1
    /\ UNCHANGED <<clock, md, files, lock, proc, cmd, commands>>

AppRuns == cmd.pc = "off" /\ Next /\ UNCHANGED rvars

RNext == AppRuns \/ Command \/ LoseIndex

RSpec == RInit /\ [][RNext]_<<vars, rvars>>

-----------------------------------------------------------------------------
(* Properties *)

\* The command comes to its end.
Ends == cmd.pc = "build" /\ cmd.todo = {} /\ cmd' = Off

\* When reindex is through, the index says of every day that has an entry.md
\* what that says, its media included, whatever was lost, edited or cut short
\* before (cli.py:106-133).
ReindexRestoresIndex ==
    [][Ends => \A d \in Dates :
         md[d] # None => index[d] = RowOf(md[d])]_<<vars, rvars>>

Increasing(seq) == \A i, k \in 1..Len(seq) : i < k => seq[i] < seq[k]

\* With --from-raw and a new index, every reply that has a raw file in a day
\* that had an entry.md has one section there again, whatever number of raw
\* files failed attempts left of it; they stand in the order of receipt, and
\* each is recorded, so that no later poll appends it again (cli.py:85-104).
FromRawRederives ==
    [][Ends /\ cmd.fresh =>
         \A d \in cmd.days :
           /\ md[d] # None /\ Increasing(md[d].sources)
           /\ \A m \in Messages, t \in Seconds : files[d][RawPath(t)] = m =>
                Count(m, md[d].body) = 1 /\ ingested[m] # None]_<<vars, rvars>>

HasEdit(doc) == \E i \in 1..Len(BodyOf(doc)) : BodyOf(doc)[i] = Edited

\* What the user edited goes away only by --force: neither the index's loss,
\* nor a plain reindex, nor a command that dies half-way undoes an edit
\* (cli.py:74-83).
EditLostOnlyByForce ==
    [][\A d \in Dates : HasEdit(md[d]) /\ ~HasEdit(md'[d]) =>
         cmd.pc = "derive" /\ cmd.force]_<<vars, rvars>>

\* "Re-derive entry.md from raw/*.eml": a day that had an entry.md has one
\* when reindex --from-raw is through.
FromRawKeepsEntries ==
    [][Ends => \A d \in cmd.days : md[d] # None]_<<vars, rvars>>

=============================================================================
