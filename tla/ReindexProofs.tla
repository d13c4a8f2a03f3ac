---------------------------- MODULE ReindexProofs ----------------------------
(***************************************************************************)
(* Proofs about Reindex, for every order of the walk, any number of        *)
(* commands and losses, on top of what IngestProofs proves of the writers. *)
(***************************************************************************)
EXTENDS Reindex, IngestProofs, WellFoundedInduction, FiniteSetTheorems

USE DEF Holding, IngestPCs, SavePCs

-----------------------------------------------------------------------------
(* What comes next *)

LEMMA NextOne ==
    ASSUME NEW S, S \subseteq Nat, S # {}
    PROVE  Min(S) \in S /\ \A n \in S : Min(S) <= n
<1>. DEFINE Less == OpToRel(<, Nat)
<1>1. IsWellFoundedOn(Less, Nat)
  BY NatLessThanWellFounded
<1>2. \A m, n \in Nat : m < n => <<m, n>> \in Less
  BY DEF OpToRel
<1>. HIDE DEF Less
<1>3. PICK n \in S : \A m \in S : ~(<<m, n>> \in Less)
  BY <1>1, WFMin
<1>4. ASSUME NEW m \in S PROVE n <= m
  <2>1. ~(m < n)
    BY <1>2, <1>3
  <2>. QED
    BY <2>1
<1>. QED
  BY <1>4 DEF Min

Places == DOMAIN WalkOrder

\* The walk visits every day once.
LEMMA Walk ==
    /\ Places \subseteq Nat
    /\ \A i \in Places : WalkOrder[i] \in Dates
    /\ \A i, k \in Places : WalkOrder[i] = WalkOrder[k] => i = k
    /\ \A d \in Dates : \E i \in Places : WalkOrder[i] = d
<1>1. WalkOrder \in Seq(Dates)
  BY ReindexAssumption
<1>2. Places \subseteq Nat /\ \A i \in Places : WalkOrder[i] \in Dates
  BY <1>1 DEF Places
<1>3. \A d \in Dates : \E i \in Places : \A k \in Places : WalkOrder[k] = d <=> k = i
  BY ReindexAssumption DEF Places
<1>. QED
  BY <1>2, <1>3

-----------------------------------------------------------------------------
(* The command works alone *)

Cmds == [pc : {"off", "derive", "build"}, force : BOOLEAN, todo : SUBSET Places,
         day : Dates \cup {None}, emls : SUBSET Seconds, days : SUBSET Dates,
         fresh : BOOLEAN]

\* While it runs nobody else does, and it calls ingest_one only to derive.
Alone ==
    /\ cmd.pc # "off" => \A p \in Procs \ {Cli} : proc[p].pc = "idle"
    /\ cmd.pc # "derive" => proc[Cli].pc = "idle"
    /\ cmd.pc = "off" => cmd = Off

Raw(d, t) == files[d][RawPath(t)]

\* No raw file is torn; those the command has still to read are there, unless
\* a call of its is undoing itself: that ends the command.
RawFilesThere ==
    /\ \A d \in Dates, t \in Seconds : Raw(d, t) \in Messages \cup {None}
    /\ cmd.emls # {} => cmd.day \in Dates
    /\ proc[Cli].pc \in {"rollback", "unlink"} \/
         \A t \in cmd.emls : Raw(cmd.day, t) # None

CmdInv == IInv /\ cmd \in Cmds /\ Alone /\ RawFilesThere

LEMMA OffType == Off \in Cmds /\ Off.pc = "off" /\ Off.emls = {}
BY DEF Off, Cmds

LEMMA RInitInv == RInit => CmdInv
<1>. SUFFICES ASSUME RInit PROVE CmdInv
  OBVIOUS
<1>1. IInv
  BY InitInv DEF RInit
<1>2. Cli \in Procs /\ proc[Cli].pc = "idle"
  BY ReindexAssumption, IdleType DEF RInit, Init
<1>3. \A d \in Dates, t \in Seconds : Raw(d, t) = None
  BY DEF RInit, Init, Raw, Paths
<1>. QED
  BY <1>1, <1>2, <1>3, OffType DEF CmdInv, RInit, Alone, RawFilesThere

\* When everybody is idle, little is to be shown.
LEMMA AllIdle ==
    ASSUME TypeOK', FormOK', \A p \in Procs : proc'[p].pc = "idle"
    PROVE  IInv'
BY DEF IInv, ProcOK

\* What the steps of the writers do to the raw files.
LEMMA RawFiles ==
    ASSUME IInv, NEW p \in Procs, IngestStep(p), ~RollbackFiles(p),
           NEW d \in Dates, NEW t \in Seconds
    PROVE  \/ Raw(d, t)' = Raw(d, t)
           \/ WriteRaw(p) /\ d = proc[p].date /\ t = proc[p].rcvd /\ Raw(d, t)' = proc[p].msg
<1>0. RawPath(t) \in Paths /\ files \in [Dates -> [Paths -> Messages \cup {Torn, None}]]
  BY DEF Paths, IInv, TypeOK
<1>1. CASE WriteRaw(p)
  <2>1. files' = [files EXCEPT ![proc[p].date] = PutFiles(@, {RawPath(proc[p].rcvd)}, proc[p].msg)]
    BY <1>1 DEF WriteRaw
  <2>2. RawPath(t) = RawPath(proc[p].rcvd) => t = proc[p].rcvd
    BY DEF RawPath
  <2>. QED
    BY <1>0, <1>1, <2>1, <2>2 DEF PutFiles, Raw
<1>2. CASE WriteMedia(p)
  <2>. DEFINE paths == MediaPaths(proc[p].msg, Len(Parsed[proc[p].msg].media))
  <2>1. files' = [files EXCEPT ![proc[p].date] = PutFiles(@, paths, proc[p].msg)]
    BY <1>2 DEF WriteMedia
  <2>2. RawPath(t) \notin paths
    BY DEF MediaPaths, RawPath, OriginalPath
  <2>. HIDE DEF paths
  <2>. QED
    BY <1>0, <2>1, <2>2 DEF PutFiles, Raw
<1>3. CASE UNCHANGED files
  BY <1>3 DEF Raw
<1>. QED
  BY <1>1, <1>2, <1>3, ReindexAssumption
     DEF IngestStep, Lock, WriteRawFails, WriteMediaFails, WriteEntry, WriteEntryFails,
         Commit, CommitFails, RollbackEntry

LEMMA RawFilesWhole ==
    ASSUME IInv, [Next]_vars, NEW d \in Dates, NEW t \in Seconds,
           Raw(d, t) \in Messages \cup {None}
    PROVE  Raw(d, t)' \in Messages \cup {None}
<1>1. ASSUME NEW p \in Procs, IngestStep(p), ~RollbackFiles(p) PROVE Raw(d, t)' \in Messages \cup {None}
  <2>1. CASE Raw(d, t)' = Raw(d, t)
    BY <2>1
  <2>2. CASE WriteRaw(p) /\ Raw(d, t)' = proc[p].msg
    BY <2>2 DEF WriteRaw, IInv, ProcOK
  <2>. QED
    BY <1>1, <2>1, <2>2, RawFiles
<1>2. ASSUME NEW p \in Procs, RollbackFiles(p) PROVE Raw(d, t)' \in Messages \cup {None}
  <2>1. files' = [files EXCEPT ![proc[p].date] = PutFiles(@, proc[p].made, None)]
    BY <1>2 DEF RollbackFiles, RolledBackFiles
  <2>2. RawPath(t) \in Paths /\ files \in [Dates -> [Paths -> Messages \cup {Torn, None}]]
    BY DEF Paths, IInv, TypeOK
  <2>. QED
    BY <2>1, <2>2 DEF PutFiles, Raw
<1>3. CASE UNCHANGED files
  BY <1>3 DEF Raw
<1>. QED
  BY <1>1, <1>2, <1>3
     DEF Next, Start, Crash, OpenForm, SaveRequest, SaveStep, SaveLock, SaveFindsNoEntry,
         SaveWrite, SaveCommit, SaveFails, vars

\* The app leaves the command's process alone.
LEMMA CliWaits ==
    ASSUME IInv, Next, proc[Cli].pc = "idle"
    PROVE  proc'[Cli].pc = "idle"
<1>0. Cli \in Procs /\ Cli # App /\ Handed[Cli] = {} /\ App \in Procs
  BY ReindexAssumption, ConstantsAssumption
<1>1. ASSUME NEW p \in Procs, IngestStep(p) PROVE proc'[Cli] = proc[Cli]
  <2>1. p # Cli
    BY <1>1 DEF IngestStep, Lock, WriteRaw, WriteRawFails, WriteMedia, WriteMediaFails, WriteEntry,
                WriteEntryFails, Commit, CommitFails, RollbackFiles, RollbackEntry
  <2>2. CASE Commit(p) \/ RollbackEntry(p)
    BY <1>0, <2>1, <2>2 DEF Commit, RollbackEntry, IInv, TypeOK
  <2>3. CASE ~(Commit(p) \/ RollbackEntry(p))
    BY <1>0, <1>1, <2>1, <2>3, CarriedOn DEF IngestStep, CarriesOn
  <2>. QED
    BY <2>2, <2>3
<1>2. ASSUME NEW p \in Procs, NEW m \in Messages, Start(p, m) PROVE proc'[Cli] = proc[Cli]
  BY <1>0, <1>2 DEF Start, IInv, TypeOK
<1>3. ASSUME NEW p \in Procs, Crash(p) PROVE proc'[Cli].pc = "idle"
  BY <1>0, <1>3, IdleType DEF Crash, IInv, TypeOK
<1>4. CASE SaveRequest \/ SaveStep \/ \E d \in Dates : OpenForm(d)
  BY <1>0, <1>4 DEF SaveRequest, SaveStep, SaveLock, SaveFindsNoEntry, SaveWrite, SaveCommit, SaveFails,
                    OpenForm, IInv, TypeOK
<1>. QED
  BY <1>1, <1>2, <1>3, <1>4 DEF Next

\* The steps of the command, and the loss of the index, one by one.
LEMMA BeginInv ==
    ASSUME CmdInv, NEW fromRaw \in BOOLEAN, NEW force \in BOOLEAN, Begin(fromRaw, force)
    PROVE  CmdInv'
<1>1. IInv'
  BY NextInv DEF CmdInv, Begin
<1>2. cmd' \in Cmds /\ cmd'.emls = {} /\ cmd'.pc # "off"
  BY DEF Begin, Off, Cmds, Listed, Places
<1>. QED
  BY <1>1, <1>2, ReindexAssumption DEF CmdInv, Begin, Alone, RawFilesThere, Raw, vars

LEMMA UnlinkDayInv ==
    ASSUME CmdInv, UnlinkDay
    PROVE  CmdInv'
<1>. DEFINE i == Min(cmd.todo)
            d == WalkOrder[i]
            raws == IF md[d] = None THEN {} ELSE RawFilesOf(d)
<1>0. cmd \in Cmds /\ cmd.pc = "derive" /\ proc[Cli].pc = "idle" /\ Cli \in Procs
  BY ReindexAssumption DEF CmdInv, UnlinkDay, Deriving
<1>1. i \in Places /\ d \in Dates
  <2>1. cmd.todo \subseteq Nat /\ cmd.todo # {} /\ cmd.todo \subseteq Places
    BY <1>0, Walk DEF Cmds, UnlinkDay
  <2>2. i \in cmd.todo
    BY <2>1, NextOne
  <2>. QED
    BY <2>1, <2>2, Walk
<1>2. raws \subseteq Seconds /\ \A t \in raws : Raw(d, t) # None
  BY DEF RawFilesOf, Raw
<1>3. /\ cmd' = [cmd EXCEPT !.todo = @ \ {i}, !.day = d, !.emls = raws]
      /\ md' = [md EXCEPT ![d] = None]
      /\ UNCHANGED <<store, index, ingested, proc>>
  BY DEF UnlinkDay
<1>. HIDE DEF i, d, raws
<1>4. cmd' \in Cmds /\ cmd'.pc = "derive" /\ cmd'.day = d /\ cmd'.emls = raws
  BY <1>0, <1>1, <1>2, <1>3 DEF Cmds
<1>5. Alone'
  BY <1>0, <1>3, <1>4 DEF CmdInv, Alone
<1>6. TypeOK' /\ FormOK' /\ \A p \in Procs : proc'[p].pc = "idle"
  BY <1>0, <1>1, <1>3 DEF CmdInv, IInv, TypeOK, FormOK, Alone, store
<1>7. IInv'
  BY <1>6, AllIdle
<1>8. RawFilesThere'
  BY <1>1, <1>2, <1>3, <1>4 DEF CmdInv, RawFilesThere, Raw, store
<1>. QED
  BY <1>4, <1>5, <1>7, <1>8 DEF CmdInv

LEMMA DeriveEmlInv ==
    ASSUME CmdInv, DeriveEml
    PROVE  CmdInv'
<1>. DEFINE t == Min(cmd.emls)
            m == files[cmd.day][RawPath(t)]
<1>0. /\ cmd \in Cmds /\ cmd.pc = "derive" /\ proc[Cli].pc = "idle" /\ Cli \in Procs
      /\ cmd.emls # {} /\ cmd.emls \subseteq Seconds /\ cmd.day \in Dates /\ IInv
  BY ReindexAssumption DEF CmdInv, DeriveEml, Deriving, RawFilesThere, Cmds
<1>1. t \in cmd.emls /\ t \in Seconds
  <2>1. cmd.emls \subseteq Nat
    BY <1>0 DEF Seconds
  <2>. QED
    BY <1>0, <2>1, NextOne
<1>2. m \in Messages
  <2>1. m = Raw(cmd.day, t) /\ Raw(cmd.day, t) # None /\ Raw(cmd.day, t) \in Messages \cup {None}
    BY <1>0, <1>1 DEF CmdInv, RawFilesThere, Raw
  <2>. QED
    BY <2>1
<1>3. /\ cmd' = [cmd EXCEPT !.emls = @ \ {t}]
      /\ \/ UNCHANGED proc
         \/ \E d \in DatesFor[m] :
              proc' = [proc EXCEPT ![Cli] = [Idle EXCEPT !.pc = "lock", !.msg = m,
                                                         !.date = d, !.rcvd = t]]
      /\ UNCHANGED <<store, md, index, ingested>>
  BY DEF DeriveEml
<1>. HIDE DEF t, m
<1>4. /\ cmd' \in Cmds /\ cmd'.pc = "derive" /\ cmd'.day = cmd.day /\ cmd'.emls \subseteq cmd.emls
  BY <1>0, <1>3 DEF Cmds
<1>5. CASE UNCHANGED proc
  <2>1. IInv'
    BY <1>0, <1>3, <1>5 DEF IInv, TypeOK, FormOK, ProcOK, store
  <2>. QED
    BY <1>0, <1>3, <1>4, <1>5, <2>1 DEF CmdInv, Alone, RawFilesThere, Raw, store
<1>6. ASSUME NEW d \in DatesFor[m],
             proc' = [proc EXCEPT ![Cli] = [Idle EXCEPT !.pc = "lock", !.msg = m,
                                                        !.date = d, !.rcvd = t]]
      PROVE  CmdInv'
  <2>. DEFINE c == [Idle EXCEPT !.pc = "lock", !.msg = m, !.date = d, !.rcvd = t]
  <2>1. d \in Dates
    BY <1>2, ConstantsAssumption
  <2>2. c \in Locals /\ c.pc = "lock" /\ c.msg = m /\ c.date = d /\ c.rcvd = t
    BY <1>1, <1>2, <2>1 DEF Idle, Locals
  <2>3. proc' = [proc EXCEPT ![Cli] = c] /\ TypeOK
    BY <1>0, <1>6 DEF IInv
  <2>. HIDE DEF c
  <2>4. proc'[Cli] = c /\ \A p \in Procs \ {Cli} : proc'[p] = proc[p]
    BY <1>0, <2>3 DEF TypeOK
  <2>5. TypeOK' /\ FormOK'
    BY <1>0, <1>3, <2>2, <2>3 DEF IInv, TypeOK, FormOK, store
  <2>6. Guarantee(Cli)
    BY <1>3, <2>4 DEF Guarantee, store
  <2>7. ProcOK(Cli)'
    BY <1>1, <1>2, <2>1, <2>2, <2>4 DEF ProcOK
  <2>8. IInv'
    BY <1>0, <2>5, <2>6, <2>7, Frame
  <2>9. Alone'
    BY <1>0, <1>4, <2>4 DEF CmdInv, Alone
  <2>10. RawFilesThere'
    BY <1>0, <1>3, <1>4 DEF CmdInv, RawFilesThere, Raw, store
  <2>. QED
    BY <1>4, <2>8, <2>9, <2>10 DEF CmdInv
<1>. QED
  BY <1>3, <1>5, <1>6

\* A step of the command's call leaves the others alone.
LEMMA CliOnly ==
    ASSUME IInv, NEW p \in Procs, IngestStep(p)
    PROVE  \A q \in Procs \ {p} : proc'[q] = proc[q]
<1>1. CASE Commit(p) \/ RollbackEntry(p)
  BY <1>1 DEF Commit, RollbackEntry, IInv, TypeOK
<1>2. CASE ~(Commit(p) \/ RollbackEntry(p))
  BY <1>2, CarriedOn DEF IngestStep, CarriesOn
<1>. QED
  BY <1>1, <1>2

LEMMA DeriveStepInv ==
    ASSUME CmdInv, DeriveStep
    PROVE  CmdInv'
<1>0. /\ cmd \in Cmds /\ cmd.pc = "derive" /\ IngestStep(Cli) /\ Cli \in Procs /\ IInv
      /\ cmd' = IF proc[Cli].pc = "unlink" THEN Off ELSE cmd
  BY ReindexAssumption DEF CmdInv, DeriveStep
<1>1. IInv' /\ [Next]_vars
  BY <1>0, NextInv DEF Next
<1>2. \A p \in Procs \ {Cli} : proc'[p].pc = "idle"
  BY <1>0, CliOnly DEF CmdInv, Alone
<1>3. \A d \in Dates, t \in Seconds : Raw(d, t)' \in Messages \cup {None}
  BY <1>0, <1>1, RawFilesWhole DEF CmdInv, RawFilesThere
<1>4. CASE proc[Cli].pc = "unlink"
  <2>1. RollbackEntry(Cli)
    BY <1>0, <1>4 DEF IngestStep, Lock, WriteRaw, WriteRawFails, WriteMedia, WriteMediaFails, WriteEntry,
                WriteEntryFails, Commit, CommitFails, RollbackFiles, RollbackEntry
  <2>2. proc'[Cli].pc = "idle"
    BY <1>0, <2>1, IdleType DEF RollbackEntry, IInv, TypeOK
  <2>. QED
    BY <1>0, <1>1, <1>2, <1>3, <1>4, <2>2, OffType DEF CmdInv, Alone, RawFilesThere
<1>5. CASE proc[Cli].pc # "unlink"
  <2>1. cmd' = cmd
    BY <1>0, <1>5
  <2>2. CASE RollbackFiles(Cli)
    <3>1. proc'[Cli].pc = "unlink"
      BY <1>0, <2>2 DEF RollbackFiles, IInv, TypeOK, Locals
    <3>. QED
      BY <1>0, <1>1, <1>2, <1>3, <2>1, <3>1 DEF CmdInv, Alone, RawFilesThere
  <2>3. CASE ~RollbackFiles(Cli)
    <3>1. proc[Cli].pc # "rollback"
      BY <1>0, <2>3 DEF IngestStep, Lock, WriteRaw, WriteRawFails, WriteMedia, WriteMediaFails, WriteEntry,
                  WriteEntryFails, Commit, CommitFails, RollbackFiles, RollbackEntry
    <3>2. ASSUME NEW t \in cmd.emls PROVE files'[cmd.day][RawPath(t)] # None
      <4>1. PICK d \in Dates : d = cmd.day /\ t \in Seconds /\ Raw(d, t) # None
        BY <1>0, <1>5, <3>1 DEF CmdInv, RawFilesThere, Cmds
      <4>2. WriteRaw(Cli) => proc[Cli].msg \in Messages
        BY <1>0 DEF WriteRaw, IInv, ProcOK
      <4>3. Raw(d, t)' # None
        BY <1>0, <2>3, <4>1, <4>2, RawFiles, NoneAssumption
      <4>. QED
        BY <4>1, <4>3 DEF Raw
    <3>4. RawFilesThere'
      BY <1>0, <1>3, <2>1, <3>2 DEF CmdInv, RawFilesThere, Raw
    <3>. QED
      BY <1>0, <1>1, <1>2, <2>1, <3>4 DEF CmdInv, Alone
  <2>. QED
    BY <2>2, <2>3
<1>. QED
  BY <1>4, <1>5

LEMMA CmdQuiet ==
    ASSUME CmdInv, Derived \/ Finish \/ UNCHANGED <<vars, rvars>>
    PROVE  CmdInv'
<1>1. IInv' /\ UNCHANGED vars
  BY NextInv DEF CmdInv, Derived, Finish
<1>2. CASE Derived
  <2>1. /\ cmd \in Cmds /\ cmd.emls = {} /\ proc[Cli].pc = "idle" /\ cmd.pc = "derive"
        /\ cmd' = [cmd EXCEPT !.pc = "build", !.todo = Listed] /\ Listed \subseteq Places
    BY <1>2 DEF CmdInv, Derived, Deriving, Listed, Places
  <2>2. cmd' \in Cmds /\ cmd'.emls = {} /\ cmd'.pc = "build"
    BY <2>1 DEF Cmds
  <2>. QED
    BY <1>1, <2>1, <2>2 DEF CmdInv, Alone, RawFilesThere, Raw, vars
<1>3. CASE Finish
  <2>1. cmd' = Off /\ cmd.pc = "build"
    BY <1>3 DEF Finish
  <2>. QED
    BY <1>1, <2>1, OffType DEF CmdInv, Alone, RawFilesThere, Raw, vars
<1>4. CASE UNCHANGED <<vars, rvars>>
  BY <1>1, <1>4 DEF CmdInv, Alone, RawFilesThere, Raw, vars, rvars
<1>. QED
  BY <1>2, <1>3, <1>4

LEMMA BuildDayInv ==
    ASSUME CmdInv, BuildDay
    PROVE  CmdInv'
<1>. DEFINE i == Min(cmd.todo)
            d == WalkOrder[i]
<1>0. /\ cmd \in Cmds /\ cmd.pc = "build" /\ IInv /\ proc[Cli].pc = "idle" /\ Cli \in Procs
  BY ReindexAssumption DEF CmdInv, BuildDay, Alone
<1>1. /\ cmd' = [cmd EXCEPT !.todo = @ \ {i}]
      /\ index' = IF md[d] = None THEN index ELSE [index EXCEPT ![d] = RowOf(md[d])]
      /\ UNCHANGED <<store, md, ingested, proc>>
  BY DEF BuildDay, BuiltRow
<1>2. d \in Dates
  <2>1. cmd.todo \subseteq Nat /\ cmd.todo # {} /\ cmd.todo \subseteq Places
    BY <1>0, Walk DEF Cmds, BuildDay
  <2>2. i \in cmd.todo
    BY <2>1, NextOne
  <2>. QED
    BY <2>1, <2>2, Walk
<1>. HIDE DEF i, d
<1>3. index' \in [Dates -> Rows \cup {None}] /\ \A e \in Dates : index[e] # None => index'[e] # None
  <2>1. md[d] # None => RowOf(md[d]) \in Rows
    BY <1>0, <1>2, RowTypes DEF IInv, TypeOK
  <2>. QED
    BY <1>0, <1>1, <1>2, <2>1, NoneAssumption DEF IInv, TypeOK
<1>4. TypeOK' /\ FormOK'
  BY <1>0, <1>1, <1>3 DEF IInv, TypeOK, FormOK, Forms, store
<1>5. IInv'
  <2>1. \A p \in Procs : proc'[p].pc = "idle"
    BY <1>0, <1>1 DEF CmdInv, Alone
  <2>. QED
    BY <1>4, <2>1, AllIdle
<1>6. cmd' \in Cmds /\ cmd'.pc = cmd.pc /\ cmd'.emls = cmd.emls /\ cmd'.day = cmd.day
  BY <1>0, <1>1 DEF Cmds
<1>. QED
  BY <1>0, <1>1, <1>5, <1>6 DEF CmdInv, Alone, RawFilesThere, Raw, store

LEMMA CommandDiesInv ==
    ASSUME CmdInv, CommandDies
    PROVE  CmdInv'
<1>0. /\ cmd.pc # "off" /\ cmd' = Off /\ lock' = Release(Cli) /\ proc' = [proc EXCEPT ![Cli] = Idle]
      /\ UNCHANGED <<clock, md, files, index, ingested, form>> /\ IInv /\ Cli \in Procs
  BY ReindexAssumption DEF CmdInv, CommandDies
<1>1. TypeOK' /\ FormOK' /\ \A q \in Procs \ {Cli} : proc'[q] = proc[q]
  BY <1>0, ReturnFacts DEF IInv, TypeOK, FormOK
<1>2. proc'[Cli].pc = "idle"
  BY <1>0, IdleType DEF IInv, TypeOK
<1>3. \A p \in Procs : proc'[p].pc = "idle"
  BY <1>0, <1>1, <1>2 DEF CmdInv, Alone
<1>4. IInv'
  BY <1>1, <1>3, AllIdle
<1>. QED
  BY <1>0, <1>3, <1>4, OffType DEF CmdInv, Alone, RawFilesThere, Raw

LEMMA LoseIndexInv ==
    ASSUME CmdInv, LoseIndex
    PROVE  CmdInv'
<1>1. \A p \in Procs : proc'[p].pc = "idle"
  BY DEF LoseIndex
<1>2. TypeOK' /\ FormOK'
  BY DEF LoseIndex, CmdInv, IInv, TypeOK, FormOK
<1>3. IInv'
  BY <1>1, <1>2, AllIdle
<1>. QED
  BY <1>3 DEF LoseIndex, CmdInv, Alone, RawFilesThere, Raw

LEMMA AppRunsInv ==
    ASSUME CmdInv, AppRuns
    PROVE  CmdInv'
<1>1. IInv' /\ [Next]_vars /\ IInv /\ UNCHANGED rvars /\ cmd.pc = "off" /\ cmd = Off
  BY NextInv DEF CmdInv, AppRuns, Alone
<1>2. proc'[Cli].pc = "idle"
  BY <1>1, CliWaits DEF CmdInv, AppRuns, Alone
<1>3. \A d \in Dates, t \in Seconds : Raw(d, t)' \in Messages \cup {None}
  BY <1>1, RawFilesWhole DEF CmdInv, RawFilesThere
<1>. QED
  BY <1>1, <1>2, <1>3, OffType DEF CmdInv, Alone, RawFilesThere, rvars

LEMMA CmdNext == CmdInv /\ [RNext]_<<vars, rvars>> => CmdInv'
<1>. SUFFICES ASSUME CmdInv, [RNext]_<<vars, rvars>> PROVE CmdInv'
  OBVIOUS
<1>1. ASSUME NEW fromRaw \in BOOLEAN, NEW force \in BOOLEAN, Begin(fromRaw, force) PROVE CmdInv'
  BY <1>1, BeginInv
<1>2. CASE UnlinkDay \/ DeriveEml \/ DeriveStep \/ Derived \/ BuildDay \/ Finish \/ CommandDies
  BY <1>2, UnlinkDayInv, DeriveEmlInv, DeriveStepInv, CmdQuiet, BuildDayInv, CommandDiesInv
<1>3. CASE LoseIndex \/ AppRuns
  BY <1>3, LoseIndexInv, AppRunsInv
<1>4. CASE UNCHANGED <<vars, rvars>>
  BY <1>4, CmdQuiet
<1>. QED
  BY <1>1, <1>2, <1>3, <1>4 DEF RNext, Command

LEMMA CmdInvariance == RSpec => []CmdInv
BY RInitInv, CmdNext, PTL DEF RSpec

-----------------------------------------------------------------------------
(* The index is restored *)

\* What the second walk has done, of the days that have an entry.md.
BuiltSoFar ==
    cmd.pc = "build" =>
      \A d \in Dates : md[d] # None =>
        index[d] = RowOf(md[d]) \/ \E i \in cmd.todo : WalkOrder[i] = d

LEMMA AllListed ==
    ASSUME NEW d \in Dates, md[d] # None
    PROVE  \E i \in Listed : WalkOrder[i] = d
BY Walk DEF Listed, Places

LEMMA BuiltStep ==
    ASSUME CmdInv, BuiltSoFar, [RNext]_<<vars, rvars>>
    PROVE  BuiltSoFar'
<1>1. ASSUME NEW fromRaw \in BOOLEAN, NEW force \in BOOLEAN, Begin(fromRaw, force) PROVE BuiltSoFar'
  <2>1. cmd'.todo = Listed /\ md' = md
    BY <1>1 DEF Begin, Off, vars
  <2>. QED
    BY <2>1, AllListed DEF BuiltSoFar
<1>2. CASE Derived
  <2>1. cmd'.todo = Listed /\ md' = md
    BY <1>2 DEF Derived, Deriving, CmdInv, Cmds, vars
  <2>. QED
    BY <2>1, AllListed DEF BuiltSoFar
<1>3. CASE BuildDay
  <2>. DEFINE i == Min(cmd.todo)
              e == WalkOrder[i]
  <2>1. /\ cmd \in Cmds /\ cmd' = [cmd EXCEPT !.todo = @ \ {i}] /\ md' = md
        /\ index' = IF md[e] = None THEN index ELSE [index EXCEPT ![e] = RowOf(md[e])]
        /\ index \in [Dates -> Rows \cup {None}] /\ cmd.pc = "build"
    BY <1>3 DEF BuildDay, BuiltRow, CmdInv, IInv, TypeOK
  <2>. HIDE DEF i, e
  <2>2. cmd'.todo = cmd.todo \ {i}
    BY <2>1 DEF Cmds
  <2>3. ASSUME NEW d \in Dates, md[d] # None, d # e
        PROVE  index'[d] = RowOf(md[d]) \/ \E k \in cmd'.todo : WalkOrder[k] = d
    BY <2>1, <2>2, <2>3 DEF BuiltSoFar, e
  <2>4. ASSUME NEW d \in Dates, md[d] # None, d = e PROVE index'[d] = RowOf(md[d])
    BY <2>1, <2>4
  <2>. QED
    BY <2>1, <2>3, <2>4 DEF BuiltSoFar
<1>4. CASE UnlinkDay \/ DeriveEml \/ DeriveStep
  BY <1>4, OffType DEF UnlinkDay, DeriveEml, Deriving, DeriveStep, BuiltSoFar, CmdInv, Cmds
<1>5. CASE Finish \/ CommandDies
  BY <1>5, OffType DEF Finish, CommandDies, BuiltSoFar
<1>6. CASE AppRuns \/ LoseIndex
  BY <1>6 DEF AppRuns, LoseIndex, BuiltSoFar, rvars
<1>7. CASE UNCHANGED <<vars, rvars>>
  BY <1>7 DEF vars, rvars, BuiltSoFar
<1>. QED
  BY <1>1, <1>2, <1>3, <1>4, <1>5, <1>6, <1>7 DEF RNext, Command

\* When reindex is through, the index says of every day that has an entry.md
\* what that says, its media included (cli.py:106-133).
THEOREM IndexIsRestored == RSpec => ReindexRestoresIndex
<1>. DEFINE A == Ends => \A d \in Dates : md[d] # None => index[d] = RowOf(md[d])
<1>1. RInit => BuiltSoFar
  BY OffType DEF RInit, BuiltSoFar
<1>2. CmdInv /\ BuiltSoFar /\ [RNext]_<<vars, rvars>> => BuiltSoFar'
  BY BuiltStep
<1>3. BuiltSoFar => A
  BY DEF BuiltSoFar, Ends
<1>. HIDE DEF A
<1>4. RSpec => [][A]_<<vars, rvars>>
  BY <1>1, <1>2, <1>3, CmdInvariance, PTL DEF RSpec
<1>. QED
  BY <1>4 DEF A, ReindexRestoresIndex

-----------------------------------------------------------------------------
(* No call is undone, and the raw files stay *)

\* A reply is filed under one day, whenever it is ingested; no two processes
\* are handed the same one; the database does not fail.
Orderly ==
    /\ \A m \in Messages : \A d, e \in DatesFor[m] : d = e
    /\ \A p, q \in Procs : p # q => Handed[p] \cap Handed[q] = {}
    /\ ~DbMayFail

CallOK(p) ==
    LET c == proc[p] IN
    /\ c.pc \notin {"rollback", "unlink"}
    /\ c.pc \in IngestPCs => /\ ingested[c.msg] = None /\ c.date \in DatesFor[c.msg]
                             /\ p # Cli => c.msg \in Handed[p]
    /\ c.pc \in {"media", "write", "commit"} => Raw(c.date, c.rcvd) # None
    /\ c.pc = "savewrite" => c.old # None

\* So each raw file is of a reply of its day, and stays, and every entry.md
\* has one.
KeepInv ==
    /\ CmdInv /\ \A p \in Procs : CallOK(p)
    /\ \A d \in Dates, t \in Seconds : Raw(d, t) # None => d \in DatesFor[Raw(d, t)]
    /\ \A d \in Dates : md[d] # None => \E t \in Seconds : Raw(d, t) # None

LEMMA KeepInit == RInit => KeepInv
<1>. SUFFICES ASSUME RInit PROVE KeepInv
  OBVIOUS
<1>1. \A d \in Dates, t \in Seconds : Raw(d, t) = None
  BY DEF RInit, Init, Raw, Paths
<1>2. \A p \in Procs : CallOK(p)
  BY IdleType DEF RInit, Init, CallOK
<1>. QED
  BY <1>1, <1>2, RInitInv DEF KeepInv, RInit, Init

\* The step of a call: what it is, and what it keeps.
LEMMA CallGoesOn ==
    ASSUME Orderly, KeepInv, NEW p \in Procs, IngestStep(p)
    PROVE  /\ Lock(p) \/ WriteRaw(p) \/ WriteMedia(p) \/ WriteEntry(p) \/ Commit(p)
           /\ proc[p].pc \in IngestPCs /\ proc[p].pc # "idle"
           /\ proc[p].msg \in Messages /\ proc[p].date \in Dates /\ proc[p].rcvd \in Seconds
<1>1. ~FsMayFail /\ ~DbMayFail
  BY ReindexAssumption DEF Orderly
<1>2. proc[p].pc \notin {"rollback", "unlink"}
  BY DEF KeepInv, CallOK
<1>3. proc[p].pc = "commit" => ~AlreadyRecorded(proc[p].msg)
  BY DEF KeepInv, CallOK, AlreadyRecorded
<1>4. Lock(p) \/ WriteRaw(p) \/ WriteMedia(p) \/ WriteEntry(p) \/ Commit(p)
  BY <1>1, <1>2, <1>3 DEF IngestStep, WriteRawFails, WriteMediaFails, WriteEntryFails,
                          CommitFails, RollbackFiles, RollbackEntry
<1>5. proc[p].pc \in IngestPCs /\ proc[p].pc # "idle"
  BY <1>4 DEF Lock, WriteRaw, WriteMedia, WriteEntry, Commit
<1>. QED
  BY <1>4, <1>5 DEF KeepInv, CmdInv, IInv, ProcOK

LEMMA RawsStay ==
    ASSUME Orderly, KeepInv, NEW p \in Procs, IngestStep(p), NEW d \in Dates, NEW t \in Seconds
    PROVE  /\ Raw(d, t) # None => Raw(d, t)' # None
           /\ Raw(d, t)' # Raw(d, t) => /\ WriteRaw(p) /\ d = proc[p].date /\ t = proc[p].rcvd
                                        /\ Raw(d, t)' = proc[p].msg
<1>1. ~RollbackFiles(p) /\ proc[p].msg \in Messages
  BY CallGoesOn DEF KeepInv, CallOK, RollbackFiles
<1>2. proc[p].msg # None
  BY <1>1, NoneAssumption
<1>. QED
  BY <1>1, <1>2, RawFiles DEF KeepInv, CmdInv

LEMMA KeepCall ==
    ASSUME Orderly, KeepInv, CmdInv', NEW p \in Procs, IngestStep(p)
    PROVE  KeepInv'
<1>. DEFINE c == proc[p]
<1>0. /\ Lock(p) \/ WriteRaw(p) \/ WriteMedia(p) \/ WriteEntry(p) \/ Commit(p)
      /\ c.pc \in IngestPCs /\ c.pc # "idle" /\ c.msg \in Messages /\ c.date \in Dates /\ c.rcvd \in Seconds
  BY CallGoesOn
<1>1. /\ IInv /\ Alone /\ Cli \in Procs /\ CallOK(p) /\ c \in Locals
  BY ReindexAssumption DEF KeepInv, CmdInv, IInv, TypeOK
<1>2. \A q \in Procs \ {p} : proc'[q] = proc[q]
  BY <1>1, CliOnly
<1>3. CASE Commit(p)
  <2>1. proc'[p] = Idle /\ ingested' = [ingested EXCEPT ![c.msg] = [date |-> c.date, eml |-> c.rcvd]]
        /\ UNCHANGED <<md, files>>
    BY <1>1, <1>3 DEF Commit, IInv, TypeOK
  <2>2. CallOK(p)'
    BY <2>1, IdleType DEF CallOK
  <2>3. ASSUME NEW q \in Procs \ {p} PROVE CallOK(q)'
    <3>1. proc'[q] = proc[q] /\ CallOK(q)
      BY <1>2 DEF KeepInv
    <3>2. ASSUME proc[q].pc \in IngestPCs PROVE proc[q].msg # c.msg
      <4>1. p # Cli /\ q # Cli
        BY <1>0, <1>1, <3>2 DEF Alone
      <4>2. proc[q].msg \in Handed[q] /\ c.msg \in Handed[p]
        BY <1>0, <1>1, <3>1, <3>2, <4>1 DEF CallOK
      <4>. QED
        BY <4>2 DEF Orderly
    <3>3. proc[q].pc \in IngestPCs => ingested'[proc[q].msg] = None
      BY <2>1, <3>1, <3>2 DEF CallOK, KeepInv, CmdInv, IInv, TypeOK, ProcOK
    <3>. QED
      BY <2>1, <3>1, <3>3 DEF CallOK, Raw
  <2>. QED
    BY <2>1, <2>2, <2>3 DEF KeepInv, Raw
<1>4. CASE ~Commit(p)
  <2>1. CarriesOn(p)
    BY <1>0, <1>1, <1>4, CarriedOn
  <2>2. /\ proc'[p].msg = c.msg /\ proc'[p].date = c.date /\ proc'[p].rcvd = c.rcvd /\ ingested' = ingested
        /\ proc'[p].pc \in IngestPCs
    BY <2>1 DEF CarriesOn, Ingesting
  <2>3. \A d \in Dates, t \in Seconds : Raw(d, t) # None => Raw(d, t)' # None
    BY RawsStay
  <2>4. CallOK(p)'
    <3>1. proc'[p].pc \in {"raw", "media", "write", "commit"}
      BY <1>0, <1>1, <1>4 DEF Lock, WriteRaw, WriteMedia, WriteEntry, Locals, IInv, TypeOK
    <3>2. Lock(p) => proc'[p].pc = "raw"
      BY <1>1 DEF Lock, Locals, IInv, TypeOK
    <3>3. WriteRaw(p) => files'[c.date][RawPath(c.rcvd)] = c.msg
      <4>1. RawPath(c.rcvd) \in Paths
        BY <1>0 DEF Paths
      <4>. QED
        BY <1>0, <1>1, <4>1 DEF WriteRaw, PutFiles, IInv, TypeOK
    <3>4. WriteMedia(p) \/ WriteEntry(p) => Raw(c.date, c.rcvd) # None
      BY <1>1 DEF WriteMedia, WriteEntry, CallOK
    <3>5. proc'[p].pc \in {"media", "write", "commit"} => files'[c.date][RawPath(c.rcvd)] # None
      <4>1. PICK d \in Dates, t \in Seconds : d = c.date /\ t = c.rcvd
        BY <1>0
      <4>2. WriteMedia(p) \/ WriteEntry(p) => Raw(d, t)' # None
        BY <2>3, <3>4, <4>1
      <4>. QED
        BY <1>0, <1>4, <3>2, <3>3, <4>1, <4>2, NoneAssumption DEF Raw
    <3>. QED
      BY <1>0, <1>1, <2>2, <3>1, <3>5 DEF CallOK, Raw
  <2>5. ASSUME NEW q \in Procs \ {p} PROVE CallOK(q)'
    <3>1. proc'[q] = proc[q] /\ CallOK(q) /\ (proc[q].pc \in IngestPCs => proc[q].date \in Dates /\ proc[q].rcvd \in Seconds)
      BY <1>1, <1>2 DEF KeepInv, IInv, ProcOK
    <3>. QED
      BY <2>2, <2>3, <3>1 DEF CallOK, Raw
  <2>6. ASSUME NEW d \in Dates, NEW t \in Seconds, Raw(d, t)' # None
        PROVE  d \in DatesFor[Raw(d, t)']
    <3>1. CASE Raw(d, t)' = Raw(d, t)
      BY <2>6, <3>1 DEF KeepInv
    <3>2. CASE Raw(d, t)' # Raw(d, t)
      BY <1>0, <1>1, <3>2, RawsStay DEF CallOK
    <3>. QED
      BY <3>1, <3>2
  <2>7. ASSUME NEW d \in Dates, md'[d] # None PROVE \E t \in Seconds : Raw(d, t)' # None
    <3>1. CASE md'[d] = md[d]
      BY <2>3, <2>7, <3>1 DEF KeepInv
    <3>2. CASE md'[d] # md[d]
      <4>1. WriteEntry(p) /\ d = c.date
        BY <1>0, <1>1, <1>4, <3>2 DEF Lock, WriteRaw, WriteMedia, WriteEntry, IInv, TypeOK
      <4>. QED
        BY <1>0, <1>1, <2>3, <4>1 DEF WriteEntry, CallOK
    <3>. QED
      BY <3>1, <3>2
  <2>. QED
    BY <2>4, <2>5, <2>6, <2>7 DEF KeepInv
<1>. QED
  BY <1>3, <1>4


\* Every other step leaves the calls, or begins one that is in order.
LEMMA KeepOthers ==
    ASSUME KeepInv, CmdInv', UNCHANGED files,
           \A m \in Messages : ingested'[m] = ingested[m] \/ ingested'[m] = None,
           \A d \in Dates : md'[d] # None => md[d] # None,
           \A q \in Procs : \/ proc'[q] = proc[q]
                            \/ proc'[q].pc \in {"savelock", "savecommit", "idle"}
                            \/ CallOK(q)'
    PROVE  KeepInv'
<1>1. ASSUME NEW q \in Procs, proc'[q] = proc[q] PROVE CallOK(q)'
  <2>1. proc[q].pc \in IngestPCs => proc[q].msg \in Messages
    BY DEF KeepInv, CmdInv, IInv, ProcOK
  <2>. QED
    BY <1>1, <2>1 DEF KeepInv, CallOK, Raw
<1>2. ASSUME NEW q \in Procs, proc'[q].pc \in {"savelock", "savecommit", "idle"} PROVE CallOK(q)'
  BY <1>2 DEF CallOK
<1>. QED
  BY <1>1, <1>2 DEF KeepInv, Raw

LEMMA KeepApp ==
    ASSUME Orderly, KeepInv, CmdInv', AppRuns
    PROVE  KeepInv'
<1>0. IInv /\ Cli \in Procs /\ App \in Procs /\ Handed[Cli] = {} /\ TypeOK
  BY ReindexAssumption, ConstantsAssumption DEF KeepInv, CmdInv, IInv
<1>1. ASSUME NEW p \in Procs, NEW m \in Messages, Start(p, m) PROVE KeepInv'
  <2>1. PICK t \in Now, d \in DatesFor[m] :
          proc' = [proc EXCEPT ![p] = [Idle EXCEPT !.pc = "lock", !.msg = m, !.date = d, !.rcvd = t]]
    BY <1>1 DEF Start
  <2>2. proc'[p] = [Idle EXCEPT !.pc = "lock", !.msg = m, !.date = d, !.rcvd = t]
        /\ \A q \in Procs \ {p} : proc'[q] = proc[q]
    BY <1>0, <2>1 DEF TypeOK
  <2>3. proc'[p].pc = "lock" /\ proc'[p].msg = m /\ proc'[p].date = d
    BY <2>2 DEF Idle
  <2>4. UNCHANGED <<md, files, ingested>> /\ ingested[m] = None /\ m \in Handed[p]
    BY <1>1 DEF Start, AlreadyRecorded
  <2>5. CallOK(p)'
    BY <1>0, <2>3, <2>4 DEF CallOK
  <2>. QED
    BY <2>2, <2>4, <2>5, KeepOthers
<1>2. ASSUME NEW p \in Procs, IngestStep(p) PROVE KeepInv'
  BY <1>2, KeepCall
<1>3. ASSUME NEW p \in Procs, Crash(p) PROVE KeepInv'
  <2>1. UNCHANGED <<md, files, ingested>> /\ proc' = [proc EXCEPT ![p] = Idle]
    BY <1>3 DEF Crash
  <2>2. \A q \in Procs : proc'[q] = proc[q] \/ proc'[q].pc = "idle"
    BY <1>0, <2>1, IdleType DEF TypeOK
  <2>. QED
    BY <2>1, <2>2, KeepOthers
<1>4. CASE SaveRequest \/ SaveStep \/ \E d \in Dates : OpenForm(d)
  <2>1. UNCHANGED <<files, ingested>>
    BY <1>4 DEF SaveRequest, SaveStep, SaveLock, SaveFindsNoEntry, SaveWrite, SaveCommit, SaveFails, OpenForm
  <2>2. ASSUME NEW q \in Procs
        PROVE  \/ proc'[q] = proc[q] \/ proc'[q].pc \in {"savelock", "savecommit", "idle"}
               \/ CallOK(q)'
    <3>1. CASE SaveLock
      <4>1. proc'[App].pc = "savewrite" /\ proc'[App].old # None /\ (q # App => proc'[q] = proc[q])
        BY <1>0, <3>1 DEF SaveLock, TypeOK, Locals
      <4>. QED
        BY <4>1 DEF CallOK
    <3>2. CASE SaveRequest
      BY <1>0, <3>2 DEF SaveRequest, TypeOK, Idle
    <3>3. CASE SaveWrite
      BY <1>0, <3>3 DEF SaveWrite, TypeOK, Locals
    <3>4. CASE SaveFindsNoEntry \/ SaveCommit \/ SaveFails
      BY <1>0, <3>4, IdleType DEF SaveFindsNoEntry, SaveCommit, SaveFails, TypeOK
    <3>5. CASE \E d \in Dates : OpenForm(d)
      BY <3>5 DEF OpenForm
    <3>. QED
      BY <1>4, <3>1, <3>2, <3>3, <3>4, <3>5 DEF SaveStep
  <2>3. ASSUME NEW d \in Dates, md'[d] # None PROVE md[d] # None
    <3>1. CASE SaveWrite
      <4>1. proc[App].date \in Dates /\ md[proc[App].date] # None
        BY <1>0, <3>1 DEF SaveWrite, IInv, ProcOK, KeepInv, CallOK
      <4>. QED
        BY <1>0, <2>3, <3>1, <4>1 DEF SaveWrite, TypeOK
    <3>2. CASE ~SaveWrite
      BY <1>4, <2>3, <3>2 DEF SaveRequest, SaveStep, SaveLock, SaveFindsNoEntry, SaveCommit, SaveFails, OpenForm
    <3>. QED
      BY <3>1, <3>2
  <2>. QED
    BY <2>1, <2>2, <2>3, KeepOthers
<1>. QED
  BY <1>1, <1>2, <1>3, <1>4 DEF AppRuns, Next

LEMMA KeepEml ==
    ASSUME Orderly, KeepInv, CmdInv', DeriveEml
    PROVE  KeepInv'
<1>. DEFINE t == Min(cmd.emls)
            m == files[cmd.day][RawPath(t)]
<1>0. /\ cmd.emls # {} /\ cmd.emls \subseteq Seconds /\ cmd.day \in Dates /\ proc[Cli].pc = "idle"
      /\ Cli \in Procs /\ TypeOK
  BY ReindexAssumption DEF KeepInv, CmdInv, DeriveEml, Deriving, RawFilesThere, Cmds, IInv
<1>1. /\ UNCHANGED <<md, files, ingested>>
      /\ \/ UNCHANGED proc
         \/ ingested[m] = None /\ \E d \in DatesFor[m] :
              proc' = [proc EXCEPT ![Cli] = [Idle EXCEPT !.pc = "lock", !.msg = m,
                                                         !.date = d, !.rcvd = t]]
  BY DEF DeriveEml, AlreadyRecorded, store
<1>. HIDE DEF t, m
<1>2. CASE UNCHANGED proc
  BY <1>1, <1>2, KeepOthers
<1>3. ASSUME ingested[m] = None, NEW d \in DatesFor[m],
             proc' = [proc EXCEPT ![Cli] = [Idle EXCEPT !.pc = "lock", !.msg = m,
                                                        !.date = d, !.rcvd = t]]
      PROVE  KeepInv'
  <2>1. proc'[Cli] = [Idle EXCEPT !.pc = "lock", !.msg = m, !.date = d, !.rcvd = t]
        /\ \A q \in Procs \ {Cli} : proc'[q] = proc[q]
    BY <1>0, <1>3 DEF TypeOK
  <2>2. proc'[Cli].pc = "lock" /\ proc'[Cli].msg = m /\ proc'[Cli].date = d
    BY <2>1 DEF Idle
  <2>3. CallOK(Cli)'
    BY <1>1, <1>3, <2>2 DEF CallOK
  <2>. QED
    BY <1>1, <2>1, <2>3, KeepOthers
<1>. QED
  BY <1>1, <1>2, <1>3

LEMMA KeepNext == Orderly /\ KeepInv /\ [RNext]_<<vars, rvars>> => KeepInv'
<1>. SUFFICES ASSUME Orderly, KeepInv, [RNext]_<<vars, rvars>> PROVE KeepInv'
  OBVIOUS
<1>0. CmdInv' /\ CmdInv /\ Cli \in Procs /\ TypeOK
  BY CmdNext, ReindexAssumption DEF KeepInv, CmdInv, IInv
<1>1. CASE AppRuns
  BY <1>0, <1>1, KeepApp
<1>2. CASE UnlinkDay
  <2>1. \A d \in Dates : md'[d] # None => md[d] # None
    BY <1>0, <1>2 DEF UnlinkDay, TypeOK
  <2>2. UNCHANGED <<files, ingested, proc>>
    BY <1>2 DEF UnlinkDay, store
  <2>. QED
    BY <1>0, <2>1, <2>2, KeepOthers
<1>3. CASE DeriveEml
  BY <1>0, <1>3, KeepEml
<1>4. CASE DeriveStep
  BY <1>0, <1>4, KeepCall DEF DeriveStep
<1>5. CASE CommandDies
  <2>1. \A q \in Procs : proc'[q] = proc[q] \/ proc'[q].pc = "idle"
    BY <1>0, <1>5, IdleType DEF CommandDies, TypeOK
  <2>. QED
    BY <1>0, <1>5, <2>1, KeepOthers DEF CommandDies
<1>6. CASE LoseIndex
  BY <1>0, <1>6, KeepOthers DEF LoseIndex
<1>7. CASE BuildDay
  BY <1>0, <1>7, KeepOthers DEF BuildDay, store
<1>8. CASE UNCHANGED vars
  BY <1>0, <1>8, KeepOthers DEF vars
<1>9. Derived \/ Finish \/ (\E a, b \in BOOLEAN : Begin(a, b)) \/ UNCHANGED <<vars, rvars>> => UNCHANGED vars
  BY DEF Derived, Finish, Begin
<1>. QED
  BY <1>1, <1>2, <1>3, <1>4, <1>5, <1>6, <1>7, <1>8, <1>9 DEF RNext, Command


-----------------------------------------------------------------------------
(* Edits *)

\* Replies come through the app alone, and no two calls in one second.  With
\* two processes a reply's received_at may be older than the edit it is
\* appended to, and the guard of --from-raw does not see that edit.
OneWriter == ~SameSecond /\ \A p \in Procs \ {App} : Handed[p] = {}

\* An edit shows in the times of its document.
Dated(doc) == HasEdit(doc) => doc.created < doc.updated

Docs0 == Docs \cup {None}

EditsShow ==
    \A d \in Dates : md[d] # None => md[d].created <= clock /\ Dated(md[d])

\* What the app is about to write is younger than every entry.
AppIsLast ==
    LET c == proc[App] IN
    /\ c.pc \in {"lock", "raw", "media", "write"} =>
         /\ c.rcvd <= clock
         /\ \A d \in Dates : md[d] # None => md[d].created < c.rcvd
    /\ c.pc = "savewrite" =>
         c.new.created <= clock /\ c.new.created < c.new.updated /\ HasEdit(c.new)

\* What the command writes is of the day in hand, whose edits are gone.
CliIsBehind ==
    /\ proc[Cli].pc # "idle" => proc[Cli].date = cmd.day /\ proc[Cli].rcvd <= clock
    /\ cmd.pc = "derive" =>
         /\ cmd.day # None => ~HasEdit(md[cmd.day])
         /\ ~cmd.force => \A d \in Dates : ~HasEdit(md[d])

EditInv ==
    /\ KeepInv
    /\ \A p \in Procs \ {App, Cli} : proc[p].pc = "idle"
    /\ \A d \in Dates, t \in Seconds : Raw(d, t) # None => t <= clock
    /\ EditsShow /\ AppIsLast /\ CliIsBehind

LEMMA ComposeKeepsEdits ==
    ASSUME NEW m \in Messages, NEW t \in Seconds, NEW old \in Docs0
    PROVE  /\ HasEdit(Compose(m, t, old)) <=> HasEdit(old)
           /\ old = None => Compose(m, t, old).created = t
           /\ old # None => Compose(m, t, old).created = old.created
           /\ Compose(m, t, old).updated = t
<1>1. m # Edited
  BY NoneAssumption
<1>2. CASE old = None
  BY <1>1, <1>2 DEF Compose, HasEdit, BodyOf
<1>3. CASE old # None
  <2>1. old \in Docs /\ old.body \in Seq(Sections) /\ Compose(m, t, old) \in Docs
    BY <1>3, ComposeType DEF Docs, Docs0
  <2>2. Compose(m, t, old).body = Append(old.body, m) /\ Compose(m, t, old) # None
    BY <1>3, <2>1, NoneAssumption DEF Compose
  <2>. DEFINE b == old.body
  <2>3. Len(Append(b, m)) = Len(b) + 1 /\ Append(b, m)[Len(b) + 1] = m
        /\ \A i \in 1..Len(b) : Append(b, m)[i] = b[i]
    BY <2>1
  <2>4. Len(b) \in Nat
    BY <2>1
  <2>5. (\E i \in 1..Len(Append(b, m)) : Append(b, m)[i] = Edited) <=> \E i \in 1..Len(b) : b[i] = Edited
    <3>. HIDE DEF b
    <3>. QED
      BY <1>1, <2>3, <2>4
  <2>6. HasEdit(Compose(m, t, old)) <=> HasEdit(old)
    BY <1>3, <2>2, <2>5 DEF HasEdit, BodyOf
  <2>. QED
    BY <1>3, <2>6 DEF Compose
<1>. QED
  BY <1>2, <1>3

LEMMA FormBringsEdit ==
    ASSUME NEW f \in Forms, NEW old \in Docs, NEW tags \in SUBSET Tags, NEW t \in Seconds
    PROVE  /\ HasEdit(ApplyForm(f, old, tags, t))
           /\ ApplyForm(f, old, tags, t).created = old.created
           /\ ApplyForm(f, old, tags, t).updated = t
<1>. DEFINE new == ApplyForm(f, old, tags, t)
            b == f.body
<1>1. new \in Docs /\ new # None
  BY ApplyFormType, NoneAssumption
<1>6. new.body = Append(b, Edited) /\ new.created = old.created /\ new.updated = t
  BY DEF ApplyForm, Docs
<1>2. b \in Seq(Sections)
  BY DEF Forms
<1>3. Append(b, Edited)[Len(b) + 1] = Edited /\ Len(Append(b, Edited)) = Len(b) + 1 /\ Len(b) \in Nat
  BY <1>2
<1>4. Len(b) + 1 \in 1..Len(new.body) /\ new.body[Len(b) + 1] = Edited
  BY <1>3, <1>6
<1>5. HasEdit(new)
  BY <1>1, <1>4 DEF HasEdit, BodyOf
<1>. QED
  BY <1>5, <1>6

LEMMA EditTypes ==
    ASSUME EditInv
    PROVE  /\ clock \in Nat /\ App \in Procs /\ Cli \in Procs /\ App # Cli
           /\ TypeOK /\ cmd \in Cmds /\ IInv
           /\ \A doc \in Docs : doc # None /\ doc.created \in Nat /\ doc.updated \in Nat
           /\ \A d \in Dates : md[d] \in Docs0
<1>1. TypeOK /\ IInv /\ cmd \in Cmds
  BY DEF EditInv, KeepInv, CmdInv, IInv
<1>2. \A doc \in Docs : doc # None /\ doc.created \in Seconds /\ doc.updated \in Seconds
  BY NoneAssumption DEF Docs
<1>3. Seconds \subseteq Nat
  BY DEF Seconds
<1>. QED
  BY <1>1, <1>2, <1>3, ConstantsAssumption, ReindexAssumption DEF TypeOK, Docs0

LEMMA EditInit == RInit => EditInv
BY KeepInit, IdleType, ReindexAssumption, ConstantsAssumption, OffType
   DEF RInit, Init, EditInv, EditsShow, AppIsLast, CliIsBehind, Raw, Paths, Off


\* A step of a call adds and takes no edit.
LEMMA EditCall ==
    ASSUME Orderly, EditInv, KeepInv', NEW p \in {App, Cli}, IngestStep(p), cmd' = cmd,
           p = Cli => cmd.pc = "derive"
    PROVE  EditInv' /\ \A d \in Dates : HasEdit(md'[d]) <=> HasEdit(md[d])
<1>. DEFINE c == proc[p]
<1>0. /\ clock \in Nat /\ App \in Procs /\ Cli \in Procs /\ App # Cli /\ TypeOK /\ IInv /\ p \in Procs
      /\ \A d \in Dates : md[d] \in Docs0
  BY EditTypes
<1>1. /\ Lock(p) \/ WriteRaw(p) \/ WriteMedia(p) \/ WriteEntry(p) \/ Commit(p)
      /\ c.pc \in IngestPCs /\ c.pc # "idle" /\ c.msg \in Messages /\ c.date \in Dates /\ c.rcvd \in Seconds
  BY <1>0, CallGoesOn DEF EditInv
<1>2. (p = App => cmd.pc = "off" /\ proc[Cli].pc = "idle") /\ (p = Cli => proc[App].pc = "idle")
  BY <1>0, <1>1 DEF EditInv, KeepInv, CmdInv, Alone
<1>3. \A q \in Procs \ {p} : proc'[q] = proc[q]
  BY <1>0, CliOnly
<1>4. clock' = clock
  BY <1>1 DEF Lock, WriteRaw, WriteMedia, WriteEntry, Commit
<1>5. WriteEntry(p) \/ UNCHANGED md
  BY <1>1 DEF Lock, WriteRaw, WriteMedia, Commit
<1>6. ASSUME WriteEntry(p)
      PROVE  /\ c.pc = "write" /\ c.old = md[c.date] /\ proc'[p].pc = "commit"
             /\ md' = [md EXCEPT ![c.date] = Compose(c.msg, c.rcvd, md[c.date])]
  BY <1>0, <1>6 DEF WriteEntry, IInv, ProcOK, TypeOK, Locals
<1>7. c.pc \in {"raw", "media"} => c.rcvd <= clock
  BY <1>0, <1>1, <1>2 DEF EditInv, AppIsLast, CliIsBehind
<1>8. ASSUME NEW d \in Dates, md'[d] # md[d]
      PROVE  /\ WriteEntry(p) /\ d = c.date /\ md'[d] = Compose(c.msg, c.rcvd, md[d])
             /\ c.rcvd <= clock
             /\ p = App => \A e \in Dates : md[e] # None => md[e].created < c.rcvd
             /\ p = Cli => ~HasEdit(md[d])
  <2>1. WriteEntry(p) /\ d = c.date /\ md'[d] = Compose(c.msg, c.rcvd, md[d])
    BY <1>0, <1>1, <1>5, <1>6, <1>8 DEF TypeOK
  <2>2. p = App => c.rcvd <= clock /\ \A e \in Dates : md[e] # None => md[e].created < c.rcvd
    BY <1>6, <2>1 DEF EditInv, AppIsLast
  <2>3. p = Cli => c.rcvd <= clock /\ ~HasEdit(md[d])
    <3>1. p = Cli => c.rcvd <= clock /\ c.date = cmd.day /\ cmd.pc = "derive"
      BY <1>1 DEF EditInv, CliIsBehind
    <3>. QED
      BY <2>1, <3>1, <1>1, NoneAssumption DEF EditInv, CliIsBehind
  <2>. QED
    BY <2>1, <2>2, <2>3
<1>9. \A d \in Dates : HasEdit(md'[d]) <=> HasEdit(md[d])
  BY <1>0, <1>1, <1>8, ComposeKeepsEdits
<1>10. EditsShow'
  <2>. SUFFICES ASSUME NEW d \in Dates, md'[d] # None
                PROVE  md'[d].created <= clock /\ Dated(md'[d])
    BY <1>4 DEF EditsShow
  <2>1. CASE md'[d] = md[d]
    BY <2>1 DEF EditInv, EditsShow
  <2>2. CASE md'[d] # md[d]
    <3>. DEFINE new == Compose(c.msg, c.rcvd, md[d])
    <3>1. /\ HasEdit(new) <=> HasEdit(md[d])
          /\ md[d] = None => new.created = c.rcvd
          /\ md[d] # None => new.created = md[d].created
          /\ new.updated = c.rcvd
      BY <1>0, <1>1, ComposeKeepsEdits
    <3>2. md'[d] = new /\ c.rcvd <= clock
      BY <1>8, <2>2
    <3>3. md[d] = None => ~HasEdit(md[d])
      BY DEF HasEdit, BodyOf
    <3>4. md[d] # None => md[d].created <= clock
      BY DEF EditInv, EditsShow
    <3>. HIDE DEF new
    <3>. QED
      BY <1>8, <2>2, <3>1, <3>2, <3>3, <3>4 DEF Dated
  <2>. QED
    BY <2>1, <2>2
<1>11. AppIsLast'
  <2>1. CASE p = Cli
    BY <1>0, <1>2, <1>3, <2>1 DEF AppIsLast
  <2>2. CASE p = App
    <3>1. proc'[App].pc # "savewrite"
      BY <1>0, <1>1, <2>2, IdleType DEF Lock, WriteRaw, WriteMedia, WriteEntry, Commit, TypeOK, Locals
    <3>2. ASSUME proc'[App].pc \in {"lock", "raw", "media", "write"}
          PROVE  UNCHANGED md /\ proc[App].pc \in {"lock", "raw", "media", "write"}
                 /\ proc'[App].rcvd = proc[App].rcvd
      <4>1. ~Commit(App) /\ ~WriteEntry(App)
        BY <1>0, <1>6, <2>2, <3>2, IdleType DEF Commit, TypeOK
      <4>. QED
        BY <1>0, <1>1, <1>5, <2>2, <4>1, CarriedOn DEF CarriesOn, Lock, WriteRaw, WriteMedia
    <3>. QED
      BY <1>4, <3>1, <3>2 DEF AppIsLast, EditInv
  <2>. QED
    BY <2>1, <2>2
<1>12. CliIsBehind'
  <2>1. proc'[Cli].pc # "idle" => proc'[Cli].date = cmd.day /\ proc'[Cli].rcvd <= clock
    <3>1. CASE p = App
      BY <1>0, <1>2, <1>3, <3>1
    <3>2. CASE p = Cli /\ Commit(p)
      BY <1>0, <3>2, IdleType DEF Commit, TypeOK
    <3>3. CASE p = Cli /\ ~Commit(p)
      BY <1>0, <1>1, <3>3, CarriedOn DEF CarriesOn, EditInv, CliIsBehind
    <3>. QED
      BY <3>1, <3>2, <3>3
  <2>2. cmd.pc = "derive" /\ cmd.day # None => ~HasEdit(md'[cmd.day])
    <3>1. cmd.day # None => cmd.day \in Dates
      BY EditTypes DEF Cmds
    <3>. QED
      BY <1>9, <3>1 DEF EditInv, CliIsBehind
  <2>. QED
    BY <1>4, <1>9, <2>1, <2>2 DEF EditInv, CliIsBehind
<1>13. ASSUME NEW d \in Dates, NEW t \in Seconds, Raw(d, t)' # None PROVE t <= clock
  <2>1. CASE Raw(d, t)' = Raw(d, t)
    BY <1>13, <2>1 DEF EditInv
  <2>2. CASE Raw(d, t)' # Raw(d, t)
    <3>1. KeepInv /\ (WriteRaw(p) => c.pc = "raw")
      BY DEF EditInv, WriteRaw
    <3>2. WriteRaw(p) /\ t = c.rcvd
      BY <1>0, <2>2, <3>1, RawsStay
    <3>. QED
      BY <1>7, <3>1, <3>2
  <2>. QED
    BY <2>1, <2>2
<1>14. \A q \in Procs \ {App, Cli} : proc'[q].pc = "idle"
  BY <1>3 DEF EditInv
<1>15. \A d \in Dates, t \in Seconds : Raw(d, t)' # None => t <= clock'
  BY <1>4, <1>13
<1>. QED
  BY <1>9, <1>10, <1>11, <1>12, <1>14, <1>15 DEF EditInv


\* The steps of the app besides those of ingest_one.
LEMMA EditApp ==
    ASSUME OneWriter, EditInv, KeepInv', cmd' = cmd, cmd.pc = "off",
           \/ \E p \in Procs : Crash(p) \/ \E m \in Messages : Start(p, m)
           \/ SaveRequest \/ SaveStep \/ \E d \in Dates : OpenForm(d)
    PROVE  EditInv' /\ \A d \in Dates : HasEdit(md[d]) => HasEdit(md'[d])
<1>0. /\ clock \in Nat /\ App \in Procs /\ Cli \in Procs /\ App # Cli /\ TypeOK /\ IInv
      /\ \A doc \in Docs : doc # None /\ doc.created \in Nat /\ doc.updated \in Nat
      /\ \A d \in Dates : md[d] \in Docs0
  BY EditTypes
<1>1. UNCHANGED files /\ CliIsBehind'
  <2>1. proc'[Cli].pc = "idle"
    BY DEF KeepInv, CmdInv, Alone
  <2>2. UNCHANGED files
    BY DEF Crash, Start, SaveRequest, SaveStep, SaveLock, SaveFindsNoEntry, SaveWrite, SaveCommit,
           SaveFails, OpenForm
  <2>. QED
    BY <2>1, <2>2 DEF CliIsBehind
<1>2. ASSUME UNCHANGED <<clock, md>>, proc'[App] = proc[App] \/ proc'[App].pc \notin IngestPCs \cup {"savewrite"},
             \A q \in Procs \ {App, Cli} : proc'[q].pc = "idle"
      PROVE  EditInv' /\ \A d \in Dates : HasEdit(md[d]) => HasEdit(md'[d])
  <2>1. AppIsLast'
    BY <1>2 DEF EditInv, AppIsLast
  <2>2. EditsShow'
    BY <1>2 DEF EditInv, EditsShow
  <2>. QED
    BY <1>1, <1>2, <2>1, <2>2 DEF EditInv, Raw
<1>3. ASSUME NEW p \in Procs, NEW m \in Messages, Start(p, m)
      PROVE  EditInv' /\ \A d \in Dates : HasEdit(md[d]) => HasEdit(md'[d])
  <2>1. p = App /\ UNCHANGED md
    BY <1>3 DEF OneWriter, Start
  <2>2. PICK t \in Now, d \in DatesFor[m] :
          /\ clock' = t
          /\ proc' = [proc EXCEPT ![App] = [Idle EXCEPT !.pc = "lock", !.msg = m, !.date = d, !.rcvd = t]]
    BY <1>3, <2>1 DEF Start
  <2>3. t = clock + 1
    BY DEF Now, OneWriter
  <2>4. proc'[App] = [Idle EXCEPT !.pc = "lock", !.msg = m, !.date = d, !.rcvd = t]
        /\ \A q \in Procs \ {App} : proc'[q] = proc[q]
    BY <1>0, <2>2 DEF TypeOK
  <2>5. proc'[App].pc = "lock" /\ proc'[App].rcvd = t
    BY <2>4 DEF Idle
  <2>6. \A e \in Dates : md[e] # None => md[e].created <= clock /\ md[e].created \in Nat /\ Dated(md[e])
    BY <1>0 DEF EditInv, EditsShow, Docs0
  <2>7. \A e \in Dates : md'[e] # None => md'[e].created < t /\ md'[e].created <= clock' /\ Dated(md'[e])
    BY <1>0, <2>1, <2>2, <2>3, <2>6
  <2>8. AppIsLast' /\ EditsShow'
    BY <1>0, <2>2, <2>3, <2>5, <2>7 DEF AppIsLast, EditsShow
  <2>9. \A e \in Dates, u \in Seconds : Raw(e, u)' # None => u <= clock'
    <3>1. \A e \in Dates, u \in Seconds : Raw(e, u) # None => u <= clock /\ u \in Nat
      BY DEF EditInv, Seconds
    <3>. QED
      BY <1>0, <1>1, <2>2, <2>3, <3>1 DEF Raw
  <2>. QED
    BY <1>1, <2>1, <2>4, <2>8, <2>9 DEF EditInv
<1>4. ASSUME NEW p \in Procs, Crash(p)
      PROVE  EditInv' /\ \A d \in Dates : HasEdit(md[d]) => HasEdit(md'[d])
  <2>1. UNCHANGED <<clock, md>> /\ proc' = [proc EXCEPT ![p] = Idle]
    BY <1>4 DEF Crash
  <2>2. \A q \in Procs : proc'[q] = proc[q] \/ proc'[q].pc = "idle"
    BY <1>0, <2>1, IdleType DEF TypeOK
  <2>3. \A q \in Procs \ {App, Cli} : proc'[q].pc = "idle"
    BY <2>2 DEF EditInv
  <2>4. proc'[App] = proc[App] \/ proc'[App].pc \notin IngestPCs \cup {"savewrite"}
    BY <1>0, <2>2
  <2>. QED
    BY <1>2, <2>1, <2>3, <2>4
<1>5. ASSUME SaveRequest \/ SaveFindsNoEntry \/ SaveCommit \/ SaveFails \/ \E d \in Dates : OpenForm(d)
      PROVE  EditInv' /\ \A d \in Dates : HasEdit(md[d]) => HasEdit(md'[d])
  <2>1. UNCHANGED <<clock, md>>
    BY <1>5 DEF SaveRequest, SaveFindsNoEntry, SaveCommit, SaveFails, OpenForm
  <2>2. \A q \in Procs \ {App} : proc'[q] = proc[q]
    BY <1>0, <1>5 DEF SaveRequest, SaveFindsNoEntry, SaveCommit, SaveFails, OpenForm, TypeOK
  <2>3. CASE SaveRequest
    BY <1>0, <1>2, <2>1, <2>2, <2>3 DEF SaveRequest, TypeOK, Idle, EditInv
  <2>4. CASE SaveFindsNoEntry \/ SaveCommit \/ SaveFails
    BY <1>0, <1>2, <2>1, <2>2, <2>4, IdleType DEF SaveFindsNoEntry, SaveCommit, SaveFails, TypeOK, EditInv
  <2>5. CASE \E d \in Dates : OpenForm(d)
    <3>1. proc' = proc
      BY <2>5 DEF OpenForm
    <3>2. \A q \in Procs \ {App, Cli} : proc'[q].pc = "idle"
      BY <3>1 DEF EditInv
    <3>. QED
      BY <1>2, <2>1, <3>1, <3>2
  <2>. QED
    BY <1>5, <2>3, <2>4, <2>5
<1>6. ASSUME SaveLock
      PROVE  EditInv' /\ \A d \in Dates : HasEdit(md[d]) => HasEdit(md'[d])
  <2>. DEFINE d == proc[App].date
  <2>1. PICK t \in Now, tags \in SUBSET Tags :
          /\ clock' = t
          /\ proc' = [proc EXCEPT ![App].pc = "savewrite", ![App].old = md[d],
                                  ![App].new = ApplyForm(form, md[d], tags, t)]
    BY <1>6 DEF SaveLock
  <2>2. form \in Forms /\ d \in Dates /\ md[d] \in Docs /\ UNCHANGED md
    BY <1>0, <1>6 DEF SaveLock, IInv, ProcOK, Docs0
  <2>3. t = clock + 1 /\ t \in Seconds
    BY DEF Now, OneWriter
  <2>. HIDE DEF d
  <2>. DEFINE new == ApplyForm(form, md[d], tags, t)
  <2>4. HasEdit(new) /\ new.created = md[d].created /\ new.updated = t
    BY <2>2, <2>3, FormBringsEdit
  <2>5. proc'[App].pc = "savewrite" /\ proc'[App].new = new /\ \A q \in Procs \ {App} : proc'[q] = proc[q]
    BY <1>0, <2>1 DEF TypeOK, Locals
  <2>. HIDE DEF new
  <2>6. \A e \in Dates : md[e] # None => md[e].created <= clock /\ md[e].created \in Nat /\ Dated(md[e])
    BY <1>0 DEF EditInv, EditsShow, Docs0
  <2>7. EditsShow'
    BY <1>0, <2>1, <2>2, <2>3, <2>6 DEF EditsShow
  <2>8. AppIsLast'
    <3>1. new.created <= clock' /\ new.created < new.updated
      BY <1>0, <2>1, <2>2, <2>3, <2>4, <2>6
    <3>. QED
      BY <2>4, <2>5, <3>1 DEF AppIsLast
  <2>9. \A e \in Dates, u \in Seconds : Raw(e, u)' # None => u <= clock'
    <3>1. \A e \in Dates, u \in Seconds : Raw(e, u) # None => u <= clock /\ u \in Nat
      BY DEF EditInv, Seconds
    <3>. QED
      BY <1>0, <1>1, <2>1, <2>3, <3>1 DEF Raw
  <2>. QED
    BY <1>1, <2>2, <2>5, <2>7, <2>8, <2>9 DEF EditInv
<1>7. ASSUME SaveWrite
      PROVE  EditInv' /\ \A d \in Dates : HasEdit(md[d]) => HasEdit(md'[d])
  <2>. DEFINE c == proc[App]
  <2>1. /\ md' = [md EXCEPT ![c.date] = c.new] /\ proc' = [proc EXCEPT ![App].pc = "savecommit"]
        /\ clock' = clock /\ c.new \in Docs
    BY <1>0, <1>7 DEF SaveWrite, IInv, ProcOK
  <2>2. c.new.created <= clock /\ c.new.created < c.new.updated /\ HasEdit(c.new)
    BY <1>7 DEF SaveWrite, EditInv, AppIsLast
  <2>3. proc'[App].pc = "savecommit" /\ \A q \in Procs \ {App} : proc'[q] = proc[q]
    BY <1>0, <2>1 DEF TypeOK, Locals
  <2>4. \A d \in Dates : md'[d] = md[d] \/ md'[d] = c.new
    BY <1>0, <2>1 DEF TypeOK
  <2>5. EditsShow'
    BY <2>1, <2>2, <2>4 DEF EditInv, EditsShow, Dated
  <2>6. AppIsLast'
    BY <2>3 DEF AppIsLast
  <2>. QED
    BY <1>1, <2>1, <2>2, <2>3, <2>4, <2>5, <2>6 DEF EditInv, Raw
<1>. QED
  BY <1>3, <1>4, <1>5, <1>6, <1>7 DEF SaveStep


\* The steps of the command besides those of ingest_one.
LEMMA EditCommand ==
    ASSUME Orderly, EditInv, KeepInv',
           \/ \E fromRaw, force \in BOOLEAN : Begin(fromRaw, force)
           \/ UnlinkDay \/ DeriveEml \/ Derived \/ BuildDay \/ Finish \/ CommandDies \/ LoseIndex
    PROVE  EditInv' /\ \A d \in Dates : HasEdit(md[d]) /\ ~HasEdit(md'[d]) => cmd.pc = "derive" /\ cmd.force
<1>0. /\ clock \in Nat /\ App \in Procs /\ Cli \in Procs /\ App # Cli /\ TypeOK /\ IInv /\ cmd \in Cmds
      /\ \A doc \in Docs : doc # None /\ doc.created \in Nat /\ doc.updated \in Nat
      /\ \A d \in Dates : md[d] \in Docs0
  BY EditTypes
<1>1. ASSUME UNCHANGED <<clock, files>>, \A d \in Dates : md'[d] \in {md[d], None},
             \A q \in Procs \ {Cli} : proc'[q] = proc[q] \/ proc'[q].pc = "idle", CliIsBehind'
      PROVE  EditInv'
  <2>1. EditsShow'
    BY <1>1 DEF EditInv, EditsShow
  <2>2. AppIsLast'
    <3>1. proc'[App] = proc[App] \/ proc'[App].pc = "idle"
      BY <1>0, <1>1
    <3>. QED
      BY <1>1, <3>1 DEF EditInv, AppIsLast
  <2>3. \A q \in Procs \ {App, Cli} : proc'[q].pc = "idle"
    BY <1>1 DEF EditInv
  <2>4. \A d \in Dates, t \in Seconds : Raw(d, t)' # None => t <= clock'
    BY <1>1 DEF EditInv, Raw
  <2>. QED
    BY <1>1, <2>1, <2>2, <2>3, <2>4 DEF EditInv
<1>2. ASSUME NEW fromRaw \in BOOLEAN, NEW force \in BOOLEAN, Begin(fromRaw, force)
      PROVE  EditInv' /\ UNCHANGED md
  <2>1. /\ UNCHANGED vars /\ proc[Cli].pc = "idle" /\ cmd'.day = None /\ cmd'.force = force
        /\ cmd'.pc = (IF fromRaw THEN "derive" ELSE "build")
        /\ (fromRaw /\ ~force => LooksEdited = {})
    BY <1>0, <1>2 DEF Begin, Off
  <2>2. ASSUME NEW d \in Dates, fromRaw, ~force PROVE ~HasEdit(md[d])
    <3>1. CASE md[d] = None
      BY <3>1 DEF HasEdit, BodyOf
    <3>2. CASE md[d] # None
      <4>1. ~(md[d].updated > md[d].created)
        BY <2>1, <2>2, <3>2 DEF LooksEdited
      <4>2. md[d].updated \in Nat /\ md[d].created \in Nat /\ Dated(md[d])
        BY <1>0, <3>2 DEF EditInv, EditsShow, Docs0
      <4>. QED
        BY <4>1, <4>2 DEF Dated
    <3>. QED
      BY <3>1, <3>2
  <2>3. CliIsBehind'
    BY <2>1, <2>2 DEF CliIsBehind, vars
  <2>. QED
    BY <1>1, <2>1, <2>3 DEF vars
<1>3. ASSUME UnlinkDay
      PROVE  EditInv' /\ \A d \in Dates : HasEdit(md[d]) /\ ~HasEdit(md'[d]) => cmd.force
  <2>. DEFINE i == Min(cmd.todo)
              d == WalkOrder[i]
  <2>1. PICK emls :
          /\ cmd' = [cmd EXCEPT !.todo = @ \ {i}, !.day = d, !.emls = emls]
          /\ md' = [md EXCEPT ![d] = None]
          /\ UNCHANGED <<clock, files, proc>> /\ cmd.pc = "derive" /\ proc[Cli].pc = "idle"
    BY <1>3 DEF UnlinkDay, Deriving, store
  <2>2. d \in Dates
    <3>1. cmd.todo \subseteq Nat /\ cmd.todo # {} /\ cmd.todo \subseteq Places
      BY <1>0, <1>3, Walk DEF Cmds, UnlinkDay
    <3>2. i \in cmd.todo
      BY <3>1, NextOne
    <3>. QED
      BY <3>1, <3>2, Walk
  <2>. HIDE DEF i, d
  <2>3. \A e \in Dates : md'[e] = (IF e = d THEN None ELSE md[e])
    BY <1>0, <2>1 DEF TypeOK
  <2>4. ~HasEdit(None)
    BY DEF HasEdit, BodyOf
  <2>5. cmd'.pc = "derive" /\ cmd'.day = d /\ cmd'.force = cmd.force
    BY <1>0, <2>1 DEF Cmds
  <2>6. ~cmd.force => \A e \in Dates : ~HasEdit(md[e])
    BY <2>1 DEF EditInv, CliIsBehind
  <2>7. ~HasEdit(md'[d]) /\ (~cmd.force => \A e \in Dates : ~HasEdit(md'[e]))
    BY <2>2, <2>3, <2>4, <2>6
  <2>8. CliIsBehind'
    BY <2>1, <2>5, <2>7 DEF CliIsBehind
  <2>9. \A e \in Dates : md'[e] \in {md[e], None}
    BY <2>3
  <2>. QED
    BY <1>1, <2>1, <2>6, <2>8, <2>9
<1>4. ASSUME DeriveEml PROVE EditInv' /\ UNCHANGED md
  <2>. DEFINE t == Min(cmd.emls)
              m == files[cmd.day][RawPath(t)]
  <2>1. /\ cmd.emls # {} /\ cmd.emls \subseteq Seconds /\ cmd.pc = "derive" /\ proc[Cli].pc = "idle"
        /\ cmd.day \in Dates
    BY <1>0, <1>4 DEF DeriveEml, Deriving, Cmds, EditInv, KeepInv, CmdInv, RawFilesThere
  <2>2. t \in cmd.emls /\ t \in Seconds
    <3>1. cmd.emls \subseteq Nat
      BY <2>1 DEF Seconds
    <3>. QED
      BY <2>1, <3>1, NextOne
  <2>3. t <= clock /\ m \in Messages /\ cmd.day \in DatesFor[m]
    <3>1. PICK e \in Dates, u \in Seconds : e = cmd.day /\ u = t
      BY <2>1, <2>2
    <3>2. Raw(e, u) # None /\ m = Raw(e, u) /\ Raw(e, u) \in Messages \cup {None}
      BY <2>1, <2>2, <3>1 DEF EditInv, KeepInv, CmdInv, RawFilesThere, Raw
    <3>. QED
      BY <3>1, <3>2 DEF EditInv, KeepInv
  <2>4. /\ cmd' = [cmd EXCEPT !.emls = @ \ {t}]
        /\ \/ UNCHANGED proc
           \/ \E d \in DatesFor[m] :
                proc' = [proc EXCEPT ![Cli] = [Idle EXCEPT !.pc = "lock", !.msg = m,
                                                           !.date = d, !.rcvd = t]]
        /\ UNCHANGED <<clock, files, md>>
    BY <1>4 DEF DeriveEml, store
  <2>. HIDE DEF t, m
  <2>5. cmd'.pc = cmd.pc /\ cmd'.day = cmd.day /\ cmd'.force = cmd.force
    BY <1>0, <2>4 DEF Cmds
  <2>6. proc'[Cli].pc # "idle" => proc'[Cli].date = cmd.day /\ proc'[Cli].rcvd = t
    <3>1. CASE UNCHANGED proc
      BY <2>1, <3>1
    <3>2. ASSUME NEW d \in DatesFor[m],
                 proc' = [proc EXCEPT ![Cli] = [Idle EXCEPT !.pc = "lock", !.msg = m,
                                                            !.date = d, !.rcvd = t]]
          PROVE  proc'[Cli].date = cmd.day /\ proc'[Cli].rcvd = t
      <4>1. proc'[Cli] = [Idle EXCEPT !.pc = "lock", !.msg = m, !.date = d, !.rcvd = t]
        BY <1>0, <3>2 DEF TypeOK
      <4>2. d = cmd.day
        BY <2>3, <3>2 DEF Orderly
      <4>. QED
        BY <4>1, <4>2 DEF Idle
    <3>. QED
      BY <2>4, <3>1, <3>2
  <2>7. \A q \in Procs \ {Cli} : proc'[q] = proc[q]
    BY <1>0, <2>4 DEF TypeOK
  <2>8. CliIsBehind'
    BY <2>3, <2>4, <2>5, <2>6 DEF EditInv, CliIsBehind
  <2>. QED
    BY <1>1, <2>4, <2>7, <2>8
<1>5. ASSUME Derived \/ BuildDay \/ Finish PROVE EditInv' /\ UNCHANGED md
  <2>1. UNCHANGED <<clock, files, md, proc>> /\ cmd'.pc # "derive"
    BY <1>0, <1>5, OffType DEF Derived, Deriving, BuildDay, Finish, store, vars, Cmds
  <2>2. proc'[Cli].pc = "idle"
    BY <2>1 DEF KeepInv, CmdInv, Alone
  <2>3. CliIsBehind'
    BY <2>1, <2>2 DEF CliIsBehind
  <2>. QED
    BY <1>1, <2>1, <2>3
<1>6. ASSUME CommandDies \/ LoseIndex PROVE EditInv' /\ UNCHANGED md
  <2>1. UNCHANGED <<clock, files, md>> /\ cmd'.pc = "off"
    BY <1>6, OffType DEF CommandDies, LoseIndex
  <2>2. proc'[Cli].pc = "idle"
    BY <2>1 DEF KeepInv, CmdInv, Alone
  <2>3. \A q \in Procs \ {Cli} : proc'[q] = proc[q]
    BY <1>0, <1>6 DEF CommandDies, LoseIndex, TypeOK
  <2>4. CliIsBehind'
    BY <2>1, <2>2 DEF CliIsBehind
  <2>. QED
    BY <1>1, <2>1, <2>3, <2>4
<1>7. UnlinkDay => cmd.pc = "derive"
  BY DEF UnlinkDay, Deriving
<1>. QED
  BY <1>2, <1>3, <1>4, <1>5, <1>6, <1>7

LEMMA EditNext ==
    ASSUME Orderly, OneWriter, EditInv, [RNext]_<<vars, rvars>>
    PROVE  EditInv' /\ \A d \in Dates : HasEdit(md[d]) /\ ~HasEdit(md'[d]) => cmd.pc = "derive" /\ cmd.force
<1>0. KeepInv' /\ Cli \in Procs
  BY KeepNext, EditTypes DEF EditInv
<1>1. CASE AppRuns
  <2>1. cmd' = cmd /\ cmd.pc = "off" /\ Next
    BY <1>1 DEF AppRuns, rvars
  <2>2. ASSUME NEW p \in Procs, IngestStep(p)
        PROVE  EditInv' /\ \A d \in Dates : HasEdit(md'[d]) <=> HasEdit(md[d])
    <3>1. proc[p].pc # "idle" /\ KeepInv
      BY <2>2, CallGoesOn DEF EditInv
    <3>2. p = App
      BY <2>1, <3>1 DEF EditInv, KeepInv, CmdInv, Alone
    <3>3. p # Cli
      BY <3>2, EditTypes
    <3>. QED
      BY <1>0, <2>1, <2>2, <3>2, <3>3, EditCall
  <2>3. CASE \E p \in Procs : IngestStep(p)
    BY <2>2, <2>3
  <2>4. CASE ~\E p \in Procs : IngestStep(p)
    BY <1>0, <2>1, <2>4, EditApp DEF Next
  <2>. QED
    BY <2>3, <2>4
<1>2. CASE DeriveStep
  <2>1. IngestStep(Cli) /\ cmd.pc = "derive" /\ (proc[Cli].pc # "unlink" => cmd' = cmd)
    BY <1>2 DEF DeriveStep
  <2>2. proc[Cli].pc # "unlink"
    BY <1>0 DEF EditInv, KeepInv, CallOK
  <2>. QED
    BY <1>0, <2>1, <2>2, EditCall
<1>3. CASE UNCHANGED <<vars, rvars>>
  BY <1>0, <1>3 DEF vars, rvars, EditInv, EditsShow, Dated, AppIsLast, CliIsBehind, Raw
<1>4. CASE LoseIndex \/ (Command /\ ~DeriveStep)
  BY <1>0, <1>4, EditCommand DEF Command
<1>. QED
  BY <1>1, <1>2, <1>3, <1>4 DEF RNext

\* What the user edited goes away only by --force: neither the index's loss,
\* nor a plain reindex, nor a command that dies half-way undoes an edit
\* (cli.py:74-83).  The guard reads the times of entry.md: this holds while
\* the database takes what it is given and the app is the only one to ingest,
\* each reply under one day, with no two calls in one second.
THEOREM EditsAreSafe ==
    ASSUME Orderly, OneWriter
    PROVE  RSpec => EditLostOnlyByForce
<1>. DEFINE A == \A d \in Dates : HasEdit(md[d]) /\ ~HasEdit(md'[d]) => cmd.pc = "derive" /\ cmd.force
<1>1. EditInv /\ [RNext]_<<vars, rvars>> => EditInv' /\ A
  BY EditNext
<1>. HIDE DEF A
<1>2. RSpec => [][A]_<<vars, rvars>>
  BY <1>1, EditInit, PTL DEF RSpec
<1>. QED
  BY <1>2 DEF A, EditLostOnlyByForce


-----------------------------------------------------------------------------
(* What the raw files give back *)

\* The second for which the command has still to read a raw file of day d,
\* or has not yet put the reply into its entry.md.
Left(d) ==
    IF d # cmd.day THEN {}
    ELSE cmd.emls \cup (IF proc[Cli].pc \in {"lock", "raw", "media", "write"}
                        THEN {proc[Cli].rcvd} ELSE {})

Past(d) == RawFilesOf(d) \ Left(d)

Told(m, d) == \E t \in Past(d) : Raw(d, t) = m
AtCommit(m) == proc[Cli].pc = "commit" /\ proc[Cli].msg = m

SourcesOf(doc) == IF doc = None THEN <<>> ELSE doc.sources

Waiting(d) == cmd.pc = "derive" /\ \E i \in cmd.todo : WalkOrder[i] = d

Untouched(d) == md[d] # None /\ \A m \in Messages : d \in DatesFor[m] => ingested[m] = None

\* Of a day that has been visited: entry.md tells the raw files read so far.
Rederived(d) ==
    /\ md[d] = None <=> Past(d) = {}
    /\ Increasing(SourcesOf(md[d]))
    /\ \A i \in 1..Len(SourcesOf(md[d])) : SourcesOf(md[d])[i] \in Past(d)
    /\ \A t \in Past(d), u \in Left(d) : t < u
    /\ \A m \in Messages : IF Told(m, d) THEN Count(m, BodyOf(md[d])) = 1 ELSE ~InBody(m, md[d])
    /\ \A m \in Messages : d \in DatesFor[m] =>
         (ingested[m] # None <=> Told(m, d) /\ ~AtCommit(m))

FreshInv ==
    /\ cmd.pc = "build" => cmd.emls = {}
    /\ cmd.pc = "derive" => ~Waiting(cmd.day)
    /\ proc[Cli].pc # "idle" => 
            /\ proc[Cli].date = cmd.day
            /\ Raw(proc[Cli].date, proc[Cli].rcvd) = proc[Cli].msg
            /\ \A t \in cmd.emls : proc[Cli].rcvd < t
    /\ cmd.fresh => \A d \in cmd.days :
         RawFilesOf(d) # {} /\ IF Waiting(d) THEN Untouched(d) ELSE Rederived(d)

LEMMA ComposeAppends ==
    ASSUME NEW m \in Messages, NEW t \in Seconds, NEW old \in Docs0
    PROVE  /\ Compose(m, t, old) # None
           /\ BodyOf(old) \in Seq(Sections) /\ SourcesOf(old) \in Seq(Seconds)
           /\ BodyOf(Compose(m, t, old)) = Append(BodyOf(old), m)
           /\ SourcesOf(Compose(m, t, old)) = Append(SourcesOf(old), t)
<1>1. Compose(m, t, old) # None
  BY ComposeType, NoneAssumption DEF Docs0
<1>2. CASE old = None
  BY <1>1, <1>2 DEF Compose, BodyOf, SourcesOf
<1>3. CASE old # None
  <2>1. old.body \in Seq(Sections) /\ old.sources \in Seq(Seconds)
    BY <1>3 DEF Docs0, Docs
  <2>. QED
    BY <1>1, <1>3, <2>1 DEF Compose, BodyOf, SourcesOf
<1>. QED
  BY <1>2, <1>3

LEMMA AppendTells ==
    ASSUME NEW b \in Seq(Sections), NEW m \in Messages
    PROVE  /\ (\A i \in 1..Len(b) : b[i] # m) => Count(m, Append(b, m)) = 1
           /\ \A k \in Messages \ {m} : /\ Count(k, Append(b, m)) = Count(k, b)
                                        /\ Occurs(k, Append(b, m)) <=> Occurs(k, b)
<1>. DEFINE n == Len(b)
            a == Append(b, m)
<1>1. n \in Nat /\ Len(a) = n + 1 /\ a[n + 1] = m /\ \A i \in 1..n : a[i] = b[i]
  OBVIOUS
<1>. HIDE DEF n, a
<1>2. ASSUME \A i \in 1..n : b[i] # m PROVE {i \in 1..Len(a) : a[i] = m} = {n + 1}
  <2>1. \A i \in 1..Len(a) : a[i] = m <=> i = n + 1
    BY <1>1, <1>2
  <2>. QED
    BY <1>1, <2>1
<1>3. Cardinality({n + 1}) = 1
  BY FS_Singleton
<1>4. ASSUME NEW k \in Messages \ {m}
      PROVE  {i \in 1..Len(a) : a[i] = k} = {i \in 1..n : b[i] = k}
  <2>1. \A i \in 1..Len(a) : a[i] = k => i \in 1..n
    BY <1>1
  <2>. QED
    BY <1>1, <2>1
<1>. QED
  BY <1>2, <1>3, <1>4 DEF Count, Occurs, a, n

LEMMA AppendIncreases ==
    ASSUME NEW s \in Seq(Seconds), NEW t \in Seconds, Increasing(s), \A i \in 1..Len(s) : s[i] < t
    PROVE  /\ Increasing(Append(s, t))
           /\ \A i \in 1..Len(Append(s, t)) : Append(s, t)[i] = t \/ \E k \in 1..Len(s) : Append(s, t)[i] = s[k]
<1>. DEFINE n == Len(s)
            a == Append(s, t)
<1>1. n \in Nat /\ Len(a) = n + 1 /\ a[n + 1] = t /\ \A i \in 1..n : a[i] = s[i]
  OBVIOUS
<1>. HIDE DEF n, a
<1>2. \A i \in 1..Len(a) : i = n + 1 \/ i \in 1..n
  BY <1>1
<1>. QED
  BY <1>1, <1>2 DEF Increasing, n, a


\* What one more reply does to an entry.md.
LEMMA ComposeTells ==
    ASSUME NEW m \in Messages, NEW t \in Seconds, NEW old \in Docs0, ~InBody(m, old),
           Increasing(SourcesOf(old)), \A i \in 1..Len(SourcesOf(old)) : SourcesOf(old)[i] < t,
           NEW new, new = Compose(m, t, old)
    PROVE  /\ new # None /\ Increasing(SourcesOf(new))
           /\ \A i \in 1..Len(SourcesOf(new)) :
                SourcesOf(new)[i] = t \/ \E k \in 1..Len(SourcesOf(old)) : SourcesOf(new)[i] = SourcesOf(old)[k]
           /\ Count(m, BodyOf(new)) = 1
           /\ \A k \in Messages \ {m} : /\ Count(k, BodyOf(new)) = Count(k, BodyOf(old))
                                        /\ InBody(k, new) <=> InBody(k, old)
<1>1. /\ new # None /\ BodyOf(old) \in Seq(Sections) /\ SourcesOf(old) \in Seq(Seconds)
      /\ BodyOf(new) = Append(BodyOf(old), m) /\ SourcesOf(new) = Append(SourcesOf(old), t)
  BY ComposeAppends
<1>2. Increasing(SourcesOf(new)) /\ \A i \in 1..Len(SourcesOf(new)) :
                SourcesOf(new)[i] = t \/ \E k \in 1..Len(SourcesOf(old)) : SourcesOf(new)[i] = SourcesOf(old)[k]
  BY <1>1, AppendIncreases
<1>3. Count(m, BodyOf(new)) = 1
  <2>1. \A i \in 1..Len(BodyOf(old)) : BodyOf(old)[i] # m
    BY DEF InBody
  <2>. QED
    BY <1>1, <2>1, AppendTells
<1>4. \A k \in Messages \ {m} : /\ Count(k, BodyOf(new)) = Count(k, BodyOf(old))
                                /\ InBody(k, new) <=> InBody(k, old)
  BY <1>1, AppendTells DEF InBody, Occurs
<1>. QED
  BY <1>1, <1>2, <1>3, <1>4

LEMMA FreshTypes ==
    ASSUME KeepInv
    PROVE  /\ Cli \in Procs /\ App \in Procs /\ TypeOK /\ IInv /\ CmdInv /\ cmd \in Cmds
           /\ \A d \in Dates : md[d] \in Docs0 /\ RawFilesOf(d) \subseteq Seconds
           /\ Seconds \subseteq Nat
BY ReindexAssumption, ConstantsAssumption DEF KeepInv, CmdInv, IInv, TypeOK, Docs0, RawFilesOf, Seconds

\* What leaves the raw files, a day's entry.md and its replies' records alone.
LEMMA RederivedSame ==
    ASSUME NEW d \in Dates, Rederived(d), md'[d] = md[d], Left(d)' = Left(d),
           \A t \in Seconds : Raw(d, t)' = Raw(d, t),
           \A m \in Messages : d \in DatesFor[m] =>
             ingested'[m] = ingested[m] /\ (AtCommit(m)' <=> AtCommit(m))
    PROVE  Rederived(d)'
<1>1. RawFilesOf(d)' = RawFilesOf(d)
  BY DEF RawFilesOf, Raw
<1>2. Past(d)' = Past(d) /\ Past(d) \subseteq Seconds
  BY <1>1 DEF Past, RawFilesOf
<1>3. \A m \in Messages : Told(m, d)' <=> Told(m, d)
  BY <1>2 DEF Told
<1>. QED
  BY <1>2, <1>3 DEF Rederived

LEMMA FreshOff ==
    ASSUME CmdInv', cmd'.pc = "off"
    PROVE  FreshInv'
BY DEF CmdInv, Alone, FreshInv, Off

LEMMA FreshBegin ==
    ASSUME KeepInv, KeepInv', NEW fromRaw \in BOOLEAN, NEW force \in BOOLEAN, Begin(fromRaw, force)
    PROVE  FreshInv'
<1>0. CmdInv /\ CmdInv' /\ Cli \in Procs
  BY FreshTypes DEF KeepInv
<1>1. /\ UNCHANGED vars /\ proc[Cli].pc = "idle" /\ cmd'.day = None /\ cmd'.emls = {} /\ cmd'.todo = Listed
      /\ cmd'.days = {d \in Dates : md[d] # None}
      /\ cmd'.fresh <=> (fromRaw /\ \A m \in Messages : ~AlreadyRecorded(m))
      /\ cmd'.pc = (IF fromRaw THEN "derive" ELSE "build")
  BY <1>0 DEF Begin, Off
<1>2. ~Waiting(None)'
  <2>1. Listed \subseteq Places
    BY DEF Listed, Places
  <2>2. \A i \in Places : WalkOrder[i] # None
    BY Walk, NoneAssumption
  <2>. QED
    BY <1>1, <2>1, <2>2 DEF Waiting
<1>3. ASSUME cmd'.fresh, NEW d \in Dates, md[d] # None
      PROVE  RawFilesOf(d)' # {} /\ Waiting(d)' /\ Untouched(d)'
  <2>1. RawFilesOf(d)' # {}
    BY <1>1, <1>3 DEF KeepInv, RawFilesOf, Raw, vars
  <2>2. Waiting(d)'
    BY <1>1, <1>3, AllListed DEF Waiting
  <2>3. Untouched(d)'
    BY <1>1, <1>3 DEF Untouched, AlreadyRecorded, vars
  <2>. QED
    BY <2>1, <2>2, <2>3
<1>. QED
  BY <1>1, <1>2, <1>3 DEF FreshInv, vars

LEMMA FreshUnlinkDay ==
    ASSUME KeepInv, KeepInv', FreshInv, UnlinkDay
    PROVE  FreshInv'
<1>0. /\ Cli \in Procs /\ TypeOK /\ cmd \in Cmds /\ cmd.pc = "derive" /\ proc[Cli].pc = "idle" /\ cmd.emls = {}
      /\ \A d \in Dates : RawFilesOf(d) \subseteq Seconds
  BY FreshTypes DEF UnlinkDay, Deriving
<1>1. PICK i \in Places, e \in Dates : i \in cmd.todo /\ i = Min(cmd.todo) /\ e = WalkOrder[i]
  <2>1. cmd.todo \subseteq Nat /\ cmd.todo # {} /\ cmd.todo \subseteq Places
    BY <1>0, Walk DEF Cmds, UnlinkDay
  <2>2. Min(cmd.todo) \in cmd.todo
    BY <2>1, NextOne
  <2>. QED
    BY <2>1, <2>2, Walk
<1>2. PICK raws :
      /\ raws = IF md[e] = None THEN {} ELSE RawFilesOf(e)
      /\ cmd' = [cmd EXCEPT !.todo = @ \ {i}, !.day = e, !.emls = raws]
      /\ md' = [md EXCEPT ![e] = None]
      /\ UNCHANGED <<files, proc, ingested>>
  BY <1>1 DEF UnlinkDay, store
<1>3. /\ cmd'.pc = "derive" /\ cmd'.day = e /\ cmd'.emls = raws /\ cmd'.todo = cmd.todo \ {i}
      /\ cmd'.fresh = cmd.fresh /\ cmd'.days = cmd.days /\ cmd.days \subseteq Dates
  BY <1>0, <1>2 DEF Cmds
<1>4. \A d \in Dates : Waiting(d)' <=> Waiting(d) /\ d # e
  <2>1. cmd.todo \subseteq Places
    BY <1>0 DEF Cmds
  <2>2. \A k \in cmd.todo : WalkOrder[k] = e <=> k = i
    BY <1>1, <2>1, Walk
  <2>3. ASSUME NEW d \in Dates
        PROVE  (\E k \in cmd.todo \ {i} : WalkOrder[k] = d) <=> (\E k \in cmd.todo : WalkOrder[k] = d) /\ d # e
    BY <1>1, <2>2
  <2>. QED
    BY <1>0, <1>3, <2>3 DEF Waiting
<1>5. Waiting(e) /\ \A d \in Dates : md'[d] = IF d = e THEN None ELSE md[d]
  BY <1>0, <1>1, <1>2 DEF Waiting, TypeOK
<1>6. \A d \in Dates : RawFilesOf(d)' = RawFilesOf(d) /\ Left(d) = {}
  BY <1>0, <1>2 DEF RawFilesOf, Left
<1>7. ASSUME cmd.fresh, NEW d \in cmd.days, d # e
      PROVE  IF Waiting(d)' THEN Untouched(d)' ELSE Rederived(d)'
  <2>1. d \in Dates /\ md'[d] = md[d] /\ (IF Waiting(d) THEN Untouched(d) ELSE Rederived(d))
    BY <1>3, <1>5, <1>7 DEF FreshInv
  <2>2. CASE Waiting(d)
    BY <1>2, <1>4, <1>7, <2>1, <2>2 DEF Untouched
  <2>3. CASE ~Waiting(d)
    <3>1. Left(d)' = Left(d)
      BY <1>3, <1>6, <1>7, <2>1 DEF Left
    <3>. QED
      BY <1>2, <1>4, <1>7, <2>1, <2>3, <3>1, RederivedSame DEF Raw, AtCommit
  <2>. QED
    BY <2>2, <2>3
<1>8. ASSUME cmd.fresh, e \in cmd.days PROVE Rederived(e)'
  <2>1. Untouched(e) /\ e \in Dates
    BY <1>3, <1>5, <1>8 DEF FreshInv
  <2>2. cmd'.emls = RawFilesOf(e)'
    BY <1>2, <1>3, <1>6, <2>1 DEF Untouched
  <2>3. Past(e)' = {}
    BY <1>3, <2>2 DEF Past, Left
  <2>4. \A m \in Messages : ~Told(m, e)'
    BY <2>3 DEF Told
  <2>5. md'[e] = None /\ SourcesOf(md'[e]) = <<>> /\ BodyOf(md'[e]) = <<>>
    BY <1>5, <2>1 DEF SourcesOf, BodyOf
  <2>6. \A m \in Messages : e \in DatesFor[m] => ingested'[m] = None
    BY <1>2, <2>1 DEF Untouched
  <2>. QED
    BY <2>3, <2>4, <2>5, <2>6 DEF Rederived, Increasing, InBody
<1>9. ASSUME cmd.fresh, NEW d \in cmd.days
      PROVE  RawFilesOf(d)' # {} /\ IF Waiting(d)' THEN Untouched(d)' ELSE Rederived(d)'
  <2>1. RawFilesOf(d)' # {}
    BY <1>3, <1>6, <1>9 DEF FreshInv
  <2>2. CASE d = e
    BY <1>3, <1>4, <1>8, <1>9, <2>1, <2>2
  <2>3. CASE d # e
    BY <1>7, <1>9, <2>1, <2>3
  <2>. QED
    BY <2>2, <2>3
<1>10. ~Waiting(e)' /\ cmd'.day = e
  BY <1>1, <1>3, <1>4
<1>. QED
  BY <1>0, <1>2, <1>3, <1>9, <1>10 DEF FreshInv


\* A raw file of a reply that is recorded already: entry.md tells it.
LEMMA ToldAlready ==
    ASSUME NEW d \in Dates, NEW t \in Seconds, NEW m \in Messages, Rederived(d), d \in DatesFor[m],
           ingested[m] # None, Raw(d, t) = m, m # None, t \in Left(d), \A u \in Left(d) : t <= u,
           Left(d) \subseteq Seconds, RawFilesOf(d) \subseteq Seconds, proc[Cli].pc = "idle",
           UNCHANGED <<md, files, ingested, proc>>, Left(d)' = Left(d) \ {t}
    PROVE  Rederived(d)'
<1>1. RawFilesOf(d)' = RawFilesOf(d) /\ t \in RawFilesOf(d) /\ t \in Nat /\ Seconds \subseteq Nat
  BY DEF RawFilesOf, Raw, Seconds
<1>2. Past(d)' = Past(d) \cup {t} /\ t \notin Past(d)
  BY <1>1 DEF Past
<1>3. Told(m, d)
  BY DEF Rederived
<1>4. \A k \in Messages : Told(k, d)' <=> Told(k, d)
  <2>1. ASSUME NEW k \in Messages PROVE (\E u \in Past(d) \cup {t} : Raw(d, u) = k) <=> \E u \in Past(d) : Raw(d, u) = k
    BY <1>3 DEF Told
  <2>. QED
    BY <1>2, <2>1 DEF Told, Raw
<1>5. Past(d) # {} /\ md[d] # None
  BY <1>3 DEF Told, Rederived
<1>6. ASSUME NEW u \in Past(d) \cup {t}, NEW v \in Left(d) \ {t} PROVE u < v
  <2>1. u = t => u < v
    BY <1>1, <1>6
  <2>2. u \in Past(d) => u < v
    BY <1>6 DEF Rederived
  <2>. QED
    BY <2>1, <2>2
<1>7. /\ Increasing(SourcesOf(md[d]))
      /\ \A i \in 1..Len(SourcesOf(md[d])) : SourcesOf(md[d])[i] \in Past(d)
      /\ \A k \in Messages : IF Told(k, d) THEN Count(k, BodyOf(md[d])) = 1 ELSE ~InBody(k, md[d])
      /\ \A k \in Messages : d \in DatesFor[k] =>
           (ingested[k] # None <=> Told(k, d) /\ ~AtCommit(k))
  BY DEF Rederived
<1>8. \A k \in Messages : AtCommit(k)' <=> AtCommit(k)
  BY DEF AtCommit
<1>. QED
  BY <1>2, <1>4, <1>5, <1>6, <1>7, <1>8 DEF Rederived

LEMMA FreshEml ==
    ASSUME Orderly, KeepInv, KeepInv', FreshInv, DeriveEml
    PROVE  FreshInv'
<1>0. /\ Cli \in Procs /\ TypeOK /\ cmd \in Cmds /\ cmd.pc = "derive" /\ proc[Cli].pc = "idle"
      /\ cmd.emls # {} /\ cmd.emls \subseteq Seconds /\ Seconds \subseteq Nat
      /\ \A d \in Dates : RawFilesOf(d) \subseteq Seconds
  BY FreshTypes DEF DeriveEml, Deriving, Cmds
<1>1. PICK e \in Dates, t \in Seconds : e = cmd.day /\ t = Min(cmd.emls) /\ t \in cmd.emls /\ \A u \in cmd.emls : t <= u
  <2>1. cmd.day \in Dates
    BY <1>0 DEF KeepInv, CmdInv, RawFilesThere
  <2>2. Min(cmd.emls) \in cmd.emls /\ \A u \in cmd.emls : Min(cmd.emls) <= u
    BY <1>0, NextOne
  <2>. QED
    BY <1>0, <2>1, <2>2
<1>2. PICK m \in Messages : m = Raw(e, t) /\ e \in DatesFor[m] /\ m # None
  <2>1. Raw(e, t) # None /\ Raw(e, t) \in Messages \cup {None}
    BY <1>0, <1>1 DEF KeepInv, CmdInv, RawFilesThere
  <2>. QED
    BY <2>1 DEF KeepInv
<1>3. /\ cmd' = [cmd EXCEPT !.emls = @ \ {t}]
      /\ IF ingested[m] # None THEN UNCHANGED proc
         ELSE \E d \in DatesFor[m] :
                proc' = [proc EXCEPT ![Cli] = [Idle EXCEPT !.pc = "lock", !.msg = m,
                                                           !.date = d, !.rcvd = t]]
      /\ UNCHANGED <<md, files, ingested>>
  BY <1>1, <1>2 DEF DeriveEml, AlreadyRecorded, Raw, store
<1>4. /\ cmd'.pc = "derive" /\ cmd'.day = e /\ cmd'.emls = cmd.emls \ {t} /\ cmd'.todo = cmd.todo
      /\ cmd'.fresh = cmd.fresh /\ cmd'.days = cmd.days /\ cmd.days \subseteq Dates
  BY <1>0, <1>1, <1>3 DEF Cmds
<1>5. ingested[m] = None =>
        /\ proc'[Cli].pc = "lock" /\ proc'[Cli].msg = m /\ proc'[Cli].date = e /\ proc'[Cli].rcvd = t
  <2>. SUFFICES ASSUME ingested[m] = None PROVE proc'[Cli].pc = "lock" /\ proc'[Cli].msg = m /\ proc'[Cli].date = e /\ proc'[Cli].rcvd = t
    OBVIOUS
  <2>1. PICK d \in DatesFor[m] :
          proc' = [proc EXCEPT ![Cli] = [Idle EXCEPT !.pc = "lock", !.msg = m, !.date = d, !.rcvd = t]]
    BY <1>3
  <2>2. d = e
    BY <1>2 DEF Orderly
  <2>3. proc'[Cli] = [Idle EXCEPT !.pc = "lock", !.msg = m, !.date = e, !.rcvd = t]
    BY <1>0, <2>1, <2>2 DEF TypeOK
  <2>. QED
    BY <2>3 DEF Idle
<1>6. ingested[m] # None => proc' = proc
  BY <1>3
<1>7. \A d : Waiting(d)' <=> Waiting(d)
  BY <1>0, <1>4 DEF Waiting
<1>8. \A d \in Dates : RawFilesOf(d)' = RawFilesOf(d)
  BY <1>3 DEF RawFilesOf
<1>9. Left(e) = cmd.emls /\ Left(e)' = cmd.emls \ (IF ingested[m] = None THEN {} ELSE {t})
  BY <1>0, <1>1, <1>4, <1>5, <1>6 DEF Left
<1>10. \A k \in Messages : AtCommit(k)' <=> AtCommit(k)
  BY <1>0, <1>5, <1>6 DEF AtCommit
<1>11. ASSUME cmd.fresh, NEW d \in cmd.days, ~Waiting(d)
       PROVE  Rederived(d)'
  <2>1. d \in Dates /\ Rederived(d)
    BY <1>4, <1>11 DEF FreshInv
  <2>2. CASE d # e
    <3>1. Left(d)' = Left(d)
      BY <1>1, <1>4, <2>2 DEF Left
    <3>. QED
      BY <1>3, <1>10, <2>1, <3>1, RederivedSame DEF Raw
  <2>3. CASE d = e /\ ingested[m] = None
    <3>1. Left(d)' = Left(d)
      BY <1>9, <2>3
    <3>. QED
      BY <1>3, <1>10, <2>1, <3>1, RederivedSame DEF Raw
  <2>4. CASE d = e /\ ingested[m] # None
    <3>1. Rederived(e) /\ Left(e) = cmd.emls /\ Left(e)' = Left(e) \ {t}
      BY <1>9, <2>1, <2>4
    <3>2. Rederived(e)'
      BY <1>0, <1>1, <1>2, <1>3, <2>4, <3>1, ToldAlready
    <3>. QED
      BY <2>4, <3>2
  <2>. QED
    BY <2>2, <2>3, <2>4
<1>12. ASSUME cmd.fresh, NEW d \in cmd.days, Waiting(d)
       PROVE  Untouched(d)'
  BY <1>3, <1>12 DEF FreshInv, Untouched
<1>13. ASSUME cmd.fresh, NEW d \in cmd.days
       PROVE  RawFilesOf(d)' # {} /\ IF Waiting(d)' THEN Untouched(d)' ELSE Rederived(d)'
  <2>1. RawFilesOf(d)' # {}
    BY <1>4, <1>8, <1>13 DEF FreshInv
  <2>. QED
    BY <1>7, <1>11, <1>12, <1>13, <2>1
<1>14. ~Waiting(e)'
  BY <1>0, <1>1, <1>7 DEF FreshInv
<1>15. proc'[Cli].pc # "idle" =>
         /\ proc'[Cli].date = e /\ files'[proc'[Cli].date][RawPath(proc'[Cli].rcvd)] = proc'[Cli].msg
         /\ \A u \in cmd'.emls : proc'[Cli].rcvd < u
  <2>1. \A u \in cmd.emls \ {t} : t < u
    BY <1>0, <1>1
  <2>. QED
    BY <1>0, <1>2, <1>3, <1>4, <1>5, <1>6, <2>1 DEF Raw
<1>. QED
  BY <1>4, <1>13, <1>14, <1>15 DEF FreshInv, Raw


\* The reply is put into entry.md.
LEMMA ToldNow ==
    ASSUME NEW e \in Dates, NEW t \in Seconds, NEW m \in Messages, Rederived(e), e \in DatesFor[m],
           ingested[m] = None, Raw(e, t) = m, m # None, t \in Left(e), Left(e)' = Left(e) \ {t},
           \A u \in Left(e) \ {t} : t < u, RawFilesOf(e) \subseteq Seconds, md[e] \in Docs0,
           proc[Cli].pc = "write", proc'[Cli].pc = "commit", proc'[Cli].msg = m,
           UNCHANGED <<ingested>>, \A u \in Seconds : Raw(e, u)' = Raw(e, u), md'[e] = Compose(m, t, md[e])
    PROVE  Rederived(e)'
<1>1. RawFilesOf(e)' = RawFilesOf(e) /\ t \in RawFilesOf(e) /\ t \in Nat
  BY DEF RawFilesOf, Raw, Seconds
<1>2. Past(e)' = Past(e) \cup {t} /\ Past(e) \subseteq Seconds
  BY <1>1 DEF Past
<1>3. ~Told(m, e)
  BY DEF Rederived, AtCommit
<1>4. ~InBody(m, md[e]) /\ Increasing(SourcesOf(md[e]))
      /\ \A i \in 1..Len(SourcesOf(md[e])) : SourcesOf(md[e])[i] \in Past(e) /\ SourcesOf(md[e])[i] < t
  BY <1>3 DEF Rederived
<1>. DEFINE new == md'[e]
<1>5. /\ new # None /\ Increasing(SourcesOf(new))
      /\ \A i \in 1..Len(SourcesOf(new)) :
           SourcesOf(new)[i] = t \/ \E k \in 1..Len(SourcesOf(md[e])) : SourcesOf(new)[i] = SourcesOf(md[e])[k]
      /\ Count(m, BodyOf(new)) = 1
      /\ \A k \in Messages \ {m} : /\ Count(k, BodyOf(new)) = Count(k, BodyOf(md[e]))
                                   /\ InBody(k, new) <=> InBody(k, md[e])
  BY <1>4, ComposeTells
<1>6. \A k \in Messages : Told(k, e)' <=> Told(k, e) \/ k = m
  <2>1. ASSUME NEW k \in Messages
        PROVE  (\E u \in Past(e) \cup {t} : Raw(e, u) = k) <=> (\E u \in Past(e) : Raw(e, u) = k) \/ k = m
    OBVIOUS
  <2>2. ASSUME NEW k \in Messages
        PROVE  Told(k, e)' <=> \E u \in Past(e) \cup {t} : Raw(e, u) = k
    BY <1>2 DEF Told
  <2>. QED
    BY <2>1, <2>2 DEF Told
<1>7. \A k \in Messages : IF Told(k, e)' THEN Count(k, BodyOf(md'[e])) = 1 ELSE ~InBody(k, md'[e])
  <2>1. \A k \in Messages : IF Told(k, e) THEN Count(k, BodyOf(md[e])) = 1 ELSE ~InBody(k, md[e])
    BY DEF Rederived
  <2>. HIDE DEF new
  <2>. QED
    BY <1>3, <1>5, <1>6, <2>1 DEF new
<1>8. \A i \in 1..Len(SourcesOf(md'[e])) : SourcesOf(md'[e])[i] \in Past(e) \cup {t}
  <2>. HIDE DEF new
  <2>1. \A i \in 1..Len(SourcesOf(new)) : SourcesOf(new)[i] \in Past(e) \cup {t}
    BY <1>4, <1>5
  <2>. QED
    BY <2>1 DEF new
<1>9. \A k \in Messages : AtCommit(k)' <=> k = m
  BY DEF AtCommit
<1>10. \A k \in Messages : e \in DatesFor[k] => (ingested'[k] # None <=> Told(k, e)' /\ ~AtCommit(k)')
  <2>1. \A k \in Messages : e \in DatesFor[k] => (ingested[k] # None <=> Told(k, e))
    BY DEF Rederived, AtCommit
  <2>. QED
    BY <1>6, <1>9, <2>1
<1>11. \A u \in Past(e) \cup {t}, v \in Left(e) \ {t} : u < v
  BY DEF Rederived
<1>. QED
  BY <1>2, <1>5, <1>7, <1>8, <1>10, <1>11 DEF Rederived

LEMMA FreshCall ==
    ASSUME Orderly, KeepInv, KeepInv', FreshInv, IngestStep(Cli), cmd' = cmd, cmd.pc = "derive"
    PROVE  FreshInv'
<1>. DEFINE c == proc[Cli]
<1>0. /\ Cli \in Procs /\ TypeOK /\ IInv /\ cmd \in Cmds /\ cmd.emls \subseteq Seconds /\ Seconds \subseteq Nat
      /\ \A d \in Dates : md[d] \in Docs0 /\ RawFilesOf(d) \subseteq Seconds
  BY FreshTypes DEF Cmds
<1>1. /\ Lock(Cli) \/ WriteRaw(Cli) \/ WriteMedia(Cli) \/ WriteEntry(Cli) \/ Commit(Cli)
      /\ c.pc \in IngestPCs /\ c.pc # "idle" /\ c.msg \in Messages /\ c.date \in Dates /\ c.rcvd \in Seconds
  BY <1>0, CallGoesOn
<1>2. PICK e \in Dates, t \in Seconds, m \in Messages : e = c.date /\ t = c.rcvd /\ m = c.msg
  BY <1>1
<1>3. /\ e = cmd.day /\ Raw(e, t) = m /\ (\A u \in cmd.emls : t < u) /\ ~Waiting(e)
      /\ e \in DatesFor[m] /\ ingested[m] = None /\ m # None
  <2>1. c.date = cmd.day /\ Raw(c.date, c.rcvd) = c.msg /\ (\A u \in cmd.emls : c.rcvd < u) /\ ~Waiting(cmd.day)
    BY <1>1 DEF FreshInv
  <2>2. CallOK(Cli)
    BY <1>0 DEF KeepInv
  <2>3. c.date \in DatesFor[c.msg] /\ ingested[c.msg] = None
    BY <1>1, <2>2 DEF CallOK
  <2>. QED
    BY <1>2, <2>1, <2>3, NoneAssumption
<1>4. \A d \in Dates, u \in Seconds : Raw(d, u)' = Raw(d, u)
  BY <1>0, <1>2, <1>3, RawsStay
<1>5. \A d \in Dates : RawFilesOf(d)' = RawFilesOf(d)
  BY <1>4 DEF RawFilesOf, Raw
<1>6. \A d : Waiting(d)' <=> Waiting(d)
  BY DEF Waiting
<1>7. \A k \in Messages, d \in Dates : d \in DatesFor[k] /\ d # e => k # m
  BY <1>3 DEF Orderly
<1>8. /\ c.pc = "commit" => Commit(Cli)
      /\ Commit(Cli) => /\ c.pc = "commit" /\ proc'[Cli] = Idle /\ UNCHANGED md
                        /\ ingested' = [ingested EXCEPT ![m] = [date |-> e, eml |-> t]]
      /\ WriteEntry(Cli) => /\ c.pc = "write" /\ proc'[Cli].pc = "commit"
                            /\ md' = [md EXCEPT ![e] = Compose(m, t, md[e])]
      /\ Lock(Cli) \/ WriteRaw(Cli) \/ WriteMedia(Cli) =>
           /\ c.pc \in {"lock", "raw", "media"} /\ proc'[Cli].pc \in {"raw", "media", "write"} /\ UNCHANGED md
  <2>1. c.pc = "commit" => Commit(Cli)
    BY <1>1 DEF Lock, WriteRaw, WriteMedia, WriteEntry
  <2>2. Commit(Cli) => /\ c.pc = "commit" /\ proc'[Cli] = Idle /\ UNCHANGED md
                       /\ ingested' = [ingested EXCEPT ![m] = [date |-> e, eml |-> t]]
    BY <1>0, <1>2 DEF Commit, TypeOK
  <2>3. WriteEntry(Cli) => /\ c.pc = "write" /\ proc'[Cli].pc = "commit"
                           /\ md' = [md EXCEPT ![e] = Compose(m, t, md[e])]
    <3>. SUFFICES ASSUME WriteEntry(Cli)
                  PROVE  /\ c.pc = "write" /\ proc'[Cli].pc = "commit"
                         /\ md' = [md EXCEPT ![e] = Compose(m, t, md[e])]
      OBVIOUS
    <3>1. c.pc = "write" /\ proc'[Cli].pc = "commit" /\ md' = [md EXCEPT ![c.date] = Compose(c.msg, c.rcvd, c.old)]
      BY <1>0 DEF WriteEntry, TypeOK, Locals
    <3>2. c.old = md[c.date]
      BY <1>0, <3>1 DEF IInv, ProcOK
    <3>. QED
      BY <1>2, <3>1, <3>2
  <2>4. Lock(Cli) \/ WriteRaw(Cli) \/ WriteMedia(Cli) =>
          c.pc \in {"lock", "raw", "media"} /\ proc'[Cli].pc \in {"raw", "media", "write"} /\ UNCHANGED md
    BY <1>0 DEF Lock, WriteRaw, WriteMedia, TypeOK, Locals
  <2>. QED
    BY <2>1, <2>2, <2>3, <2>4
<1>9. ~Commit(Cli) => proc'[Cli].date = e /\ proc'[Cli].rcvd = t /\ proc'[Cli].msg = m /\ ingested' = ingested
  BY <1>0, <1>1, <1>2, CarriedOn DEF CarriesOn
<1>10. ASSUME cmd.fresh, NEW d \in cmd.days, ~Waiting(d), d # e PROVE Rederived(d)'
  <2>1. d \in Dates /\ Rederived(d)
    BY <1>0, <1>10 DEF FreshInv, Cmds
  <2>2. md'[d] = md[d]
    BY <1>0, <1>1, <1>8, <1>10, <2>1 DEF TypeOK
  <2>3. \A k \in Messages : d \in DatesFor[k] =>
          ingested'[k] = ingested[k] /\ (AtCommit(k)' <=> AtCommit(k))
    <3>. SUFFICES ASSUME NEW k \in Messages, d \in DatesFor[k]
                  PROVE  ingested'[k] = ingested[k] /\ (AtCommit(k)' <=> AtCommit(k))
      OBVIOUS
    <3>1. k # m
      BY <1>7, <1>10, <2>1
    <3>2. ingested'[k] = ingested[k]
      BY <1>0, <1>8, <1>9, <3>1 DEF TypeOK
    <3>3. ~AtCommit(k) /\ ~AtCommit(k)'
      BY <1>2, <1>8, <1>9, <3>1, IdleType DEF AtCommit
    <3>. QED
      BY <3>2, <3>3
  <2>4. Left(d)' = Left(d)
    BY <1>3, <1>10 DEF Left
  <2>. QED
    BY <1>4, <2>1, <2>2, <2>3, <2>4, RederivedSame
<1>11. ASSUME cmd.fresh, e \in cmd.days PROVE Rederived(e)'
  <2>1. Rederived(e)
    BY <1>3, <1>11 DEF FreshInv
  <2>2. CASE Lock(Cli) \/ WriteRaw(Cli) \/ WriteMedia(Cli)
    <3>1. ~Commit(Cli) /\ Left(e)' = Left(e)
      BY <1>2, <1>3, <1>8, <1>9, <2>2 DEF Left, Commit
    <3>2. \A k \in Messages : AtCommit(k)' <=> AtCommit(k)
      BY <1>8, <2>2 DEF AtCommit
    <3>. QED
      BY <1>4, <1>8, <1>9, <2>1, <2>2, <3>1, <3>2, RederivedSame
  <2>3. CASE WriteEntry(Cli)
    <3>1. ~Commit(Cli) /\ proc[Cli].pc = "write" /\ proc'[Cli].pc = "commit"
      BY <1>8, <2>3 DEF Commit
    <3>2. Left(e) = cmd.emls \cup {t} /\ Left(e)' = cmd.emls
      BY <1>2, <1>3, <3>1 DEF Left
    <3>3. t \in Left(e) /\ Left(e)' = Left(e) \ {t} /\ \A u \in Left(e) \ {t} : t < u
      BY <1>0, <1>3, <3>2
    <3>4. md'[e] = Compose(m, t, md[e])
      BY <1>0, <1>8, <2>3 DEF TypeOK
    <3>5. proc'[Cli].msg = m /\ UNCHANGED <<ingested>>
      BY <1>9, <3>1
    <3>. QED
      BY <1>0, <1>3, <1>4, <2>1, <3>1, <3>3, <3>4, <3>5, ToldNow
  <2>4. CASE Commit(Cli)
    <3>1. proc[Cli].pc = "commit" /\ proc'[Cli].pc = "idle" /\ md' = md
      BY <1>8, <2>4, IdleType
    <3>2. Left(e) = cmd.emls /\ Left(e)' = cmd.emls
      BY <1>3, <3>1 DEF Left
    <3>3. Past(e)' = Past(e) /\ Past(e) \subseteq Seconds /\ t \in Past(e)
      BY <1>0, <1>3, <1>5, <3>2 DEF Past, RawFilesOf, Raw
    <3>4. \A k \in Messages : Told(k, e)' <=> Told(k, e)
      BY <1>4, <3>3 DEF Told
    <3>5. Told(m, e)
      BY <1>3, <3>3 DEF Told
    <3>6. \A k \in Messages : (AtCommit(k) <=> k = m) /\ ~AtCommit(k)'
      BY <1>2, <3>1 DEF AtCommit
    <3>7. ingested'[m] # None /\ \A k \in Messages \ {m} : ingested'[k] = ingested[k]
      BY <1>0, <1>8, <2>4, NoneAssumption DEF TypeOK
    <3>8. \A k \in Messages : e \in DatesFor[k] => (ingested'[k] # None <=> Told(k, e)' /\ ~AtCommit(k)')
      <4>1. \A k \in Messages : e \in DatesFor[k] => (ingested[k] # None <=> Told(k, e) /\ ~AtCommit(k))
        BY <2>1 DEF Rederived
      <4>. QED
        BY <3>4, <3>5, <3>6, <3>7, <4>1
    <3>9. /\ md[e] = None <=> Past(e) = {}
          /\ Increasing(SourcesOf(md[e]))
          /\ \A i \in 1..Len(SourcesOf(md[e])) : SourcesOf(md[e])[i] \in Past(e)
          /\ \A u \in Past(e), v \in Left(e) : u < v
          /\ \A k \in Messages : IF Told(k, e) THEN Count(k, BodyOf(md[e])) = 1 ELSE ~InBody(k, md[e])
      BY <2>1 DEF Rederived
    <3>. QED
      BY <3>1, <3>2, <3>3, <3>4, <3>8, <3>9 DEF Rederived
  <2>. QED
    BY <1>1, <2>2, <2>3, <2>4
<1>12. ASSUME cmd.fresh, NEW d \in cmd.days, Waiting(d) PROVE Untouched(d)'
  <2>1. d \in Dates /\ Untouched(d) /\ d # e
    BY <1>0, <1>3, <1>12 DEF FreshInv, Cmds
  <2>2. md'[d] = md[d]
    BY <1>0, <1>1, <1>8, <2>1 DEF TypeOK
  <2>3. ASSUME NEW k \in Messages, d \in DatesFor[k] PROVE ingested'[k] = ingested[k]
    <3>1. k # m
      BY <1>7, <2>1, <2>3
    <3>. QED
      BY <1>0, <1>8, <1>9, <3>1 DEF TypeOK
  <2>. QED
    BY <2>1, <2>2, <2>3 DEF Untouched
<1>13. ASSUME cmd.fresh, NEW d \in cmd.days
       PROVE  RawFilesOf(d)' # {} /\ IF Waiting(d)' THEN Untouched(d)' ELSE Rederived(d)'
  <2>1. RawFilesOf(d)' # {}
    BY <1>0, <1>5, <1>13 DEF FreshInv, Cmds
  <2>2. CASE d = e
    BY <1>3, <1>6, <1>11, <1>13, <2>1, <2>2
  <2>3. CASE d # e
    BY <1>6, <1>10, <1>12, <1>13, <2>1, <2>3
  <2>. QED
    BY <2>2, <2>3
<1>14. ~Waiting(e)'
  BY <1>3, <1>6
<1>15. proc'[Cli].pc # "idle" =>
         /\ proc'[Cli].date = e /\ files'[proc'[Cli].date][RawPath(proc'[Cli].rcvd)] = proc'[Cli].msg
         /\ \A u \in cmd.emls : proc'[Cli].rcvd < u
  <2>1. files'[e][RawPath(t)] = m
    BY <1>3, <1>4 DEF Raw
  <2>2. proc'[Cli].pc # "idle" => ~Commit(Cli)
    BY <1>8, IdleType
  <2>. QED
    BY <1>3, <1>9, <2>1, <2>2
<1>. QED
  BY <1>3, <1>13, <1>14, <1>15 DEF FreshInv, Raw


\* The second walk, and stuttering.
LEMMA FreshBuild ==
    ASSUME KeepInv, KeepInv', FreshInv, Derived \/ BuildDay \/ UNCHANGED <<vars, rvars>>
    PROVE  FreshInv'
<1>0. Cli \in Procs /\ TypeOK /\ cmd \in Cmds
  BY FreshTypes
<1>1. /\ UNCHANGED <<md, files, proc, ingested>> /\ cmd'.emls = cmd.emls /\ cmd'.day = cmd.day
      /\ cmd'.fresh = cmd.fresh /\ cmd'.days = cmd.days
  <2>1. CASE Derived
    BY <1>0, <2>1 DEF Derived, Deriving, Cmds, vars
  <2>2. CASE BuildDay
    BY <1>0, <2>2 DEF BuildDay, Cmds, store
  <2>3. CASE UNCHANGED <<vars, rvars>>
    BY <2>3 DEF vars, rvars
  <2>. QED
    BY <2>1, <2>2, <2>3
<1>2. /\ Derived => cmd'.pc = "build" /\ cmd.emls = {} /\ cmd.todo = {}
      /\ BuildDay => cmd.pc = "build" /\ cmd'.pc = "build"
  BY <1>0 DEF Derived, Deriving, BuildDay, Cmds
<1>3. \A d : Waiting(d)' <=> Waiting(d)
  <2>1. CASE Derived \/ BuildDay
    BY <1>2, <2>1 DEF Waiting
  <2>2. CASE UNCHANGED <<vars, rvars>>
    BY <2>2 DEF Waiting, rvars
  <2>. QED
    BY <2>1, <2>2
<1>4. (cmd'.pc = "build" => cmd'.emls = {}) /\ (cmd'.pc = "derive" => cmd.pc = "derive")
  BY <1>1, <1>2 DEF FreshInv, vars, rvars
<1>5. ASSUME cmd.fresh, NEW d \in cmd.days
      PROVE  RawFilesOf(d)' # {} /\ IF Waiting(d)' THEN Untouched(d)' ELSE Rederived(d)'
  <2>1. d \in Dates /\ RawFilesOf(d)' = RawFilesOf(d) /\ Left(d)' = Left(d)
    BY <1>0, <1>1, <1>5 DEF Cmds, RawFilesOf, Left
  <2>2. RawFilesOf(d) # {} /\ IF Waiting(d) THEN Untouched(d) ELSE Rederived(d)
    BY <1>5 DEF FreshInv
  <2>3. Untouched(d) => Untouched(d)'
    BY <1>1 DEF Untouched
  <2>4. Rederived(d) => Rederived(d)'
    BY <1>1, <2>1, RederivedSame DEF Raw, AtCommit
  <2>. QED
    BY <1>3, <2>1, <2>2, <2>3, <2>4
<1>6. cmd'.pc = "derive" => ~Waiting(cmd.day)'
  <2>1. PICK e : e = cmd.day
    OBVIOUS
  <2>2. cmd'.pc = "derive" => ~Waiting(e)
    BY <1>4, <2>1 DEF FreshInv
  <2>3. cmd'.pc = "derive" => ~Waiting(e)'
    BY <1>3, <2>2
  <2>. QED
    BY <1>1, <2>1, <2>3
<1>. QED
  BY <1>1, <1>4, <1>5, <1>6 DEF FreshInv, Raw

LEMMA FreshNext ==
    ASSUME Orderly, KeepInv, FreshInv, [RNext]_<<vars, rvars>>
    PROVE  FreshInv'
<1>0. KeepInv' /\ CmdInv' /\ CmdInv
  BY KeepNext DEF KeepInv
<1>1. ASSUME NEW fromRaw \in BOOLEAN, NEW force \in BOOLEAN, Begin(fromRaw, force) PROVE FreshInv'
  BY <1>0, <1>1, FreshBegin
<1>2. CASE UnlinkDay
  BY <1>0, <1>2, FreshUnlinkDay
<1>3. CASE DeriveEml
  BY <1>0, <1>3, FreshEml
<1>4. CASE DeriveStep
  <2>1. Cli \in Procs /\ proc[Cli].pc # "unlink"
    BY ReindexAssumption DEF KeepInv, CallOK
  <2>. QED
    BY <1>0, <1>4, <2>1, FreshCall DEF DeriveStep
<1>5. CASE Derived \/ BuildDay \/ UNCHANGED <<vars, rvars>>
  BY <1>0, <1>5, FreshBuild
<1>6. CASE Finish \/ CommandDies \/ LoseIndex \/ AppRuns
  <2>1. cmd'.pc = "off"
    BY <1>6, OffType DEF Finish, CommandDies, LoseIndex, AppRuns, rvars
  <2>. QED
    BY <1>0, <2>1, FreshOff
<1>. QED
  BY <1>1, <1>2, <1>3, <1>4, <1>5, <1>6 DEF RNext, Command

\* With --from-raw and a new index, every reply that has a raw file in a day
\* that had an entry.md has one section there again, in the order of receipt,
\* and is recorded, whatever number of raw files failed attempts left of it
\* (cli.py:85-104): for any number of processes, calls in one second
\* included, while the database takes what it is given, each reply has one
\* day and no two processes are handed the same one.
THEOREM FromRawRestoresReplies ==
    ASSUME Orderly
    PROVE  RSpec => FromRawRederives
<1>. DEFINE A == Ends /\ cmd.fresh =>
              \A d \in cmd.days :
                /\ md[d] # None /\ Increasing(md[d].sources)
                /\ \A m \in Messages, t \in Seconds : files[d][RawPath(t)] = m =>
                     Count(m, md[d].body) = 1 /\ ingested[m] # None
<1>1. RInit => FreshInv
  <2>. SUFFICES ASSUME RInit PROVE FreshInv
    OBVIOUS
  <2>1. cmd = Off /\ proc[Cli].pc = "idle"
    BY IdleType, ReindexAssumption DEF RInit, Init
  <2>. QED
    BY <2>1, OffType DEF FreshInv, Off
<1>2. KeepInv /\ FreshInv /\ [RNext]_<<vars, rvars>> => KeepInv' /\ FreshInv'
  BY KeepNext, FreshNext
<1>3. KeepInv /\ FreshInv => A
  <2>. SUFFICES ASSUME KeepInv, FreshInv, cmd.pc = "build", cmd.fresh, NEW d \in cmd.days
                PROVE  /\ md[d] # None /\ Increasing(md[d].sources)
                       /\ \A m \in Messages, t \in Seconds : files[d][RawPath(t)] = m =>
                            Count(m, md[d].body) = 1 /\ ingested[m] # None
    BY DEF Ends
  <2>1. d \in Dates /\ proc[Cli].pc = "idle"
    BY FreshTypes DEF Cmds, CmdInv, Alone
  <2>2. Rederived(d) /\ RawFilesOf(d) # {} /\ cmd.emls = {}
    BY DEF FreshInv, Waiting
  <2>3. Past(d) = RawFilesOf(d)
    BY <2>1, <2>2 DEF Past, Left
  <2>4. md[d] # None
    BY <2>2, <2>3 DEF Rederived
  <2>5. Increasing(md[d].sources)
    BY <2>2, <2>4 DEF Rederived, SourcesOf
  <2>6. ASSUME NEW m \in Messages, NEW t \in Seconds, Raw(d, t) = m
        PROVE  Count(m, md[d].body) = 1 /\ ingested[m] # None
    <3>1. m # None /\ d \in DatesFor[m]
      BY <2>1, <2>6, NoneAssumption DEF KeepInv
    <3>2. t \in Past(d)
      BY <2>3, <2>6, <3>1 DEF RawFilesOf, Raw
    <3>3. Told(m, d) /\ ~AtCommit(m)
      BY <2>1, <2>6, <3>2 DEF Told, AtCommit
    <3>4. Count(m, BodyOf(md[d])) = 1 /\ ingested[m] # None
      BY <2>2, <3>1, <3>3 DEF Rederived
    <3>. QED
      BY <2>4, <3>4 DEF BodyOf
  <2>. QED
    BY <2>4, <2>5, <2>6 DEF Raw
<1>. HIDE DEF A
<1>4. RSpec => [][A]_<<vars, rvars>>
  BY <1>1, <1>2, <1>3, KeepInit, PTL DEF RSpec
<1>. QED
  BY <1>4 DEF A, FromRawRederives

=============================================================================
