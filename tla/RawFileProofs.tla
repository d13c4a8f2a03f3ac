---------------------------- MODULE RawFileProofs ----------------------------
(***************************************************************************)
(* Proofs about the raw files of Ingest, "the canonical input record".     *)
(* They rest on one fact of the clock: no two calls read the same second,  *)
(* so the name of a raw file belongs to one call.                          *)
(***************************************************************************)
EXTENDS IngestProofs

Originals == {OriginalPath(n) : n \in Names}

\* The calls that read second t have all returned.
Settled(t) ==
    t <= clock /\ \A p \in Procs : Ingesting(p) => proc[p].rcvd # t

Owns(p, d, t) ==
    Ingesting(p) /\ proc[p].date = d /\ proc[p].rcvd = t

\* The raw file of p has been written and not been unlinked.
RawWritten(p) ==
    \/ proc[p].pc \in {"media", "write", "commit"}
    \/ proc[p].pc = "rollback" /\ proc[p].new # None

RawProcOK(p) ==
    LET c == proc[p] IN
    /\ Ingesting(p) => c.rcvd <= clock
    /\ c.made \subseteq {RawPath(c.rcvd)} \cup Originals
    /\ c.pc \in {"lock", "raw", "media", "write"} => c.new = None
    /\ RawWritten(p) => files[c.date][RawPath(c.rcvd)] = c.msg

SecondsApart ==
    \A p, q \in Procs :
      p # q /\ Ingesting(p) /\ Ingesting(q) => proc[p].rcvd # proc[q].rcvd

Kept(m) ==
    ingested[m] # None =>
      /\ Settled(ingested[m].eml)
      /\ files[ingested[m].date][RawPath(ingested[m].eml)] = m

RawInv ==
    /\ IInv
    /\ SecondsApart
    /\ \A p \in Procs : RawProcOK(p)
    /\ \A m \in Messages : Kept(m)

\* What a step of p may do to what the others rely on.
RawGuarantee(p) ==
    /\ clock <= clock'
    /\ \A q \in Procs \ {p} : proc'[q] = proc[q]
    /\ Ingesting(p)' => \/ Ingesting(p) /\ proc'[p].rcvd = proc[p].rcvd
                        \/ clock < proc'[p].rcvd
    /\ \A d \in Dates, t \in Seconds :
         files'[d][RawPath(t)] # files[d][RawPath(t)] => Owns(p, d, t)

USE DEF Holding, IngestPCs, SavePCs

-----------------------------------------------------------------------------
(* Paths and names *)

LEMMA PathsApart ==
    /\ \A t, u : RawPath(t) = RawPath(u) => t = u
    /\ \A t, n : RawPath(t) # OriginalPath(n)
BY DEF RawPath, OriginalPath

\* Of what a call unlinks, or writes as an attachment, the only raw file is
\* its own.
LEMMA RawOfMade ==
    ASSUME NEW r, NEW made, made \subseteq {RawPath(r)} \cup Originals,
           NEW t, RawPath(t) \in made
    PROVE  t = r
BY PathsApart DEF Originals

LEMMA PutAt ==
    ASSUME NEW dir, NEW paths, NEW content, NEW t \in Seconds
    PROVE  PutFiles(dir, paths, content)[RawPath(t)]
             = IF RawPath(t) \in paths THEN content ELSE dir[RawPath(t)]
BY DEF PutFiles, Paths

LEMMA MediaAreOriginals ==
    ASSUME NEW m \in Messages, NEW n \in 0..Len(Parsed[m].media)
    PROVE  MediaPaths(m, n) \subseteq Originals
<1>1. Parsed[m].media \in Seq(Names)
  BY ConstantsAssumption DEF Parses
<1>2. \A i \in 1..n : Parsed[m].media[i] \in Names
  BY <1>1
<1>. QED
  BY <1>2 DEF MediaPaths, Originals

-----------------------------------------------------------------------------
(* What stays, and the frame *)

LEMMA SettledStays ==
    ASSUME IInv, NEW p \in Procs, RawGuarantee(p), clock' \in Int,
           proc' \in [Procs -> Locals], NEW t \in Seconds, Settled(t)
    PROVE  Settled(t)' /\ \A d \in Dates : files'[d][RawPath(t)] = files[d][RawPath(t)]
<1>1. t <= clock'
  BY DEF RawGuarantee, Settled, IInv, TypeOK, Seconds
<1>2. ASSUME NEW q \in Procs, Ingesting(q)' PROVE proc'[q].rcvd # t
  <2>1. CASE q = p
    BY <1>2, <2>1 DEF RawGuarantee, Settled, IInv, TypeOK, Seconds, Locals
  <2>2. CASE q # p
    BY <1>2, <2>2 DEF RawGuarantee, Settled, Ingesting
  <2>. QED
    BY <2>1, <2>2
<1>3. \A d \in Dates : ~Owns(p, d, t)
  BY DEF Settled, Owns
<1>. QED
  BY <1>1, <1>2, <1>3 DEF Settled, RawGuarantee

\* A step that keeps to its guarantee and leaves its own process and the
\* records in order keeps the invariant.
LEMMA RawFrame ==
    ASSUME RawInv, IInv', NEW p \in Procs, RawGuarantee(p), RawProcOK(p)',
           \A m \in Messages :
             ingested'[m] = ingested[m] \/ Kept(m)'
    PROVE  RawInv'
<1>1. /\ clock \in Int /\ clock' \in Int /\ proc' \in [Procs -> Locals]
      /\ proc \in [Procs -> Locals] /\ IInv
  BY DEF RawInv, IInv, TypeOK, Seconds
<1>2. ASSUME NEW q \in Procs \ {p} PROVE RawProcOK(q)'
  <2>1. proc'[q] = proc[q] /\ RawProcOK(q) /\ ProcOK(q) /\ proc[q] \in Locals
    BY <1>1 DEF RawGuarantee, RawInv, IInv
  <2>2. Ingesting(q)' => proc'[q].rcvd <= clock'
    BY <1>1, <2>1 DEF RawGuarantee, RawProcOK, Ingesting, Locals, Seconds
  <2>3. RawWritten(q) => files'[proc[q].date][RawPath(proc[q].rcvd)] = proc[q].msg
    <3>. SUFFICES ASSUME RawWritten(q)
                  PROVE  files'[proc[q].date][RawPath(proc[q].rcvd)] = proc[q].msg
      OBVIOUS
    <3>1. /\ Holds(q, proc[q].date) /\ proc[q].date \in Dates
          /\ proc[q].rcvd \in Seconds /\ Ingesting(q)
      BY <2>1 DEF RawWritten, ProcOK, Holds, Ingesting
    <3>2. ~Owns(p, proc[q].date, proc[q].rcvd)
      BY <3>1 DEF Owns, RawInv, SecondsApart
    <3>. QED
      BY <2>1, <3>1, <3>2 DEF RawGuarantee, RawProcOK
  <2>. QED
    BY <2>1, <2>2, <2>3 DEF RawProcOK, RawWritten
<1>3. SecondsApart'
  <2>. SUFFICES ASSUME NEW q \in Procs \ {p}, Ingesting(p)', Ingesting(q)'
                PROVE  proc'[p].rcvd # proc'[q].rcvd
    BY <1>1 DEF SecondsApart, RawGuarantee, RawInv, Ingesting
  <2>1. proc'[q] = proc[q] /\ Ingesting(q) /\ RawProcOK(q)
    BY DEF RawGuarantee, Ingesting, RawInv
  <2>2. proc[q].rcvd <= clock
    BY <2>1 DEF RawProcOK
  <2>. QED
    BY <1>1, <2>1, <2>2 DEF RawGuarantee, RawInv, SecondsApart, Locals, Seconds
<1>4. ASSUME NEW m \in Messages PROVE Kept(m)'
  <2>. SUFFICES ASSUME ingested'[m] = ingested[m], ingested[m] # None
                PROVE  Kept(m)'
    BY DEF Kept
  <2>1. /\ ingested[m].eml \in Seconds /\ ingested[m].date \in Dates
        /\ Kept(m)
    BY DEF RawInv, IInv, TypeOK
  <2>. QED
    BY <1>1, <2>1, SettledStays DEF Kept
<1>. QED
  BY <1>2, <1>3, <1>4 DEF RawInv

-----------------------------------------------------------------------------
(* The steps *)

\* A step of a call that goes on keeps the invariant if it writes no raw file but its own and
\* its own process stays in order.
LEMMA RawCarriedOn ==
    ASSUME RawInv, IInv', NEW p \in Procs,
           Lock(p) \/ WriteRaw(p) \/ WriteRawFails(p) \/ WriteMedia(p)
             \/ WriteMediaFails(p) \/ WriteEntry(p) \/ WriteEntryFails(p)
             \/ CommitFails(p) \/ RollbackFiles(p),
           \A d \in Dates, t \in Seconds :
             files'[d][RawPath(t)] # files[d][RawPath(t)] => Owns(p, d, t),
           proc'[p].made \subseteq {RawPath(proc[p].rcvd)} \cup Originals,
           proc'[p].pc \in {"lock", "raw", "media", "write"} => proc'[p].new = None,
           RawWritten(p)' =>
             files'[proc[p].date][RawPath(proc[p].rcvd)] = proc[p].msg
    PROVE  RawInv' /\ RawGuarantee(p)
<1>1. IInv /\ RawProcOK(p) /\ clock \in Int
  BY DEF RawInv, IInv, TypeOK, Seconds
<1>2. CarriesOn(p)
  BY <1>1, CarriedOn
<1>3. RawGuarantee(p)
  BY <1>1, <1>2 DEF RawGuarantee, CarriesOn
<1>4. RawProcOK(p)'
  BY <1>1, <1>2 DEF RawProcOK, CarriesOn
<1>. QED
  BY <1>2, <1>3, <1>4, RawFrame DEF CarriesOn

LEMMA RawStart ==
    ASSUME ~SameSecond, RawInv, IInv', NEW p \in Procs, NEW m \in Messages,
           Start(p, m)
    PROVE  RawInv' /\ RawGuarantee(p)
<1>1. PICK t \in Now, d \in DatesFor[m] :
        /\ clock' = t
        /\ proc' = [proc EXCEPT ![p] = [Idle EXCEPT !.pc = "lock", !.msg = m,
                                                    !.date = d, !.rcvd = t]]
  BY DEF Start
<1>. DEFINE c == [Idle EXCEPT !.pc = "lock", !.msg = m, !.date = d, !.rcvd = t]
<1>2. c.pc = "lock" /\ c.rcvd = t /\ c.made = {} /\ c.new = None
  BY DEF Idle
<1>3. /\ proc' = [proc EXCEPT ![p] = c] /\ p \in DOMAIN proc
      /\ clock \in Int /\ clock' = t
  BY <1>1 DEF RawInv, IInv, TypeOK, Seconds
<1>. HIDE DEF c
<1>4. t = clock + 1 /\ UNCHANGED <<files, ingested>>
  BY DEF Now, Start
<1>5. RawGuarantee(p)
  BY <1>2, <1>3, <1>4 DEF RawGuarantee
<1>6. RawProcOK(p)'
  BY <1>2, <1>3, <1>4 DEF RawProcOK, RawWritten
<1>. QED
  BY <1>4, <1>5, <1>6, RawFrame

LEMMA RawSameFiles ==
    ASSUME RawInv, IInv', NEW p \in Procs,
           Lock(p) \/ WriteEntry(p) \/ WriteEntryFails(p) \/ CommitFails(p)
    PROVE  RawInv' /\ RawGuarantee(p)
<1>1. /\ IInv /\ RawProcOK(p) /\ proc[p] \in Locals /\ proc \in [Procs -> Locals]
      /\ proc[p].date \in Dates /\ proc[p].rcvd \in Seconds
  BY DEF RawInv, IInv, TypeOK, ProcOK, Lock, WriteEntry, WriteEntryFails, CommitFails
<1>2. UNCHANGED files
  BY DEF Lock, WriteEntry, WriteEntryFails, CommitFails
<1>3. /\ CarriesOn(p)
      /\ proc'[p].made = proc[p].made
      /\ proc'[p].pc \in {"raw", "media", "write"} => proc'[p].new = None
      /\ RawWritten(p)' => RawWritten(p)
  <2>1. CarriesOn(p)
    BY <1>1, CarriedOn
  <2>2. CASE Lock(p)
    BY <1>1, <2>1, <2>2 DEF Lock, Locals, RawWritten, RawProcOK
  <2>3. CASE WriteEntry(p)
    BY <1>1, <2>1, <2>3 DEF WriteEntry, Locals, RawWritten
  <2>4. CASE WriteEntryFails(p)
    BY <1>1, <2>1, <2>4 DEF WriteEntryFails, Locals, RawWritten, RawProcOK
  <2>5. CASE CommitFails(p)
    BY <1>1, <2>1, <2>5 DEF CommitFails, Locals, RawWritten
  <2>. QED
    BY <2>2, <2>3, <2>4, <2>5
<1>4. proc'[p].pc # "lock"
  <2>1. \/ proc' = [proc EXCEPT ![p].pc = "raw", ![p].old = md[proc[p].date]]
        \/ \E doc : proc' = [proc EXCEPT ![p].pc = "commit", ![p].new = doc]
        \/ proc' = [proc EXCEPT ![p].pc = "rollback"]
    BY DEF Lock, WriteEntry, WriteEntryFails, CommitFails
  <2>. QED
    BY <1>1, <2>1 DEF Locals
<1>. QED
  BY <1>1, <1>2, <1>3, <1>4, RawCarriedOn DEF RawProcOK, CarriesOn

LEMMA RawWriteRaw ==
    ASSUME RawInv, IInv', NEW p \in Procs, WriteRaw(p) \/ WriteRawFails(p)
    PROVE  RawInv' /\ RawGuarantee(p)
<1>. DEFINE d == proc[p].date
            r == RawPath(proc[p].rcvd)
<1>1. /\ IInv /\ RawProcOK(p) /\ proc[p] \in Locals /\ proc \in [Procs -> Locals]
      /\ d \in Dates /\ proc[p].rcvd \in Seconds
      /\ proc[p].pc = "raw" /\ proc[p].new = None
      /\ files \in [Dates -> [Paths -> Messages \cup {Torn, None}]]
  BY DEF RawInv, IInv, TypeOK, ProcOK, RawProcOK, WriteRaw, WriteRawFails
<1>2. CarriesOn(p)
  BY <1>1, CarriedOn
<1>3. PICK cut, content :
        /\ cut \subseteq {r}
        /\ files' = [files EXCEPT ![d] = PutFiles(@, cut, content)]
        /\ WriteRaw(p) => cut = {r} /\ content = proc[p].msg
  BY DEF WriteRaw, WriteRawFails
<1>4. \A e \in Dates, t \in Seconds :
        files'[e][RawPath(t)] # files[e][RawPath(t)] => Owns(p, e, t)
  <2>. SUFFICES ASSUME NEW t \in Seconds, t # proc[p].rcvd
                PROVE  files'[d][RawPath(t)] = files[d][RawPath(t)]
    BY <1>1, <1>2, <1>3 DEF Owns, CarriesOn
  <2>1. RawPath(t) \notin cut
    BY <1>3, PathsApart
  <2>. QED
    BY <1>1, <1>3, <2>1, PutAt
<1>5. CASE WriteRaw(p)
  <2>1. proc'[p].made = {r} /\ proc'[p].new = None
    BY <1>1, <1>5 DEF WriteRaw, Locals
  <2>2. files'[d][r] = proc[p].msg
    BY <1>1, <1>3, <1>5, PutAt
  <2>. QED
    BY <1>2, <1>4, <1>5, <2>1, <2>2, RawCarriedOn DEF CarriesOn
<1>6. CASE WriteRawFails(p)
  <2>1. /\ proc'[p].made = proc[p].made /\ proc'[p].new = None
        /\ proc'[p].pc = "rollback"
    BY <1>1, <1>6 DEF WriteRawFails, Locals
  <2>2. ~RawWritten(p)'
    BY <2>1 DEF RawWritten
  <2>. QED
    BY <1>1, <1>2, <1>4, <1>6, <2>1, <2>2, RawCarriedOn DEF CarriesOn, RawProcOK
<1>. QED
  BY <1>5, <1>6

\* Writing attachments touches no raw file, whatever is cut short.
LEMMA MediaLeaveRaw ==
    ASSUME IInv, NEW p \in Procs, WriteMedia(p) \/ WriteMediaFails(p)
    PROVE  /\ \A d \in Dates, t \in Seconds : files'[d][RawPath(t)] = files[d][RawPath(t)]
           /\ proc'[p].made \subseteq proc[p].made \cup Originals
           /\ proc'[p].new = proc[p].new
           /\ proc'[p].pc \in {"write", "rollback"}
           /\ proc[p].pc = "media"
<1>. DEFINE e == proc[p].date
            m == proc[p].msg
<1>1. /\ proc[p] \in Locals /\ proc \in [Procs -> Locals]
      /\ e \in Dates /\ m \in Messages /\ proc[p].pc = "media"
      /\ files \in [Dates -> [Paths -> Messages \cup {Torn, None}]]
      /\ Parsed[m].media \in Seq(Names)
  BY ConstantsAssumption DEF IInv, TypeOK, ProcOK, WriteMedia, WriteMediaFails, Parses
<1>2. CASE WriteMedia(p)
  <2>. DEFINE paths == MediaPaths(m, Len(Parsed[m].media))
  <2>1. /\ files' = [files EXCEPT ![e] = PutFiles(files[e], paths, m)]
        /\ proc' = [proc EXCEPT ![p].pc = "write", ![p].made = @ \cup paths]
    BY <1>2 DEF WriteMedia
  <2>2. paths \subseteq Originals
    BY <1>1, MediaAreOriginals
  <2>. HIDE DEF paths
  <2>3. \A t \in Seconds : RawPath(t) \notin paths
    BY <2>2, PathsApart DEF Originals
  <2>4. \A d \in Dates, t \in Seconds : files'[d][RawPath(t)] = files[d][RawPath(t)]
    BY <1>1, <2>1, <2>3, PutAt
  <2>. QED
    BY <1>1, <2>1, <2>2, <2>4 DEF Locals
<1>3. CASE WriteMediaFails(p)
  <2>. DEFINE done(n) == MediaPaths(m, n - 1)
              dir(n) == PutFiles(files[e], done(n), m)
  <2>1. PICK n \in 1..Len(Parsed[m].media) :
          /\ \E cut \in SUBSET {OriginalPath(Parsed[m].media[n])} :
               files' = [files EXCEPT ![e] = PutFiles(dir(n), cut, Torn)]
          /\ proc' = [proc EXCEPT ![p].pc = "rollback", ![p].made = @ \cup done(n)]
    BY <1>3 DEF WriteMediaFails
  <2>2. done(n) \subseteq Originals
    <3>1. n - 1 \in 0..Len(Parsed[m].media)
      BY <1>1
    <3>. QED
      BY <1>1, <3>1, MediaAreOriginals
  <2>. HIDE DEF done
  <2>3. PICK cut \in SUBSET {OriginalPath(Parsed[m].media[n])} :
          files' = [files EXCEPT ![e] = PutFiles(dir(n), cut, Torn)]
    BY <2>1
  <2>4. \A t \in Seconds : RawPath(t) \notin done(n) /\ RawPath(t) \notin cut
    BY <2>2, PathsApart DEF Originals
  <2>5. \A t \in Seconds : dir(n)[RawPath(t)] = files[e][RawPath(t)]
    BY <2>4, PutAt
  <2>6. \A t \in Seconds :
          PutFiles(dir(n), cut, Torn)[RawPath(t)] = dir(n)[RawPath(t)]
    BY <2>4, PutAt
  <2>. HIDE DEF dir
  <2>7. \A d \in Dates, t \in Seconds : files'[d][RawPath(t)] = files[d][RawPath(t)]
    BY <1>1, <2>3, <2>5, <2>6
  <2>. QED
    BY <1>1, <2>1, <2>2, <2>7 DEF Locals
<1>. QED
  BY <1>2, <1>3

LEMMA RawWriteMedia ==
    ASSUME RawInv, IInv', NEW p \in Procs, WriteMedia(p) \/ WriteMediaFails(p)
    PROVE  RawInv' /\ RawGuarantee(p)
<1>1. /\ IInv /\ RawProcOK(p) /\ proc[p].date \in Dates /\ proc[p].rcvd \in Seconds
  BY DEF RawInv, IInv, ProcOK, WriteMedia, WriteMediaFails
<1>2. CarriesOn(p)
  BY <1>1, CarriedOn
<1>3. /\ \A d \in Dates, t \in Seconds : files'[d][RawPath(t)] = files[d][RawPath(t)]
      /\ proc'[p].made \subseteq proc[p].made \cup Originals
      /\ proc'[p].new = proc[p].new
      /\ proc'[p].pc \in {"write", "rollback"}
      /\ proc[p].pc = "media"
  BY <1>1, MediaLeaveRaw
<1>4. files'[proc[p].date][RawPath(proc[p].rcvd)] = proc[p].msg /\ proc'[p].new = None
  BY <1>1, <1>3 DEF RawProcOK, RawWritten
<1>. QED
  BY <1>1, <1>2, <1>3, <1>4, RawCarriedOn DEF CarriesOn, RawProcOK

\* A rollback unlinks no raw file but the call's own.
LEMMA RawRollback ==
    ASSUME RawInv, IInv', NEW p \in Procs, RollbackFiles(p)
    PROVE  RawInv' /\ RawGuarantee(p)
<1>1. /\ IInv /\ RawProcOK(p) /\ proc[p].date \in Dates /\ proc[p].rcvd \in Seconds
      /\ proc[p] \in Locals /\ proc \in [Procs -> Locals]
      /\ files \in [Dates -> [Paths -> Messages \cup {Torn, None}]]
  BY DEF RawInv, IInv, TypeOK, ProcOK, RollbackFiles
<1>2. CarriesOn(p)
  BY <1>1, CarriedOn
<1>3. /\ files' = [files EXCEPT ![proc[p].date] =
                     PutFiles(files[proc[p].date], proc[p].made, None)]
      /\ proc'[p].made = proc[p].made /\ proc'[p].pc = "unlink"
  BY <1>1 DEF RollbackFiles, RolledBackFiles, Locals
<1>4. \A d \in Dates, t \in Seconds :
        files'[d][RawPath(t)] # files[d][RawPath(t)] => Owns(p, d, t)
  <2>. SUFFICES ASSUME NEW t \in Seconds, t # proc[p].rcvd
                PROVE  files'[proc[p].date][RawPath(t)] = files[proc[p].date][RawPath(t)]
    BY <1>1, <1>2, <1>3 DEF Owns, CarriesOn
  <2>1. RawPath(t) \notin proc[p].made
    BY <1>1, RawOfMade DEF RawProcOK
  <2>. QED
    BY <1>1, <1>3, <2>1, PutAt
<1>. QED
  BY <1>1, <1>2, <1>3, <1>4, RawCarriedOn DEF CarriesOn, RawProcOK, RawWritten

\* Steps of a call that returns, and of the edit form: no raw file changes.
LEMMA RawOthers ==
    ASSUME RawInv, IInv', NEW p \in Procs,
           UNCHANGED files, clock <= clock',
           \A q \in Procs \ {p} : proc'[q] = proc[q],
           ~Ingesting(p)',
           proc'[p].made \subseteq {RawPath(proc'[p].rcvd)} \cup Originals,
           \A m \in Messages : ingested'[m] = ingested[m] \/ Kept(m)'
    PROVE  RawInv' /\ RawGuarantee(p)
<1>1. RawGuarantee(p)
  BY DEF RawGuarantee
<1>2. RawProcOK(p)'
  BY DEF RawProcOK, Ingesting, RawWritten
<1>. QED
  BY <1>1, <1>2, RawFrame

LEMMA RawReturn ==
    ASSUME RawInv, IInv', NEW p \in Procs, RollbackEntry(p) \/ Crash(p)
    PROVE  RawInv' /\ RawGuarantee(p)
<1>1. /\ UNCHANGED <<clock, files, ingested>>
      /\ proc' = [proc EXCEPT ![p] = Idle]
  BY DEF RollbackEntry, Crash
<1>2. proc'[p] = Idle /\ \A q \in Procs \ {p} : proc'[q] = proc[q]
  BY <1>1 DEF RawInv, IInv, TypeOK
<1>3. clock <= clock' /\ ~Ingesting(p)' /\ proc'[p].made = {}
  BY <1>1, <1>2 DEF Idle, Ingesting, RawInv, IInv, TypeOK, Seconds
<1>. QED
  BY <1>1, <1>2, <1>3, RawOthers

LEMMA RawCommit ==
    ASSUME RawInv, IInv', NEW p \in Procs, Commit(p)
    PROVE  RawInv' /\ RawGuarantee(p)
<1>. DEFINE c == proc[p]
<1>1. /\ c.pc = "commit" /\ c.msg \in Messages /\ c.date \in Dates
      /\ c.rcvd \in Seconds /\ c.rcvd <= clock /\ clock \in Int
      /\ files[c.date][RawPath(c.rcvd)] = c.msg
  BY DEF Commit, RawInv, IInv, TypeOK, ProcOK, RawProcOK, Ingesting, RawWritten, Seconds
<1>2. /\ UNCHANGED <<clock, files>> /\ proc' = [proc EXCEPT ![p] = Idle]
      /\ ingested' = [ingested EXCEPT ![c.msg] = [date |-> c.date, eml |-> c.rcvd]]
  BY DEF Commit
<1>3. /\ proc'[p] = Idle /\ \A q \in Procs \ {p} : proc'[q] = proc[q]
      /\ ~Ingesting(p)' /\ proc'[p].made = {}
  BY <1>2 DEF Idle, Ingesting, RawInv, IInv, TypeOK
<1>4. PICK m \in Messages, d \in Dates, t \in Seconds :
        m = c.msg /\ d = c.date /\ t = c.rcvd
  BY <1>1
<1>5. Settled(t)'
  <2>1. ASSUME NEW q \in Procs, Ingesting(q)' PROVE proc'[q].rcvd # t
    <3>1. q # p /\ Ingesting(q) /\ proc'[q] = proc[q]
      BY <1>3, <2>1 DEF Ingesting
    <3>. QED
      BY <1>1, <1>4, <3>1 DEF RawInv, SecondsApart, Ingesting
  <2>. QED
    BY <1>1, <1>2, <1>4, <2>1 DEF Settled
<1>6. Kept(m)'
  <2>1. ingested'[m] = [date |-> d, eml |-> t]
    BY <1>1, <1>2, <1>4 DEF RawInv, IInv, TypeOK
  <2>. QED
    BY <1>1, <1>2, <1>4, <1>5, <2>1 DEF Kept
<1>7. \A n \in Messages : ingested'[n] = ingested[n] \/ Kept(n)'
  BY <1>2, <1>4, <1>6 DEF RawInv, IInv, TypeOK
<1>. QED
  BY <1>1, <1>2, <1>3, <1>7, RawOthers

LEMMA RawSave ==
    ASSUME RawInv, IInv',
           SaveRequest \/ SaveStep \/ \E d \in Dates : OpenForm(d)
    PROVE  RawInv' /\ RawGuarantee(App)
<1>1. /\ App \in Procs /\ proc[App] \in Locals /\ proc \in [Procs -> Locals]
      /\ RawProcOK(App) /\ clock \in Int
  BY ConstantsAssumption DEF RawInv, IInv, TypeOK, Seconds
<1>2. UNCHANGED <<files, ingested>>
  BY DEF SaveRequest, SaveStep, OpenForm, SaveLock, SaveFindsNoEntry, SaveWrite,
     SaveCommit, SaveFails
<1>3. clock <= clock'
  BY <1>1 DEF SaveRequest, SaveStep, OpenForm, SaveLock, SaveFindsNoEntry, SaveWrite,
     SaveCommit, SaveFails, Now
<1>4. \A q \in Procs \ {App} : proc'[q] = proc[q]
  BY <1>1 DEF SaveRequest, SaveStep, OpenForm, SaveLock, SaveFindsNoEntry, SaveWrite,
     SaveCommit, SaveFails
<1>5. /\ ~Ingesting(App)'
      /\ proc'[App].made \subseteq {RawPath(proc'[App].rcvd)} \cup Originals
  <2>1. CASE SaveRequest \/ SaveFindsNoEntry \/ SaveCommit \/ SaveFails
    <3>. DEFINE asked == [Idle EXCEPT !.pc = "savelock", !.date = form.date]
    <3>1. proc' = [proc EXCEPT ![App] = Idle] \/ proc' = [proc EXCEPT ![App] = asked]
      BY <2>1 DEF SaveRequest, SaveFindsNoEntry, SaveCommit, SaveFails
    <3>2. /\ Idle.pc = "idle" /\ Idle.made = {}
          /\ asked.pc = "savelock" /\ asked.made = {}
      BY DEF Idle
    <3>. HIDE DEF asked
    <3>3. proc'[App].pc \in {"idle", "savelock"} /\ proc'[App].made = {}
      BY <1>1, <3>1, <3>2
    <3>. QED
      BY <3>3 DEF Ingesting
  <2>2. CASE SaveLock
    <3>1. /\ proc'[App].pc = "savewrite" /\ proc'[App].made = proc[App].made
          /\ proc'[App].rcvd = proc[App].rcvd
      BY <1>1, <2>2 DEF SaveLock, Locals
    <3>. QED
      BY <1>1, <3>1 DEF Ingesting, RawProcOK
  <2>3. CASE SaveWrite
    <3>1. /\ proc'[App].pc = "savecommit" /\ proc'[App].made = proc[App].made
          /\ proc'[App].rcvd = proc[App].rcvd
      BY <1>1, <2>3 DEF SaveWrite, Locals
    <3>. QED
      BY <1>1, <3>1 DEF Ingesting, RawProcOK
  <2>4. CASE \E d \in Dates : OpenForm(d)
    BY <1>1, <2>4 DEF OpenForm, Ingesting, RawProcOK
  <2>. QED
    BY <2>1, <2>2, <2>3, <2>4 DEF SaveStep
<1>. QED
  BY <1>1, <1>2, <1>3, <1>4, <1>5, RawOthers

LEMMA RawInit == Init => RawInv
BY InitInv DEF Init, RawInv, SecondsApart, RawProcOK, Kept, Ingesting, RawWritten, Idle

LEMMA RawNext ==
    ~SameSecond /\ RawInv /\ [Next]_vars =>
      RawInv' /\ \E p \in Procs : RawGuarantee(p)
<1>. SUFFICES ASSUME ~SameSecond, RawInv, [Next]_vars
              PROVE  RawInv' /\ \E p \in Procs : RawGuarantee(p)
  OBVIOUS
<1>1. IInv' /\ App \in Procs
  BY NextInv, ConstantsAssumption DEF RawInv
<1>2. ASSUME NEW p \in Procs, NEW m \in Messages, Start(p, m)
      PROVE  RawInv' /\ RawGuarantee(p)
  BY <1>1, <1>2, RawStart
<1>3. ASSUME NEW p \in Procs, IngestStep(p) \/ Crash(p)
      PROVE  RawInv' /\ RawGuarantee(p)
  BY <1>1, <1>3, RawSameFiles, RawWriteRaw, RawWriteMedia, RawRollback, RawReturn,
     RawCommit DEF IngestStep
<1>4. CASE SaveRequest \/ SaveStep \/ \E d \in Dates : OpenForm(d)
  BY <1>1, <1>4, RawSave
<1>5. CASE UNCHANGED vars
  <2>1. RawInv'
    BY <1>1, <1>5 DEF vars, RawInv, SecondsApart, RawProcOK, Kept, Settled, Ingesting,
       RawWritten
  <2>2. RawGuarantee(App)
    BY <1>5 DEF vars, RawInv, IInv, TypeOK, Seconds, RawGuarantee, Ingesting
  <2>. QED
    BY <1>1, <2>1, <2>2
<1>. QED
  BY <1>1, <1>2, <1>3, <1>4, <1>5 DEF Next

\* The raw file an ingested_messages row names holds that reply, for any
\* number of processes, whatever fails or dies, if no two calls read the same
\* second.
THEOREM RecordsNameTheirRawFile ==
    ASSUME ~SameSecond
    PROVE  Spec => []AcceptedReplyKeepsRaw
<1>1. RawInv => AcceptedReplyKeepsRaw
  BY DEF RawInv, Kept, AcceptedReplyKeepsRaw
<1>2. RawInv /\ [Next]_vars => RawInv'
  BY RawNext
<1>. QED
  BY <1>1, <1>2, RawInit, PTL DEF Spec

-----------------------------------------------------------------------------
(* What entry.md and the index say can be derived from raw files again,    *)
(* unless a process dies between the two halves of a rollback.             *)

\* A whole raw file nobody will touch any more.
Whole(d, t) == Settled(t) /\ files[d][RawPath(t)] \in Messages
Derived(d, m) == \E t \in Seconds : Settled(t) /\ files[d][RawPath(t)] = m

\* p has written the entry.md of d and has neither recorded nor undone it.
MayUndo(p, d) ==
    /\ Holds(p, d) /\ proc[p].new # None
    /\ proc[p].pc \in {"commit", "rollback", "unlink"}

DocRaw(d) ==
    md[d] # None =>
      /\ \A i \in 1..Len(md[d].sources) :
           \/ Whole(d, md[d].sources[i])
           \/ \E p \in Procs : MayUndo(p, d) /\ proc[p].rcvd = md[d].sources[i]
      /\ \A m \in Messages : Occurs(m, md[d].body) =>
           \/ Derived(d, m)
           \/ \E p \in Procs : MayUndo(p, d) /\ proc[p].msg = m

RowRaw(d) ==
    index[d] # None =>
      \A m \in Messages : Occurs(m, index[d].body) => Derived(d, m)

FormRaw ==
    form # None =>
      \A m \in Messages : Occurs(m, form.body) => Derived(form.date, m)

\* A save carries the form's text and the sources it read.
SaveRaw(p) ==
    LET c == proc[p] IN
    /\ c.pc \in {"savewrite", "savecommit"} =>
         \A m \in Messages : Occurs(m, c.new.body) => Derived(c.date, m)
    /\ c.pc = "savewrite" => c.old \in Docs /\ c.new.sources = c.old.sources

SourceInv ==
    /\ RawInv /\ FormRaw
    /\ \A d \in Dates : DocRaw(d) /\ RowRaw(d)
    /\ \A p \in Procs : SaveRaw(p)

LEMMA DerivedStays ==
    ASSUME RawInv, RawInv', NEW p \in Procs, RawGuarantee(p), NEW d \in Dates
    PROVE  /\ \A m \in Messages : Derived(d, m) => Derived(d, m)'
           /\ \A t \in Seconds : Whole(d, t) => Whole(d, t)'
<1>1. IInv /\ clock' \in Int /\ proc' \in [Procs -> Locals]
  BY DEF RawInv, IInv, TypeOK, Seconds
<1>. QED
  BY <1>1, SettledStays DEF Derived, Whole

\* A day whose entry.md stays, and of which nobody stops being about to undo
\* the text but with its raw file in place.
LEMMA DocRawStays ==
    ASSUME SourceInv, RawInv', NEW p \in Procs, RawGuarantee(p), NEW d \in Dates,
           md'[d] = md[d],
           MayUndo(p, d) =>
             \/ /\ MayUndo(p, d)'
                /\ proc'[p].rcvd = proc[p].rcvd /\ proc'[p].msg = proc[p].msg
             \/ \E t, m : /\ t = proc[p].rcvd /\ m = proc[p].msg
                          /\ Whole(d, t)' /\ Derived(d, m)'
    PROVE  DocRaw(d)'
<1>. SUFFICES ASSUME md[d] # None PROVE DocRaw(d)'
  BY DEF DocRaw
<1>1. md[d] \in Docs /\ DocRaw(d) /\ RawInv
  BY DEF SourceInv, RawInv, IInv, TypeOK
<1>2. ASSUME NEW q \in Procs \ {p}, MayUndo(q, d)
      PROVE  MayUndo(q, d)' /\ proc'[q] = proc[q]
  BY <1>2 DEF RawGuarantee, MayUndo, Holds
<1>3. ASSUME NEW t \in Seconds,
             Whole(d, t) \/ \E q \in Procs : MayUndo(q, d) /\ proc[q].rcvd = t
      PROVE  Whole(d, t)' \/ \E q \in Procs : MayUndo(q, d)' /\ proc'[q].rcvd = t
  BY <1>1, <1>2, <1>3, DerivedStays
<1>4. ASSUME NEW m \in Messages,
             Derived(d, m) \/ \E q \in Procs : MayUndo(q, d) /\ proc[q].msg = m
      PROVE  Derived(d, m)' \/ \E q \in Procs : MayUndo(q, d)' /\ proc'[q].msg = m
  BY <1>1, <1>2, <1>4, DerivedStays
<1>5. ASSUME NEW i \in 1..Len(md[d].sources)
      PROVE  (\/ Whole(d, md[d].sources[i])
              \/ \E q \in Procs : MayUndo(q, d) /\ proc[q].rcvd = md[d].sources[i])'
  <2>1. PICK t \in Seconds : t = md[d].sources[i]
    BY <1>1 DEF Docs
  <2>2. Whole(d, t) \/ \E q \in Procs : MayUndo(q, d) /\ proc[q].rcvd = t
    BY <1>1, <2>1 DEF DocRaw
  <2>3. t = md'[d].sources[i]
    BY <2>1
  <2>4. Whole(d, t)' \/ \E q \in Procs : MayUndo(q, d)' /\ proc'[q].rcvd = t
    BY <1>3, <2>2
  <2>. QED
    BY <2>3, <2>4 DEF Whole
<1>. QED
  BY <1>1, <1>4, <1>5 DEF DocRaw, Occurs

LEMMA SourceFrame ==
    ASSUME SourceInv, RawInv', NEW p \in Procs, RawGuarantee(p),
           \A d \in Dates : DocRaw(d)',
           \A d \in Dates : index'[d] = index[d] \/ RowRaw(d)',
           form' = form \/ FormRaw',
           SaveRaw(p)'
    PROVE  SourceInv'
<1>1. RawInv
  BY DEF SourceInv
<1>2. ASSUME NEW d \in Dates, index'[d] = index[d] PROVE RowRaw(d)'
  BY <1>1, <1>2, DerivedStays DEF SourceInv, RowRaw, Occurs
<1>3. ASSUME form' = form PROVE FormRaw'
  <2>. SUFFICES ASSUME form # None PROVE FormRaw'
    BY <1>3 DEF FormRaw
  <2>1. PICK d \in Dates : d = form.date
    BY <1>1 DEF RawInv, IInv, TypeOK, Forms
  <2>2. \A m \in Messages : Occurs(m, form.body) => Derived(d, m)'
    BY <1>1, <2>1, DerivedStays DEF SourceInv, FormRaw
  <2>. QED
    BY <1>3, <2>1, <2>2 DEF FormRaw, Derived, Occurs
<1>4. ASSUME NEW q \in Procs \ {p} PROVE SaveRaw(q)'
  <2>1. proc'[q] = proc[q] /\ SaveRaw(q)
    BY DEF RawGuarantee, SourceInv
  <2>2. SUFFICES ASSUME proc[q].pc \in {"savewrite", "savecommit"}
                 PROVE  (\A m \in Messages : Occurs(m, proc[q].new.body) =>
                           Derived(proc[q].date, m))'
    BY <2>1 DEF SaveRaw
  <2>3. PICK d \in Dates : d = proc[q].date
    BY <1>1, <2>2 DEF RawInv, IInv, ProcOK
  <2>4. \A m \in Messages : Occurs(m, proc[q].new.body) => Derived(d, m)'
    BY <1>1, <2>1, <2>2, <2>3, DerivedStays DEF SaveRaw
  <2>. QED
    BY <2>1, <2>3, <2>4 DEF Derived, Occurs
<1>. QED
  BY <1>2, <1>3, <1>4 DEF SourceInv

\* Steps that leave entry.md, the index and the form alone.
LEMMA SourceQuiet ==
    ASSUME SourceInv, RawInv', NEW p \in Procs, RawGuarantee(p),
           UNCHANGED <<md, index>>,
           form' = form \/ FormRaw',
           \A d \in Dates : MayUndo(p, d) =>
             /\ MayUndo(p, d)'
             /\ proc'[p].rcvd = proc[p].rcvd /\ proc'[p].msg = proc[p].msg,
           SaveRaw(p)'
    PROVE  SourceInv'
<1>1. \A d \in Dates : DocRaw(d)'
  BY DocRawStays
<1>. QED
  BY <1>1, SourceFrame

LEMMA SourceStart ==
    ASSUME SourceInv, RawInv', NEW p \in Procs, RawGuarantee(p),
           NEW m \in Messages, Start(p, m)
    PROVE  SourceInv'
<1>1. PICK t, d :
        proc' = [proc EXCEPT ![p] = [Idle EXCEPT !.pc = "lock", !.msg = m,
                                                 !.date = d, !.rcvd = t]]
  BY DEF Start
<1>. DEFINE c == [Idle EXCEPT !.pc = "lock", !.msg = m, !.date = d, !.rcvd = t]
<1>2. c.pc = "lock" /\ proc' = [proc EXCEPT ![p] = c] /\ p \in DOMAIN proc
  BY <1>1 DEF Idle, SourceInv, RawInv, IInv, TypeOK
<1>. HIDE DEF c
<1>3. SaveRaw(p)' /\ UNCHANGED <<md, index, form>> /\ \A e \in Dates : ~MayUndo(p, e)
  BY <1>2 DEF SaveRaw, Start, MayUndo
<1>. QED
  BY <1>3, SourceQuiet

LEMMA SourceCarriedOn ==
    ASSUME SourceInv, RawInv', NEW p \in Procs, RawGuarantee(p),
           Lock(p) \/ WriteRaw(p) \/ WriteRawFails(p) \/ WriteMedia(p)
             \/ WriteMediaFails(p) \/ WriteEntryFails(p) \/ CommitFails(p)
             \/ RollbackFiles(p)
    PROVE  SourceInv'
<1>1. IInv /\ RawProcOK(p) /\ proc[p] \in Locals /\ proc \in [Procs -> Locals]
  BY DEF SourceInv, RawInv, IInv, TypeOK
<1>2. CarriesOn(p) /\ SaveRaw(p)'
  BY <1>1, CarriedOn DEF CarriesOn, SaveRaw, Ingesting
<1>3. UNCHANGED <<md, index, form>>
  BY DEF Lock, WriteRaw, WriteRawFails, WriteMedia, WriteMediaFails,
     WriteEntryFails, CommitFails, RollbackFiles
<1>4. ASSUME NEW d \in Dates, MayUndo(p, d) PROVE MayUndo(p, d)'
  <2>1. CommitFails(p) \/ RollbackFiles(p)
    BY <1>4 DEF MayUndo, Lock, WriteRaw, WriteRawFails, WriteMedia, WriteMediaFails,
       WriteEntryFails
  <2>2. proc'[p].new = proc[p].new /\ proc'[p].pc \in {"rollback", "unlink"}
    BY <1>1, <2>1 DEF CommitFails, RollbackFiles, Locals
  <2>. QED
    BY <1>2, <1>4, <2>2 DEF MayUndo, Holds, CarriesOn
<1>. QED
  BY <1>2, <1>3, <1>4, SourceQuiet DEF CarriesOn

\* A day whose holder has nothing to undo has all its sources.
LEMMA HeldIsWhole ==
    ASSUME SourceInv, NEW p \in Procs, NEW d \in Dates, Holds(p, d),
           ~MayUndo(p, d), md[d] # None
    PROVE  /\ \A i \in 1..Len(md[d].sources) : Whole(d, md[d].sources[i])
           /\ \A m \in Messages : Occurs(m, md[d].body) => Derived(d, m)
<1>1. \A q \in Procs : ~MayUndo(q, d)
  BY SoleHolder DEF MayUndo, SourceInv, RawInv
<1>. QED
  BY <1>1 DEF SourceInv, DocRaw

LEMMA SourceWriteEntry ==
    ASSUME SourceInv, RawInv', NEW p \in Procs, RawGuarantee(p), WriteEntry(p)
    PROVE  SourceInv'
<1>1. /\ IInv /\ RawInv /\ proc[p] \in Locals /\ proc \in [Procs -> Locals]
      /\ md \in [Dates -> Docs \cup {None}]
      /\ proc[p].pc = "write" /\ proc[p].msg \in Messages /\ proc[p].date \in Dates
      /\ proc[p].rcvd \in Seconds /\ proc[p].old = md[proc[p].date]
  BY DEF SourceInv, RawInv, IInv, TypeOK, ProcOK, WriteEntry
<1>2. PICK d \in Dates, m \in Messages, t \in Seconds, doc \in Docs :
        /\ d = proc[p].date /\ m = proc[p].msg /\ t = proc[p].rcvd
        /\ doc = Compose(m, t, md[d])
  BY <1>1, ComposeType
<1>3. /\ md' = [md EXCEPT ![d] = doc] /\ UNCHANGED <<index, form>>
      /\ proc' = [proc EXCEPT ![p].pc = "commit", ![p].new = doc]
  BY <1>1, <1>2 DEF WriteEntry
<1>4. /\ proc'[p].pc = "commit" /\ proc'[p].new = doc /\ proc'[p].date = d
      /\ proc'[p].msg = m /\ proc'[p].rcvd = t
  BY <1>1, <1>2, <1>3 DEF Locals
<1>5. MayUndo(p, d)' /\ SaveRaw(p)'
  BY <1>4, NoneAssumption DEF MayUndo, Holds, SaveRaw
<1>6. \A e \in Dates : ~MayUndo(p, e)
  BY <1>1 DEF MayUndo
<1>7. DocRaw(d)'
  <2>1. Holds(p, d)
    BY <1>1, <1>2 DEF Holds
  <2>2. md'[d] = doc
    BY <1>1, <1>3
  <2>3. ASSUME NEW i \in 1..Len(doc.sources)
        PROVE  doc.sources[i] = t \/ Whole(d, doc.sources[i])'
    <3>1. CASE md[d] = None
      BY <1>2, <2>3, <3>1 DEF Compose
    <3>2. CASE md[d] # None
      <4>1. md[d].sources \in Seq(Seconds) /\ doc.sources = Append(md[d].sources, t)
        BY <1>1, <1>2, <3>2 DEF Compose, Docs
      <4>2. doc.sources[i] = t
              \/ \E j \in 1..Len(md[d].sources) : doc.sources[i] = md[d].sources[j]
        BY <2>3, <4>1
      <4>3. \A j \in 1..Len(md[d].sources) :
              md[d].sources[j] \in Seconds /\ Whole(d, md[d].sources[j])
        BY <1>6, <2>1, <3>2, <4>1, HeldIsWhole
      <4>. QED
        BY <1>1, <4>2, <4>3, DerivedStays
    <3>. QED
      BY <3>1, <3>2
  <2>4. ASSUME NEW n \in Messages, Occurs(n, doc.body)
        PROVE  n = m \/ Derived(d, n)'
    <3>1. CASE md[d] = None
      BY <1>2, <2>4, <3>1 DEF Compose, Occurs
    <3>2. CASE md[d] # None
      <4>1. md[d].body \in Seq(Sections) /\ doc.body = Append(md[d].body, m)
            /\ m \in Sections
        BY <1>1, <1>2, <3>2 DEF Compose, Docs, Sections
      <4>2. n = m \/ Occurs(n, md[d].body)
        BY <2>4, <4>1, OccursInAppend
      <4>. QED
        BY <1>1, <1>6, <2>1, <3>2, <4>2, HeldIsWhole, DerivedStays
    <3>. QED
      BY <3>1, <3>2
  <2>. QED
    BY <1>4, <1>5, <2>2, <2>3, <2>4 DEF DocRaw, Whole, Occurs
<1>8. \A e \in Dates : DocRaw(e)'
  <2>. SUFFICES ASSUME NEW e \in Dates, e # d PROVE DocRaw(e)'
    BY <1>7
  <2>1. md'[e] = md[e]
    BY <1>1, <1>3
  <2>. QED
    BY <1>6, <2>1, DocRawStays
<1>. QED
  BY <1>3, <1>5, <1>8, SourceFrame

\* A call that ends with its raw file in place leaves it to nobody's care.
LEMMA LeftBehind ==
    ASSUME RawInv, RawInv', NEW p \in Procs, RawGuarantee(p), RawWritten(p),
           ~Ingesting(p)', UNCHANGED files, NEW t, NEW m, NEW d,
           t = proc[p].rcvd, m = proc[p].msg, d = proc[p].date
    PROVE  Whole(d, t)' /\ Derived(d, m)'
<1>1. /\ Ingesting(p) /\ t \in Seconds /\ m \in Messages /\ t <= clock
      /\ clock \in Int /\ clock' \in Int
      /\ files[d][RawPath(t)] = m
  BY DEF RawWritten, Ingesting, RawInv, IInv, ProcOK, RawProcOK, TypeOK, Seconds
<1>2. ASSUME NEW q \in Procs, Ingesting(q)' PROVE proc'[q].rcvd # t
  <2>1. q # p /\ Ingesting(q) /\ proc'[q] = proc[q]
    BY <1>2 DEF RawGuarantee, Ingesting
  <2>. QED
    BY <1>1, <2>1 DEF RawInv, SecondsApart
<1>3. t <= clock'
  BY <1>1 DEF RawGuarantee, Seconds
<1>. QED
  BY <1>1, <1>2, <1>3 DEF Whole, Derived, Settled

LEMMA SourceReturn ==
    ASSUME SourceInv, RawInv', NEW p \in Procs, RawGuarantee(p),
           Crash(p) \/ Commit(p), "unlink" \notin CrashAt
    PROVE  SourceInv'
<1>1. /\ UNCHANGED <<md, files, form>> /\ proc' = [proc EXCEPT ![p] = Idle]
      /\ proc[p].pc # "unlink"
  BY DEF Crash, Commit
<1>2. /\ IInv /\ RawInv /\ proc'[p] = Idle
  BY <1>1 DEF SourceInv, RawInv, IInv, TypeOK
<1>3. ~Ingesting(p)' /\ SaveRaw(p)' /\ \A d \in Dates : ~MayUndo(p, d)'
  BY <1>2 DEF Idle, Ingesting, SaveRaw, MayUndo
<1>4. ASSUME NEW d \in Dates PROVE DocRaw(d)'
  <2>1. CASE ~MayUndo(p, d)
    BY <1>1, <2>1, DocRawStays
  <2>2. CASE MayUndo(p, d)
    <3>1. RawWritten(p) /\ proc[p].date = d
      BY <1>1, <2>2 DEF MayUndo, RawWritten, Holds
    <3>2. \E t, m : /\ t = proc[p].rcvd /\ m = proc[p].msg
                    /\ Whole(d, t)' /\ Derived(d, m)'
      BY <1>1, <1>2, <1>3, <3>1, LeftBehind
    <3>. QED
      BY <1>1, <3>2, DocRawStays
  <2>. QED
    BY <2>1, <2>2
<1>5. ASSUME NEW d \in Dates PROVE index'[d] = index[d] \/ RowRaw(d)'
  <2>1. CASE Crash(p)
    BY <2>1 DEF Crash
  <2>2. CASE Commit(p) /\ d # proc[p].date
    BY <1>2, <2>2 DEF Commit, IInv, TypeOK
  <2>3. CASE Commit(p) /\ d = proc[p].date
    <3>1. /\ index'[d] = RowOf(proc[p].new) /\ md[d] = proc[p].new
          /\ proc[p].new \in Docs /\ Holds(p, d)
      BY <1>2, <2>3 DEF Commit, IInv, TypeOK, ProcOK, Holds
    <3>2. md'[d] # None /\ index'[d].body = md'[d].body
      BY <1>1, <3>1, NoneAssumption DEF RowOf
    <3>3. \A q \in Procs : ~MayUndo(q, d)'
      <4>. SUFFICES ASSUME NEW q \in Procs \ {p} PROVE ~MayUndo(q, d)'
        BY <1>3
      <4>1. ~Holds(q, d) /\ proc'[q] = proc[q]
        BY <1>2, <3>1, SoleHolder DEF RawGuarantee
      <4>. QED
        BY <4>1 DEF MayUndo, Holds
    <3>4. DocRaw(d)'
      BY <1>4
    <3>. QED
      BY <3>2, <3>3, <3>4 DEF DocRaw, RowRaw, Occurs
  <2>. QED
    BY <2>1, <2>2, <2>3
<1>. QED
  BY <1>1, <1>3, <1>4, <1>5, SourceFrame

LEMMA SourceRollback ==
    ASSUME SourceInv, RawInv', NEW p \in Procs, RawGuarantee(p), RollbackEntry(p)
    PROVE  SourceInv'
<1>1. /\ UNCHANGED <<index, form>> /\ proc' = [proc EXCEPT ![p] = Idle]
      /\ md' = [md EXCEPT ![proc[p].date] =
                  IF proc[p].new = None THEN md[proc[p].date] ELSE None]
  BY DEF RollbackEntry, RolledBackDoc
<1>2. /\ IInv /\ RawInv /\ proc'[p] = Idle /\ md \in [Dates -> Docs \cup {None}]
  BY <1>1 DEF SourceInv, RawInv, IInv, TypeOK
<1>3. SaveRaw(p)'
  BY <1>2 DEF Idle, SaveRaw
<1>4. ASSUME NEW d \in Dates PROVE DocRaw(d)'
  <2>1. CASE MayUndo(p, d)
    BY <1>1, <1>2, <2>1 DEF MayUndo, Holds, DocRaw
  <2>2. CASE ~MayUndo(p, d)
    <3>1. proc[p].date = d => proc[p].new = None
      BY <2>2 DEF MayUndo, Holds, RollbackEntry
    <3>2. md'[d] = md[d]
      BY <1>1, <1>2, <3>1
    <3>. QED
      BY <2>2, <3>2, DocRawStays
  <2>. QED
    BY <2>1, <2>2
<1>. QED
  BY <1>1, <1>3, <1>4, SourceFrame

LEMMA SourceForm ==
    ASSUME SourceInv, RawInv', RawGuarantee(App),
           SaveRequest \/ SaveLock \/ SaveFindsNoEntry \/ SaveFails
             \/ \E d \in Dates : OpenForm(d)
    PROVE  SourceInv'
<1>1. /\ App \in Procs /\ IInv /\ RawInv /\ proc[App] \in Locals
      /\ proc \in [Procs -> Locals] /\ SaveRaw(App)
  BY ConstantsAssumption DEF SourceInv, RawInv, IInv, TypeOK
<1>2. /\ UNCHANGED <<md, index>>
      /\ proc[App].pc \in {"idle", "savelock", "savewrite", "savecommit"}
  BY DEF SaveRequest, SaveLock, SaveFindsNoEntry, SaveFails, OpenForm
<1>3. \A d \in Dates : ~MayUndo(App, d)
  BY <1>2 DEF MayUndo
<1>4. CASE \E d \in Dates : OpenForm(d)
  <2>1. PICK d \in Dates : OpenForm(d)
    BY <1>4
  <2>2. /\ form' = [date |-> d, body |-> index[d].body, mood |-> index[d].mood,
                    tags |-> index[d].tags]
        /\ UNCHANGED proc /\ proc[App].pc = "idle" /\ index[d] # None
    BY <2>1 DEF OpenForm
  <2>3. \A m \in Messages : Occurs(m, index[d].body) => Derived(d, m)'
    BY <1>1, <2>2, DerivedStays DEF SourceInv, RowRaw
  <2>4. form'.date = d /\ form'.body = index[d].body
    BY <2>2
  <2>5. FormRaw'
    BY <2>3, <2>4 DEF FormRaw, Derived, Occurs
  <2>6. SaveRaw(App)'
    BY <2>2 DEF SaveRaw
  <2>. QED
    BY <1>1, <1>2, <1>3, <2>5, <2>6, SourceQuiet
<1>5. CASE SaveRequest
  <2>. DEFINE asked == [Idle EXCEPT !.pc = "savelock", !.date = form.date]
  <2>1. proc' = [proc EXCEPT ![App] = asked] /\ asked.pc = "savelock" /\ form' = form
    BY <1>5 DEF SaveRequest, Idle
  <2>. HIDE DEF asked
  <2>2. SaveRaw(App)'
    BY <1>1, <2>1 DEF SaveRaw
  <2>. QED
    BY <1>1, <1>2, <1>3, <2>1, <2>2, SourceQuiet
<1>6. CASE SaveFindsNoEntry \/ SaveFails
  <2>1. proc' = [proc EXCEPT ![App] = Idle] /\ form' = None
    BY <1>6 DEF SaveFindsNoEntry, SaveFails
  <2>2. SaveRaw(App)' /\ FormRaw'
    BY <1>1, <2>1 DEF SaveRaw, FormRaw, Idle
  <2>. QED
    BY <1>1, <1>2, <1>3, <2>1, <2>2, SourceQuiet
<1>7. CASE SaveLock
  <2>1. PICK d \in Dates, old \in Docs, f \in Forms :
          d = proc[App].date /\ old = md[d] /\ f = form /\ f.date = d
    BY <1>1, <1>7 DEF SaveLock, IInv, TypeOK, ProcOK
  <2>2. PICK t \in Now, tags \in SUBSET Tags :
          proc' = [proc EXCEPT ![App].pc = "savewrite", ![App].old = old,
                               ![App].new = ApplyForm(f, old, tags, t)]
    BY <1>7, <2>1 DEF SaveLock
  <2>. DEFINE doc == ApplyForm(f, old, tags, t)
  <2>3. doc.sources = old.sources /\ doc.body = Append(f.body, Edited)
    BY <2>1 DEF ApplyForm, Docs
  <2>. HIDE DEF doc
  <2>4. /\ proc'[App].pc = "savewrite" /\ proc'[App].old = old
        /\ proc'[App].new = doc /\ proc'[App].date = d /\ form' = form
    BY <1>1, <1>7, <2>1, <2>2 DEF Locals, doc, SaveLock
  <2>5. ASSUME NEW m \in Messages, Occurs(m, doc.body) PROVE Derived(d, m)'
    <3>1. f.body \in Seq(Sections) /\ Edited \in Sections /\ m # Edited
      BY NoneAssumption DEF Forms, Sections
    <3>2. Occurs(m, f.body)
      BY <2>3, <2>5, <3>1, OccursInAppend
    <3>3. Derived(d, m)
      BY <2>1, <3>2, NoneAssumption DEF SourceInv, FormRaw
    <3>. QED
      BY <1>1, <3>3, DerivedStays
  <2>6. SaveRaw(App)'
    BY <2>3, <2>4, <2>5 DEF SaveRaw, Derived, Occurs
  <2>. QED
    BY <1>1, <1>2, <1>3, <2>4, <2>6, SourceQuiet
<1>. QED
  BY <1>4, <1>5, <1>6, <1>7

LEMMA SourceSave ==
    ASSUME SourceInv, RawInv', RawGuarantee(App), SaveWrite \/ SaveCommit
    PROVE  SourceInv'
<1>1. /\ App \in Procs /\ IInv /\ RawInv /\ proc[App] \in Locals
      /\ proc \in [Procs -> Locals] /\ SaveRaw(App)
      /\ md \in [Dates -> Docs \cup {None}] /\ index \in [Dates -> Rows \cup {None}]
      /\ proc[App].pc \in {"savewrite", "savecommit"}
  BY ConstantsAssumption DEF SourceInv, RawInv, IInv, TypeOK, SaveWrite, SaveCommit
<1>2. PICK d \in Dates, doc \in Docs :
        d = proc[App].date /\ doc = proc[App].new /\ Holds(App, d)
  BY <1>1 DEF IInv, ProcOK, Holds
<1>3. \A e \in Dates : ~MayUndo(App, e)
  BY <1>1 DEF MayUndo
<1>4. \A m \in Messages : Occurs(m, doc.body) => Derived(d, m)'
  BY <1>1, <1>2, DerivedStays DEF SaveRaw
<1>5. CASE SaveWrite
  <2>1. /\ UNCHANGED <<index, form>> /\ md' = [md EXCEPT ![d] = doc]
        /\ proc' = [proc EXCEPT ![App].pc = "savecommit"]
        /\ proc[App].pc = "savewrite"
    BY <1>2, <1>5 DEF SaveWrite
  <2>2. /\ proc'[App].pc = "savecommit" /\ proc'[App].new = doc
        /\ proc'[App].date = d
    BY <1>1, <1>2, <2>1 DEF Locals
  <2>3. md[d] \in Docs /\ doc.sources = md[d].sources
    BY <1>1, <1>2, <2>1 DEF SaveRaw, IInv, ProcOK
  <2>4. \A i \in 1..Len(doc.sources) : Whole(d, doc.sources[i])'
    <3>1. \A i \in 1..Len(doc.sources) : doc.sources[i] \in Seconds
      BY <1>2 DEF Docs
    <3>2. \A i \in 1..Len(doc.sources) : Whole(d, doc.sources[i])
      BY <1>1, <1>2, <1>3, <2>3, HeldIsWhole, NoneAssumption
    <3>. QED
      BY <1>1, <3>1, <3>2, DerivedStays
  <2>5. DocRaw(d)'
    <3>1. md'[d] = doc
      BY <1>1, <2>1
    <3>. QED
      BY <1>4, <2>4, <3>1 DEF DocRaw, Whole, Occurs
  <2>6. \A e \in Dates : DocRaw(e)'
    <3>. SUFFICES ASSUME NEW e \in Dates, e # d PROVE DocRaw(e)'
      BY <2>5
    <3>1. md'[e] = md[e]
      BY <1>1, <2>1
    <3>. QED
      BY <1>1, <1>3, <3>1, DocRawStays
  <2>7. SaveRaw(App)'
    BY <1>4, <2>2 DEF SaveRaw, Derived, Occurs
  <2>. QED
    BY <1>1, <2>1, <2>6, <2>7, SourceFrame
<1>6. CASE SaveCommit
  <2>1. /\ UNCHANGED md /\ form' = None /\ proc' = [proc EXCEPT ![App] = Idle]
        /\ index' = [index EXCEPT ![d] = SavedRow(doc, index[d])]
    BY <1>2, <1>6 DEF SaveCommit
  <2>2. SaveRaw(App)' /\ FormRaw'
    BY <1>1, <2>1 DEF SaveRaw, FormRaw, Idle
  <2>3. SavedRow(doc, index[d]).body = doc.body
    BY DEF SavedRow, RowOf
  <2>4. \A e \in Dates : index'[e] = index[e] \/ RowRaw(e)'
    <3>1. index'[d].body = doc.body
      BY <1>1, <2>1, <2>3
    <3>2. RowRaw(d)'
      BY <1>4, <3>1 DEF RowRaw, Derived, Occurs
    <3>. QED
      BY <1>1, <2>1, <3>2
  <2>5. \A e \in Dates : DocRaw(e)'
    BY <1>1, <1>3, <2>1, DocRawStays
  <2>. QED
    BY <1>1, <2>2, <2>4, <2>5, SourceFrame
<1>. QED
  BY <1>5, <1>6

LEMMA SourceInit == Init => SourceInv
BY RawInit DEF Init, SourceInv, FormRaw, DocRaw, RowRaw, SaveRaw, Idle

LEMMA SourceNext ==
    ~SameSecond /\ "unlink" \notin CrashAt /\ SourceInv /\ [Next]_vars => SourceInv'
<1>. SUFFICES ASSUME ~SameSecond, "unlink" \notin CrashAt, SourceInv, [Next]_vars
              PROVE  SourceInv'
  OBVIOUS
<1>1. RawInv /\ RawInv' /\ IInv' /\ App \in Procs
  BY RawNext, ConstantsAssumption DEF SourceInv, RawInv
<1>2. ASSUME NEW p \in Procs, NEW m \in Messages, Start(p, m) PROVE SourceInv'
  BY <1>1, <1>2, RawStart, SourceStart
<1>3. ASSUME NEW p \in Procs, IngestStep(p) \/ Crash(p) PROVE SourceInv'
  <2>1. RawGuarantee(p)
    BY <1>1, <1>3, RawSameFiles, RawWriteRaw, RawWriteMedia, RawRollback, RawReturn,
       RawCommit DEF IngestStep
  <2>. QED
    BY <1>1, <1>3, <2>1, SourceCarriedOn, SourceWriteEntry, SourceReturn,
       SourceRollback DEF IngestStep
<1>4. CASE SaveRequest \/ SaveStep \/ \E d \in Dates : OpenForm(d)
  <2>1. RawGuarantee(App)
    BY <1>1, <1>4, RawSave
  <2>. QED
    BY <1>1, <1>4, <2>1, SourceForm, SourceSave DEF SaveStep
<1>5. CASE UNCHANGED vars
  BY <1>1, <1>5 DEF vars, SourceInv, FormRaw, DocRaw, RowRaw, SaveRaw, Whole, Derived,
     Settled, Ingesting, MayUndo, Holds
<1>. QED
  BY <1>2, <1>3, <1>4, <1>5 DEF Next

\* A day nobody works on has nothing to undo.
LEMMA FreeIsWhole ==
    ASSUME SourceInv, NEW d \in Dates, lock[d] = None
    PROVE  \A p \in Procs : ~MayUndo(p, d)
BY NoneAssumption DEF SourceInv, RawInv, IInv, ProcOK, MayUndo, Holds

\* Every source an entry.md lists has its whole raw file on disk, whatever
\* fails and wherever a process dies but between the two halves of a rollback.
THEOREM SourcesKeepTheirRawFile ==
    ASSUME ~SameSecond, "unlink" \notin CrashAt
    PROVE  Spec => []EverySourceOnDisk
<1>1. SourceInv => EverySourceOnDisk
  BY FreeIsWhole DEF SourceInv, DocRaw, Whole, EverySourceOnDisk
<1>2. SourceInv /\ [Next]_vars => SourceInv'
  BY SourceNext
<1>. QED
  BY <1>1, <1>2, SourceInit, PTL DEF Spec

\* Every reply's text in an entry.md or in the index can be derived again from
\* a raw file of that day, under the same conditions: edits, crashes and
\* failed transactions lose no original.
THEOREM TextCanBeDerivedAgain ==
    ASSUME ~SameSecond, "unlink" \notin CrashAt
    PROVE  Spec => []TextHasRawFile
<1>1. SourceInv => TextHasRawFile
  <2>. SUFFICES ASSUME SourceInv, NEW d \in Dates, NEW m \in Messages, lock[d] = None,
                       InBody(m, md[d]) \/ InBody(m, index[d])
                PROVE  \E t \in Seconds : files[d][RawPath(t)] = m
    BY DEF TextHasRawFile
  <2>1. CASE InBody(m, md[d])
    <3>1. md[d] # None /\ Occurs(m, md[d].body)
      BY <2>1 DEF InBody, BodyOf, Occurs
    <3>. QED
      BY <3>1, FreeIsWhole DEF SourceInv, DocRaw, Derived
  <2>2. CASE InBody(m, index[d])
    <3>1. index[d] # None /\ Occurs(m, index[d].body)
      BY <2>2 DEF InBody, BodyOf, Occurs
    <3>. QED
      BY <3>1 DEF SourceInv, RowRaw, Derived
  <2>. QED
    BY <2>1, <2>2
<1>2. SourceInv /\ [Next]_vars => SourceInv'
  BY SourceNext
<1>. QED
  BY <1>1, <1>2, SourceInit, PTL DEF Spec

-----------------------------------------------------------------------------
(* No raw file without a record, when no process dies between the writing  *)
(* of its raw file and its return; transactions and disk writes may fail.  *)

\* p has written the raw file of m and will record or unlink it.
Writing(p, d, t, m) ==
    /\ Holds(p, d) /\ proc[p].rcvd = t /\ proc[p].msg = m
    /\ proc[p].pc \in {"media", "write", "commit", "rollback"}
    /\ RawPath(t) \in proc[p].made

Traced(d, t, m) ==
    files[d][RawPath(t)] = m =>
      \/ ingested[m] = [date |-> d, eml |-> t]
      \/ \E p \in Procs : Writing(p, d, t, m)

TraceInv ==
    /\ RawInv
    /\ \A d \in Dates, t \in Seconds, m \in Messages : Traced(d, t, m)

NoLateDeath == CrashAt \cap {"media", "write", "commit", "rollback"} = {}

\* A raw file that a step of p does not make keeps its explanation, if what p
\* was writing keeps one.
LEMMA TracedStays ==
    ASSUME TraceInv, NEW p \in Procs, RawGuarantee(p),
           NEW d \in Dates, NEW t \in Seconds, NEW m \in Messages,
           ingested[m] # None => ingested'[m] = ingested[m],
           files'[d][RawPath(t)] = m => files[d][RawPath(t)] = m,
           Writing(p, d, t, m) => Traced(d, t, m)'
    PROVE  Traced(d, t, m)'
<1>. SUFFICES ASSUME files'[d][RawPath(t)] = m PROVE Traced(d, t, m)'
  BY DEF Traced
<1>1. files[d][RawPath(t)] = m /\ Traced(d, t, m)
  BY DEF TraceInv
<1>2. CASE ingested[m] = [date |-> d, eml |-> t]
  BY <1>2, NoneAssumption DEF Traced
<1>3. ASSUME NEW q \in Procs, Writing(q, d, t, m) PROVE Traced(d, t, m)'
  <2>. SUFFICES ASSUME q # p PROVE Traced(d, t, m)'
    BY <1>3
  <2>1. proc'[q] = proc[q]
    BY DEF RawGuarantee
  <2>2. Writing(q, d, t, m)'
    BY <1>3, <2>1 DEF Writing, Holds
  <2>. QED
    BY <2>2 DEF Traced
<1>. QED
  BY <1>1, <1>2, <1>3 DEF Traced

LEMMA TraceCarriedOn ==
    ASSUME TraceInv, RawInv', NEW p \in Procs, RawGuarantee(p),
           Lock(p) \/ WriteRaw(p) \/ WriteRawFails(p) \/ WriteMedia(p)
             \/ WriteMediaFails(p) \/ WriteEntry(p) \/ WriteEntryFails(p)
             \/ CommitFails(p) \/ RollbackFiles(p)
    PROVE  TraceInv'
<1>. DEFINE c == proc[p]
<1>1. /\ IInv /\ RawInv /\ RawProcOK(p) /\ c \in Locals /\ proc \in [Procs -> Locals]
      /\ files \in [Dates -> [Paths -> Messages \cup {Torn, None}]]
  BY DEF TraceInv, RawInv, IInv, TypeOK
<1>2. CarriesOn(p) /\ Ingesting(p)
  BY <1>1, CarriedOn DEF CarriesOn
<1>3. PICK d \in Dates, t \in Seconds, n \in Messages :
        d = c.date /\ t = c.rcvd /\ n = c.msg
  BY <1>1, <1>2 DEF Ingesting, IInv, ProcOK
<1>4. SUFFICES ASSUME NEW e \in Dates, NEW u \in Seconds, NEW m \in Messages
               PROVE  Traced(e, u, m)'
  BY DEF TraceInv
<1>5. ingested' = ingested /\ m # Torn /\ m # None
  BY <1>2, NoneAssumption DEF CarriesOn
<1>6. CASE ~(e = d /\ u = t)
  <2>1. ~Owns(p, e, u) /\ ~Writing(p, e, u, m)
    BY <1>3, <1>6 DEF Owns, Writing, Holds
  <2>. QED
    BY <1>5, <2>1, TracedStays DEF RawGuarantee
<1>7. ASSUME e = d, u = t, Lock(p) PROVE Traced(e, u, m)'
  <2>1. UNCHANGED files /\ ~Writing(p, e, u, m)
    BY <1>7 DEF Lock, Writing
  <2>. QED
    BY <1>5, <2>1, TracedStays
<1>8. ASSUME e = d, u = t, WriteRaw(p) PROVE Traced(e, u, m)'
  <2>1. files' = [files EXCEPT ![d] = PutFiles(files[d], {RawPath(t)}, n)]
    BY <1>3, <1>8 DEF WriteRaw
  <2>2. files'[d][RawPath(t)] = n
    BY <1>1, <2>1, PutAt
  <2>3. proc'[p].pc = "media" /\ RawPath(t) \in proc'[p].made
    BY <1>1, <1>3, <1>8 DEF WriteRaw, Locals
  <2>4. Writing(p, d, t, n)'
    BY <1>2, <1>3, <2>3 DEF Writing, Holds, CarriesOn
  <2>. QED
    BY <1>8, <2>2, <2>4 DEF Traced
<1>9. ASSUME e = d, u = t, WriteRawFails(p) PROVE Traced(e, u, m)'
  <2>1. PICK cut \in SUBSET {RawPath(t)} :
          files' = [files EXCEPT ![d] = PutFiles(files[d], cut, Torn)]
    BY <1>3, <1>9 DEF WriteRawFails
  <2>2. files'[d][RawPath(t)] \in {Torn, files[d][RawPath(t)]}
    BY <1>1, <2>1, PutAt
  <2>3. ~Writing(p, e, u, m)
    BY <1>9 DEF WriteRawFails, Writing
  <2>. QED
    BY <1>5, <1>9, <2>2, <2>3, TracedStays
\* Between its first write and its rollback p goes on writing the same file.
<1>10. ASSUME e = d, u = t,
              WriteMedia(p) \/ WriteMediaFails(p) \/ WriteEntry(p)
                \/ WriteEntryFails(p) \/ CommitFails(p)
       PROVE  Traced(e, u, m)'
  <2>1. CASE WriteMedia(p) \/ WriteMediaFails(p)
    <3>1. c.made \subseteq proc'[p].made
      <4>1. \E pc, made : proc' = [proc EXCEPT ![p].pc = pc, ![p].made = @ \cup made]
        BY <2>1 DEF WriteMedia, WriteMediaFails
      <4>. QED
        BY <1>1, <4>1 DEF Locals
    <3>2. /\ files'[e][RawPath(u)] = files[e][RawPath(u)]
          /\ proc'[p].pc \in {"write", "rollback"}
      BY <1>1, <2>1, MediaLeaveRaw
    <3>3. Writing(p, e, u, m) => Writing(p, e, u, m)'
      BY <1>2, <3>1, <3>2 DEF Writing, Holds, CarriesOn
    <3>4. Writing(p, e, u, m) => Traced(e, u, m)'
      BY <3>3 DEF Traced
    <3>. QED
      BY <1>5, <3>2, <3>4, TracedStays
  <2>2. CASE WriteEntry(p) \/ WriteEntryFails(p) \/ CommitFails(p)
    <3>1. /\ UNCHANGED files /\ proc'[p].made = c.made
          /\ proc'[p].pc \in {"commit", "rollback"}
      BY <1>1, <2>2 DEF WriteEntry, WriteEntryFails, CommitFails, Locals
    <3>2. Writing(p, e, u, m) => Writing(p, e, u, m)'
      BY <1>2, <3>1 DEF Writing, Holds, CarriesOn
    <3>3. Writing(p, e, u, m) => Traced(e, u, m)'
      BY <3>2 DEF Traced
    <3>. QED
      BY <1>5, <3>1, <3>3, TracedStays
  <2>. QED
    BY <1>10, <2>1, <2>2
<1>11. ASSUME e = d, u = t, RollbackFiles(p) PROVE Traced(e, u, m)'
  <2>1. files' = [files EXCEPT ![d] = PutFiles(files[d], c.made, None)]
    BY <1>3, <1>11 DEF RollbackFiles, RolledBackFiles
  <2>2. files'[d][RawPath(t)] = IF RawPath(t) \in c.made THEN None
                               ELSE files[d][RawPath(t)]
    BY <1>1, <2>1, PutAt
  <2>3. Writing(p, e, u, m) => Traced(e, u, m)'
    BY <1>5, <1>11, <2>2 DEF Writing, Traced
  <2>. QED
    BY <1>5, <1>11, <2>2, <2>3, TracedStays
<1>. QED
  BY <1>6, <1>7, <1>8, <1>9, <1>10, <1>11

LEMMA TraceCommit ==
    ASSUME TraceInv, RawInv', NEW p \in Procs, RawGuarantee(p), Commit(p)
    PROVE  TraceInv'
<1>1. /\ IInv /\ UNCHANGED files /\ ingested[proc[p].msg] = None
      /\ proc[p].pc = "commit" /\ proc[p].msg \in Messages
      /\ ingested' = [ingested EXCEPT ![proc[p].msg] =
                         [date |-> proc[p].date, eml |-> proc[p].rcvd]]
  BY DEF TraceInv, RawInv, IInv, ProcOK, Commit, AlreadyRecorded
<1>2. SUFFICES ASSUME NEW d \in Dates, NEW t \in Seconds, NEW m \in Messages
               PROVE  Traced(d, t, m)'
  BY DEF TraceInv
<1>3. ingested[m] # None => ingested'[m] = ingested[m]
  BY <1>1 DEF IInv, TypeOK
<1>4. Writing(p, d, t, m) => Traced(d, t, m)'
  <2>1. Writing(p, d, t, m) => ingested'[m] = [date |-> d, eml |-> t]
    BY <1>1 DEF Writing, Holds, IInv, TypeOK
  <2>. QED
    BY <2>1 DEF Traced
<1>. QED
  BY <1>1, <1>3, <1>4, TracedStays

\* Steps of a process that writes no raw file and makes no record.
LEMMA TraceOthers ==
    ASSUME TraceInv, RawInv', NEW p \in Procs, RawGuarantee(p),
           UNCHANGED <<files, ingested>>,
           proc[p].pc \notin {"media", "write", "commit", "rollback"}
    PROVE  TraceInv'
<1>1. \A d \in Dates, t \in Seconds, m \in Messages : ~Writing(p, d, t, m)
  BY DEF Writing
<1>. QED
  BY <1>1, TracedStays DEF TraceInv

LEMMA TraceNext ==
    ~SameSecond /\ NoLateDeath /\ TraceInv /\ [Next]_vars => TraceInv'
<1>. SUFFICES ASSUME ~SameSecond, NoLateDeath, TraceInv, [Next]_vars
              PROVE  TraceInv'
  OBVIOUS
<1>1. RawInv /\ RawInv' /\ IInv' /\ App \in Procs
  BY RawNext, ConstantsAssumption DEF TraceInv, RawInv
<1>2. ASSUME NEW p \in Procs, NEW m \in Messages, Start(p, m) PROVE TraceInv'
  BY <1>1, <1>2, RawStart, TraceOthers DEF Start
<1>3. ASSUME NEW p \in Procs, IngestStep(p) PROVE TraceInv'
  <2>1. RawGuarantee(p)
    BY <1>1, <1>3, RawSameFiles, RawWriteRaw, RawWriteMedia, RawRollback, RawReturn,
       RawCommit DEF IngestStep
  <2>2. CASE RollbackEntry(p)
    BY <1>1, <2>1, <2>2, TraceOthers DEF RollbackEntry
  <2>. QED
    BY <1>1, <1>3, <2>1, <2>2, TraceCarriedOn, TraceCommit DEF IngestStep
<1>4. ASSUME NEW p \in Procs, Crash(p) PROVE TraceInv'
  <2>1. /\ UNCHANGED <<files, ingested>>
        /\ proc[p].pc \notin {"media", "write", "commit", "rollback"}
    BY <1>4 DEF Crash, NoLateDeath
  <2>. QED
    BY <1>1, <1>4, <2>1, RawReturn, TraceOthers
<1>5. CASE SaveRequest \/ SaveStep \/ \E d \in Dates : OpenForm(d)
  <2>1. /\ UNCHANGED <<files, ingested>>
        /\ proc[App].pc \notin {"media", "write", "commit", "rollback"}
    BY <1>5 DEF SaveRequest, SaveStep, OpenForm, SaveLock, SaveFindsNoEntry,
       SaveWrite, SaveCommit, SaveFails
  <2>. QED
    BY <1>1, <1>5, <2>1, RawSave, TraceOthers
<1>6. CASE UNCHANGED vars
  BY <1>1, <1>6 DEF vars, TraceInv, Traced, Writing, Holds
<1>. QED
  BY <1>2, <1>3, <1>4, <1>5, <1>6 DEF Next

\* Whenever nobody works on a day, its whole raw files are those of the replies
\* recorded under it, one each: whatever fails, as long as no process dies with
\* its raw file written and not yet recorded or unlinked.
THEOREM NoOrphanedRawFile ==
    ASSUME ~SameSecond, NoLateDeath
    PROVE  Spec => []RawFilesAreTheRecordedOnes
<1>1. TraceInv => RawFilesAreTheRecordedOnes
  <2>. SUFFICES ASSUME TraceInv, NEW d \in Dates, lock[d] = None, NEW t \in Seconds,
                       NEW m \in Messages
                PROVE  files[d][RawPath(t)] = m <=> ingested[m] = [date |-> d, eml |-> t]
    BY DEF RawFilesAreTheRecordedOnes
  <2>1. \A p \in Procs : ~Writing(p, d, t, m)
    BY NoneAssumption DEF TraceInv, RawInv, IInv, ProcOK, Writing, Holds
  <2>2. ingested[m] = [date |-> d, eml |-> t] => files[d][RawPath(t)] = m
    BY NoneAssumption DEF TraceInv, RawInv, Kept
  <2>. QED
    BY <2>1, <2>2 DEF TraceInv, Traced
<1>2. Init => TraceInv
  BY RawInit, NoneAssumption DEF Init, TraceInv, Traced, Paths
<1>3. TraceInv /\ [Next]_vars => TraceInv'
  BY TraceNext
<1>. QED
  BY <1>1, <1>2, <1>3, PTL DEF Spec

=============================================================================
