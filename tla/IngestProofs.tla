---------------------------- MODULE IngestProofs ----------------------------
(***************************************************************************)
(* Proofs about Ingest, for every value of its constants.                  *)
(***************************************************************************)
EXTENDS Ingest, TLAPS

\* What holds of the locals of p: their types where its control state needs
\* them; inside the flock of a day p is its holder; until it writes, the
\* document it read is on disk; once it has written, the one it wrote is.
ProcOK(p) ==
    LET c == proc[p] IN
    /\ c.pc \in IngestPCs =>
         c.msg \in Messages /\ c.date \in Dates /\ c.rcvd \in Seconds
    /\ c.pc \in SavePCs =>
         p = App /\ c.date \in Dates /\ form \in Forms /\ form.date = c.date
    /\ c.pc \in {"commit", "savewrite", "savecommit"} => c.new \in Docs
    /\ c.pc \in Holding => lock[c.date] = p
    /\ c.pc \in {"raw", "media", "write", "savewrite"} => c.old = md[c.date]
    /\ c.pc \in {"commit", "savecommit"} => md[c.date] = c.new

\* A form is opened on a day that is in the index, and no row ever goes.
FormOK == form # None => index[form.date] # None

IInv == TypeOK /\ FormOK /\ \A p \in Procs : ProcOK(p)

\* What a step of p may do to what the other processes rely on.
Guarantee(p) ==
    /\ \A q \in Procs \ {p} : proc'[q] = proc[q]
    /\ \A d \in Dates : md'[d] # md[d] => Holds(p, d)
    /\ \A d \in Dates : lock'[d] # lock[d] => lock[d] \in {None, p}
    /\ \A d \in Dates : index[d] # None => index'[d] # None
    /\ p # App => form' = form

Ingesting(p) == proc[p].pc \in IngestPCs

\* What a step of a call that goes on leaves alone.
CarriesOn(p) ==
    /\ Ingesting(p) /\ Ingesting(p)'
    /\ proc'[p].msg = proc[p].msg /\ proc'[p].date = proc[p].date
    /\ proc'[p].rcvd = proc[p].rcvd
    /\ \A q \in Procs \ {p} : proc'[q] = proc[q]
    /\ UNCHANGED <<clock, index, ingested, form>>
    /\ proc'[p].pc = "commit" => WriteEntry(p)

Occurs(m, body) == \E i \in 1..Len(body) : body[i] = m

USE DEF Holding, IngestPCs, SavePCs

-----------------------------------------------------------------------------
(* What the helpers return *)

LEMMA ComposeType ==
    ASSUME NEW m \in Messages, NEW t \in Seconds, NEW old \in Docs \cup {None}
    PROVE  Compose(m, t, old) \in Docs
<1>1. Parsed[m] \in Parses
  BY ConstantsAssumption
<1>2. CASE old = None
  BY <1>1, <1>2 DEF Compose, Docs, Parses, Sections
<1>3. CASE old # None
  <2>1. old \in Docs
    BY <1>3
  <2>2. Append(old.body, m) \in Seq(Sections)
    BY <2>1 DEF Docs, Sections
  <2>3. Append(old.sources, t) \in Seq(Seconds)
    BY <2>1 DEF Docs
  <2>4. old.media \o Parsed[m].media \in Seq(Names)
    BY <1>1, <2>1 DEF Docs, Parses
  <2>5. old.tags \cup Parsed[m].tags \in SUBSET Tags
    BY <1>1, <2>1 DEF Docs, Parses
  <2>. QED
    BY <1>1, <1>3, <2>1, <2>2, <2>3, <2>4, <2>5 DEF Compose, Docs, Parses
<1>. QED
  BY <1>2, <1>3

LEMMA ApplyFormType ==
    ASSUME NEW f \in Forms, NEW old \in Docs, NEW tags \in SUBSET Tags,
           NEW t \in Seconds
    PROVE  ApplyForm(f, old, tags, t) \in Docs
<1>1. Append(f.body, Edited) \in Seq(Sections)
  BY DEF Forms, Sections
<1>. QED
  BY <1>1 DEF ApplyForm, Docs, Forms

LEMMA RowTypes ==
    ASSUME NEW doc \in Docs
    PROVE  /\ RowOf(doc) \in Rows
           /\ \A row \in Rows : SavedRow(doc, row) \in Rows
BY DEF RowOf, SavedRow, Docs, Rows

LEMMA OccursInAppend ==
    ASSUME NEW body \in Seq(Sections), NEW e \in Sections, NEW m,
           Occurs(m, Append(body, e))
    PROVE  m = e \/ Occurs(m, body)
BY DEF Occurs

LEMMA PutFilesType ==
    ASSUME NEW dir \in [Paths -> Messages \cup {Torn, None}], NEW paths,
           NEW content \in Messages \cup {Torn, None}
    PROVE  PutFiles(dir, paths, content) \in [Paths -> Messages \cup {Torn, None}]
BY DEF PutFiles

LEMMA MediaPathsType ==
    ASSUME NEW m \in Messages, NEW n \in 0..Len(Parsed[m].media)
    PROVE  MediaPaths(m, n) \subseteq Paths
<1>1. Parsed[m].media \in Seq(Names)
  BY ConstantsAssumption DEF Parses
<1>2. \A i \in 1..n : Parsed[m].media[i] \in Names
  BY <1>1
<1>. QED
  BY <1>2 DEF MediaPaths, Paths

LEMMA IdleType == Idle \in Locals /\ Idle.pc = "idle"
BY DEF Idle, Locals

-----------------------------------------------------------------------------
(* The invariant is inductive *)

LEMMA InitInv == Init => IInv
<1>1. Init => TypeOK
  BY IdleType DEF Init, TypeOK
<1>. QED
  BY <1>1, NoneAssumption DEF Init, IInv, FormOK, ProcOK, Idle

\* Rely-guarantee: a step that keeps to its guarantee and leaves its own
\* process in order keeps the invariant.
LEMMA Frame ==
    ASSUME IInv, NEW p \in Procs, Guarantee(p), TypeOK', FormOK', ProcOK(p)'
    PROVE  IInv'
<1>1. ASSUME NEW q \in Procs \ {p} PROVE ProcOK(q)'
  <2>. DEFINE c == proc[q]
  <2>1. proc'[q] = c /\ ProcOK(q) /\ c \in Locals
    BY DEF Guarantee, IInv, TypeOK
  <2>2. c.pc \in Holding => lock'[c.date] = q /\ md'[c.date] = md[c.date]
    <3>1. SUFFICES ASSUME c.pc \in Holding
                   PROVE  lock'[c.date] = q /\ md'[c.date] = md[c.date]
      OBVIOUS
    <3>2. c.date \in Dates /\ lock[c.date] = q /\ q # None
      BY <2>1, <3>1, NoneAssumption DEF ProcOK
    <3>3. ~Holds(p, c.date)
      BY <3>2 DEF Holds, IInv, ProcOK
    <3>. QED
      BY <3>2, <3>3 DEF Guarantee
  <2>3. c.pc \in SavePCs => form' = form
    BY <2>1 DEF ProcOK, Guarantee
  <2>. QED
    BY <2>1, <2>2, <2>3 DEF ProcOK
<1>. QED
  BY <1>1 DEF IInv

LEMMA StartInv ==
    ASSUME IInv, NEW p \in Procs, NEW m \in Messages, Start(p, m)
    PROVE  IInv'
<1>1. PICK t \in Now, d \in DatesFor[m] :
        /\ clock' = t
        /\ proc' = [proc EXCEPT ![p] = [Idle EXCEPT !.pc = "lock", !.msg = m,
                                                    !.date = d, !.rcvd = t]]
  BY DEF Start
<1>. DEFINE c == [Idle EXCEPT !.pc = "lock", !.msg = m, !.date = d, !.rcvd = t]
<1>2. t \in Seconds /\ d \in Dates
  BY ConstantsAssumption DEF Now
<1>3. /\ c \in Locals
      /\ c.pc = "lock" /\ c.msg = m /\ c.date = d /\ c.rcvd = t
  BY <1>2 DEF Idle, Locals
<1>4. proc' = [proc EXCEPT ![p] = c] /\ TypeOK /\ p \in DOMAIN proc
  BY <1>1 DEF IInv, TypeOK
<1>. HIDE DEF c
<1>5. TypeOK'
  BY <1>1, <1>2, <1>3, <1>4 DEF TypeOK, Start
<1>6. Guarantee(p) /\ FormOK'
  BY <1>4 DEF Guarantee, IInv, FormOK, Start
<1>7. ProcOK(p)'
  BY <1>2, <1>3, <1>4 DEF ProcOK
<1>. QED
  BY <1>5, <1>6, <1>7, Frame

LEMMA LockInv ==
    ASSUME IInv, NEW p \in Procs, Lock(p)
    PROVE  IInv'
<1>. DEFINE c == [proc[p] EXCEPT !.pc = "raw", !.old = md[proc[p].date]]
<1>1. proc[p] \in Locals /\ p \in DOMAIN proc /\ proc[p].pc = "lock"
  BY DEF IInv, TypeOK, Lock
<1>2. /\ proc[p].msg \in Messages /\ proc[p].date \in Dates
      /\ proc[p].rcvd \in Seconds /\ md[proc[p].date] \in Docs \cup {None}
  BY <1>1 DEF IInv, ProcOK, TypeOK
<1>3. /\ c \in Locals
      /\ c.pc = "raw" /\ c.msg = proc[p].msg /\ c.date = proc[p].date
      /\ c.rcvd = proc[p].rcvd /\ c.old = md[proc[p].date]
  BY <1>1, <1>2 DEF Locals
<1>4. proc' = [proc EXCEPT ![p] = c]
  BY <1>1 DEF Lock, Locals
<1>. HIDE DEF c
<1>5. TypeOK'
  BY <1>2, <1>3, <1>4 DEF IInv, TypeOK, Lock
<1>6. Guarantee(p) /\ FormOK'
  BY <1>1, <1>2, <1>4 DEF Guarantee, IInv, FormOK, Lock, MayEnter, TypeOK
<1>7. ProcOK(p)'
  BY <1>1, <1>2, <1>3, <1>4 DEF ProcOK, Lock, IInv, TypeOK
<1>. QED
  BY <1>5, <1>6, <1>7, Frame

LEMMA WriteRawInv ==
    ASSUME IInv, NEW p \in Procs, WriteRaw(p)
    PROVE  IInv'
<1>. DEFINE raw == RawPath(proc[p].rcvd)
            c == [proc[p] EXCEPT !.pc = "media", !.made = {raw}]
<1>1. proc[p] \in Locals /\ p \in DOMAIN proc /\ proc[p].pc = "raw"
  BY DEF IInv, TypeOK, WriteRaw
<1>2. /\ proc[p].msg \in Messages /\ proc[p].date \in Dates
      /\ proc[p].rcvd \in Seconds /\ raw \in Paths
  BY <1>1 DEF IInv, ProcOK, Paths
<1>3. /\ c \in Locals
      /\ c.pc = "media" /\ c.msg = proc[p].msg /\ c.date = proc[p].date
      /\ c.rcvd = proc[p].rcvd /\ c.old = proc[p].old
  BY <1>1, <1>2 DEF Locals
<1>4. proc' = [proc EXCEPT ![p] = c]
  BY <1>1 DEF WriteRaw, Locals
<1>. HIDE DEF c
<1>5. TypeOK'
  <2>1. PutFiles(files[proc[p].date], {raw}, proc[p].msg)
          \in [Paths -> Messages \cup {Torn, None}]
    BY <1>2, PutFilesType DEF IInv, TypeOK
  <2>. QED
    BY <1>2, <1>3, <1>4, <2>1 DEF IInv, TypeOK, WriteRaw
<1>6. UNCHANGED <<md, lock, index, form>>
  BY DEF WriteRaw
<1>7. Guarantee(p) /\ FormOK'
  BY <1>1, <1>4, <1>6 DEF Guarantee, IInv, FormOK
<1>8. ProcOK(p)'
  BY <1>1, <1>2, <1>3, <1>4, <1>6 DEF ProcOK, IInv
<1>. QED
  BY <1>5, <1>7, <1>8, Frame

LEMMA WriteMediaInv ==
    ASSUME IInv, NEW p \in Procs, WriteMedia(p)
    PROVE  IInv'
<1>. DEFINE paths == MediaPaths(proc[p].msg, Len(Parsed[proc[p].msg].media))
            c == [proc[p] EXCEPT !.pc = "write", !.made = @ \cup paths]
<1>1. proc[p] \in Locals /\ p \in DOMAIN proc /\ proc[p].pc = "media"
  BY DEF IInv, TypeOK, WriteMedia
<1>2. /\ proc[p].msg \in Messages /\ proc[p].date \in Dates
      /\ proc[p].rcvd \in Seconds /\ paths \subseteq Paths
  <2>1. proc[p].msg \in Messages /\ proc[p].date \in Dates /\ proc[p].rcvd \in Seconds
    BY <1>1 DEF IInv, ProcOK
  <2>2. Len(Parsed[proc[p].msg].media) \in Nat
    BY <2>1, ConstantsAssumption DEF Parses
  <2>. QED
    BY <2>1, <2>2, MediaPathsType
<1>3. /\ c \in Locals
      /\ c.pc = "write" /\ c.msg = proc[p].msg /\ c.date = proc[p].date
      /\ c.rcvd = proc[p].rcvd /\ c.old = proc[p].old
  BY <1>1, <1>2 DEF Locals
<1>4. proc' = [proc EXCEPT ![p] = c]
  BY <1>1 DEF WriteMedia, Locals
<1>. HIDE DEF c
<1>5. TypeOK'
  <2>1. PutFiles(files[proc[p].date], paths, proc[p].msg)
          \in [Paths -> Messages \cup {Torn, None}]
    BY <1>2, PutFilesType DEF IInv, TypeOK
  <2>. QED
    BY <1>2, <1>3, <1>4, <2>1 DEF IInv, TypeOK, WriteMedia
<1>6. UNCHANGED <<md, lock, index, form>>
  BY DEF WriteMedia
<1>7. Guarantee(p) /\ FormOK'
  BY <1>1, <1>4, <1>6 DEF Guarantee, IInv, FormOK
<1>8. ProcOK(p)'
  BY <1>1, <1>2, <1>3, <1>4, <1>6 DEF ProcOK, IInv
<1>. QED
  BY <1>5, <1>7, <1>8, Frame

LEMMA WriteRawFailsInv ==
    ASSUME IInv, NEW p \in Procs, WriteRawFails(p)
    PROVE  IInv'
<1>. DEFINE c == [proc[p] EXCEPT !.pc = "rollback"]
<1>1. /\ proc[p] \in Locals /\ p \in DOMAIN proc /\ proc[p].pc = "raw"
      /\ proc[p].date \in Dates
  BY DEF IInv, TypeOK, WriteRawFails, ProcOK
<1>2. /\ c \in Locals
      /\ c.pc = "rollback" /\ c.msg = proc[p].msg /\ c.date = proc[p].date
      /\ c.rcvd = proc[p].rcvd
  BY <1>1 DEF Locals
<1>3. proc' = [proc EXCEPT ![p] = c]
  BY <1>1 DEF WriteRawFails, Locals
<1>. HIDE DEF c
<1>4. UNCHANGED <<clock, md, lock, index, ingested, form>>
  BY DEF WriteRawFails
<1>5. files' \in [Dates -> [Paths -> Messages \cup {Torn, None}]]
  <2>1. PICK cut \in SUBSET {RawPath(proc[p].rcvd)} :
          files' = [files EXCEPT ![proc[p].date] = PutFiles(@, cut, Torn)]
    BY DEF WriteRawFails
  <2>. DEFINE dir == PutFiles(files[proc[p].date], cut, Torn)
  <2>2. dir \in [Paths -> Messages \cup {Torn, None}]
    BY <1>1, PutFilesType DEF IInv, TypeOK
  <2>3. files' = [files EXCEPT ![proc[p].date] = dir]
    BY <2>1
  <2>. HIDE DEF dir
  <2>. QED
    BY <1>1, <2>2, <2>3 DEF IInv, TypeOK
<1>6. TypeOK'
  BY <1>2, <1>3, <1>4, <1>5 DEF IInv, TypeOK
<1>7. Guarantee(p) /\ FormOK'
  BY <1>1, <1>3, <1>4 DEF Guarantee, IInv, FormOK
<1>8. ProcOK(p)'
  BY <1>1, <1>2, <1>3, <1>4 DEF ProcOK, IInv
<1>. QED
  BY <1>6, <1>7, <1>8, Frame

LEMMA WriteMediaFailsInv ==
    ASSUME IInv, NEW p \in Procs, WriteMediaFails(p)
    PROVE  IInv'
<1>. DEFINE media == Parsed[proc[p].msg].media
            done(n) == MediaPaths(proc[p].msg, n - 1)
            dir(n) == PutFiles(files[proc[p].date], done(n), proc[p].msg)
<1>1. /\ proc[p] \in Locals /\ p \in DOMAIN proc /\ proc[p].pc = "media"
      /\ proc[p].msg \in Messages /\ proc[p].date \in Dates
  BY DEF IInv, TypeOK, WriteMediaFails, ProcOK
<1>2. PICK n \in 1..Len(media) :
        /\ \E cut \in SUBSET {OriginalPath(media[n])} :
             files' = [files EXCEPT ![proc[p].date] = PutFiles(dir(n), cut, Torn)]
        /\ proc' = [proc EXCEPT ![p].pc = "rollback", ![p].made = @ \cup done(n)]
  BY DEF WriteMediaFails
<1>. DEFINE c == [proc[p] EXCEPT !.pc = "rollback", !.made = @ \cup done(n)]
<1>3. done(n) \subseteq Paths
  <2>1. media \in Seq(Names)
    BY <1>1, ConstantsAssumption DEF Parses
  <2>2. n - 1 \in 0..Len(media)
    BY <2>1
  <2>. QED
    BY <1>1, <2>2, MediaPathsType
<1>4. /\ c \in Locals
      /\ c.pc = "rollback" /\ c.msg = proc[p].msg /\ c.date = proc[p].date
      /\ c.rcvd = proc[p].rcvd
  BY <1>1, <1>3 DEF Locals
<1>5. proc' = [proc EXCEPT ![p] = c]
  BY <1>1, <1>2 DEF Locals
<1>6. UNCHANGED <<clock, md, lock, index, ingested, form>>
  BY DEF WriteMediaFails
<1>7. files' \in [Dates -> [Paths -> Messages \cup {Torn, None}]]
  <2>1. dir(n) \in [Paths -> Messages \cup {Torn, None}]
    BY <1>1, PutFilesType DEF IInv, TypeOK
  <2>2. PICK cut :
          files' = [files EXCEPT ![proc[p].date] = PutFiles(dir(n), cut, Torn)]
    BY <1>2
  <2>3. PutFiles(dir(n), cut, Torn) \in [Paths -> Messages \cup {Torn, None}]
    BY <2>1, PutFilesType
  <2>. HIDE DEF dir
  <2>. QED
    BY <1>1, <2>2, <2>3 DEF IInv, TypeOK
<1>. HIDE DEF c, done
<1>8. TypeOK'
  BY <1>4, <1>5, <1>6, <1>7 DEF IInv, TypeOK
<1>9. Guarantee(p) /\ FormOK'
  BY <1>1, <1>5, <1>6 DEF Guarantee, IInv, FormOK
<1>10. ProcOK(p)'
  BY <1>1, <1>4, <1>5, <1>6 DEF ProcOK, IInv
<1>. QED
  BY <1>8, <1>9, <1>10, Frame

LEMMA FailBeforeOrInCommitInv ==
    ASSUME IInv, NEW p \in Procs, WriteEntryFails(p) \/ CommitFails(p)
    PROVE  IInv'
<1>. DEFINE c == [proc[p] EXCEPT !.pc = "rollback"]
<1>1. /\ proc[p] \in Locals /\ p \in DOMAIN proc
      /\ proc[p].pc \in {"write", "commit"}
  BY DEF IInv, TypeOK, WriteEntryFails, CommitFails
<1>2. /\ c \in Locals
      /\ c.pc = "rollback" /\ c.msg = proc[p].msg /\ c.date = proc[p].date
      /\ c.rcvd = proc[p].rcvd
  BY <1>1 DEF Locals
<1>3. proc' = [proc EXCEPT ![p] = c]
  BY <1>1 DEF WriteEntryFails, CommitFails, Locals
<1>. HIDE DEF c
<1>4. UNCHANGED <<clock, md, files, lock, index, ingested, form>>
  BY DEF WriteEntryFails, CommitFails
<1>5. TypeOK'
  BY <1>2, <1>3, <1>4 DEF IInv, TypeOK
<1>6. Guarantee(p) /\ FormOK'
  BY <1>1, <1>3, <1>4 DEF Guarantee, IInv, FormOK
<1>7. ProcOK(p)'
  BY <1>1, <1>2, <1>3, <1>4 DEF ProcOK, IInv
<1>. QED
  BY <1>5, <1>6, <1>7, Frame

LEMMA WriteEntryInv ==
    ASSUME IInv, NEW p \in Procs, WriteEntry(p)
    PROVE  IInv'
<1>. DEFINE doc == Compose(proc[p].msg, proc[p].rcvd, proc[p].old)
            c == [proc[p] EXCEPT !.pc = "commit", !.new = doc]
<1>1. /\ proc[p] \in Locals /\ p \in DOMAIN proc /\ proc[p].pc = "write"
      /\ proc[p].msg \in Messages /\ proc[p].date \in Dates
      /\ proc[p].rcvd \in Seconds /\ lock[proc[p].date] = p
  BY DEF IInv, TypeOK, WriteEntry, ProcOK
<1>2. doc \in Docs
  BY <1>1, ComposeType DEF Locals
<1>. HIDE DEF doc
<1>3. /\ c \in Locals
      /\ c.pc = "commit" /\ c.msg = proc[p].msg /\ c.date = proc[p].date
      /\ c.rcvd = proc[p].rcvd /\ c.new = doc
  BY <1>1, <1>2 DEF Locals
<1>4. proc' = [proc EXCEPT ![p] = c]
  BY <1>1 DEF WriteEntry, Locals, doc
<1>. HIDE DEF c
<1>5. /\ UNCHANGED <<clock, files, lock, index, ingested, form>>
      /\ md' = [md EXCEPT ![proc[p].date] = doc]
  BY DEF WriteEntry, doc
<1>6. TypeOK'
  BY <1>1, <1>2, <1>3, <1>4, <1>5 DEF IInv, TypeOK
<1>7. Guarantee(p) /\ FormOK'
  BY <1>1, <1>4, <1>5 DEF Guarantee, IInv, FormOK, Holds
<1>8. ProcOK(p)'
  BY <1>1, <1>2, <1>3, <1>4, <1>5 DEF ProcOK, IInv, TypeOK
<1>. QED
  BY <1>6, <1>7, <1>8, Frame

\* What a call that returns does to the flocks and to its locals.
LEMMA ReturnFacts ==
    ASSUME IInv, NEW p \in Procs, lock' = Release(p),
           proc' = [proc EXCEPT ![p] = Idle]
    PROVE  /\ lock' \in [Dates -> Procs \cup {None}]
           /\ proc' \in [Procs -> Locals]
           /\ \A q \in Procs \ {p} : proc'[q] = proc[q]
           /\ \A d \in Dates : lock'[d] # lock[d] => lock[d] \in {None, p}
           /\ ProcOK(p)'
<1>1. proc'[p] = Idle /\ p \in DOMAIN proc
  BY DEF IInv, TypeOK
<1>2. ProcOK(p)'
  BY <1>1, IdleType DEF ProcOK
<1>3. /\ lock' \in [Dates -> Procs \cup {None}]
      /\ \A d \in Dates : lock'[d] # lock[d] => lock[d] \in {None, p}
  BY DEF IInv, TypeOK, ProcOK, Release
<1>4. /\ proc' \in [Procs -> Locals]
      /\ \A q \in Procs \ {p} : proc'[q] = proc[q]
  BY IdleType DEF IInv, TypeOK
<1>. QED
  BY <1>2, <1>3, <1>4

LEMMA CommitInv ==
    ASSUME IInv, NEW p \in Procs, Commit(p)
    PROVE  IInv'
<1>. DEFINE c == proc[p]
<1>1. /\ c \in Locals /\ c.pc = "commit" /\ c.msg \in Messages
      /\ c.date \in Dates /\ c.rcvd \in Seconds /\ RowOf(c.new) \in Rows
  BY RowTypes DEF IInv, TypeOK, Commit, ProcOK
<1>2. lock' = Release(p) /\ proc' = [proc EXCEPT ![p] = Idle]
  BY DEF Commit
<1>3. /\ UNCHANGED <<clock, md, files, form>>
      /\ index' = [index EXCEPT ![c.date] = RowOf(c.new)]
      /\ ingested' = [ingested EXCEPT ![c.msg] = [date |-> c.date, eml |-> c.rcvd]]
  BY DEF Commit
<1>4. TypeOK'
  BY <1>1, <1>2, <1>3, ReturnFacts DEF IInv, TypeOK
<1>5. \A d \in Dates : index[d] # None => index'[d] # None
  BY <1>1, <1>3, NoneAssumption DEF IInv, TypeOK
<1>6. FormOK'
  BY <1>3, <1>5 DEF IInv, TypeOK, FormOK, Forms
<1>7. Guarantee(p)
  BY <1>2, <1>3, <1>5, ReturnFacts DEF Guarantee
<1>. QED
  BY <1>2, <1>4, <1>6, <1>7, ReturnFacts, Frame

LEMMA RollbackFilesInv ==
    ASSUME IInv, NEW p \in Procs, RollbackFiles(p)
    PROVE  IInv'
<1>. DEFINE c == [proc[p] EXCEPT !.pc = "unlink"]
            dir == RolledBackFiles(files[proc[p].date], proc[p].made)
<1>1. /\ proc[p] \in Locals /\ p \in DOMAIN proc /\ proc[p].pc = "rollback"
      /\ proc[p].date \in Dates
  BY DEF IInv, TypeOK, RollbackFiles, ProcOK
<1>2. /\ c \in Locals
      /\ c.pc = "unlink" /\ c.msg = proc[p].msg /\ c.date = proc[p].date
      /\ c.rcvd = proc[p].rcvd
  BY <1>1 DEF Locals
<1>3. proc' = [proc EXCEPT ![p] = c]
  BY <1>1 DEF RollbackFiles, Locals
<1>. HIDE DEF c
<1>4. /\ UNCHANGED <<clock, md, lock, index, ingested, form>>
      /\ files' = [files EXCEPT ![proc[p].date] = dir]
  BY DEF RollbackFiles
<1>5. dir \in [Paths -> Messages \cup {Torn, None}]
  BY <1>1, PutFilesType DEF RolledBackFiles, IInv, TypeOK
<1>. HIDE DEF dir
<1>6. TypeOK'
  BY <1>1, <1>2, <1>3, <1>4, <1>5 DEF IInv, TypeOK
<1>7. Guarantee(p) /\ FormOK'
  BY <1>1, <1>3, <1>4 DEF Guarantee, IInv, FormOK
<1>8. ProcOK(p)'
  BY <1>1, <1>2, <1>3, <1>4 DEF ProcOK, IInv
<1>. QED
  BY <1>6, <1>7, <1>8, Frame

LEMMA RollbackEntryInv ==
    ASSUME IInv, NEW p \in Procs, RollbackEntry(p)
    PROVE  IInv'
<1>. DEFINE c == proc[p]
            doc == RolledBackDoc(md[c.date], c.new)
<1>1. /\ c \in Locals /\ c.pc = "unlink" /\ c.date \in Dates
      /\ Holds(p, c.date)
  BY DEF IInv, TypeOK, RollbackEntry, ProcOK, Holds
<1>2. lock' = Release(p) /\ proc' = [proc EXCEPT ![p] = Idle]
  BY DEF RollbackEntry
<1>3. /\ UNCHANGED <<clock, files, index, ingested, form>>
      /\ md' = [md EXCEPT ![c.date] = doc]
  BY DEF RollbackEntry
<1>4. doc \in Docs \cup {None}
  BY <1>1 DEF RolledBackDoc, IInv, TypeOK
<1>. HIDE DEF doc
<1>5. TypeOK'
  BY <1>1, <1>2, <1>3, <1>4, ReturnFacts DEF IInv, TypeOK
<1>6. FormOK'
  BY <1>3 DEF IInv, FormOK
<1>7. Guarantee(p)
  BY <1>1, <1>2, <1>3, ReturnFacts DEF Guarantee, IInv, TypeOK
<1>. QED
  BY <1>2, <1>5, <1>6, <1>7, ReturnFacts, Frame

LEMMA CrashInv ==
    ASSUME IInv, NEW p \in Procs, Crash(p)
    PROVE  IInv'
<1>1. lock' = Release(p) /\ proc' = [proc EXCEPT ![p] = Idle]
  BY DEF Crash
<1>2. UNCHANGED <<clock, md, files, index, ingested, form>>
  BY DEF Crash
<1>3. TypeOK' /\ FormOK'
  BY <1>1, <1>2, ReturnFacts DEF IInv, TypeOK, FormOK
<1>4. Guarantee(p)
  BY <1>1, <1>2, ReturnFacts DEF Guarantee
<1>. QED
  BY <1>1, <1>3, <1>4, ReturnFacts, Frame

LEMMA OpenFormInv ==
    ASSUME IInv, NEW d \in Dates, OpenForm(d)
    PROVE  IInv'
<1>1. App \in Procs
  BY ConstantsAssumption
<1>2. /\ UNCHANGED <<clock, md, files, lock, index, ingested, proc>>
      /\ form' = [date |-> d, body |-> index[d].body, mood |-> index[d].mood,
                  tags |-> index[d].tags]
      /\ index[d] \in Rows
  BY DEF OpenForm, IInv, TypeOK
<1>3. form' \in Forms /\ form'.date = d
  BY <1>2 DEF Forms, Rows
<1>4. TypeOK'
  BY <1>2, <1>3 DEF IInv, TypeOK
<1>5. Guarantee(App) /\ FormOK'
  BY <1>2, <1>3 DEF OpenForm, Guarantee, FormOK
<1>6. ProcOK(App)'
  BY <1>2 DEF OpenForm, ProcOK
<1>. QED
  BY <1>1, <1>4, <1>5, <1>6, Frame

LEMMA SaveRequestInv ==
    ASSUME IInv, SaveRequest
    PROVE  IInv'
<1>. DEFINE c == [Idle EXCEPT !.pc = "savelock", !.date = form.date]
<1>1. /\ App \in Procs /\ App \in DOMAIN proc
      /\ form \in Forms /\ form.date \in Dates
  BY ConstantsAssumption DEF SaveRequest, IInv, TypeOK, Forms
<1>2. c \in Locals /\ c.pc = "savelock" /\ c.date = form.date
  BY <1>1 DEF Idle, Locals
<1>3. proc' = [proc EXCEPT ![App] = c]
  BY DEF SaveRequest
<1>. HIDE DEF c
<1>4. UNCHANGED <<clock, md, files, lock, index, ingested, form>>
  BY DEF SaveRequest
<1>5. TypeOK'
  BY <1>1, <1>2, <1>3, <1>4 DEF IInv, TypeOK
<1>6. Guarantee(App) /\ FormOK'
  BY <1>1, <1>3, <1>4 DEF Guarantee, IInv, FormOK
<1>7. ProcOK(App)'
  BY <1>1, <1>2, <1>3, <1>4 DEF ProcOK
<1>. QED
  BY <1>1, <1>5, <1>6, <1>7, Frame

LEMMA SaveLockInv ==
    ASSUME IInv, SaveLock
    PROVE  IInv'
<1>. DEFINE d == proc[App].date
<1>1. /\ App \in Procs /\ App \in DOMAIN proc /\ proc[App] \in Locals
      /\ proc[App].pc = "savelock" /\ d \in Dates /\ form \in Forms
      /\ form.date = d /\ md[d] \in Docs /\ lock[d] = None
  BY ConstantsAssumption DEF SaveLock, MayEnter, IInv, TypeOK, ProcOK
<1>2. PICK t \in Now, tags \in SUBSET Tags :
        /\ clock' = t
        /\ proc' = [proc EXCEPT ![App].pc = "savewrite", ![App].old = md[d],
                                ![App].new = ApplyForm(form, md[d], tags, t)]
  BY DEF SaveLock
<1>. DEFINE doc == ApplyForm(form, md[d], tags, t)
            c == [proc[App] EXCEPT !.pc = "savewrite", !.old = md[d], !.new = doc]
<1>3. t \in Seconds /\ doc \in Docs
  BY <1>1, ApplyFormType DEF Now
<1>. HIDE DEF doc
<1>4. /\ c \in Locals /\ c.pc = "savewrite" /\ c.date = d
      /\ c.old = md[d] /\ c.new = doc
  BY <1>1, <1>3 DEF Locals
<1>5. proc' = [proc EXCEPT ![App] = c]
  BY <1>1, <1>2 DEF Locals, doc
<1>. HIDE DEF c
<1>6. /\ UNCHANGED <<md, files, index, ingested, form>>
      /\ lock' = [lock EXCEPT ![d] = App]
  BY DEF SaveLock
<1>7. TypeOK'
  BY <1>1, <1>2, <1>3, <1>4, <1>5, <1>6 DEF IInv, TypeOK
<1>8. Guarantee(App) /\ FormOK'
  BY <1>1, <1>5, <1>6 DEF Guarantee, IInv, TypeOK, FormOK
<1>9. ProcOK(App)'
  BY <1>1, <1>3, <1>4, <1>5, <1>6 DEF ProcOK, IInv, TypeOK
<1>. QED
  BY <1>1, <1>7, <1>8, <1>9, Frame

LEMMA SaveWriteInv ==
    ASSUME IInv, SaveWrite
    PROVE  IInv'
<1>. DEFINE d == proc[App].date
            c == [proc[App] EXCEPT !.pc = "savecommit"]
<1>1. /\ App \in Procs /\ App \in DOMAIN proc /\ proc[App] \in Locals
      /\ proc[App].pc = "savewrite" /\ d \in Dates /\ proc[App].new \in Docs
      /\ Holds(App, d)
  BY ConstantsAssumption DEF SaveWrite, IInv, TypeOK, ProcOK, Holds
<1>2. /\ c \in Locals /\ c.pc = "savecommit" /\ c.date = d
      /\ c.new = proc[App].new
  BY <1>1 DEF Locals
<1>3. proc' = [proc EXCEPT ![App] = c]
  BY <1>1 DEF SaveWrite, Locals
<1>. HIDE DEF c
<1>4. /\ UNCHANGED <<clock, files, lock, index, ingested, form>>
      /\ md' = [md EXCEPT ![d] = proc[App].new]
  BY DEF SaveWrite
<1>5. TypeOK'
  BY <1>1, <1>2, <1>3, <1>4 DEF IInv, TypeOK
<1>6. Guarantee(App) /\ FormOK'
  BY <1>1, <1>3, <1>4 DEF Guarantee, IInv, TypeOK, FormOK
<1>7. ProcOK(App)'
  BY <1>1, <1>2, <1>3, <1>4 DEF ProcOK, IInv, TypeOK
<1>. QED
  BY <1>1, <1>5, <1>6, <1>7, Frame

LEMMA SaveReturnInv ==
    ASSUME IInv, SaveFindsNoEntry \/ SaveCommit \/ SaveFails
    PROVE  IInv'
<1>. DEFINE c == proc[App]
<1>1. App \in Procs
  BY ConstantsAssumption
<1>2. lock' = Release(App) /\ proc' = [proc EXCEPT ![App] = Idle]
  BY DEF SaveFindsNoEntry, SaveCommit, SaveFails, Release
<1>3. UNCHANGED <<clock, md, files, ingested>> /\ form' = None
  BY DEF SaveFindsNoEntry, SaveCommit, SaveFails
<1>4. /\ index' \in [Dates -> Rows \cup {None}]
      /\ \A d \in Dates : index[d] # None => index'[d] # None
  <2>1. CASE SaveCommit
    <3>1. /\ c.date \in Dates /\ c.new \in Docs /\ form # None
          /\ index[c.date] \in Rows
      BY <1>1, <2>1, NoneAssumption
         DEF SaveCommit, IInv, TypeOK, ProcOK, FormOK
    <3>2. SavedRow(c.new, index[c.date]) \in Rows
      BY <3>1, RowTypes
    <3>3. index' = [index EXCEPT ![c.date] = SavedRow(c.new, index[c.date])]
      BY <2>1 DEF SaveCommit
    <3>. QED
      BY <3>1, <3>2, <3>3, NoneAssumption DEF IInv, TypeOK
  <2>2. CASE SaveFindsNoEntry \/ SaveFails
    BY <2>2 DEF SaveFindsNoEntry, SaveFails, IInv, TypeOK
  <2>. QED
    BY <2>1, <2>2
<1>5. TypeOK' /\ FormOK'
  BY <1>1, <1>2, <1>3, <1>4, ReturnFacts DEF IInv, TypeOK, FormOK
<1>6. Guarantee(App)
  BY <1>1, <1>2, <1>3, <1>4, ReturnFacts DEF Guarantee
<1>. QED
  BY <1>1, <1>2, <1>5, <1>6, ReturnFacts, Frame

LEMMA NextInv == IInv /\ [Next]_vars => IInv'
<1>. SUFFICES ASSUME IInv, [Next]_vars PROVE IInv'
  OBVIOUS
<1>1. ASSUME NEW p \in Procs, NEW m \in Messages, Start(p, m) PROVE IInv'
  BY <1>1, StartInv
<1>2. ASSUME NEW p \in Procs, IngestStep(p) PROVE IInv'
  BY <1>2, LockInv, WriteRawInv, WriteRawFailsInv, WriteMediaInv,
     WriteMediaFailsInv, WriteEntryInv, FailBeforeOrInCommitInv, CommitInv,
     RollbackFilesInv, RollbackEntryInv DEF IngestStep
<1>3. ASSUME NEW p \in Procs, Crash(p) PROVE IInv'
  BY <1>3, CrashInv
<1>4. ASSUME NEW d \in Dates, OpenForm(d) PROVE IInv'
  BY <1>4, OpenFormInv
<1>5. CASE SaveRequest \/ SaveStep
  BY <1>5, SaveRequestInv, SaveLockInv, SaveWriteInv, SaveReturnInv DEF SaveStep
<1>6. CASE UNCHANGED vars
  BY <1>6 DEF vars, IInv, TypeOK, FormOK, ProcOK
<1>. QED
  BY <1>1, <1>2, <1>3, <1>4, <1>5, <1>6 DEF Next

LEMMA Invariance == Spec => []IInv
BY InitInv, NextInv, PTL DEF Spec

LEMMA CarriedOn ==
    ASSUME IInv, NEW p \in Procs,
           Lock(p) \/ WriteRaw(p) \/ WriteRawFails(p) \/ WriteMedia(p)
             \/ WriteMediaFails(p) \/ WriteEntry(p) \/ WriteEntryFails(p)
             \/ CommitFails(p) \/ RollbackFiles(p)
    PROVE  CarriesOn(p)
<1>1. proc[p] \in Locals /\ proc \in [Procs -> Locals]
  BY DEF IInv, TypeOK
<1>2. CASE Lock(p)
  BY <1>1, <1>2 DEF Lock, Locals, Ingesting, CarriesOn
<1>3. CASE WriteRaw(p)
  BY <1>1, <1>3 DEF WriteRaw, Locals, Ingesting, CarriesOn
<1>4. CASE WriteRawFails(p)
  BY <1>1, <1>4 DEF WriteRawFails, Locals, Ingesting, CarriesOn
<1>5. CASE WriteMedia(p)
  BY <1>1, <1>5 DEF WriteMedia, Locals, Ingesting, CarriesOn
<1>6. CASE WriteMediaFails(p)
  <2>1. /\ \E made : proc' = [proc EXCEPT ![p].pc = "rollback", ![p].made = @ \cup made]
        /\ proc[p].pc = "media" /\ UNCHANGED <<clock, index, ingested, form>>
    BY <1>6 DEF WriteMediaFails
  <2>. QED
    BY <1>1, <2>1 DEF Locals, Ingesting, CarriesOn
<1>7. CASE WriteEntry(p)
  BY <1>1, <1>7 DEF WriteEntry, Locals, Ingesting, CarriesOn
<1>8. CASE WriteEntryFails(p)
  BY <1>1, <1>8 DEF WriteEntryFails, Locals, Ingesting, CarriesOn
<1>9. CASE CommitFails(p)
  BY <1>1, <1>9 DEF CommitFails, Locals, Ingesting, CarriesOn
<1>10. CASE RollbackFiles(p)
  BY <1>1, <1>10 DEF RollbackFiles, Locals, Ingesting, CarriesOn
<1>. QED
  BY <1>2, <1>3, <1>4, <1>5, <1>6, <1>7, <1>8, <1>9, <1>10

-----------------------------------------------------------------------------
(* The theorems *)

\* Every variable keeps the type the code gives it, whatever fails or dies.
THEOREM TypeCorrect == Spec => []TypeOK
<1>1. IInv => TypeOK
  BY DEF IInv
<1>. QED
  BY <1>1, Invariance, PTL

\* No writer replaces a document other than the one it read: for any number
\* of processes, replies and days, with disk and database failures, crashes
\* and two replies in one second.
THEOREM NoLostUpdate == Spec => []WrittenFromCurrent
<1>1. IInv => WrittenFromCurrent
  BY DEF IInv, ProcOK, WrittenFromCurrent
<1>. QED
  BY <1>1, Invariance, PTL

\* A transaction that changes a day's row makes it agree with the entry.md on
\* disk, whatever failed or died on that day before.
THEOREM CommitsAgree == Spec => CommitMatchesDisk
<1>. DEFINE Agrees(d) ==
       index'[d] # index[d] =>
         /\ md[d] # None
         /\ index'[d] = [RowOf(md[d]) EXCEPT !.media = index'[d].media]
         /\ \/ index'[d].media = md[d].media
            \/ Holds(App, d) /\ index'[d].media = index[d].media
<1>1. IInv /\ [Next]_vars => [\A d \in Dates : Agrees(d)]_vars
  <2>. SUFFICES ASSUME IInv, Next, NEW d \in Dates, index'[d] # index[d]
                PROVE  Agrees(d)
    OBVIOUS
  <2>1. ASSUME NEW p \in Procs, Commit(p) PROVE Agrees(d)
    <3>1. /\ proc[p].date = d /\ proc[p].new \in Docs /\ md[d] = proc[p].new
          /\ index'[d] = RowOf(proc[p].new)
      BY <2>1 DEF Commit, IInv, TypeOK, ProcOK
    <3>2. RowOf(md[d]) = [RowOf(md[d]) EXCEPT !.media = RowOf(md[d]).media]
      BY DEF RowOf
    <3>. QED
      BY <3>1, <3>2, NoneAssumption DEF RowOf
  <2>2. CASE SaveCommit
    <3>1. /\ proc[App].date = d /\ proc[App].new \in Docs
          /\ md[d] = proc[App].new /\ Holds(App, d)
          /\ index'[d] = SavedRow(proc[App].new, index[d])
      BY <2>2, ConstantsAssumption
         DEF SaveCommit, IInv, TypeOK, ProcOK, Holds
    <3>. QED
      BY <3>1, NoneAssumption DEF SavedRow, RowOf
  <2>. QED
    BY <2>1, <2>2 DEF Next, Start, IngestStep, Crash, OpenForm, SaveRequest,
       SaveStep, Lock, WriteRaw, WriteRawFails, WriteMedia, WriteMediaFails,
       WriteEntry, WriteEntryFails, CommitFails, RollbackFiles, RollbackEntry,
       SaveLock, SaveFindsNoEntry, SaveWrite, SaveFails
<1>. QED
  BY <1>1, Invariance, PTL DEF Spec, CommitMatchesDisk

-----------------------------------------------------------------------------
(* Index and disk agree, when the database accepts what it is given, no    *)
(* process dies and no reply is handed to two processes; disk writes may   *)
(* fail.                                                                   *)

Healthy ==
    /\ ~DbMayFail /\ CrashAt = {}
    /\ \A p, q \in Procs : p # q => Handed[p] \cap Handed[q] = {}

Synced(d) == index[d] = IF md[d] = None THEN None ELSE RowOf(md[d])

InFlight(p, d) == Holds(p, d) /\ proc[p].pc \in {"commit", "savecommit"}

\* A day is out of step only while its holder is between its two writes.
DayOK(d) == Synced(d) \/ \E p \in Procs : InFlight(p, d)

HealthyProcOK(p) ==
    LET c == proc[p] IN
    /\ c.pc \in IngestPCs => c.msg \in Handed[p] /\ ~AlreadyRecorded(c.msg)
    /\ c.pc \in IngestPCs \ {"commit"} => c.new = None
    /\ c.pc = "savewrite" => c.old \in Docs /\ c.new.media = c.old.media
    /\ c.pc = "savecommit" => index[c.date].media = c.new.media

HInv == IInv /\ (\A p \in Procs : HealthyProcOK(p)) /\ \A d \in Dates : DayOK(d)

LEMMA SoleHolder ==
    ASSUME IInv, NEW p \in Procs, NEW q \in Procs, NEW d \in Dates,
           Holds(p, d), Holds(q, d)
    PROVE  p = q
BY DEF IInv, ProcOK, Holds

LEMMA HeldIsSynced ==
    ASSUME HInv, NEW p \in Procs, NEW d \in Dates, Holds(p, d),
           proc[p].pc \notin {"commit", "savecommit"}
    PROVE  Synced(d)
BY SoleHolder DEF HInv, DayOK, InFlight

\* A step of p that keeps its own process and the day it holds in order.
LEMMA HealthyFrame ==
    ASSUME Healthy, HInv, IInv', NEW p \in Procs,
           \A q \in Procs \ {p} : proc'[q] = proc[q],
           \A d \in Dates : md'[d] # md[d] \/ index'[d] # index[d] => Holds(p, d),
           \A m \in Messages : ingested'[m] # ingested[m] => m \in Handed[p],
           HealthyProcOK(p)',
           \A d \in Dates : Holds(p, d) => DayOK(d)'
    PROVE  HInv'
<1>1. ASSUME NEW q \in Procs \ {p} PROVE HealthyProcOK(q)'
  <2>. DEFINE c == proc[q]
  <2>1. proc'[q] = c /\ HealthyProcOK(q) /\ c \in Locals
    BY DEF HInv, IInv, TypeOK
  <2>2. c.pc \in IngestPCs => c.msg \in Messages /\ ~AlreadyRecorded(c.msg)'
    BY <2>1 DEF Healthy, HealthyProcOK, AlreadyRecorded, HInv, IInv, ProcOK
  <2>3. c.pc = "savecommit" => index'[c.date] = index[c.date]
    <3>. SUFFICES ASSUME c.pc = "savecommit"
                  PROVE  index'[c.date] = index[c.date]
      OBVIOUS
    <3>1. c.date \in Dates /\ Holds(q, c.date)
      BY DEF HInv, IInv, ProcOK, Holds
    <3>. QED
      BY <3>1, SoleHolder DEF HInv
  <2>. QED
    BY <2>1, <2>2, <2>3 DEF HealthyProcOK
<1>2. ASSUME NEW d \in Dates PROVE DayOK(d)'
  <2>1. CASE Holds(p, d)
    BY <2>1
  <2>2. CASE ~Holds(p, d) /\ Synced(d)
    BY <2>2 DEF Synced, DayOK
  <2>3. CASE ~Holds(p, d) /\ ~Synced(d)
    <3>1. PICK q \in Procs : InFlight(q, d)
      BY <2>3 DEF HInv, DayOK
    <3>2. InFlight(q, d)'
      BY <2>3, <3>1 DEF InFlight, Holds
    <3>. QED
      BY <3>2 DEF DayOK
  <2>. QED
    BY <2>1, <2>2, <2>3
<1>. QED
  BY <1>1, <1>2 DEF HInv

LEMMA HealthyInit == Init => HInv
BY InitInv DEF Init, HInv, HealthyProcOK, DayOK, Synced, Idle

LEMMA HealthyStart ==
    ASSUME Healthy, HInv, IInv', NEW p \in Procs, NEW m \in Messages, Start(p, m)
    PROVE  HInv'
<1>1. PICK t \in Now, d \in DatesFor[m] :
        proc' = [proc EXCEPT ![p] = [Idle EXCEPT !.pc = "lock", !.msg = m,
                                                 !.date = d, !.rcvd = t]]
  BY DEF Start
<1>. DEFINE c == [Idle EXCEPT !.pc = "lock", !.msg = m, !.date = d, !.rcvd = t]
<1>2. c.pc = "lock" /\ c.msg = m /\ c.new = None
  BY DEF Idle
<1>3. proc' = [proc EXCEPT ![p] = c] /\ p \in DOMAIN proc
  BY <1>1 DEF HInv, IInv, TypeOK
<1>. HIDE DEF c
<1>4. /\ UNCHANGED <<md, index, ingested>> /\ proc[p].pc = "idle"
      /\ m \in Handed[p] /\ ~AlreadyRecorded(m)
  BY DEF Start
<1>5. HealthyProcOK(p)'
  BY <1>2, <1>3, <1>4 DEF HealthyProcOK, AlreadyRecorded
<1>6. \A d_1 \in Dates : ~Holds(p, d_1)
  BY <1>4 DEF Holds
<1>. QED
  BY <1>3, <1>4, <1>5, <1>6, HealthyFrame

\* Steps that leave entry.md, the index and the records alone.
LEMMA HealthyQuiet ==
    ASSUME Healthy, HInv, IInv', NEW p \in Procs,
           UNCHANGED <<md, index, ingested>>,
           \A q \in Procs \ {p} : proc'[q] = proc[q],
           proc[p].pc \notin {"commit", "savecommit"},
           HealthyProcOK(p)'
    PROVE  HInv'
<1>1. ASSUME NEW d \in Dates, Holds(p, d) PROVE DayOK(d)'
  <2>1. Synced(d)
    BY <1>1, HeldIsSynced
  <2>. QED
    BY <2>1 DEF Synced, DayOK
<1>. QED
  BY <1>1, HealthyFrame

LEMMA HealthyBeforeWrite ==
    ASSUME Healthy, HInv, IInv', NEW p \in Procs,
           Lock(p) \/ WriteRaw(p) \/ WriteRawFails(p) \/ WriteMedia(p)
             \/ WriteMediaFails(p) \/ WriteEntryFails(p) \/ RollbackFiles(p)
    PROVE  HInv'
<1>1. /\ UNCHANGED <<md, index, ingested>>
      /\ proc[p].pc \in {"lock", "raw", "media", "write", "rollback"}
  BY DEF Lock, WriteRaw, WriteRawFails, WriteMedia, WriteMediaFails,
     WriteEntryFails, RollbackFiles
<1>2. proc[p] \in Locals /\ proc \in [Procs -> Locals]
  BY DEF HInv, IInv, TypeOK
<1>3. /\ \A q \in Procs \ {p} : proc'[q] = proc[q]
      /\ proc'[p].pc \in {"raw", "media", "write", "rollback", "unlink"}
      /\ proc'[p].msg = proc[p].msg
      /\ proc'[p].new = proc[p].new
  <2>1. CASE Lock(p)
    BY <1>2, <2>1 DEF Lock, Locals
  <2>2. CASE WriteRaw(p)
    BY <1>2, <2>2 DEF WriteRaw, Locals
  <2>3. CASE WriteRawFails(p)
    BY <1>2, <2>3 DEF WriteRawFails, Locals
  <2>4. CASE WriteMedia(p)
    BY <1>2, <2>4 DEF WriteMedia, Locals
  <2>5. CASE WriteMediaFails(p)
    <3>1. \E made : proc' = [proc EXCEPT ![p].pc = "rollback", ![p].made = @ \cup made]
      BY <2>5 DEF WriteMediaFails
    <3>. QED
      BY <1>2, <3>1 DEF Locals
  <2>6. CASE WriteEntryFails(p)
    BY <1>2, <2>6 DEF WriteEntryFails, Locals
  <2>7. CASE RollbackFiles(p)
    BY <1>2, <2>7 DEF RollbackFiles, Locals
  <2>. QED
    BY <2>1, <2>2, <2>3, <2>4, <2>5, <2>6, <2>7
<1>4. HealthyProcOK(p)'
  BY <1>1, <1>3 DEF HealthyProcOK, AlreadyRecorded, HInv
<1>. QED
  BY <1>1, <1>3, <1>4, HealthyQuiet

LEMMA HealthyWriteEntry ==
    ASSUME Healthy, HInv, IInv', NEW p \in Procs, WriteEntry(p)
    PROVE  HInv'
<1>1. proc[p] \in Locals /\ proc \in [Procs -> Locals] /\ proc[p].pc = "write"
  BY DEF WriteEntry, HInv, IInv, TypeOK
<1>2. /\ \A q \in Procs \ {p} : proc'[q] = proc[q]
      /\ proc'[p].pc = "commit" /\ proc'[p].msg = proc[p].msg
      /\ proc'[p].date = proc[p].date
      /\ UNCHANGED <<index, ingested>>
  BY <1>1 DEF WriteEntry, Locals
<1>3. \A d \in Dates : md'[d] # md[d] => Holds(p, d)
  BY <1>1 DEF WriteEntry, HInv, IInv, TypeOK, Holds
<1>4. HealthyProcOK(p)'
  BY <1>1, <1>2 DEF HealthyProcOK, AlreadyRecorded, HInv
<1>5. \A d \in Dates : Holds(p, d) => DayOK(d)'
  BY <1>2 DEF DayOK, InFlight, Holds
<1>. QED
  BY <1>2, <1>3, <1>4, <1>5, HealthyFrame

LEMMA HealthyCommit ==
    ASSUME Healthy, HInv, IInv', NEW p \in Procs, Commit(p)
    PROVE  HInv'
<1>. DEFINE c == proc[p]
<1>1. /\ c.pc = "commit" /\ c.msg \in Handed[p] /\ c.msg \in Messages
      /\ c.date \in Dates /\ c.new \in Docs /\ md[c.date] = c.new
      /\ Holds(p, c.date)
  BY DEF Commit, HInv, IInv, ProcOK, HealthyProcOK, Holds
<1>2. /\ proc' = [proc EXCEPT ![p] = Idle] /\ md' = md
      /\ index' = [index EXCEPT ![c.date] = RowOf(c.new)]
      /\ ingested' = [ingested EXCEPT ![c.msg] = [date |-> c.date, eml |-> c.rcvd]]
  BY DEF Commit
<1>3. proc'[p] = Idle /\ \A q \in Procs \ {p} : proc'[q] = proc[q]
  BY <1>2 DEF HInv, IInv, TypeOK
<1>4. HealthyProcOK(p)'
  BY <1>3, IdleType DEF HealthyProcOK
<1>5. /\ \A d \in Dates : index'[d] # index[d] => Holds(p, d)
      /\ \A m \in Messages : ingested'[m] # ingested[m] => m \in Handed[p]
  BY <1>1, <1>2 DEF HInv, IInv, TypeOK
<1>6. \A d \in Dates : Holds(p, d) => DayOK(d)'
  BY <1>1, <1>2, NoneAssumption DEF DayOK, Synced, Holds, HInv, IInv, TypeOK
<1>. QED
  BY <1>2, <1>3, <1>4, <1>5, <1>6, HealthyFrame

LEMMA HealthyRollback ==
    ASSUME Healthy, HInv, IInv', NEW p \in Procs, RollbackEntry(p)
    PROVE  HInv'
<1>1. /\ proc[p].pc = "unlink" /\ proc[p].new = None
      /\ proc' = [proc EXCEPT ![p] = Idle]
      /\ UNCHANGED <<index, ingested>>
  BY DEF RollbackEntry, HInv, HealthyProcOK
<1>2. md' = md
  BY <1>1 DEF RollbackEntry, RolledBackDoc, HInv, IInv, TypeOK
<1>3. proc'[p] = Idle /\ \A q \in Procs \ {p} : proc'[q] = proc[q]
  BY <1>1 DEF HInv, IInv, TypeOK
<1>4. HealthyProcOK(p)'
  BY <1>3, IdleType DEF HealthyProcOK
<1>. QED
  BY <1>1, <1>2, <1>3, <1>4, HealthyQuiet

LEMMA HealthySave ==
    ASSUME Healthy, HInv, IInv',
           SaveRequest \/ SaveStep \/ \E d \in Dates : OpenForm(d)
    PROVE  HInv'
<1>. DEFINE c == proc[App]
<1>1. App \in Procs /\ c \in Locals /\ proc \in [Procs -> Locals]
  BY ConstantsAssumption DEF HInv, IInv, TypeOK
<1>2. CASE \E d \in Dates : OpenForm(d)
  <2>1. UNCHANGED <<md, index, ingested, proc>> /\ c.pc = "idle"
    BY <1>2 DEF OpenForm
  <2>2. HealthyProcOK(App)'
    BY <2>1 DEF HealthyProcOK
  <2>. QED
    BY <1>1, <2>1, <2>2, HealthyQuiet
<1>3. CASE SaveRequest
  <2>1. /\ UNCHANGED <<md, index, ingested>> /\ c.pc = "idle"
        /\ proc'[App].pc = "savelock"
        /\ \A q \in Procs \ {App} : proc'[q] = proc[q]
    BY <1>1, <1>3 DEF SaveRequest, Idle
  <2>2. HealthyProcOK(App)'
    BY <2>1 DEF HealthyProcOK
  <2>. QED
    BY <1>1, <2>1, <2>2, HealthyQuiet
<1>4. CASE SaveLock
  <2>1. PICK t \in Now, tags \in SUBSET Tags :
          proc' = [proc EXCEPT ![App].pc = "savewrite", ![App].old = md[c.date],
                               ![App].new = ApplyForm(form, md[c.date], tags, t)]
    BY <1>4 DEF SaveLock
  <2>2. /\ UNCHANGED <<md, index, ingested>> /\ c.pc = "savelock"
        /\ c.date \in Dates /\ md[c.date] \in Docs
    BY <1>1, <1>4 DEF SaveLock, HInv, IInv, ProcOK, TypeOK
  <2>3. ApplyForm(form, md[c.date], tags, t).media = md[c.date].media
    BY <2>2 DEF ApplyForm, Docs
  <2>4. /\ proc'[App].pc = "savewrite" /\ proc'[App].old = md[c.date]
        /\ proc'[App].new = ApplyForm(form, md[c.date], tags, t)
        /\ \A q \in Procs \ {App} : proc'[q] = proc[q]
    BY <1>1, <2>1 DEF Locals
  <2>5. HealthyProcOK(App)'
    BY <2>2, <2>3, <2>4 DEF HealthyProcOK
  <2>. QED
    BY <1>1, <2>2, <2>4, <2>5, HealthyQuiet
<1>5. CASE SaveFindsNoEntry \/ SaveFails
  <2>1. /\ UNCHANGED <<md, index, ingested>> /\ c.pc \in {"savelock", "savewrite"}
        /\ proc' = [proc EXCEPT ![App] = Idle]
    BY <1>5 DEF SaveFindsNoEntry, SaveFails, Healthy
  <2>2. /\ HealthyProcOK(App)'
        /\ \A q \in Procs \ {App} : proc'[q] = proc[q]
    BY <1>1, <2>1, IdleType DEF HealthyProcOK
  <2>. QED
    BY <1>1, <2>1, <2>2, HealthyQuiet
<1>6. CASE SaveWrite
  <2>1. /\ c.pc = "savewrite" /\ c.date \in Dates /\ Holds(App, c.date)
        /\ c.old \in Docs /\ md[c.date] = c.old /\ c.new.media = c.old.media
    BY <1>1, <1>6 DEF SaveWrite, HInv, IInv, ProcOK, HealthyProcOK, Holds
  <2>2. index[c.date].media = c.new.media
    <3>1. Synced(c.date)
      BY <1>1, <2>1, HeldIsSynced
    <3>2. index[c.date] = RowOf(c.old)
      BY <2>1, <3>1, NoneAssumption DEF Synced
    <3>. QED
      BY <2>1, <3>2 DEF RowOf
  <2>3. /\ proc'[App].pc = "savecommit" /\ proc'[App].new = c.new
        /\ proc'[App].date = c.date
        /\ \A q \in Procs \ {App} : proc'[q] = proc[q]
        /\ UNCHANGED <<index, ingested>>
    BY <1>1, <1>6 DEF SaveWrite, Locals
  <2>4. \A d \in Dates : md'[d] # md[d] => Holds(App, d)
    BY <1>6, <2>1 DEF SaveWrite, HInv, IInv, TypeOK
  <2>5. HealthyProcOK(App)'
    BY <2>2, <2>3 DEF HealthyProcOK
  <2>6. \A d \in Dates : Holds(App, d) => DayOK(d)'
    BY <1>1, <2>3 DEF DayOK, InFlight, Holds
  <2>. QED
    BY <1>1, <2>3, <2>4, <2>5, <2>6, HealthyFrame
<1>7. CASE SaveCommit
  <2>1. /\ c.pc = "savecommit" /\ c.date \in Dates /\ Holds(App, c.date)
        /\ c.new \in Docs /\ md[c.date] = c.new
        /\ index[c.date].media = c.new.media
    BY <1>1, <1>7 DEF SaveCommit, HInv, IInv, ProcOK, HealthyProcOK, Holds
  <2>2. /\ proc' = [proc EXCEPT ![App] = Idle] /\ UNCHANGED <<md, ingested>>
        /\ index' = [index EXCEPT ![c.date] = SavedRow(c.new, index[c.date])]
    BY <1>7 DEF SaveCommit
  <2>3. SavedRow(c.new, index[c.date]) = RowOf(c.new)
    BY <2>1 DEF SavedRow, RowOf
  <2>4. HealthyProcOK(App)' /\ \A q \in Procs \ {App} : proc'[q] = proc[q]
    BY <1>1, <2>2, IdleType DEF HealthyProcOK
  <2>5. \A d \in Dates : index'[d] # index[d] => Holds(App, d)
    BY <2>1, <2>2 DEF HInv, IInv, TypeOK
  <2>6. \A d \in Dates : Holds(App, d) => DayOK(d)'
    BY <2>1, <2>2, <2>3, NoneAssumption DEF DayOK, Synced, Holds, HInv, IInv, TypeOK
  <2>. QED
    BY <1>1, <2>2, <2>4, <2>5, <2>6, HealthyFrame
<1>. QED
  BY <1>2, <1>3, <1>4, <1>5, <1>6, <1>7 DEF SaveStep

LEMMA HealthyNext == Healthy /\ HInv /\ [Next]_vars => HInv'
<1>. SUFFICES ASSUME Healthy, HInv, [Next]_vars PROVE HInv'
  OBVIOUS
<1>1. IInv'
  BY NextInv DEF HInv
<1>2. CASE \E p \in Procs, m \in Messages : Start(p, m)
  BY <1>1, <1>2, HealthyStart
<1>3. ASSUME NEW p \in Procs, IngestStep(p) PROVE HInv'
  <2>1. ~CommitFails(p)
    BY DEF CommitFails, Healthy, HInv, HealthyProcOK
  <2>. QED
    BY <1>1, <1>3, <2>1, HealthyBeforeWrite, HealthyWriteEntry, HealthyCommit,
       HealthyRollback DEF IngestStep
<1>4. \A p \in Procs : ~Crash(p)
  BY DEF Crash, Healthy
<1>5. CASE SaveRequest \/ SaveStep \/ \E d \in Dates : OpenForm(d)
  BY <1>1, <1>5, HealthySave
<1>6. CASE UNCHANGED vars
  BY <1>1, <1>6 DEF vars, HInv, HealthyProcOK, AlreadyRecorded, DayOK, Synced,
     InFlight, Holds
<1>. QED
  BY <1>2, <1>3, <1>4, <1>5, <1>6 DEF Next

\* Whenever nobody works on a day, its index row says what its entry.md says:
\* for any number of processes, replies and days, and with disk writes that
\* fail, as long as the database takes what it is given, no process dies and
\* no reply is handed to two processes.
THEOREM IndexAgreesWithDisk ==
    ASSUME Healthy
    PROVE  Spec => []IndexMatchesDisk
<1>1. HInv => IndexMatchesDisk
  <2>. SUFFICES ASSUME HInv, NEW d \in Dates, lock[d] = None PROVE Synced(d)
    BY DEF IndexMatchesDisk, Synced
  <2>1. \A p \in Procs : ~Holds(p, d)
    BY NoneAssumption DEF HInv, IInv, ProcOK, Holds
  <2>. QED
    BY <2>1 DEF HInv, DayOK, InFlight
<1>2. HInv /\ [Next]_vars => HInv'
  BY HealthyNext
<1>. QED
  BY <1>1, <1>2, HealthyInit, PTL DEF Spec

=============================================================================
