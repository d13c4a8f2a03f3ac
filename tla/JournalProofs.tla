---------------------------- MODULE JournalProofs ----------------------------
(***************************************************************************)
(* Proofs about the text of the days in Ingest: every reply has one        *)
(* section, a section goes only by a save whose form is older, and the     *)
(* detailed writers implement Journal.  The index carries the argument:    *)
(* what is in it is recorded, and every writer puts one section after an   *)
(* initial part of it.                                                     *)
(***************************************************************************)
EXTENDS IngestProofs, FiniteSetTheorems

Once(body) ==
    \A i, j \in 1..Len(body) : body[i] = body[j] /\ body[i] \in Messages => i = j

Filed(d, m) == ingested[m] # None /\ ingested[m].date = d

RowText(d) ==
    index[d] # None =>
      /\ index[d].body # <<>>
      /\ Once(index[d].body)
      /\ \A m \in Messages : Occurs(m, index[d].body) => Filed(d, m)

\* The open form shows an initial part of what the index says now.
FormPrefix ==
    form # None =>
      \E n \in 1..Len(IndexedText(form.date)) :
        form.body = SubSeq(IndexedText(form.date), 1, n)

\* What a writer is about to put into the index.
TextProcOK(p) ==
    LET c == proc[p] IN
    /\ c.pc \in IngestPCs => c.date \in DatesFor[c.msg]
    /\ c.pc = "commit" => c.new.body = Append(IndexedText(c.date), c.msg)
    /\ c.pc \in {"savewrite", "savecommit"} => c.new.body = Append(form.body, Edited)

TextInv ==
    /\ HInv /\ FormPrefix
    /\ \A p \in Procs : TextProcOK(p)
    /\ \A d \in Dates : RowText(d)

USE DEF Holding, IngestPCs, SavePCs

-----------------------------------------------------------------------------
(* Sequences of sections *)

LEMMA PrefixOfAppend ==
    ASSUME NEW body \in Seq(Sections), NEW e \in Sections, NEW n \in 1..Len(body)
    PROVE  SubSeq(Append(body, e), 1, n) = SubSeq(body, 1, n)
OBVIOUS

LEMMA PrefixElements ==
    ASSUME NEW body \in Seq(Sections), NEW n \in 1..Len(body)
    PROVE  /\ SubSeq(body, 1, n) \in Seq(Sections)
           /\ SubSeq(body, 1, n) # <<>>
           /\ Len(SubSeq(body, 1, n)) = n
           /\ \A i \in 1..n : SubSeq(body, 1, n)[i] = body[i]
OBVIOUS

LEMMA OnceAppend ==
    ASSUME NEW body \in Seq(Sections), Once(body), NEW e \in Sections,
           e \in Messages => ~Occurs(e, body)
    PROVE  Once(Append(body, e)) /\ Append(body, e) # <<>>
BY DEF Once, Occurs

LEMMA OncePrefix ==
    ASSUME NEW body \in Seq(Sections), Once(body), NEW n \in 1..Len(body)
    PROVE  /\ Once(SubSeq(body, 1, n))
           /\ \A m : Occurs(m, SubSeq(body, 1, n)) => Occurs(m, body)
BY PrefixElements DEF Once, Occurs

LEMMA IndexedTextType ==
    ASSUME IInv, NEW d \in Dates
    PROVE  IndexedText(d) \in Seq(Sections)
BY DEF IInv, TypeOK, IndexedText, Rows

-----------------------------------------------------------------------------
(* The frame, and the steps that leave the index alone *)

LEMMA TextProcFrame ==
    ASSUME TextInv, NEW p \in Procs,
           \A q \in Procs \ {p} : proc'[q] = proc[q],
           \A d \in Dates : index'[d] # index[d] => Holds(p, d),
           p # App => form' = form,
           NEW q \in Procs \ {p}
    PROVE  TextProcOK(q)'
<1>. DEFINE c == proc[q]
<1>1. proc'[q] = c /\ TextProcOK(q) /\ IInv /\ ProcOK(q)
  BY DEF TextInv, HInv, IInv
<1>2. c.pc \in SavePCs => form' = form
  BY <1>1 DEF ProcOK
<1>3. c.pc = "commit" => index'[c.date] = index[c.date]
  <2>. SUFFICES ASSUME c.pc = "commit" PROVE index'[c.date] = index[c.date]
    OBVIOUS
  <2>1. c.date \in Dates /\ Holds(q, c.date)
    BY <1>1 DEF ProcOK, Holds
  <2>. QED
    BY <1>1, <2>1, SoleHolder
<1>. QED
  BY <1>1, <1>2, <1>3 DEF TextProcOK, IndexedText

\* Steps that leave the index and the records alone.
LEMMA TextQuiet ==
    ASSUME TextInv, HInv', NEW p \in Procs,
           \A q \in Procs \ {p} : proc'[q] = proc[q],
           UNCHANGED <<index, ingested>>,
           p # App => form' = form, form' = form \/ FormPrefix',
           TextProcOK(p)'
    PROVE  TextInv'
<1>1. \A q \in Procs : TextProcOK(q)'
  BY TextProcFrame
<1>2. \A d \in Dates : RowText(d)'
  BY DEF TextInv, RowText, Filed, Occurs, Once
<1>3. FormPrefix'
  BY DEF TextInv, FormPrefix, IndexedText
<1>. QED
  BY <1>1, <1>2, <1>3 DEF TextInv

LEMMA TextStart ==
    ASSUME TextInv, HInv', NEW p \in Procs, NEW m \in Messages, Start(p, m)
    PROVE  TextInv'
<1>1. PICK t \in Now, d \in DatesFor[m] :
        proc' = [proc EXCEPT ![p] = [Idle EXCEPT !.pc = "lock", !.msg = m,
                                                 !.date = d, !.rcvd = t]]
  BY DEF Start
<1>. DEFINE c == [Idle EXCEPT !.pc = "lock", !.msg = m, !.date = d, !.rcvd = t]
<1>2. c.pc = "lock" /\ c.msg = m /\ c.date = d
  BY DEF Idle
<1>3. proc' = [proc EXCEPT ![p] = c] /\ p \in DOMAIN proc
  BY <1>1 DEF TextInv, HInv, IInv, TypeOK
<1>. HIDE DEF c
<1>4. TextProcOK(p)' /\ UNCHANGED <<index, ingested, form>>
  BY <1>2, <1>3 DEF TextProcOK, Start
<1>. QED
  BY <1>3, <1>4, TextQuiet

LEMMA TextCarriedOn ==
    ASSUME TextInv, HInv', NEW p \in Procs, CarriesOn(p), ~WriteEntry(p)
    PROVE  TextInv'
<1>1. TextProcOK(p)'
  BY DEF CarriesOn, TextInv, TextProcOK, Ingesting
<1>. QED
  BY <1>1, TextQuiet DEF CarriesOn

LEMMA SyncedText ==
    ASSUME IInv, NEW d \in Dates, Synced(d)
    PROVE  IndexedText(d) = BodyOf(md[d])
<1>1. CASE md[d] = None
  BY <1>1 DEF Synced, IndexedText, BodyOf
<1>2. CASE md[d] # None
  <2>1. md[d] \in Docs
    BY <1>2 DEF IInv, TypeOK
  <2>2. RowOf(md[d]) # None /\ RowOf(md[d]).body = md[d].body
    BY <2>1, RowTypes, NoneAssumption DEF RowOf
  <2>. QED
    BY <1>2, <2>2 DEF Synced, IndexedText, BodyOf
<1>. QED
  BY <1>1, <1>2

\* The document a reply is added to is the one the index shows.
LEMMA TextWriteEntry ==
    ASSUME TextInv, HInv', NEW p \in Procs, WriteEntry(p)
    PROVE  TextInv'
<1>1. /\ IInv /\ CarriesOn(p) /\ proc[p] \in Locals /\ proc \in [Procs -> Locals]
      /\ proc[p].pc = "write" /\ proc[p].date \in Dates /\ proc[p].msg \in Messages
      /\ proc[p].old = md[proc[p].date] /\ md \in [Dates -> Docs \cup {None}]
  BY CarriedOn DEF TextInv, HInv, IInv, TypeOK, ProcOK, WriteEntry
<1>2. PICK d \in Dates, m \in Messages : d = proc[p].date /\ m = proc[p].msg
  BY <1>1
<1>3. Synced(d)
  BY <1>1, <1>2, HeldIsSynced DEF TextInv, Holds
<1>4. Compose(m, proc[p].rcvd, md[d]).body = Append(IndexedText(d), m)
  <2>1. IndexedText(d) = BodyOf(md[d])
    BY <1>1, <1>2, <1>3, SyncedText
  <2>2. Append(<<>>, m) = <<m>>
    OBVIOUS
  <2>. QED
    BY <2>1, <2>2 DEF Compose, BodyOf
<1>5. /\ proc'[p].pc = "commit" /\ proc'[p].date = d /\ proc'[p].msg = m
      /\ proc'[p].new.body = Append(IndexedText(d), m)
      /\ UNCHANGED <<index, ingested, form>>
  <2>1. proc' = [proc EXCEPT ![p].pc = "commit",
                             ![p].new = Compose(m, proc[p].rcvd, md[d])]
    BY <1>1, <1>2 DEF WriteEntry
  <2>. QED
    BY <1>1, <1>2, <1>4, <2>1 DEF CarriesOn, Locals
<1>6. TextProcOK(p)'
  <2>1. d \in DatesFor[m]
    BY <1>1, <1>2 DEF TextInv, TextProcOK
  <2>. QED
    BY <1>5, <2>1 DEF TextProcOK, IndexedText
<1>. QED
  BY <1>1, <1>5, <1>6, TextQuiet DEF CarriesOn

\* A step of p that ends the call and leaves the index alone.
LEMMA TextReturn ==
    ASSUME TextInv, HInv', NEW p \in Procs, proc' = [proc EXCEPT ![p] = Idle],
           UNCHANGED <<index, ingested>>,
           p # App => form' = form, form' \in {form, None}
    PROVE  TextInv'
<1>1. proc'[p] = Idle /\ \A q \in Procs \ {p} : proc'[q] = proc[q]
  BY DEF TextInv, HInv, IInv, TypeOK
<1>2. TextProcOK(p)'
  BY <1>1, IdleType DEF TextProcOK
<1>3. form' = form \/ FormPrefix'
  BY DEF FormPrefix
<1>. QED
  BY <1>1, <1>2, <1>3, TextQuiet

\* The recorded reply has no section yet: only recorded ones have.
LEMMA TextCommit ==
    ASSUME Healthy, TextInv, HInv', NEW p \in Procs, Commit(p)
    PROVE  TextInv'
<1>1. /\ IInv /\ HInv /\ proc[p].pc = "commit" /\ proc[p].msg \in Messages
      /\ proc[p].date \in Dates /\ proc[p].rcvd \in Seconds
      /\ proc[p].new \in Docs /\ Holds(p, proc[p].date)
      /\ ingested[proc[p].msg] = None
  BY DEF TextInv, HInv, IInv, ProcOK, Commit, AlreadyRecorded, Holds
<1>2. PICK d, m, doc, r :
        /\ d \in Dates /\ m \in Messages /\ doc \in Docs
        /\ d = proc[p].date /\ m = proc[p].msg /\ doc = proc[p].new
        /\ r = [date |-> d, eml |-> proc[p].rcvd]
  BY <1>1
<1>3. /\ index' = [index EXCEPT ![d] = RowOf(doc)]
      /\ ingested' = [ingested EXCEPT ![m] = r]
      /\ proc' = [proc EXCEPT ![p] = Idle] /\ UNCHANGED form
  BY <1>2 DEF Commit
<1>4. /\ r.date = d /\ r # None
      /\ index'[d].body = doc.body /\ index'[d] # None
      /\ \A e \in Dates \ {d} : index'[e] = index[e]
      /\ ingested'[m] = r /\ \A n \in Messages \ {m} : ingested'[n] = ingested[n]
  <2>1. r.date = d /\ r # None /\ RowOf(doc) # None /\ RowOf(doc).body = doc.body
    BY <1>1, <1>2, RowTypes, NoneAssumption DEF RowOf
  <2>. QED
    BY <1>3, <2>1 DEF TextInv, HInv, IInv, TypeOK
<1>5. /\ doc.body = Append(IndexedText(d), m)
      /\ IndexedText(d) \in Seq(Sections) /\ m \in Sections
      /\ Once(IndexedText(d))
      /\ \A n \in Messages : Occurs(n, IndexedText(d)) => Filed(d, n)
  <2>1. doc.body = Append(IndexedText(d), m)
    BY <1>1, <1>2 DEF TextInv, TextProcOK
  <2>2. /\ Once(IndexedText(d))
        /\ \A n \in Messages : Occurs(n, IndexedText(d)) => Filed(d, n)
    BY <1>2 DEF TextInv, RowText, IndexedText, Once, Occurs
  <2>. QED
    BY <1>1, <1>2, <2>1, <2>2, IndexedTextType DEF Sections
<1>6. RowText(d)'
  <2>1. ~Occurs(m, IndexedText(d))
    BY <1>1, <1>2, <1>5 DEF Filed
  <2>2. Once(doc.body) /\ doc.body # <<>>
    BY <1>5, <2>1, OnceAppend
  <2>3. ASSUME NEW n \in Messages, Occurs(n, doc.body) PROVE Filed(d, n)'
    <3>1. n = m \/ Occurs(n, IndexedText(d))
      BY <1>5, <2>3, OccursInAppend
    <3>. QED
      BY <1>4, <1>5, <3>1 DEF Filed
  <2>. QED
    BY <1>4, <2>2, <2>3 DEF RowText, Once, Occurs
<1>7. \A e \in Dates : RowText(e)'
  <2>. SUFFICES ASSUME NEW e \in Dates, e # d PROVE RowText(e)'
    BY <1>6
  <2>1. \A n \in Messages : Filed(e, n) => Filed(e, n)'
    BY <1>1, <1>2, <1>4 DEF Filed
  <2>. QED
    BY <1>4, <2>1 DEF TextInv, RowText, Once, Occurs
<1>8. FormPrefix'
  <2>. SUFFICES ASSUME form # None PROVE FormPrefix'
    BY <1>3 DEF FormPrefix
  <2>1. PICK e \in Dates, n \in 1..Len(IndexedText(form.date)) :
          e = form.date /\ form.body = SubSeq(IndexedText(e), 1, n)
    BY DEF TextInv, FormPrefix, HInv, IInv, TypeOK, Forms
  <2>2. n \in 1..Len(IndexedText(e)') /\ SubSeq(IndexedText(e)', 1, n) = form.body
    <3>1. CASE e = d
      <4>1. IndexedText(e)' = Append(IndexedText(e), m)
        BY <1>4, <1>5, <3>1 DEF IndexedText
      <4>. QED
        BY <1>5, <2>1, <3>1, <4>1, PrefixOfAppend
    <3>2. CASE e # d
      BY <1>4, <2>1, <3>2 DEF IndexedText
    <3>. QED
      BY <3>1, <3>2
  <2>. QED
    BY <1>3, <2>1, <2>2 DEF FormPrefix, IndexedText
<1>9. \A q \in Procs : TextProcOK(q)'
  <2>1. proc'[p] = Idle /\ \A q \in Procs \ {p} : proc'[q] = proc[q]
    BY <1>3 DEF TextInv, HInv, IInv, TypeOK
  <2>2. TextProcOK(p)'
    BY <2>1, IdleType DEF TextProcOK
  <2>3. \A e \in Dates : index'[e] # index[e] => Holds(p, e)
    BY <1>1, <1>2, <1>4
  <2>. QED
    BY <1>3, <2>1, <2>2, <2>3, TextProcFrame
<1>. QED
  BY <1>7, <1>8, <1>9 DEF TextInv

LEMMA TextForm ==
    ASSUME TextInv, HInv',
           SaveRequest \/ SaveLock \/ SaveFindsNoEntry \/ SaveWrite \/ SaveFails
             \/ \E d \in Dates : OpenForm(d)
    PROVE  TextInv'
<1>1. /\ App \in Procs /\ IInv /\ proc[App] \in Locals /\ proc \in [Procs -> Locals]
      /\ TextProcOK(App)
  BY ConstantsAssumption DEF TextInv, HInv, IInv, TypeOK
<1>2. UNCHANGED <<index, ingested>>
  BY DEF SaveRequest, SaveLock, SaveFindsNoEntry, SaveWrite, SaveFails, OpenForm
<1>3. CASE \E d \in Dates : OpenForm(d)
  <2>1. PICK d \in Dates : OpenForm(d)
    BY <1>3
  <2>2. /\ form' = [date |-> d, body |-> index[d].body, mood |-> index[d].mood,
                    tags |-> index[d].tags]
        /\ proc' = proc /\ proc[App].pc = "idle" /\ index[d] # None
    BY <2>1 DEF OpenForm
  <2>3. form'.date = d /\ form'.body = IndexedText(d) /\ IndexedText(d)' = IndexedText(d)
    BY <1>2, <2>2 DEF IndexedText
  <2>4. IndexedText(d) \in Seq(Sections) /\ IndexedText(d) # <<>>
    BY <1>1, <2>2, IndexedTextType DEF TextInv, RowText, IndexedText
  <2>5. /\ Len(IndexedText(d)) \in 1..Len(IndexedText(d))
        /\ SubSeq(IndexedText(d), 1, Len(IndexedText(d))) = IndexedText(d)
    BY <2>4
  <2>6. FormPrefix'
    BY <1>2, <2>3, <2>5 DEF FormPrefix, IndexedText
  <2>7. TextProcOK(App)'
    BY <2>2 DEF TextProcOK
  <2>. QED
    BY <1>1, <1>2, <2>2, <2>6, <2>7, TextQuiet
<1>4. CASE SaveRequest
  <2>. DEFINE asked == [Idle EXCEPT !.pc = "savelock", !.date = form.date]
  <2>1. proc' = [proc EXCEPT ![App] = asked] /\ asked.pc = "savelock" /\ form' = form
    BY <1>4 DEF SaveRequest, Idle
  <2>. HIDE DEF asked
  <2>2. TextProcOK(App)'
    BY <1>1, <2>1 DEF TextProcOK
  <2>. QED
    BY <1>1, <1>2, <2>1, <2>2, TextQuiet
<1>5. CASE SaveFindsNoEntry \/ SaveFails
  <2>1. proc' = [proc EXCEPT ![App] = Idle] /\ form' = None
    BY <1>5 DEF SaveFindsNoEntry, SaveFails
  <2>. QED
    BY <1>1, <1>2, <2>1, TextReturn
<1>6. CASE SaveLock
  <2>1. PICK t \in Now, tags \in SUBSET Tags :
          proc' = [proc EXCEPT ![App].pc = "savewrite", ![App].old = md[proc[App].date],
                     ![App].new = ApplyForm(form, md[proc[App].date], tags, t)]
    BY <1>6 DEF SaveLock
  <2>2. md[proc[App].date] \in Docs /\ form' = form
    BY <1>1, <1>6 DEF SaveLock, IInv, ProcOK, TypeOK
  <2>3. ApplyForm(form, md[proc[App].date], tags, t).body = Append(form.body, Edited)
    BY <2>2 DEF ApplyForm, Docs
  <2>4. proc'[App].pc = "savewrite" /\ proc'[App].new.body = Append(form.body, Edited)
    BY <1>1, <2>1, <2>3 DEF Locals
  <2>5. TextProcOK(App)'
    BY <2>2, <2>4 DEF TextProcOK
  <2>. QED
    BY <1>1, <1>2, <2>1, <2>2, <2>5, TextQuiet
<1>7. CASE SaveWrite
  <2>1. /\ proc'[App].pc = "savecommit" /\ proc'[App].new = proc[App].new
        /\ form' = form /\ proc[App].pc = "savewrite"
        /\ \A q \in Procs \ {App} : proc'[q] = proc[q]
    BY <1>1, <1>7 DEF SaveWrite, Locals
  <2>2. TextProcOK(App)'
    BY <1>1, <2>1 DEF TextProcOK
  <2>. QED
    BY <1>1, <1>2, <2>1, <2>2, TextQuiet
<1>. QED
  BY <1>3, <1>4, <1>5, <1>6, <1>7

\* A save puts the edit after an initial part of what the index says.
LEMMA SaveCommitFacts ==
    ASSUME TextInv, SaveCommit
    PROVE  \E d \in Dates : \E n \in 1..Len(IndexedText(d)) :
             /\ d = proc[App].date
             /\ index[d] # None
             /\ index' = [index EXCEPT ![d] = SavedRow(proc[App].new, index[d])]
             /\ SavedRow(proc[App].new, index[d]) \in Rows
             /\ SavedRow(proc[App].new, index[d]).body
                  = Append(SubSeq(IndexedText(d), 1, n), Edited)
<1>1. /\ App \in Procs /\ IInv /\ proc[App].pc = "savecommit"
      /\ proc[App].date \in Dates /\ proc[App].new \in Docs
      /\ form \in Forms /\ form.date = proc[App].date /\ form # None
      /\ index[proc[App].date] \in Rows /\ index[proc[App].date] # None
  BY ConstantsAssumption, NoneAssumption
     DEF TextInv, HInv, IInv, TypeOK, ProcOK, FormOK, SaveCommit
<1>2. PICK n \in 1..Len(IndexedText(form.date)) :
        form.body = SubSeq(IndexedText(form.date), 1, n)
  BY <1>1 DEF TextInv, FormPrefix
<1>3. proc[App].new.body = Append(form.body, Edited)
  BY <1>1 DEF TextInv, TextProcOK
<1>4. /\ SavedRow(proc[App].new, index[proc[App].date]) \in Rows
      /\ SavedRow(proc[App].new, index[proc[App].date]).body = proc[App].new.body
  BY <1>1, RowTypes DEF SavedRow, RowOf
<1>. QED
  BY <1>1, <1>2, <1>3, <1>4 DEF SaveCommit

LEMMA TextSaveCommit ==
    ASSUME TextInv, HInv', SaveCommit
    PROVE  TextInv'
<1>1. PICK d \in Dates, n \in Nat, row \in Rows :
        /\ d = proc[App].date /\ index[d] # None
        /\ index' = [index EXCEPT ![d] = row]
        /\ n \in 1..Len(IndexedText(d))
        /\ row.body = Append(SubSeq(IndexedText(d), 1, n), Edited)
  BY SaveCommitFacts
<1>2. /\ App \in Procs /\ IInv /\ Holds(App, d)
      /\ proc' = [proc EXCEPT ![App] = Idle] /\ form' = None /\ UNCHANGED ingested
  BY <1>1, ConstantsAssumption DEF SaveCommit, TextInv, HInv, Holds
<1>3. index'[d] = row /\ \A e \in Dates \ {d} : index'[e] = index[e]
  BY <1>1, <1>2 DEF IInv, TypeOK
<1>4. RowText(d)'
  <2>. DEFINE kept == SubSeq(IndexedText(d), 1, n)
  <2>1. /\ IndexedText(d) \in Seq(Sections) /\ IndexedText(d) = index[d].body
        /\ RowText(d)
    BY <1>1, <1>2, IndexedTextType DEF IndexedText, TextInv
  <2>2. /\ kept \in Seq(Sections) /\ Once(kept)
        /\ \A m : Occurs(m, kept) => Occurs(m, IndexedText(d))
    BY <1>1, <2>1, PrefixElements, OncePrefix DEF RowText
  <2>3. Edited \in Sections /\ Edited \notin Messages
    BY NoneAssumption DEF Sections
  <2>. HIDE DEF kept
  <2>4. Once(row.body) /\ row.body # <<>>
    BY <1>1, <2>2, <2>3, OnceAppend DEF kept
  <2>5. ASSUME NEW m \in Messages, Occurs(m, row.body) PROVE Filed(d, m)
    <3>1. Occurs(m, kept)
      BY <1>1, <2>2, <2>3, <2>5, OccursInAppend DEF kept
    <3>. QED
      BY <1>1, <2>1, <2>2, <3>1 DEF RowText
  <2>. QED
    BY <1>2, <1>3, <2>4, <2>5 DEF RowText, Once, Occurs, Filed
<1>5. \A e \in Dates : RowText(e)'
  BY <1>2, <1>3, <1>4 DEF TextInv, RowText, Once, Occurs, Filed
<1>6. \A q \in Procs : TextProcOK(q)'
  <2>1. proc'[App] = Idle /\ \A q \in Procs \ {App} : proc'[q] = proc[q]
    BY <1>2 DEF IInv, TypeOK
  <2>2. TextProcOK(App)'
    BY <2>1, IdleType DEF TextProcOK
  <2>3. \A e \in Dates : index'[e] # index[e] => Holds(App, e)
    BY <1>2, <1>3
  <2>. QED
    BY <1>2, <2>1, <2>2, <2>3, TextProcFrame
<1>. QED
  BY <1>2, <1>5, <1>6 DEF TextInv, FormPrefix

LEMMA TextInit == Init => TextInv
BY HealthyInit DEF Init, TextInv, FormPrefix, TextProcOK, RowText, Idle

LEMMA TextNext == Healthy /\ TextInv /\ [Next]_vars => TextInv'
<1>. SUFFICES ASSUME Healthy, TextInv, [Next]_vars PROVE TextInv'
  OBVIOUS
<1>1. HInv' /\ HInv /\ IInv
  BY HealthyNext DEF TextInv, HInv
<1>2. ASSUME NEW p \in Procs, NEW m \in Messages, Start(p, m) PROVE TextInv'
  BY <1>1, <1>2, TextStart
<1>3. ASSUME NEW p \in Procs, IngestStep(p) PROVE TextInv'
  <2>1. CASE WriteEntry(p) \/ Commit(p)
    BY <1>1, <2>1, TextWriteEntry, TextCommit
  <2>2. CASE RollbackEntry(p)
    BY <1>1, <2>2, TextReturn DEF RollbackEntry
  <2>3. CASE ~WriteEntry(p) /\ ~Commit(p) /\ ~RollbackEntry(p)
    BY <1>1, <1>3, <2>3, CarriedOn, TextCarriedOn DEF IngestStep
  <2>. QED
    BY <2>1, <2>2, <2>3
<1>4. \A p \in Procs : ~Crash(p)
  BY DEF Crash, Healthy
<1>5. CASE SaveRequest \/ SaveStep \/ \E d \in Dates : OpenForm(d)
  BY <1>1, <1>5, TextForm, TextSaveCommit DEF SaveStep
<1>6. CASE UNCHANGED vars
  BY <1>1, <1>6 DEF vars, TextInv, FormPrefix, IndexedText, TextProcOK, RowText, Filed
<1>. QED
  BY <1>2, <1>3, <1>4, <1>5, <1>6 DEF Next

-----------------------------------------------------------------------------
(* The theorems *)

\* p is between the entry.md and the record of m.
Recording(p, d, m) ==
    Holds(p, d) /\ proc[p].pc = "commit" /\ proc[p].msg = m

LEMMA DocText ==
    ASSUME TextInv, NEW d \in Dates, md[d] # None
    PROVE  /\ Once(md[d].body)
           /\ \A m \in Messages : Occurs(m, md[d].body) =>
                Filed(d, m) \/ \E p \in Procs : Recording(p, d, m)
<1>1. /\ IInv /\ DayOK(d) /\ RowText(d)
      /\ IndexedText(d) \in Seq(Sections)
  BY IndexedTextType DEF TextInv, HInv
<1>2. /\ Once(IndexedText(d))
      /\ \A m \in Messages : Occurs(m, IndexedText(d)) => Filed(d, m)
  BY <1>1 DEF RowText, IndexedText, Once, Occurs
<1>3. CASE Synced(d)
  BY <1>1, <1>2, <1>3, SyncedText DEF BodyOf
<1>4. ASSUME NEW p \in Procs, InFlight(p, d), proc[p].pc = "commit"
      PROVE  /\ Once(md[d].body)
             /\ \A m \in Messages : Occurs(m, md[d].body) => Filed(d, m) \/ Recording(p, d, m)
  <2>. DEFINE n == proc[p].msg
  <2>1. /\ Holds(p, d) /\ n \in Messages /\ n \in Sections /\ ~Filed(d, n)
        /\ md[d].body = Append(IndexedText(d), n)
    BY <1>1, <1>4 DEF InFlight, Holds, IInv, ProcOK, TextInv, TextProcOK, HInv,
       HealthyProcOK, AlreadyRecorded, Filed, Sections
  <2>2. ~Occurs(n, IndexedText(d))
    BY <1>2, <2>1
  <2>3. Once(md[d].body)
    BY <1>1, <1>2, <2>1, <2>2, OnceAppend
  <2>4. ASSUME NEW m \in Messages, Occurs(m, md[d].body) PROVE m = n \/ Filed(d, m)
    BY <1>1, <1>2, <2>1, <2>4, OccursInAppend
  <2>. QED
    BY <1>4, <2>1, <2>3, <2>4 DEF Recording
<1>5. ASSUME NEW p \in Procs, InFlight(p, d), proc[p].pc = "savecommit"
      PROVE  /\ Once(md[d].body)
             /\ \A m \in Messages : Occurs(m, md[d].body) => Filed(d, m)
  <2>1. /\ md[d].body = Append(form.body, Edited) /\ form # None /\ form.date = d
        /\ Edited \in Sections /\ Edited \notin Messages
    BY <1>1, <1>5, NoneAssumption
       DEF InFlight, Holds, IInv, ProcOK, TextInv, TextProcOK, Sections
  <2>2. PICK n \in 1..Len(IndexedText(d)) : form.body = SubSeq(IndexedText(d), 1, n)
    BY <2>1 DEF TextInv, FormPrefix
  <2>3. /\ form.body \in Seq(Sections) /\ Once(form.body)
        /\ \A m : Occurs(m, form.body) => Occurs(m, IndexedText(d))
    BY <1>1, <1>2, <2>2, PrefixElements, OncePrefix
  <2>4. Once(md[d].body)
    BY <2>1, <2>3, OnceAppend
  <2>5. ASSUME NEW m \in Messages, Occurs(m, md[d].body) PROVE Filed(d, m)
    BY <1>2, <2>1, <2>3, <2>5, OccursInAppend
  <2>. QED
    BY <2>4, <2>5
<1>. QED
  BY <1>1, <1>3, <1>4, <1>5 DEF DayOK, InFlight

\* No reply has two sections, on one day or on two, for any number of
\* processes, replies, days and edits; disk writes may fail.
THEOREM OneSectionPerReply ==
    ASSUME Healthy
    PROVE  Spec => []AtMostOneSection
<1>1. TextInv => AtMostOneSection
  <2>. SUFFICES ASSUME TextInv, NEW m \in Messages, NEW d \in Dates, NEW e \in Dates,
                       InBody(m, md[d]), InBody(m, md[e])
                PROVE  d = e /\ Count(m, BodyOf(md[d])) = 1
    BY DEF AtMostOneSection
  <2>1. /\ md[d] # None /\ Occurs(m, md[d].body) /\ BodyOf(md[d]) = md[d].body
        /\ md[e] # None /\ Occurs(m, md[e].body)
    BY DEF InBody, BodyOf, Occurs
  <2>2. /\ Filed(d, m) \/ \E p \in Procs : Recording(p, d, m)
        /\ Filed(e, m) \/ \E p \in Procs : Recording(p, e, m)
    BY <2>1, DocText
  <2>3. \A p, q \in Procs, f, g \in Dates :
          Recording(p, f, m) /\ Recording(q, g, m) => f = g
    BY DEF Recording, Holds, TextInv, HInv, HealthyProcOK, Healthy
  <2>4. \A p \in Procs, f, g \in Dates : ~(Recording(p, f, m) /\ Filed(g, m))
    BY DEF Recording, Filed, TextInv, HInv, HealthyProcOK, AlreadyRecorded
  <2>5. d = e
    BY <2>2, <2>3, <2>4 DEF Filed
  <2>6. PICK i \in 1..Len(md[d].body) : md[d].body[i] = m
    BY <2>1 DEF Occurs
  <2>7. {j \in 1..Len(md[d].body) : md[d].body[j] = m} = {i}
    BY <2>1, <2>6, DocText DEF Once
  <2>8. Cardinality({i}) = 1
    BY FS_Singleton
  <2>. QED
    BY <2>1, <2>5, <2>7, <2>8 DEF Count
<1>2. TextInv /\ [Next]_vars => TextInv'
  BY TextNext
<1>. QED
  BY <1>1, <1>2, TextInit, PTL DEF Spec

\* A reply's section leaves entry.md only by a save whose form was opened
\* before the reply arrived.
THEOREM LossNeedsStaleForm ==
    ASSUME Healthy
    PROVE  Spec => LostOnlyByStaleSave
<1>. DEFINE Lost(d, m) ==
       InBody(m, md[d]) /\ ~InBody(m, md'[d]) =>
         /\ proc[App].pc = "savewrite" /\ proc[App].date = d
         /\ \A i \in 1..Len(form.body) : form.body[i] # m
<1>1. TextInv /\ [Next]_vars => [\A d \in Dates, m \in Messages : Lost(d, m)]_vars
  <2>. SUFFICES ASSUME TextInv, Next, NEW d \in Dates, NEW m \in Messages,
                       InBody(m, md[d]), ~InBody(m, md'[d])
                PROVE  Lost(d, m)
    OBVIOUS
  <2>1. /\ IInv /\ md[d] \in Docs /\ Occurs(m, md[d].body) /\ md'[d] # md[d]
        /\ md \in [Dates -> Docs \cup {None}]
    BY DEF TextInv, HInv, IInv, TypeOK, InBody, BodyOf, Occurs
  <2>2. ASSUME NEW p \in Procs, WriteEntry(p) PROVE FALSE
    <3>1. PICK n \in Messages, t \in Seconds :
            md' = [md EXCEPT ![proc[p].date] = Compose(n, t, md[proc[p].date])]
      BY <2>1, <2>2 DEF WriteEntry, IInv, ProcOK
    <3>2. md'[d] = Compose(n, t, md[d])
      BY <2>1, <3>1
    <3>3. md'[d].body = Append(md[d].body, n) /\ md'[d] \in Docs
      <4>1. md[d] # None
        BY <2>1, NoneAssumption
      <4>2. Compose(n, t, md[d]).body = Append(md[d].body, n)
        BY <4>1 DEF Compose
      <4>. QED
        BY <2>1, <3>2, <4>2, ComposeType
    <3>4. Occurs(m, md'[d].body)
      BY <2>1, <3>3 DEF Occurs, Docs
    <3>. QED
      BY <3>3, <3>4, NoneAssumption DEF InBody, BodyOf, Occurs
  <2>3. ASSUME NEW p \in Procs, RollbackEntry(p) PROVE FALSE
    BY <2>1, <2>3 DEF RollbackEntry, RolledBackDoc, TextInv, HInv, HealthyProcOK
  <2>4. CASE SaveWrite
    <3>1. /\ proc[App].pc = "savewrite" /\ App \in Procs
          /\ md' = [md EXCEPT ![proc[App].date] = proc[App].new]
          /\ proc[App].new \in Docs /\ form \in Forms
      BY <2>1, <2>4, ConstantsAssumption DEF SaveWrite, IInv, ProcOK
    <3>2. proc[App].date = d /\ md'[d] = proc[App].new
      BY <2>1, <3>1
    <3>3. md'[d].body = Append(form.body, Edited) /\ md'[d] # None
      BY <3>1, <3>2, NoneAssumption DEF TextInv, TextProcOK
    <3>4. ~Occurs(m, Append(form.body, Edited))
      BY <3>3 DEF InBody, BodyOf, Occurs
    <3>5. \A i \in 1..Len(form.body) : form.body[i] # m
      BY <3>1, <3>4 DEF Occurs, Forms
    <3>. QED
      BY <3>1, <3>2, <3>5
  <2>5. \/ \E p \in Procs : WriteEntry(p) \/ RollbackEntry(p)
        \/ SaveWrite
    BY <2>1 DEF Next, Start, IngestStep, Crash, OpenForm, SaveRequest, SaveStep, Lock,
       WriteRaw, WriteRawFails, WriteMedia, WriteMediaFails, WriteEntryFails, Commit,
       CommitFails, RollbackFiles, SaveLock, SaveFindsNoEntry, SaveCommit, SaveFails
  <2>. QED
    BY <2>2, <2>3, <2>4, <2>5
<1>2. TextInv /\ [Next]_vars => TextInv'
  BY TextNext
<1>. QED
  BY <1>1, <1>2, TextInit, PTL DEF Spec, LostOnlyByStaleSave

-----------------------------------------------------------------------------
(* The writers implement Journal *)

LEMMA AcceptedGrows ==
    ASSUME IInv, NEW m \in Messages, NEW r, r # None, ingested[m] = None,
           ingested' = [ingested EXCEPT ![m] = r]
    PROVE  {n \in Messages : ingested'[n] # None}
             = {n \in Messages : ingested[n] # None} \cup {m}
BY DEF IInv, TypeOK

LEMMA JournalInit == Init => J!Init
BY DEF Init, J!Init, IndexedText

LEMMA JournalStep ==
    ASSUME Healthy, TextInv, [Next]_vars
    PROVE  [J!Next]_(J!jvars)
<1>. USE DEF J!Next, J!Accept, J!Edit, J!jvars
<1>1. IInv /\ index \in [Dates -> Rows \cup {None}]
  BY DEF TextInv, HInv, IInv, TypeOK
<1>2. ASSUME NEW p \in Procs, Commit(p) PROVE J!Next
  <2>1. PICK d, m, row, r :
          /\ d \in Dates /\ m \in Messages /\ row \in Rows
          /\ index' = [index EXCEPT ![d] = row]
          /\ row.body = Append(IndexedText(d), m)
          /\ ingested' = [ingested EXCEPT ![m] = r] /\ r # None
          /\ ingested[m] = None /\ d \in DatesFor[m]
    <3>1. /\ proc[p].pc = "commit" /\ proc[p].msg \in Messages /\ proc[p].date \in Dates
          /\ proc[p].rcvd \in Seconds /\ proc[p].new \in Docs
          /\ ingested[proc[p].msg] = None
          /\ proc[p].new.body = Append(IndexedText(proc[p].date), proc[p].msg)
          /\ proc[p].date \in DatesFor[proc[p].msg]
      BY <1>1, <1>2 DEF Commit, IInv, ProcOK, AlreadyRecorded, TextInv, TextProcOK
    <3>2. RowOf(proc[p].new) \in Rows /\ RowOf(proc[p].new).body = proc[p].new.body
      BY <3>1, RowTypes DEF RowOf
    <3>3. [date |-> proc[p].date, eml |-> proc[p].rcvd] # None
      BY <3>1, NoneAssumption
    <3>. QED
      BY <1>2, <3>1, <3>2, <3>3 DEF Commit
  <2>2. IndexedText(d)' = Append(IndexedText(d), m)
    BY <1>1, <2>1, NoneAssumption DEF IndexedText
  <2>3. \A e \in Dates \ {d} : IndexedText(e)' = IndexedText(e)
    BY <1>1, <2>1 DEF IndexedText
  <2>4. {n \in Messages : ingested'[n] # None}
          = {n \in Messages : ingested[n] # None} \cup {m}
    BY <1>1, <2>1, AcceptedGrows
  <2>5. [e \in Dates |-> IndexedText(e)']
          = [[e \in Dates |-> IndexedText(e)] EXCEPT ![d] = Append(@, m)]
    BY <2>2, <2>3
  <2>6. J!Accept(m, d)
    BY <2>1, <2>4, <2>5
  <2>. QED
    BY <2>1, <2>6
<1>3. CASE SaveCommit
  <2>1. PICK d \in Dates, n \in Nat, row \in Rows :
          /\ n \in 1..Len(IndexedText(d)) /\ index' = [index EXCEPT ![d] = row]
          /\ row.body = Append(SubSeq(IndexedText(d), 1, n), Edited)
    BY <1>3, SaveCommitFacts
  <2>2. IndexedText(d)' = Append(SubSeq(IndexedText(d), 1, n), Edited)
    BY <1>1, <2>1, NoneAssumption DEF IndexedText
  <2>3. \A e \in Dates \ {d} : IndexedText(e)' = IndexedText(e)
    BY <1>1, <2>1 DEF IndexedText
  <2>4. ingested' = ingested
    BY <1>3 DEF SaveCommit
  <2>5. [e \in Dates |-> IndexedText(e)']
          = [[e \in Dates |-> IndexedText(e)] EXCEPT
               ![d] = Append(SubSeq(@, 1, n), Edited)]
    BY <2>2, <2>3
  <2>6. J!Edit(d)
    BY <2>1, <2>4, <2>5
  <2>. QED
    BY <2>6
<1>4. CASE UNCHANGED <<index, ingested>>
  BY <1>4 DEF IndexedText
<1>5. \/ \E p \in Procs : Commit(p)
      \/ SaveCommit
      \/ UNCHANGED <<index, ingested>>
  BY DEF vars, Next, Start, IngestStep, Crash, OpenForm, SaveRequest, SaveStep, Lock,
     WriteRaw, WriteRawFails, WriteMedia, WriteMediaFails, WriteEntry, WriteEntryFails,
     CommitFails, RollbackFiles, RollbackEntry, SaveLock, SaveFindsNoEntry, SaveWrite,
     SaveFails
<1>. QED
  BY <1>2, <1>3, <1>4, <1>5

\* The pipeline and the edit form implement the journal the pages read: every
\* reply is accepted at most once, as one more section of one day, and an edit
\* keeps the text its form showed.
THEOREM WritersImplementJournal ==
    ASSUME Healthy
    PROVE  Spec => JournalRefined
<1>1. TextInv /\ [Next]_vars => [J!Next]_(J!jvars)
  BY JournalStep
<1>2. TextInv /\ [Next]_vars => TextInv'
  BY TextNext
<1>. QED
  BY <1>1, <1>2, TextInit, JournalInit, PTL DEF Spec, JournalRefined, J!Spec

=============================================================================
