----------------------------- MODULE PollProofs -----------------------------
(***************************************************************************)
(* Proofs about Poll, for any number of pollers and messages, with polls   *)
(* and restores that die anywhere and the loss of the database.            *)
(*                                                                         *)
(* Everything about the mailbox rests on one fact: the number found by     *)
(* SEARCH denotes the same message until STORE has used it (PollOK).  This *)
(* is so while the server keeps quiet about other sessions' EXPUNGEs, or   *)
(* while there is one poller (NumbersHold), and not otherwise.  Commands   *)
(* may be refused as often as MaxRefusals says: unmoved and owed keep      *)
(* account of what the code lets pass then.                                *)
(***************************************************************************)
EXTENDS Poll, TLAPS, WellFoundedInduction

-----------------------------------------------------------------------------
(* The inductive invariants *)

NumbersHold == ~ServerTells \/ \A p, q \in Pollers : p = q

Recorded == {m \in Messages : Ingested(m)}

Moving == {"locate", "copy", "store", "expunge", "mark"}

\* What a poll between two commands knows of its message.
PollOK(p) ==
    LET c == poll[p] IN
    /\ c.drain \subseteq Recorded
    /\ c.pc = "idle" => c.drain = {}
    /\ c.pc \in {"check", "ingest"} => c.msg \in Messages
    /\ c.pc \in Moving => c.msg \in Recorded
    /\ c.pc \in {"copy", "store"} => c.ident \in 1..Len(c.view) /\ c.view[c.ident] = c.msg
    /\ c.pc \in {"store", "expunge", "mark"} => c.msg \in processed
    /\ c.pc = "expunge" => c.msg \in deleted \/ ~InInbox(c.msg) \/ c.msg \in unmoved
    /\ c.pc = "mark" => ~InInbox(c.msg) \/ c.msg \in unmoved

\* A session that may be told of an EXPUNGE has nothing to be told.
ViewIsCurrent(p) ==
    ServerTells /\ poll[p].pc = "copy" =>
      \A i \in 1..Len(poll[p].view) : InInbox(poll[p].view[i])

\* A flag \Deleted is set only after the copy and the record.
BoxOK ==
    /\ \A m \in Messages : InInbox(m) => m \in arrived
    /\ deleted \subseteq processed /\ processed \subseteq arrived
    /\ ~lost => deleted \subseteq Recorded

BoxInv == BoxOK /\ CopiedBeforeExpunged /\ GoneOnlyWhenIngested /\ MarkedIsMoved

MailInv ==
    /\ TypeOK
    /\ BoxInv
    /\ \A p \in Pollers : PollOK(p) /\ ViewIsCurrent(p)

\* A reply of the window that had arrived when restore-imap began is ingested, or
\* still to be read: from the folder in hand (before its SEARCH, if it is in it)
\* or, if it is in Processed, from the next.
Owed(m) ==
    \/ Ingested(m)
    \/ restore.pc = "search" /\ (restore.folder = "inbox" \/ m \in processed)
    \/ m \in restore.todo
    \/ restore.pc \in {"check", "ingest"} /\ m = restore.msg
    \/ restore.folder = "inbox" /\ m \in processed

RestoreOK ==
    restore.pc # "idle" =>
      /\ restore.todo \subseteq (IF restore.folder = "inbox" THEN arrived ELSE processed)
      /\ restore.pc = "search" => restore.todo = {}
      /\ restore.pc \in {"check", "ingest"} => restore.msg \in Messages
      /\ restore.owed \subseteq arrived \cap restore.window
      /\ \A m \in restore.owed : Owed(m)

-----------------------------------------------------------------------------
(* Induction on the natural numbers, for a set.  The library has it for an *)
(* operator, which the provers cannot instantiate.                         *)

LEMMA Induction ==
    ASSUME NEW T, 0 \in T, \A n \in Nat : n \in T => n + 1 \in T
    PROVE  \A n \in Nat : n \in T
<1>. DEFINE Less == OpToRel(<, Nat)
<1>1. IsWellFoundedOn(Less, Nat)
  BY NatLessThanWellFounded
<1>2. \A m, n \in Nat : m < n => <<m, n>> \in Less
  BY DEF OpToRel
<1>. HIDE DEF Less
<1>3. SUFFICES ASSUME Nat \ T # {} PROVE FALSE
  OBVIOUS
<1>4. PICK n \in Nat \ T : \A m \in Nat \ T : ~(<<m, n>> \in Less)
  BY <1>1, <1>3, WFMin
<1>5. n - 1 \in Nat \ T
  BY <1>4
<1>6. <<n - 1, n>> \in Less
  BY <1>2, <1>5
<1>. QED
  BY <1>4, <1>5, <1>6

-----------------------------------------------------------------------------
(* Without *)

\* f is the recursive function in the definition of Without, up to k.
Steps(f, k, s, gone) ==
    f = [n \in 0..k |-> IF n = 0 THEN <<>>
                        ELSE IF s[n] \in gone THEN f[n - 1] ELSE Append(f[n - 1], s[n])]

\* There is one such function for every k, so that the CHOOSE behind the
\* definition finds it.
LEMMA StepsExist ==
    ASSUME NEW s, NEW gone PROVE \A k \in Nat : \E f : Steps(f, k, s, gone)
<1>. DEFINE T == {k \in Nat : \E f : Steps(f, k, s, gone)}
<1>1. 0 \in T
  <2>1. Steps([n \in 0..0 |-> <<>>], 0, s, gone)
    BY DEF Steps
  <2>. QED
    BY <2>1
<1>2. ASSUME NEW k \in Nat, k \in T PROVE k + 1 \in T
  <2>1. PICK f : Steps(f, k, s, gone)
    BY <1>2
  <2>. DEFINE top == IF s[k + 1] \in gone THEN f[k] ELSE Append(f[k], s[k + 1])
              g == [n \in 0..(k + 1) |-> IF n = k + 1 THEN top ELSE f[n]]
  <2>2. \A n \in 0..k : f[n] = IF n = 0 THEN <<>>
                        ELSE IF s[n] \in gone THEN f[n - 1] ELSE Append(f[n - 1], s[n])
    BY <2>1 DEF Steps
  <2>3. \A n \in 0..(k + 1) : g[n] = IF n = 0 THEN <<>>
                        ELSE IF s[n] \in gone THEN g[n - 1] ELSE Append(g[n - 1], s[n])
    BY <2>2
  <2>4. Steps(g, k + 1, s, gone)
    <3>. HIDE DEF top
    <3>. DEFINE h == [n \in 0..(k + 1) |-> IF n = 0 THEN <<>>
                        ELSE IF s[n] \in gone THEN g[n - 1] ELSE Append(g[n - 1], s[n])]
    <3>1. \A n \in 0..(k + 1) : g[n] = h[n]
      BY <2>3
    <3>2. g = h
      BY <3>1
    <3>. QED
      BY <3>2 DEF Steps
  <2>. QED
    BY <2>4
<1>. HIDE DEF T
<1>3. \A k \in Nat : k \in T
  BY <1>1, <1>2, Induction
<1>. QED
  BY <1>3 DEF T

\* The definition of Without, unfolded.
LEMMA WithoutSteps ==
    ASSUME NEW S, NEW s \in Seq(S), NEW gone
    PROVE  \E f : /\ Without(s, gone) = f[Len(s)]
                  /\ f[0] = <<>>
                  /\ \A n \in 1..Len(s) :
                       f[n] = IF s[n] \in gone THEN f[n - 1] ELSE Append(f[n - 1], s[n])
<1>. DEFINE f == CHOOSE f : f = [n \in 0..Len(s) |-> IF n = 0 THEN <<>>
                        ELSE IF s[n] \in gone THEN f[n - 1] ELSE Append(f[n - 1], s[n])]
<1>1. f = [n \in 0..Len(s) |-> IF n = 0 THEN <<>>
                        ELSE IF s[n] \in gone THEN f[n - 1] ELSE Append(f[n - 1], s[n])]
  <2>1. \E g : g = [n \in 0..Len(s) |-> IF n = 0 THEN <<>>
                        ELSE IF s[n] \in gone THEN g[n - 1] ELSE Append(g[n - 1], s[n])]
    <3>1. \E g : Steps(g, Len(s), s, gone)
      BY StepsExist, Len(s) \in Nat
    <3>. QED
      BY <3>1 DEF Steps
  <2>. QED
    BY <2>1
<1>2. Without(s, gone) = f[Len(s)]
  BY DEF Without
<1>. HIDE DEF f
<1>3. Len(s) \in Nat
  OBVIOUS
<1>4. f[0] = <<>>
  <2>1. 0 \in 0..Len(s)
    BY <1>3
  <2>. QED
    BY <1>1, <2>1
<1>5. ASSUME NEW n \in 1..Len(s)
      PROVE  f[n] = IF s[n] \in gone THEN f[n - 1] ELSE Append(f[n - 1], s[n])
  <2>1. n \in 0..Len(s) /\ n # 0
    BY <1>3
  <2>. QED
    BY <1>1, <2>1
<1>. QED
  BY <1>2, <1>4, <1>5

Members(s) == {s[i] : i \in 1..Len(s)}

\* What SEARCH UNSEEN, EXPUNGE and a told session leave: a sequence of the same
\* messages but those in gone, and all of it when there is none.
LEMMA WithoutMembers ==
    ASSUME NEW S, NEW s \in Seq(S), NEW gone
    PROVE  /\ Without(s, gone) \in Seq(S)
           /\ Members(Without(s, gone)) = Members(s) \ gone
           /\ Members(s) \cap gone = {} => Without(s, gone) = s
<1>1. PICK f : /\ Without(s, gone) = f[Len(s)]
               /\ f[0] = <<>>
               /\ \A n \in 1..Len(s) :
                    f[n] = IF s[n] \in gone THEN f[n - 1] ELSE Append(f[n - 1], s[n])
  BY WithoutSteps
<1>. DEFINE Upto(n) == {s[i] : i \in 1..n}
            T == {n \in Nat : n <= Len(s) =>
                   /\ f[n] \in Seq(S)
                   /\ Members(f[n]) = Upto(n) \ gone
                   /\ Upto(n) \cap gone = {} => f[n] = SubSeq(s, 1, n)}
<1>2. 0 \in T
  <2>1. Members(<<>>) = {} /\ Upto(0) = {}
    BY DEF Members
  <2>2. SubSeq(s, 1, 0) = <<>> /\ <<>> \in Seq(S)
    OBVIOUS
  <2>. HIDE DEF Upto
  <2>3. /\ f[0] \in Seq(S)
        /\ Members(f[0]) = Upto(0) \ gone
        /\ f[0] = SubSeq(s, 1, 0)
    BY <1>1, <2>1, <2>2
  <2>. QED
    BY <2>3
<1>3. ASSUME NEW n \in Nat, n \in T PROVE n + 1 \in T
  <2>. SUFFICES ASSUME n + 1 <= Len(s)
                PROVE  /\ f[n + 1] \in Seq(S)
                       /\ Members(f[n + 1]) = Upto(n + 1) \ gone
                       /\ Upto(n + 1) \cap gone = {} => f[n + 1] = SubSeq(s, 1, n + 1)
    OBVIOUS
  <2>1. /\ f[n] \in Seq(S)
        /\ Members(f[n]) = Upto(n) \ gone
        /\ Upto(n) \cap gone = {} => f[n] = SubSeq(s, 1, n)
    BY <1>3
  <2>2. f[n + 1] = IF s[n + 1] \in gone THEN f[n] ELSE Append(f[n], s[n + 1])
    BY <1>1
  <2>3. Upto(n + 1) = Upto(n) \cup {s[n + 1]} /\ s[n + 1] \in S
    OBVIOUS
  <2>4. Members(Append(f[n], s[n + 1])) = Members(f[n]) \cup {s[n + 1]}
    BY <2>1, <2>3 DEF Members
  <2>5. SubSeq(s, 1, n + 1) = Append(SubSeq(s, 1, n), s[n + 1])
    OBVIOUS
  <2>. HIDE DEF Upto
  <2>. QED
    BY <2>1, <2>2, <2>3, <2>4, <2>5
<1>. HIDE DEF T
<1>4. Len(s) \in T
  BY <1>2, <1>3, Induction
<1>5. SubSeq(s, 1, Len(s)) = s /\ Upto(Len(s)) = Members(s)
  BY DEF Members
<1>. QED
  BY <1>1, <1>4, <1>5 DEF T

-----------------------------------------------------------------------------
(* Types *)

Polls == [pc : PollPCs \cup {"idle"}, drain : SUBSET Messages, todo : Seq(Messages),
          msg : Messages \cup {None}, view : Seq(Messages), ident : Nat]

RestoreStates == [pc : {"idle", "search", "fetch", "check", "ingest"}, folder : FolderNames,
                  window : SUBSET Messages, todo : SUBSET Messages, msg : Messages \cup {None},
                  owed : SUBSET Messages, runs : 0..Restores]

LEMMA Types ==
    TypeOK <=>
      /\ inbox \in Seq(Messages)
      /\ seen \subseteq Messages /\ deleted \subseteq Messages
      /\ processed \subseteq Messages /\ arrived \subseteq Messages
      /\ row \in [Messages -> {None, "pending", "moved"}]
      /\ poll \in [Pollers -> Polls]
      /\ restore \in RestoreStates
      /\ aborts \in 0..MaxAborts /\ refusals \in 0..MaxRefusals
      /\ unmoved \subseteq Messages \cup {None} /\ lost \in BOOLEAN
BY DEF TypeOK, Polls, RestoreStates

LEMMA IdleType == Idle \in Polls
BY DEF Idle, Polls, PollPCs

LEMMA InitType == Init => TypeOK
<1>. SUFFICES ASSUME Init PROVE TypeOK
  OBVIOUS
<1>1. poll \in [Pollers -> Polls]
  BY IdleType DEF Init
<1>2. restore \in RestoreStates
  BY ConstantsAssumption DEF Init, NoRestore, RestoreStates, FolderNames
<1>3. inbox \in Seq(Messages) /\ row \in [Messages -> {None, "pending", "moved"}]
  BY DEF Init
<1>4. seen = {} /\ deleted = {} /\ processed = {} /\ arrived = {} /\ lost = FALSE /\ unmoved = {}
  BY DEF Init
<1>5. aborts \in 0..MaxAborts /\ refusals \in 0..MaxRefusals
  BY ConstantsAssumption DEF Init
<1>. QED
  BY <1>1, <1>2, <1>3, <1>4, <1>5, Types

\* A refusal is counted.
LEMMA RefuseType == ASSUME TypeOK, NEW c, Refuse(c) PROVE refusals' \in 0..MaxRefusals
<1>1. refusals < MaxRefusals /\ refusals' = refusals + 1
  BY DEF Refuse
<1>. QED
  BY <1>1, Types, ConstantsAssumption

\* What is in the inbox after an EXPUNGE that the server does.
LEMMA Expunged ==
    ASSUME TypeOK, inbox' = Without(inbox, deleted)
    PROVE  /\ inbox' \in Seq(Messages)
           /\ \A m \in Messages : InInbox(m)' <=> InInbox(m) /\ m \notin deleted
<1>1. inbox \in Seq(Messages) /\ inbox' = Without(inbox, deleted)
  BY Types
<1>2. inbox' \in Seq(Messages) /\ Members(inbox') = Members(inbox) \ deleted
  BY <1>1, WithoutMembers
<1>. QED
  BY <1>2 DEF Members, InInbox

\* A step of a poll that looks only at its own locals.
LEMMA PollType ==
    ASSUME TypeOK, NEW p \in Pollers, PollStep(p) PROVE TypeOK'
<1>. DEFINE c == poll[p]
<1>0. c \in Polls /\ poll \in [Pollers -> Polls] /\ inbox \in Seq(Messages)
  BY Types
<1>1. poll' \in [Pollers -> Polls]
  <2>1. ASSUME NEW q \in Polls, poll' = [poll EXCEPT ![p] = q] PROVE poll' \in [Pollers -> Polls]
    BY <1>0, <2>1
  <2>2. CASE Begin(p)
    <3>1. [Idle EXCEPT !.pc = "drain", !.drain = PendingMoves] \in Polls
      BY IdleType DEF Polls, PollPCs, PendingMoves
    <3>. QED
      BY <2>1, <2>2, <3>1 DEF Begin
  <2>3. CASE DrainNext(p)
    <3>1. PICK m \in c.drain : poll' = [poll EXCEPT ![p].pc = "locate", ![p].msg = m]
      BY <2>3 DEF DrainNext
    <3>2. [c EXCEPT !.pc = "locate", !.msg = m] \in Polls
      BY <1>0, <3>1 DEF Polls, PollPCs
    <3>. QED
      BY <1>0, <2>1, <3>1, <3>2
  <2>4. CASE DrainDone(p)
    BY <1>0, <2>4 DEF DrainDone, Polls, PollPCs
  <2>5. CASE Search(p)
    <3>1. Unseen \in Seq(Messages)
      BY <1>0, WithoutMembers DEF Unseen
    <3>2. [c EXCEPT !.pc = "fetch", !.todo = Unseen] \in Polls
      BY <1>0, <3>1 DEF Polls, PollPCs
    <3>. QED
      BY <1>0, <2>1, <2>5, <3>2, IdleType DEF Search
  <2>6. CASE Fetch(p)
    <3>1. c.todo \in Seq(Messages) /\ c.todo # <<>>
      BY <1>0, <2>6 DEF Fetch, Polls
    <3>2. Head(c.todo) \in Messages /\ Tail(c.todo) \in Seq(Messages)
      BY <3>1
    <3>3. [c EXCEPT !.pc = "check", !.msg = Head(c.todo), !.todo = Tail(c.todo)] \in Polls
      BY <1>0, <3>2 DEF Polls, PollPCs
    <3>4. [c EXCEPT !.todo = Tail(c.todo)] \in Polls
      BY <1>0, <3>2 DEF Polls
    <3>. QED
      BY <1>0, <2>1, <2>6, <3>3, <3>4 DEF Fetch
  <2>7. CASE Check(p) \/ Store(p) \/ Expunge(p)
    <3>1. PICK pc \in PollPCs : poll' = [poll EXCEPT ![p].pc = pc]
      BY <2>7 DEF Check, Store, Expunge, PollPCs
    <3>2. [c EXCEPT !.pc = pc] \in Polls
      BY <1>0 DEF Polls
    <3>. QED
      BY <1>0, <2>1, <3>1, <3>2
  <2>8. CASE Ingest(p)
    <3>1. [c EXCEPT !.pc = "locate"] \in Polls
      BY <1>0 DEF Polls, PollPCs
    <3>2. CASE poll' = [poll EXCEPT ![p].pc = "locate"]
      BY <1>0, <2>1, <3>1, <3>2
    <3>3. CASE poll' = [poll EXCEPT ![p] = Idle]
      BY <2>1, <3>3, IdleType
    <3>. QED
      BY <2>8, <3>2, <3>3 DEF Ingest
  <2>9. CASE Locate(p)
    <3>1. ASSUME NEW i \in Found(c.msg) PROVE [c EXCEPT !.pc = "copy", !.view = inbox, !.ident = i] \in Polls
      <4>1. i \in Nat
        BY <1>0, <3>1 DEF Found
      <4>. QED
        BY <1>0, <4>1 DEF Polls, PollPCs
    <3>. QED
      BY <1>0, <2>1, <2>9, <3>1, IdleType DEF Locate
  <2>10. CASE Copy(p)
    <3>1. c.view \in Seq(Messages)
      BY <1>0 DEF Polls
    <3>2. Told(c.view) \in Seq(Messages)
      BY <3>1, WithoutMembers DEF Told
    <3>3. \A view \in {c.view, Told(c.view)} : [c EXCEPT !.pc = "store", !.view = view] \in Polls
      BY <1>0, <3>1, <3>2 DEF Polls, PollPCs
    <3>. QED
      BY <1>0, <2>1, <2>10, <3>3, IdleType DEF Copy
  <2>11. CASE Mark(p)
    <3>1. [Idle EXCEPT !.pc = AfterMark(c), !.todo = c.todo, !.drain = c.drain \ {c.msg}] \in Polls
      BY <1>0, IdleType DEF Polls, PollPCs, AfterMark
    <3>. QED
      BY <2>1, <2>11, <3>1 DEF Mark
  <2>12. CASE FetchDone(p)
    BY <2>1, <2>12, IdleType DEF FetchDone
  <2>. QED
    BY <2>2, <2>3, <2>4, <2>5, <2>6, <2>7, <2>8, <2>9, <2>10, <2>11, <2>12 DEF PollStep
<1>2. row' \in [Messages -> {None, "pending", "moved"}]
  BY Types DEF PollStep, Begin, DrainNext, DrainDone, Search, Fetch, FetchDone, Check, Ingest, NewRow,
     Locate, Copy, Store, Expunge, Mark, Marked
<1>3. inbox' \in Seq(Messages)
  <2>1. CASE Expunge(p)
    BY <1>0, <2>1, Expunged DEF Expunge
  <2>2. CASE ~Expunge(p)
    BY <1>0, <2>2 DEF PollStep, Begin, DrainNext, DrainDone, Search, Fetch, FetchDone, Check, Ingest,
       Locate, Copy, Store, Mark, mailbox
  <2>. QED
    BY <2>1, <2>2
<1>4. /\ seen' \subseteq Messages /\ deleted' \subseteq Messages
      /\ processed' \subseteq Messages
  <2>1. CASE Fetch(p)
    BY <1>0, <2>1, Types DEF Fetch, Yields, YieldsNothing, Polls
  <2>2. CASE Copy(p)
    BY <1>0, <2>2, Types DEF Copy, CopyOf, InInbox
  <2>3. CASE Store(p)
    BY <2>3, Types DEF Store, Denoted
  <2>4. CASE ~Fetch(p) /\ ~Copy(p) /\ ~Store(p)
    BY <2>4, Types DEF PollStep, Begin, DrainNext, DrainDone, Search, FetchDone, Check, Ingest,
       Locate, Expunge, Mark, mailbox
  <2>. QED
    BY <2>1, <2>2, <2>3, <2>4
<1>5. UNCHANGED <<arrived, restore, aborts, lost>>
  BY DEF PollStep, Begin, DrainNext, DrainDone, Search, Fetch, FetchDone, Check, Ingest,
     Locate, Copy, Store, Expunge, Mark, Yields, YieldsNothing, Refuse, failures
<1>6. refusals' \in 0..MaxRefusals
  <2>1. UNCHANGED refusals \/ \E k \in Refusable : Refuse(k)
    BY DEF PollStep, Begin, DrainNext, DrainDone, Search, Fetch, FetchDone, Check, Ingest,
       Locate, Copy, Store, Expunge, Mark, Yields, YieldsNothing, Refusable, failures
  <2>. QED
    BY <2>1, RefuseType, Types
<1>7. unmoved' \subseteq Messages \cup {None}
  <2>1. CASE Store(p) \/ Expunge(p)
    <3>1. UNCHANGED unmoved \/ unmoved' = unmoved \cup {c.msg}
      BY <2>1 DEF Store, Expunge, failures
    <3>. QED
      BY <1>0, <3>1, Types DEF Polls
  <2>2. CASE ~Store(p) /\ ~Expunge(p)
    <3>1. UNCHANGED unmoved
      BY <2>2 DEF PollStep, Begin, DrainNext, DrainDone, Search, Fetch, FetchDone, Check, Ingest,
         Locate, Copy, Mark, Yields, YieldsNothing, failures
    <3>. QED
      BY <3>1, Types
  <2>. QED
    BY <2>1, <2>2
<1>. QED
  BY <1>1, <1>2, <1>3, <1>4, <1>5, <1>6, <1>7, Types DEF TypeOK, Polls, RestoreStates

LEMMA RestoreType ==
    ASSUME TypeOK, RestoreBegin \/ RestoreStep \/ RestoreAbort PROVE TypeOK'
<1>0. restore \in RestoreStates /\ inbox \in Seq(Messages) /\ processed \subseteq Messages
  BY Types
<1>1. restore' \in RestoreStates
  <2>1. CASE RestoreBegin
    <3>1. restore.runs + 1 \in 0..Restores /\ arrived \subseteq Messages
      <4>1. restore.runs \in 0..Restores /\ restore.runs < Restores
        BY <1>0, <2>1 DEF RestoreBegin, RestoreStates
      <4>. QED
        BY <4>1, Types, ConstantsAssumption
    <3>2. PICK w \in Windows :
            restore' = [NoRestore EXCEPT !.pc = "search", !.window = w, !.owed = arrived \cap w,
                                         !.runs = restore.runs + 1]
      BY <2>1 DEF RestoreBegin
    <3>3. w \subseteq Messages
      BY ConstantsAssumption
    <3>4. NoRestore \in RestoreStates
      BY ConstantsAssumption DEF RestoreStates, FolderNames, NoRestore
    <3>5. arrived \cap w \subseteq Messages
      BY <3>3
    <3>. QED
      BY <3>1, <3>2, <3>3, <3>4, <3>5 DEF RestoreStates
  <2>2. CASE RestoreSearch \/ RestoreFetch
    <3>1. CASE RestoreSearch
      <4>. DEFINE todo == Contents(restore.folder) \cap restore.window
                  owed == restore.owed \ PassedOver(Contents(restore.folder))
      <4>1. todo \subseteq Messages /\ owed \subseteq Messages
        BY <1>0 DEF RestoreStates
      <4>2. \/ restore' = [restore EXCEPT !.pc = "fetch", !.todo = todo]
            \/ restore' = [restore EXCEPT !.pc = "fetch", !.owed = owed]
        BY <3>1 DEF RestoreSearch
      <4>. HIDE DEF todo, owed
      <4>. QED
        BY <1>0, <4>1, <4>2 DEF RestoreStates
    <3>2. CASE RestoreFetch
      <4>1. PICK m \in restore.todo :
                 \/ restore' = [restore EXCEPT !.pc = "check", !.msg = m, !.todo = @ \ {m}]
                 \/ restore' = [restore EXCEPT
                                 !.todo = @ \ {m},
                                 !.owed = @ \ PassedOver({m} \cap Contents(restore.folder))]
        BY <3>2 DEF RestoreFetch
      <4>. QED
        BY <1>0, <4>1 DEF RestoreStates
    <3>. QED
      BY <2>2, <3>1, <3>2
  <2>3. CASE RestoreCheck \/ RestoreIngest
    BY <1>0, <2>3 DEF RestoreCheck, RestoreIngest, RestoreStates
  <2>4. CASE RestoreNextFolder
    BY <1>0, <2>4 DEF RestoreNextFolder, RestoreStates, FolderNames, Contents
  <2>5. CASE RestoreConflict \/ RestoreEnd \/ RestoreAbort
    <3>1. [NoRestore EXCEPT !.runs = restore.runs] \in RestoreStates
      BY <1>0 DEF RestoreStates, NoRestore, FolderNames
    <3>. QED
      BY <2>5, <3>1 DEF RestoreConflict, RestoreEnd, RestoreAbort
  <2>. QED
    BY <2>1, <2>2, <2>3, <2>4, <2>5 DEF RestoreStep
<1>2. seen' \subseteq Messages
  <2>1. CASE RestoreFetch
    <3>1. restore.todo \subseteq Messages /\ seen \subseteq Messages
      BY <1>0, Types DEF RestoreStates
    <3>2. \E m \in restore.todo : seen' = seen \cup {m} \/ seen' = seen
      BY <2>1 DEF RestoreFetch, Yields, YieldsNothing
    <3>. QED
      BY <3>1, <3>2
  <2>2. CASE ~RestoreFetch
    <3>1. UNCHANGED seen
      BY <2>2 DEF RestoreBegin, RestoreStep, RestoreAbort, RestoreSearch, RestoreCheck,
         RestoreIngest, RestoreConflict, RestoreNextFolder, RestoreEnd, mailbox
    <3>. QED
      BY <3>1, Types
  <2>. QED
    BY <2>1, <2>2
<1>3. row' \in [Messages -> {None, "pending", "moved"}]
  BY Types DEF RestoreBegin, RestoreStep, RestoreAbort, RestoreSearch, RestoreFetch, RestoreCheck,
     RestoreIngest, RestoreConflict, RestoreNextFolder, RestoreEnd, NewRow
<1>4. aborts' \in 0..MaxAborts
  <2>1. \/ UNCHANGED aborts
        \/ aborts < MaxAborts /\ aborts' = aborts + 1
    BY DEF RestoreBegin, RestoreStep, RestoreAbort, RestoreSearch, RestoreFetch, RestoreCheck, Yields, YieldsNothing,
       Refuse, RestoreIngest, RestoreConflict, RestoreNextFolder, RestoreEnd, failures
  <2>. QED
    BY <2>1, Types, ConstantsAssumption
<1>5. UNCHANGED <<inbox, deleted, processed, arrived, poll, unmoved, lost>>
  BY DEF RestoreBegin, RestoreStep, RestoreAbort, RestoreSearch, RestoreFetch, RestoreCheck, Yields, YieldsNothing,
     RestoreIngest, RestoreConflict, RestoreNextFolder, RestoreEnd, mailbox, failures
<1>6. refusals' \in 0..MaxRefusals
  <2>1. UNCHANGED refusals \/ \E k \in Refusable : Refuse(k)
    BY DEF RestoreBegin, RestoreStep, RestoreAbort, RestoreSearch, RestoreFetch, RestoreCheck, Yields, YieldsNothing,
       Refusable, RestoreIngest, RestoreConflict, RestoreNextFolder, RestoreEnd, failures
  <2>. QED
    BY <2>1, RefuseType, Types
<1>. QED
  BY <1>1, <1>2, <1>3, <1>4, <1>5, <1>6, Types DEF TypeOK, Polls, RestoreStates

LEMMA NextType == TypeOK /\ [Next]_vars => TypeOK'
<1>. SUFFICES ASSUME TypeOK, [Next]_vars PROVE TypeOK'
  OBVIOUS
<1>. USE DEF Polls, RestoreStates
<1>1. CASE \E m \in Messages : Deliver(m)
  <2>1. PICK m \in Messages : Deliver(m)
    BY <1>1
  <2>2. inbox' \in Seq(Messages)
    BY <2>1, Types DEF Deliver
  <2>. QED
    BY <2>1, <2>2, Types DEF Deliver, failures, TypeOK
<1>2. ASSUME NEW p \in Pollers, Abort(p) PROVE TypeOK'
  <2>1. poll' \in [Pollers -> Polls]
    BY <1>2, Types, IdleType DEF Abort
  <2>2. aborts' \in 0..MaxAborts
    BY <1>2, Types, ConstantsAssumption DEF Abort
  <2>. QED
    BY <1>2, <2>1, <2>2, Types DEF Abort, mailbox, TypeOK
<1>3. CASE LoseIndex
  <2>1. row' \in [Messages -> {None, "pending", "moved"}]
    BY <1>3 DEF LoseIndex
  <2>. QED
    BY <1>3, <2>1, Types DEF LoseIndex, mailbox, failures, TypeOK
<1>4. CASE UNCHANGED vars
  BY <1>4, Types DEF vars, mailbox, failures, TypeOK
<1>. QED
  BY <1>1, <1>2, <1>3, <1>4, PollType, RestoreType DEF Next

\* Every variable has the type the code gives it, for any number of pollers
\* and messages.
THEOREM TypeCorrect == Spec => []TypeOK
BY InitType, NextType, PTL DEF Spec

-----------------------------------------------------------------------------
(* The mailbox and the index *)

Shared == <<inbox, deleted, processed, arrived, row, unmoved, lost>>

\* What every step but the loss of the index leaves a poll that is not at it.
Orderly ==
    /\ processed \subseteq processed'
    /\ Recorded \subseteq Recorded'
    /\ unmoved \subseteq unmoved'
    /\ \A m \in arrived : InInbox(m)' => InInbox(m)
    /\ \A m \in deleted : m \in deleted' \/ ~InInbox(m)'

LEMMA InboxMessages ==
    ASSUME TypeOK, NEW m, InInbox(m) PROVE m \in Messages
BY Types DEF InInbox

LEMMA QuietBox ==
    ASSUME BoxInv, UNCHANGED Shared PROVE BoxInv' /\ Orderly
BY DEF Shared, BoxInv, BoxOK, CopiedBeforeExpunged, GoneOnlyWhenIngested, MarkedIsMoved, Orderly,
   Recorded, Ingested, InInbox

LEMMA DeliverBox ==
    ASSUME TypeOK, BoxInv, NEW m \in Messages, Deliver(m) PROVE BoxInv' /\ Orderly
<1>1. inbox \in Seq(Messages) /\ arrived \subseteq Messages
  BY Types
<1>2. \A k \in Messages : InInbox(k)' <=> InInbox(k) \/ k = m
  <2>1. /\ Len(inbox) \in Nat /\ Len(inbox') = Len(inbox) + 1 /\ inbox'[Len(inbox) + 1] = m
        /\ \A i \in 1..Len(inbox) : inbox'[i] = inbox[i]
    BY <1>1 DEF Deliver
  <2>2. 1..Len(inbox') = 1..Len(inbox) \cup {Len(inbox) + 1}
    BY <2>1
  <2>. QED
    BY <2>1, <2>2 DEF InInbox
<1>3. UNCHANGED <<deleted, processed, row, unmoved, lost>> /\ arrived' = arrived \cup {m} /\ m \notin arrived
  BY DEF Deliver, failures
<1>4. Orderly
  BY <1>1, <1>2, <1>3 DEF Orderly, Recorded, Ingested
<1>5. BoxOK' /\ CopiedBeforeExpunged'
  BY <1>1, <1>2, <1>3 DEF BoxInv, BoxOK, CopiedBeforeExpunged, Recorded, Ingested
<1>6. GoneOnlyWhenIngested' /\ MarkedIsMoved'
  BY <1>1, <1>2, <1>3 DEF BoxInv, BoxOK, GoneOnlyWhenIngested, MarkedIsMoved, Ingested
<1>. QED
  BY <1>4, <1>5, <1>6 DEF BoxInv

\* Ingest and RestoreIngest.
LEMMA RecordBox ==
    ASSUME TypeOK, BoxInv, NEW m, ~Ingested(m), row' = [row EXCEPT ![m] = NewRow],
           UNCHANGED <<inbox, deleted, processed, arrived, unmoved, lost>>
    PROVE  BoxInv' /\ Orderly
<1>1. row \in [Messages -> {None, "pending", "moved"}]
  BY Types
<1>2. /\ \A k \in Messages : InInbox(k)' <=> InInbox(k)
      /\ \A k \in Messages : Ingested(k) => Ingested(k)'
      /\ \A k \in Messages : row'[k] = "moved" => row[k] = "moved"
  <2>1. NewRow # None /\ NewRow # "moved"
    BY ConstantsAssumption DEF NewRow
  <2>. QED
    BY <1>1, <2>1 DEF Ingested, InInbox
<1>3. deleted \subseteq Messages /\ processed \subseteq Messages /\ arrived \subseteq Messages
  BY Types
<1>4. Orderly
  BY <1>2, <1>3 DEF Orderly, Recorded
<1>5. BoxOK' /\ CopiedBeforeExpunged'
  BY <1>2, <1>3 DEF BoxInv, BoxOK, CopiedBeforeExpunged, Recorded
<1>6. GoneOnlyWhenIngested' /\ MarkedIsMoved'
  BY <1>2, <1>3 DEF BoxInv, GoneOnlyWhenIngested, MarkedIsMoved
<1>. QED
  BY <1>4, <1>5, <1>6 DEF BoxInv

\* A poll at COPY, STORE or EXPUNGE.
LEMMA CopyBox ==
    ASSUME TypeOK, BoxInv, NEW p \in Pollers, PollOK(p), Copy(p)
    PROVE  BoxInv' /\ Orderly
<1>1. \/ processed' = processed
      \/ \E m \in Messages : InInbox(m) /\ processed' = processed \cup {m}
  BY InboxMessages DEF Copy, CopyOf
<1>2. UNCHANGED <<inbox, deleted, arrived, row, unmoved, lost>>
  BY DEF Copy, failures
<1>3. deleted \subseteq Messages /\ processed \subseteq Messages /\ arrived \subseteq Messages
  BY Types
<1>4. \A k \in Messages : (InInbox(k)' <=> InInbox(k)) /\ (Ingested(k)' <=> Ingested(k))
  BY <1>2 DEF InInbox, Ingested
<1>5. processed \subseteq processed' /\ processed' \subseteq arrived
  BY <1>1, <1>3 DEF BoxInv, BoxOK
<1>. QED
  BY <1>2, <1>3, <1>4, <1>5
  DEF BoxInv, BoxOK, CopiedBeforeExpunged, GoneOnlyWhenIngested, MarkedIsMoved, Orderly, Recorded

LEMMA StoreBox ==
    ASSUME TypeOK, BoxInv, NEW p \in Pollers, PollOK(p), Store(p)
    PROVE  /\ BoxInv' /\ Orderly
           /\ poll[p].msg \in deleted' \/ ~InInbox(poll[p].msg) \/ poll[p].msg \in unmoved'
<1>. DEFINE m == poll[p].msg
<1>1. m \in Recorded /\ m \in processed /\ m \in Messages
  BY DEF PollOK, Store, Moving, Recorded
<1>2. Denoted(poll[p].view, poll[p].ident) = {m}
  <2>1. poll[p].ident \in 1..Len(poll[p].view) /\ poll[p].view[poll[p].ident] = m
    BY DEF PollOK, Store
  <2>2. poll[p].view \in Seq(Messages)
    BY Types DEF Polls
  <2>. QED
    BY <1>1, <2>1, <2>2 DEF Denoted
<1>3. \/ deleted' = deleted \cup {k \in {m} : InInbox(k)} /\ UNCHANGED unmoved
      \/ UNCHANGED deleted /\ unmoved' = unmoved \cup {m}
  BY <1>2 DEF Store, failures
<1>4. UNCHANGED <<inbox, processed, arrived, row, lost>>
  BY DEF Store
<1>5. processed \subseteq Messages /\ arrived \subseteq Messages
  BY Types
<1>6. deleted \subseteq deleted' /\ deleted' \subseteq deleted \cup {m} /\ unmoved \subseteq unmoved'
  BY <1>3
<1>7. \A k \in Messages : (InInbox(k)' <=> InInbox(k)) /\ (Ingested(k)' <=> Ingested(k))
  BY <1>4 DEF InInbox, Ingested
<1>8. BoxInv' /\ Orderly
  BY <1>1, <1>4, <1>5, <1>6, <1>7
  DEF BoxInv, BoxOK, CopiedBeforeExpunged, GoneOnlyWhenIngested, MarkedIsMoved, Orderly, Recorded
<1>9. m \in deleted' \/ ~InInbox(m) \/ m \in unmoved'
  BY <1>3
<1>. QED
  BY <1>8, <1>9

LEMMA ExpungeBox ==
    ASSUME TypeOK, BoxInv, NEW p \in Pollers, PollOK(p), Expunge(p)
    PROVE  /\ BoxInv' /\ Orderly
           /\ \A m \in Messages : m = poll[p].msg => ~InInbox(m)' \/ m \in unmoved'
<1>0. /\ UNCHANGED <<processed, arrived, row, lost>>
      /\ deleted \subseteq Messages /\ processed \subseteq Messages /\ arrived \subseteq Messages
  BY Types DEF Expunge
<1>1. /\ \A m \in Messages : Ingested(m)' <=> Ingested(m)
      /\ poll[p].msg \in Messages
      /\ poll[p].msg \in deleted \/ ~InInbox(poll[p].msg) \/ poll[p].msg \in unmoved
  BY <1>0 DEF PollOK, Expunge, Moving, Recorded, Ingested
<1>2. CASE inbox' = Without(inbox, deleted) /\ deleted' = {} /\ UNCHANGED failures
  <2>1. \A m \in Messages : InInbox(m)' <=> InInbox(m) /\ m \notin deleted
    BY <1>2, Expunged
  <2>2. UNCHANGED unmoved /\ deleted' = {}
    BY <1>2 DEF failures
  <2>3. BoxOK' /\ Orderly
    BY <1>0, <1>1, <2>1, <2>2 DEF BoxInv, BoxOK, Orderly, Recorded
  <2>4. CopiedBeforeExpunged' /\ MarkedIsMoved'
    BY <1>0, <1>1, <2>1, <2>2 DEF BoxInv, BoxOK, CopiedBeforeExpunged, MarkedIsMoved
  <2>5. GoneOnlyWhenIngested'
    BY <1>0, <1>1, <2>1, <2>2 DEF BoxInv, BoxOK, GoneOnlyWhenIngested, Recorded
  <2>6. PICK m \in Messages : m = poll[p].msg /\ (m \in deleted \/ ~InInbox(m) \/ m \in unmoved)
    BY <1>1
  <2>7. ~InInbox(m)' \/ m \in unmoved'
    BY <2>1, <2>2, <2>6
  <2>. QED
    BY <2>3, <2>4, <2>5, <2>6, <2>7 DEF BoxInv
<1>3. CASE UNCHANGED <<inbox, deleted>> /\ unmoved' = unmoved \cup {poll[p].msg}
  <2>1. \A m \in Messages : InInbox(m)' <=> InInbox(m)
    BY <1>3 DEF InInbox
  <2>2. BoxInv' /\ Orderly
    BY <1>0, <1>1, <1>3, <2>1
    DEF BoxInv, BoxOK, CopiedBeforeExpunged, GoneOnlyWhenIngested, MarkedIsMoved, Orderly, Recorded
  <2>. QED
    BY <1>3, <2>2
<1>. QED
  BY <1>2, <1>3 DEF Expunge

LEMMA MarkBox ==
    ASSUME TypeOK, BoxInv, NEW p \in Pollers, PollOK(p), Mark(p)
    PROVE  BoxInv' /\ Orderly
<1>1. PICK m \in Messages : /\ m = poll[p].msg /\ Ingested(m) /\ m \in processed
                            /\ ~InInbox(m) \/ m \in unmoved
  BY DEF PollOK, Mark, Moving, Recorded
<1>2. row \in [Messages -> {None, "pending", "moved"}]
  BY Types
<1>3. row' = [row EXCEPT ![m] = "moved"]
  BY <1>1 DEF Mark, Marked, Ingested
<1>4. UNCHANGED <<inbox, deleted, processed, arrived, unmoved, lost>>
  BY DEF Mark, mailbox, failures
<1>5. /\ \A k \in Messages : InInbox(k)' <=> InInbox(k)
      /\ \A k \in Messages : Ingested(k) => Ingested(k)'
      /\ \A k \in Messages : row'[k] = "moved" => row[k] = "moved" \/ k = m
  BY <1>2, <1>3, <1>4, ConstantsAssumption DEF Ingested, InInbox
<1>6. deleted \subseteq Messages /\ processed \subseteq Messages /\ arrived \subseteq Messages
  BY Types
<1>7. Orderly /\ BoxOK' /\ CopiedBeforeExpunged'
  BY <1>4, <1>5, <1>6 DEF BoxInv, BoxOK, CopiedBeforeExpunged, Orderly, Recorded
<1>8. GoneOnlyWhenIngested' /\ MarkedIsMoved'
  BY <1>1, <1>4, <1>5, <1>6 DEF BoxInv, GoneOnlyWhenIngested, MarkedIsMoved
<1>. QED
  BY <1>7, <1>8 DEF BoxInv

-----------------------------------------------------------------------------
(* What a poll knows *)

\* A poll that is not at the step keeps what it knows.
LEMMA PollFrame ==
    ASSUME TypeOK, BoxInv, Orderly, NEW q \in Pollers, PollOK(q), poll'[q] = poll[q]
    PROVE  PollOK(q)'
<1>1. deleted \subseteq Messages /\ processed \subseteq arrived /\ processed \subseteq Messages
  BY Types DEF BoxInv, BoxOK
<1>2. PICK m : m = poll[q].msg
  OBVIOUS
<1>3. /\ poll[q].drain \subseteq Recorded'
      /\ poll[q].pc \in Moving => m \in Recorded'
      /\ poll[q].pc \in {"store", "expunge", "mark"} => m \in processed'
      /\ poll[q].pc = "expunge" => m \in deleted' \/ ~InInbox(m)' \/ m \in unmoved'
      /\ poll[q].pc = "mark" => ~InInbox(m)' \/ m \in unmoved'
  BY <1>1, <1>2 DEF PollOK, Orderly
<1>. QED
  BY <1>2, <1>3 DEF PollOK

\* Its view stays current, too: only its own poll's EXPUNGE could change that.
LEMMA ViewFrame ==
    ASSUME NumbersHold, TypeOK, [Next]_vars, NEW q \in Pollers, ViewIsCurrent(q), poll'[q] = poll[q]
    PROVE  ViewIsCurrent(q)'
<1>. SUFFICES ASSUME ServerTells, poll[q].pc = "copy",
                     NEW i \in 1..Len(poll[q].view)
              PROVE  InInbox(poll[q].view[i])'
  BY DEF ViewIsCurrent
<1>1. PICK m : m = poll[q].view[i]
  OBVIOUS
<1>2. InInbox(m)
  BY <1>1 DEF ViewIsCurrent
<1>3. ~\E p \in Pollers : Expunge(p)
  BY DEF NumbersHold, Expunge
<1>4. CASE UNCHANGED inbox
  BY <1>1, <1>2, <1>4 DEF InInbox
<1>5. ASSUME NEW k \in Messages, Deliver(k) PROVE InInbox(m)'
  BY <1>2, <1>5, Types DEF Deliver, InInbox
<1>. QED
  BY <1>1, <1>3, <1>4, <1>5
  DEF Next, vars, mailbox, PollStep, Begin, DrainNext, DrainDone, Search, Fetch, FetchDone, Check, Ingest,
      Locate, Copy, Store, Mark, Abort, RestoreBegin, RestoreStep, RestoreAbort, RestoreSearch, RestoreFetch, RestoreCheck,
      RestoreIngest, RestoreConflict, RestoreNextFolder, RestoreEnd, LoseIndex

\* A step of a poll leaves the mailbox and the index in order.
LEMMA PollBox ==
    ASSUME TypeOK, BoxInv, NEW p \in Pollers, PollOK(p), PollStep(p) \/ Abort(p)
    PROVE  BoxInv' /\ Orderly
<1>1. CASE Copy(p) \/ Store(p) \/ Expunge(p) \/ Mark(p)
  BY <1>1, CopyBox, StoreBox, ExpungeBox, MarkBox
<1>2. CASE Ingest(p)
  <2>1. CASE UNCHANGED row
    BY <1>2, <2>1, QuietBox DEF Ingest, Shared, mailbox, failures
  <2>2. CASE ~Ingested(poll[p].msg) /\ row' = [row EXCEPT ![poll[p].msg] = NewRow]
    BY <1>2, <2>2, RecordBox DEF Ingest, mailbox, failures
  <2>. QED
    BY <1>2, <2>1, <2>2 DEF Ingest
<1>3. CASE Begin(p) \/ DrainNext(p) \/ DrainDone(p) \/ Search(p) \/ Fetch(p) \/ FetchDone(p)
           \/ Check(p) \/ Locate(p) \/ Abort(p)
  <2>1. UNCHANGED Shared
    BY <1>3 DEF Begin, DrainNext, DrainDone, Search, Fetch, FetchDone, Check, Locate, Abort,
       Yields, YieldsNothing, Shared, mailbox, failures
  <2>. QED
    BY <2>1, QuietBox
<1>. QED
  BY <1>1, <1>2, <1>3 DEF PollStep

\* What the poll at the step knows after it.
LEMMA PollOwn ==
    ASSUME TypeOK, BoxInv, NEW p \in Pollers, PollOK(p), ViewIsCurrent(p),
           PollStep(p) \/ Abort(p)
    PROVE  PollOK(p)' /\ ViewIsCurrent(p)'
<1>. DEFINE c == poll[p]
<1>0. /\ c \in Polls /\ poll \in [Pollers -> Polls] /\ inbox \in Seq(Messages)
      /\ row \in [Messages -> {None, "pending", "moved"}]
  BY Types
<1>m. /\ c.drain \subseteq Recorded' /\ (c.msg \in Recorded => c.msg \in Recorded')
      /\ processed \subseteq processed'
  BY PollBox DEF PollOK, Orderly
<1>1. CASE poll' = [poll EXCEPT ![p] = Idle]
  BY <1>0, <1>1 DEF PollOK, ViewIsCurrent, Idle, Moving
<1>2. CASE Begin(p)
  <2>1. poll'[p] = [Idle EXCEPT !.pc = "drain", !.drain = PendingMoves] /\ UNCHANGED row
    BY <1>0, <1>2 DEF Begin
  <2>2. PendingMoves \subseteq Recorded'
    BY <2>1, ConstantsAssumption DEF PendingMoves, Recorded, Ingested
  <2>. QED
    BY <2>1, <2>2 DEF PollOK, ViewIsCurrent, Idle, Moving
<1>3. CASE DrainNext(p)
  <2>1. PICK m \in c.drain : poll'[p] = [c EXCEPT !.pc = "locate", !.msg = m]
    BY <1>0, <1>3 DEF DrainNext
  <2>. QED
    BY <1>0, <1>m, <2>1 DEF PollOK, ViewIsCurrent, Polls, Moving
<1>4. CASE (DrainDone(p) \/ Search(p)) /\ poll' # [poll EXCEPT ![p] = Idle]
  <2>1. /\ poll'[p].pc \in {"search", "fetch"} /\ poll'[p].drain = c.drain
    BY <1>0, <1>4 DEF DrainDone, Search, Polls
  <2>. QED
    BY <1>m, <2>1 DEF PollOK, ViewIsCurrent, Moving
<1>5. CASE Fetch(p)
  <2>1. c.todo \in Seq(Messages) /\ c.todo # <<>>
    BY <1>0, <1>5 DEF Fetch, Polls
  <2>2. Head(c.todo) \in Messages
    BY <2>1
  <2>3. /\ poll'[p].drain = c.drain
        /\ \/ poll'[p].pc = "check" /\ poll'[p].msg = Head(c.todo)
           \/ poll'[p].pc = "fetch"
    BY <1>0, <1>5 DEF Fetch, Polls
  <2>. QED
    BY <1>m, <2>2, <2>3 DEF PollOK, ViewIsCurrent, Moving
<1>6. CASE Check(p)
  <2>1. /\ poll'[p].drain = c.drain /\ poll'[p].msg = c.msg /\ c.msg \in Messages
        /\ poll'[p].pc = IF Ingested(c.msg) THEN "locate" ELSE "ingest"
    BY <1>0, <1>6 DEF Check, PollOK, Polls
  <2>2. Ingested(c.msg) => c.msg \in Recorded
    BY <2>1 DEF Recorded
  <2>. QED
    BY <1>m, <2>1, <2>2 DEF PollOK, ViewIsCurrent, Moving
<1>7. CASE Ingest(p) /\ poll' = [poll EXCEPT ![p].pc = "locate"]
  <2>1. /\ poll'[p].drain = c.drain /\ poll'[p].msg = c.msg /\ c.msg \in Messages
        /\ poll'[p].pc = "locate"
    BY <1>0, <1>7 DEF Ingest, PollOK, Polls
  <2>2. c.msg \in Recorded'
    BY <1>0, <1>7, <2>1, ConstantsAssumption DEF Ingest, Recorded, Ingested, NewRow
  <2>. QED
    BY <1>m, <2>1, <2>2 DEF PollOK, ViewIsCurrent, Moving
<1>8. CASE Locate(p) /\ poll' # [poll EXCEPT ![p] = Idle]
  <2>1. PICK i \in Found(c.msg) : poll'[p] = [c EXCEPT !.pc = "copy", !.view = inbox, !.ident = i]
    BY <1>0, <1>8 DEF Locate
  <2>2. /\ poll'[p].drain = c.drain /\ poll'[p].msg = c.msg /\ poll'[p].pc = "copy"
        /\ poll'[p].view = inbox /\ poll'[p].ident = i
    BY <1>0, <2>1 DEF Polls
  <2>3. i \in 1..Len(inbox) /\ inbox[i] = c.msg /\ inbox' = inbox /\ c.msg \in Recorded
    BY <1>8, <2>1 DEF Found, Locate, mailbox, PollOK, Moving
  <2>4. \A k \in 1..Len(inbox) : InInbox(inbox[k])'
    BY <2>3 DEF InInbox
  <2>. QED
    BY <1>m, <2>2, <2>3, <2>4 DEF PollOK, ViewIsCurrent, Moving
<1>9. CASE Copy(p) /\ poll' # [poll EXCEPT ![p] = Idle]
  <2>1. /\ c.ident \in 1..Len(c.view) /\ c.view[c.ident] = c.msg /\ c.msg \in Recorded
        /\ processed' = processed \cup {c.msg}
    BY <1>9 DEF PollOK, Copy, CopyOf, Moving
  <2>2. Told(c.view) = c.view
    <3>1. CASE ServerTells
      <4>1. c.view \in Seq(Messages)
        BY <1>0 DEF Polls
      <4>2. Members(c.view) \cap {m \in Messages : ~InInbox(m)} = {}
        BY <1>9, <3>1 DEF Members, ViewIsCurrent, Copy
      <4>. QED
        BY <3>1, <4>1, <4>2, WithoutMembers DEF Told
    <3>2. CASE ~ServerTells
      BY <3>2 DEF Told
    <3>. QED
      BY <3>1, <3>2
  <2>3. /\ poll'[p].drain = c.drain /\ poll'[p].msg = c.msg /\ poll'[p].pc = "store"
        /\ poll'[p].view = c.view /\ poll'[p].ident = c.ident
    BY <1>0, <1>9, <2>2 DEF Copy, Polls
  <2>. QED
    BY <1>m, <2>1, <2>3 DEF PollOK, ViewIsCurrent, Moving
<1>10. CASE Store(p)
  <2>1. /\ poll'[p].drain = c.drain /\ poll'[p].msg = c.msg /\ poll'[p].pc = "expunge"
        /\ c.msg \in Recorded /\ c.msg \in processed /\ inbox' = inbox
    BY <1>0, <1>10 DEF Store, PollOK, Moving, Polls
  <2>2. PICK m : m = c.msg
    OBVIOUS
  <2>3. m \in deleted' \/ ~InInbox(m)' \/ m \in unmoved'
    BY <1>10, <2>1, <2>2, StoreBox DEF InInbox
  <2>. QED
    BY <1>m, <2>1, <2>2, <2>3 DEF PollOK, ViewIsCurrent, Moving
<1>11. CASE Expunge(p)
  <2>1. /\ poll'[p].drain = c.drain /\ poll'[p].msg = c.msg /\ poll'[p].pc = "mark"
        /\ c.msg \in Recorded /\ c.msg \in processed
    BY <1>0, <1>11 DEF Expunge, PollOK, Moving, Polls
  <2>2. PICK m \in Messages : m = c.msg
    BY <2>1 DEF Recorded
  <2>3. ~InInbox(m)' \/ m \in unmoved'
    BY <1>11, <2>2, ExpungeBox
  <2>. QED
    BY <1>m, <2>1, <2>2, <2>3 DEF PollOK, ViewIsCurrent, Moving
<1>12. CASE Mark(p)
  <2>1. poll'[p].pc \in {"drain", "fetch"} /\ poll'[p].drain \subseteq c.drain
    BY <1>0, <1>12 DEF Mark, Idle, AfterMark
  <2>. QED
    BY <1>m, <2>1 DEF PollOK, ViewIsCurrent, Moving
<1>. QED
  BY <1>1, <1>2, <1>3, <1>4, <1>5, <1>6, <1>7, <1>8, <1>9, <1>10, <1>11, <1>12
  DEF PollStep, Abort, FetchDone, Ingest

LEMMA InitMail == Init => MailInv
<1>. SUFFICES ASSUME Init PROVE MailInv
  OBVIOUS
<1>1. TypeOK
  BY InitType
<1>2. BoxInv
  BY ConstantsAssumption
  DEF Init, BoxInv, BoxOK, CopiedBeforeExpunged, GoneOnlyWhenIngested, MarkedIsMoved, InInbox
<1>3. \A p \in Pollers : PollOK(p) /\ ViewIsCurrent(p)
  BY DEF Init, Idle, PollOK, ViewIsCurrent, Moving
<1>. QED
  BY <1>1, <1>2, <1>3 DEF MailInv

LEMMA MailStep ==
    ASSUME NumbersHold, MailInv, [Next]_vars PROVE MailInv'
<1>. USE DEF MailInv
<1>0. TypeOK'
  BY NextType
<1>1. ASSUME BoxInv', Orderly, UNCHANGED poll PROVE MailInv'
  BY <1>0, <1>1, PollFrame, ViewFrame
<1>2. ASSUME NEW p \in Pollers, PollStep(p) \/ Abort(p) PROVE MailInv'
  <2>1. BoxInv' /\ Orderly
    BY <1>2, PollBox
  <2>2. ASSUME NEW q \in Pollers, q # p PROVE poll'[q] = poll[q]
    BY <1>2, <2>2, Types
    DEF PollStep, Begin, DrainNext, DrainDone, Search, Fetch, FetchDone, Check, Ingest,
        Locate, Copy, Store, Expunge, Mark, Abort
  <2>3. \A q \in Pollers : PollOK(q)' /\ ViewIsCurrent(q)'
    BY <1>2, <2>1, <2>2, PollFrame, ViewFrame, PollOwn
  <2>. QED
    BY <1>0, <2>1, <2>3
<1>3. CASE \E m \in Messages : Deliver(m)
  BY <1>1, <1>3, DeliverBox DEF Deliver
<1>4. CASE RestoreIngest
  BY <1>1, <1>4, RecordBox DEF RestoreIngest, mailbox, failures
<1>5. CASE \/ RestoreBegin \/ RestoreSearch \/ RestoreFetch \/ RestoreCheck \/ RestoreConflict
           \/ RestoreNextFolder \/ RestoreEnd \/ RestoreAbort \/ UNCHANGED vars
  <2>1. UNCHANGED Shared /\ UNCHANGED poll
    BY <1>5 DEF RestoreBegin, RestoreSearch, RestoreFetch, RestoreCheck, RestoreConflict, RestoreNextFolder,
       RestoreEnd, RestoreAbort, Yields, YieldsNothing, vars, mailbox, failures, Shared
  <2>. QED
    BY <1>1, <2>1, QuietBox
<1>6. CASE LoseIndex
  <2>1. BoxInv'
    BY <1>6, ConstantsAssumption
    DEF LoseIndex, mailbox, failures, BoxInv, BoxOK, CopiedBeforeExpunged, GoneOnlyWhenIngested, MarkedIsMoved, InInbox
  <2>2. \A q \in Pollers : PollOK(q)' /\ ViewIsCurrent(q)'
    BY <1>6 DEF LoseIndex, PollOK, ViewIsCurrent, Moving
  <2>. QED
    BY <1>0, <2>1, <2>2
<1>. QED
  BY <1>2, <1>3, <1>4, <1>5, <1>6 DEF Next, RestoreStep

LEMMA MailInvariance ==
    ASSUME NumbersHold PROVE Spec => []MailInv
<1>1. MailInv /\ [Next]_vars => MailInv'
  BY MailStep
<1>. QED
  BY <1>1, InitMail, PTL DEF Spec

\* A reply leaves the inbox only after it was copied to Processed: whatever
\* EXPUNGE removes, some poll has copied, also one that died (imap.py:75-101).
THEOREM NothingIsExpungedUncopied ==
    ASSUME NumbersHold
    PROVE  Spec => []CopiedBeforeExpunged
<1>1. MailInv => CopiedBeforeExpunged
  BY DEF MailInv, BoxInv
<1>. QED
  BY <1>1, MailInvariance, PTL

\* A reply leaves the inbox only after it was ingested, until the database is
\* lost (poll_job.py:58-74).
THEOREM NothingIsExpungedUnread ==
    ASSUME NumbersHold
    PROVE  Spec => []GoneOnlyWhenIngested
<1>1. MailInv => GoneOnlyWhenIngested
  BY DEF MailInv, BoxInv
<1>. QED
  BY <1>1, MailInvariance, PTL

\* imap_moved = 1 says that the reply is in Processed, and not in the inbox unless
\* the server refused its STORE or EXPUNGE, an answer that move_to_processed drops
\* (imap.py:97-98, poll_job.py:41-43, 72-74).
THEOREM MovedMeansMoved ==
    ASSUME NumbersHold
    PROVE  Spec => []MarkedIsMoved
<1>1. MailInv => MarkedIsMoved
  BY DEF MailInv, BoxInv
<1>. QED
  BY <1>1, MailInvariance, PTL

-----------------------------------------------------------------------------
(* restore-imap *)

\* A step of anybody else leaves restore-imap what it has to read.
LEMMA RestoreFrame ==
    ASSUME MailInv, RestoreOK, processed \subseteq processed', arrived \subseteq arrived',
           \A m \in Messages : Ingested(m) => Ingested(m)', UNCHANGED restore
    PROVE  RestoreOK'
<1>. SUFFICES ASSUME restore.pc # "idle" PROVE RestoreOK'
  BY DEF RestoreOK
<1>1. restore.owed \subseteq Messages
  BY Types DEF MailInv, RestoreStates
<1>2. \A m \in restore.owed : Owed(m)'
  BY <1>1 DEF RestoreOK, Owed
<1>. QED
  BY <1>2 DEF RestoreOK

LEMMA RestoreOwn ==
    ASSUME MailInv, RestoreOK, RestoreBegin \/ RestoreStep \/ RestoreAbort
    PROVE  RestoreOK'
<1>. DEFINE r == restore
<1>0. /\ r \in RestoreStates /\ arrived \subseteq Messages /\ processed \subseteq arrived
      /\ inbox \in Seq(Messages) /\ row \in [Messages -> {None, "pending", "moved"}]
      /\ \A m \in arrived : InInbox(m) \/ m \in processed
      /\ \A m \in Messages : InInbox(m) => m \in arrived
  BY Types DEF MailInv, BoxInv, BoxOK, CopiedBeforeExpunged
<1>u. UNCHANGED <<inbox, processed, arrived>>
  BY DEF RestoreBegin, RestoreStep, RestoreAbort, RestoreSearch, RestoreFetch, RestoreCheck, RestoreIngest,
     RestoreConflict, RestoreNextFolder, RestoreEnd, mailbox
<1>1. CASE RestoreBegin
  <2>1. PICK w \in Windows :
          restore' = [NoRestore EXCEPT !.pc = "search", !.window = w, !.owed = arrived \cap w,
                                       !.runs = r.runs + 1]
    BY <1>1 DEF RestoreBegin
  <2>2. /\ restore'.pc = "search" /\ restore'.folder = "inbox" /\ restore'.window = w
        /\ restore'.owed = arrived \cap w /\ restore'.todo = {}
    BY <2>1 DEF NoRestore
  <2>. QED
    BY <1>u, <2>2 DEF RestoreOK, Owed
<1>s. CASE RestoreSearch
  <2>1. /\ r.pc = "search" /\ UNCHANGED row
        /\ restore'.pc = "fetch" /\ restore'.folder = r.folder /\ restore'.window = r.window
        /\ \/ /\ restore'.todo = Contents(r.folder) \cap r.window
              /\ restore'.owed = r.owed
           \/ /\ restore'.todo = r.todo
              /\ restore'.owed = r.owed \ PassedOver(Contents(r.folder))
    BY <1>0, <1>s DEF RestoreSearch, RestoreStates
  <2>2. \A m \in r.owed : m \in r.window /\ m \in Messages /\ m \in arrived
    BY <1>0, <2>1 DEF RestoreOK
  <2>3. r.folder \in {"inbox", "processed"}
    BY <1>0 DEF RestoreStates, FolderNames
  <2>4. \A m \in r.owed : \/ m \in Contents(r.folder) \/ Ingested(m)
                          \/ r.folder = "inbox" /\ m \in processed
                          \/ m \in r.todo
    BY <1>0, <2>1, <2>2, <2>3 DEF RestoreOK, Owed, Contents
  <2>5. ASSUME NEW m \in restore'.owed PROVE Owed(m)'
    <3>1. m \in r.owed
      BY <2>1, <2>5
    <3>2. CASE Ingested(m)
      BY <2>1, <3>2 DEF Owed, Ingested
    <3>3. CASE r.folder = "inbox" /\ m \in processed
      BY <1>u, <2>1, <3>3 DEF Owed
    <3>4. CASE m \in Contents(r.folder) \/ m \in r.todo
      <4>. DEFINE found == Contents(r.folder)
      <4>1. m \in PassedOver(found) \/ m \notin found \/ (r.folder = "inbox" /\ m \in processed)
        BY <2>3 DEF PassedOver
      <4>2. m \in r.window /\ (m \in found \/ m \in r.todo)
        BY <2>2, <3>1, <3>4
      <4>3. r.todo = {}
        BY <1>0, <2>1 DEF RestoreOK
      <4>4. m \in restore'.todo \/ (r.folder = "inbox" /\ m \in processed)
        BY <2>1, <2>5, <4>1, <4>2, <4>3
      <4>. QED
        BY <1>u, <2>1, <4>4 DEF Owed
    <3>. QED
      BY <2>4, <3>1, <3>2, <3>3, <3>4
  <2>6. restore'.todo \subseteq (IF r.folder = "inbox" THEN arrived ELSE processed)
    BY <1>0, <2>1, <2>3 DEF Contents, RestoreOK
  <2>. QED
    BY <1>u, <2>1, <2>2, <2>5, <2>6 DEF RestoreOK
<1>2. CASE RestoreFetch
  <2>1. UNCHANGED row
    BY <1>2 DEF RestoreFetch
  <2>2. PICK m \in r.todo :
          \/ restore' = [r EXCEPT !.pc = "check", !.msg = m, !.todo = @ \ {m}]
          \/ restore' = [r EXCEPT !.todo = @ \ {m},
                                  !.owed = @ \ PassedOver({m} \cap Contents(r.folder))]
    BY <1>2 DEF RestoreFetch
  <2>3. r.pc = "fetch" /\ m \in Messages /\ r.folder \in {"inbox", "processed"}
    BY <1>0, <1>2 DEF RestoreFetch, RestoreStates, FolderNames
  <2>4. m \notin Contents(r.folder) => r.folder = "inbox" /\ m \in processed
    BY <1>0, <2>3 DEF RestoreOK, Contents
  <2>5. /\ restore'.folder = r.folder /\ restore'.window = r.window
        /\ restore'.owed \subseteq r.owed /\ restore'.todo = r.todo \ {m}
        /\ \/ restore'.pc = "check" /\ restore'.msg = m
           \/ /\ restore'.pc = "fetch"
              /\ m \in restore'.owed => r.folder = "inbox" /\ m \in processed
    <3>. DEFINE gone == PassedOver({m} \cap Contents(r.folder))
    <3>1. m \in gone \/ (r.folder = "inbox" /\ m \in processed)
      BY <2>3, <2>4 DEF PassedOver
    <3>2. \/ restore' = [r EXCEPT !.pc = "check", !.msg = m, !.todo = @ \ {m}]
          \/ restore' = [r EXCEPT !.todo = @ \ {m}, !.owed = @ \ gone]
      BY <2>2
    <3>. HIDE DEF gone
    <3>. QED
      BY <1>0, <2>3, <3>1, <3>2 DEF RestoreStates
  <2>6. \A k \in restore'.owed : Owed(k)'
    BY <1>u, <2>1, <2>3, <2>5 DEF RestoreOK, Owed, Ingested
  <2>. QED
    BY <1>u, <2>3, <2>5, <2>6 DEF RestoreOK
<1>3. CASE RestoreCheck \/ RestoreIngest
  <2>1. /\ r.pc \in {"check", "ingest"} /\ r.msg \in Messages
        /\ restore'.folder = r.folder /\ restore'.owed = r.owed /\ restore'.todo = r.todo
        /\ restore'.window = r.window /\ restore'.msg = r.msg /\ restore'.pc \in {"fetch", "ingest"}
        /\ restore'.pc = "fetch" => Ingested(r.msg) \/ RestoreIngest
    BY <1>0, <1>3 DEF RestoreCheck, RestoreIngest, RestoreOK, RestoreStates
  <2>2. /\ \A k \in Messages : Ingested(k) => Ingested(k)'
        /\ RestoreIngest => \A k \in Messages : k = r.msg => Ingested(k)'
    BY <1>0, <1>3, <2>1, ConstantsAssumption DEF RestoreCheck, RestoreIngest, Ingested, NewRow
  <2>3. r.owed \subseteq Messages
    BY <1>0 DEF RestoreStates
  <2>4. \A k \in r.owed : Owed(k)'
    BY <1>u, <2>1, <2>2, <2>3 DEF RestoreOK, Owed
  <2>. QED
    BY <1>u, <2>1, <2>4 DEF RestoreOK
<1>4. CASE RestoreNextFolder
  <2>1. /\ r.pc = "fetch" /\ r.folder = "inbox" /\ r.todo = {} /\ UNCHANGED row
        /\ restore'.folder = "processed" /\ restore'.owed = r.owed /\ restore'.todo = r.todo
        /\ restore'.pc = "search" /\ restore'.window = r.window
    BY <1>0, <1>4 DEF RestoreNextFolder, RestoreStates
  <2>2. \A k \in r.owed : Owed(k)'
    BY <1>u, <2>1 DEF RestoreOK, Owed, Ingested
  <2>. QED
    BY <1>u, <2>1, <2>2 DEF RestoreOK
<1>5. CASE RestoreConflict \/ RestoreEnd \/ RestoreAbort
  BY <1>5 DEF RestoreConflict, RestoreEnd, RestoreAbort, NoRestore, RestoreOK
<1>. QED
  BY <1>1, <1>s, <1>2, <1>3, <1>4, <1>5 DEF RestoreStep

LEMMA RestoreStepInv ==
    ASSUME NumbersHold, MailInv, RestoreOK, [Next]_vars PROVE RestoreOK'
<1>0. TypeOK /\ BoxInv /\ arrived \subseteq Messages
  BY Types DEF MailInv
<1>1. ASSUME Orderly, arrived \subseteq arrived', UNCHANGED restore PROVE RestoreOK'
  <2>1. \A m \in Messages : Ingested(m) => Ingested(m)'
    BY <1>1 DEF Orderly, Recorded
  <2>2. processed \subseteq processed'
    BY <1>1 DEF Orderly
  <2>. QED
    BY <1>1, <2>1, <2>2, RestoreFrame
<1>2. CASE \E m \in Messages : Deliver(m)
  BY <1>0, <1>1, <1>2, DeliverBox DEF Deliver
<1>3. CASE \E p \in Pollers : PollStep(p) \/ Abort(p)
  <2>1. PICK p \in Pollers : PollStep(p) \/ Abort(p)
    BY <1>3
  <2>2. Orderly
    BY <1>0, <2>1, PollBox DEF MailInv
  <2>3. UNCHANGED <<arrived, restore>>
    BY <2>1 DEF PollStep, Begin, DrainNext, DrainDone, Search, Fetch, FetchDone, Check, Ingest,
       Locate, Copy, Store, Expunge, Mark, Abort, Yields, YieldsNothing, mailbox
  <2>. QED
    BY <1>1, <2>2, <2>3
<1>4. CASE RestoreBegin \/ RestoreStep \/ RestoreAbort
  BY <1>4, RestoreOwn
<1>5. CASE LoseIndex
  BY <1>5 DEF LoseIndex, RestoreOK
<1>6. CASE UNCHANGED vars
  <2>1. UNCHANGED <<restore, row, processed, arrived>>
    BY <1>6 DEF vars, mailbox
  <2>. QED
    BY <2>1, RestoreFrame DEF Ingested
<1>. QED
  BY <1>2, <1>3, <1>4, <1>5, <1>6 DEF Next

\* When restore-imap ends, every reply of its window that had arrived when it
\* began, and that the server did not fail to list or to give, is ingested, while
\* polls move replies between the folders it reads one after the other
\* (cli.py:178-207).
THEOREM RestoreMissesNothing ==
    ASSUME NumbersHold
    PROVE  Spec => RestoreRecovers
<1>. DEFINE A == RestoreEnd => \A m \in restore.owed : Ingested(m)
            Inv == MailInv /\ RestoreOK
<1>1. Init => Inv
  BY InitMail DEF Init, NoRestore, RestoreOK
<1>2. Inv /\ [Next]_vars => Inv'
  BY MailStep, RestoreStepInv
<1>3. Inv => A
  BY DEF RestoreOK, RestoreEnd, Owed
<1>. HIDE DEF A, Inv
<1>4. Inv /\ [Next]_vars => [A]_vars
  BY <1>3
<1>5. Spec => [][A]_vars
  BY <1>1, <1>2, <1>4, PTL DEF Spec
<1>. QED
  BY <1>5 DEF A, RestoreRecovers
=============================================================================
