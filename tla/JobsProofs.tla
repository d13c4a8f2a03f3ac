----------------------------- MODULE JobsProofs -----------------------------
(***************************************************************************)
(* Proofs about Jobs, for any number of workers, days, runs and prompts.   *)
(*                                                                         *)
(* Everything rests on who may write a row of job_runs: as long as it says *)
(* "running" only the worker that opened it, and afterwards only the admin *)
(* page.  Own and Apart say the first, Calm and PageOK the second.         *)
(***************************************************************************)
EXTENDS Jobs, TLAPS, FiniteSetTheorems

-----------------------------------------------------------------------------
(* The inductive invariant *)

\* What a worker between two steps knows of its row and its prompt.
Own(w) ==
    /\ task[w].pc = "idle" => task[w].run = None
    /\ task[w].run # None => runs[task[w].run].status = "running"
    /\ task[w].pc = "record" =>
         task[w].sent # None /\ mails[task[w].sent].date = task[w].date

\* No two workers keep the same row.
Apart == \A v, w \in Workers :
           v # w /\ task[v].run # None => task[v].run # task[w].run

\* The prompts of a run, as far as its worker has come: none before it is sent,
\* those of its own day until it is recorded, and anchored ones thereafter.
Prompts(r) == {m \in 1..Len(mails) : mails[m].run = r}
Anchored(m) == pending[mails[m].date] # None

Progress(w) ==
    task[w].run # None =>
      \A m \in Prompts(task[w].run) :
        CASE task[w].pc = "work" -> FALSE
          [] task[w].pc = "record" -> mails[m].date = task[w].date
          [] task[w].pc = "done" -> Anchored(m)
          [] OTHER -> TRUE

\* The prompts of a run that is ok were recorded.
OkIsAnchored ==
    \A m \in 1..Len(mails) :
      mails[m].run # None /\ runs[mails[m].run].status = "ok" => Anchored(m)

\* Only failures are ever acknowledged.
Calm == \A i \in 1..Len(runs) : runs[i].acked => runs[i].status \in Failed

\* The buttons of the page in the browser are failures of its job, though they
\* may have been acknowledged since.
PageOK == page # None =>
            \A i \in page.buttons :
              runs[i].job = page.job /\ runs[i].status \in Failed

RowInv == /\ TypeOK
          /\ \A w \in Workers : Own(w)
          /\ Apart
          /\ Calm
          /\ PageOK

AnchorInv == /\ \A w \in Workers : Progress(w)
             /\ OkIsAnchored


-----------------------------------------------------------------------------
(* Types *)

LEMMA InitRow == Init => RowInv
BY ConstantsAssumption
DEF Init, RowInv, TypeOK, Own, Apart, Calm, PageOK, Idle, Days, Jobs, Failed

\* The types of TypeOK, by name.
Rows == [job : Jobs, started : Days, acked : BOOLEAN, status : {"running", "ok"} \cup Failed]
Tasks(r, m) == [pc : {"idle", "work", "record", "done", "failed"},
                run : 1..r \cup {None}, date : Days, sent : 1..m \cup {None}]
Mails(r) == [date : Days, run : 1..r \cup {None}]
Replies(m) == [inReplyTo : 1..m \cup {None}, date : Days \cup {None}, filed : Days \cup {None}]
Pages(r) == [job : Jobs, buttons : SUBSET (1..r)]

LEMMA Types ==
    TypeOK <=>
      /\ today \in Days
      /\ runs \in Seq(Rows)
      /\ task \in [Workers -> Tasks(Len(runs), Len(mails))]
      /\ mails \in Seq(Mails(Len(runs)))
      /\ pending \in [Days -> 1..Len(mails) \cup {None}]
      /\ \A d \in Days : pending[d] # None => mails[pending[d]].date = d
      /\ replies \in Seq(Replies(Len(mails)))
      /\ page = None \/ page \in Pages(Len(runs))
      /\ orphans \subseteq 1..Len(runs)
BY DEF TypeOK, Rows, Tasks, Mails, Replies, Pages

\* The types only grow with the tables they refer to.
LEMMA Wider ==
    ASSUME NEW r \in Nat, NEW s \in Nat, r <= s, NEW m \in Nat, NEW n \in Nat, m <= n
    PROVE  /\ Tasks(r, m) \subseteq Tasks(s, n)
           /\ Mails(r) \subseteq Mails(s)
           /\ Replies(m) \subseteq Replies(n)
           /\ Pages(r) \subseteq Pages(s)
<1>1. 1..r \subseteq 1..s /\ 1..m \subseteq 1..n
  OBVIOUS
<1>. QED
  BY <1>1, Zenon DEF Tasks, Mails, Replies, Pages

LEMMA SeqWider ==
    ASSUME NEW S, NEW T, S \subseteq T, NEW q \in Seq(S)
    PROVE  q \in Seq(T)
OBVIOUS

LEMMA StartRow ==
    ASSUME RowInv, NEW w \in Workers, Start(w) PROVE RowInv'
<1>. USE ConstantsAssumption DEF RowInv, Start
<1>1. TypeOK'
  <2>1. [job |-> JobOf[w], started |-> today, status |-> "running", acked |-> FALSE] \in Rows
    BY Types DEF Rows, Jobs
  <2>2. runs' \in Seq(Rows) /\ Len(runs') = Len(runs) + 1
    BY <2>1, Types
  <2>3. task' \in [Workers -> Tasks(Len(runs'), Len(mails))]
    <3>1. \A v \in Workers : task[v] \in Tasks(Len(runs'), Len(mails))
      BY <2>2, Wider, Types
    <3>2. [pc |-> "work", run |-> Len(runs) + 1, sent |-> None,
           date |-> IF w \in Prompters THEN today ELSE 1] \in Tasks(Len(runs'), Len(mails))
      BY <2>2, Types DEF Tasks, Days
    <3>. QED
      BY <3>1, <3>2, Types
  <2>4. mails \in Seq(Mails(Len(runs'))) /\ (page = None \/ page \in Pages(Len(runs')))
    BY <2>2, Wider, SeqWider, Types
  <2>. QED
    BY <2>2, <2>3, <2>4, Types DEF TypeOK, Rows, Tasks, Mails, Replies, Pages
<1>2. \A v \in Workers : Own(v)'
  BY DEF TypeOK, Own
<1>3. Apart'
  BY DEF TypeOK, Apart
<1>4. Calm' /\ PageOK'
  BY DEF TypeOK, Calm, PageOK
<1>. QED
  BY <1>1, <1>2, <1>3, <1>4

\* Close writes the status of its worker's row, and no other row.
LEMMA Closed ==
    ASSUME TypeOK, NEW w \in Workers, Close(w)
    PROVE  LET s == IF task[w].pc = "done" THEN "ok" ELSE "error"
           IN  /\ runs' \in Seq(Rows) /\ Len(runs') = Len(runs)
               /\ \A i \in 1..Len(runs) :
                    /\ runs'[i].job = runs[i].job
                    /\ runs'[i].started = runs[i].started
                    /\ runs'[i].acked = runs[i].acked
                    /\ runs'[i].status = IF i = task[w].run THEN s ELSE runs[i].status
<1>. DEFINE s == IF task[w].pc = "done" THEN "ok" ELSE "error"
<1>1. Len(runs) \in Nat /\ runs \in Seq(Rows) /\ task[w].run \in 1..Len(runs) \cup {None}
  BY Types DEF Tasks
<1>2. CASE task[w].run = None
  BY <1>1, <1>2, ConstantsAssumption DEF Close
<1>3. CASE task[w].run # None
  <2>1. PICK r \in 1..Len(runs) : r = task[w].run
    BY <1>1, <1>3
  <2>2. runs[r] \in Rows
    BY <1>1
  <2>3. [runs[r] EXCEPT !.status = s] \in Rows
    BY <2>2 DEF Rows, Failed
  <2>4. runs' = [runs EXCEPT ![r] = [runs[r] EXCEPT !.status = s]]
    BY <1>3, <2>1 DEF Close
  <2>5. runs' \in Seq(Rows) /\ Len(runs') = Len(runs)
    BY <1>1, <2>3, <2>4
  <2>6. \A i \in 1..Len(runs) : runs'[i] = IF i = r THEN [runs[r] EXCEPT !.status = s] ELSE runs[i]
    BY <1>1, <2>4
  <2>. QED
    BY <1>1, <2>1, <2>2, <2>5, <2>6 DEF Rows
<1>. QED
  BY <1>2, <1>3

LEMMA CloseRow ==
    ASSUME RowInv, NEW w \in Workers, Close(w) PROVE RowInv'
<1>. USE ConstantsAssumption DEF RowInv
<1>1. TypeOK'
  <2>1. task' \in [Workers -> Tasks(Len(runs'), Len(mails))]
    <3>1. Idle \in Tasks(Len(runs'), Len(mails))
      BY DEF Tasks, Days, Idle
    <3>. QED
      BY <3>1, Closed, Types DEF Close
  <2>. QED
    BY <2>1, Closed, Types DEF Close, TypeOK, Rows, Tasks, Mails, Replies, Pages
<1>2. \A v \in Workers : Own(v)'
  <2>. SUFFICES ASSUME NEW v \in Workers, v # w PROVE Own(v)'
    BY Types DEF Close, Own, Idle
  <2>1. task'[v] = task[v]
    BY Types DEF Close
  <2>2. task[v].run # None => task[v].run \in 1..Len(runs) /\ task[v].run # task[w].run
    BY Types DEF Tasks, Apart
  <2>. QED
    BY <2>1, <2>2, Closed DEF Own, Close
<1>3. Apart'
  BY Types DEF Apart, Close, Idle
<1>4. Calm'
  BY Closed, Types DEF Calm, Own, Failed
<1>5. PageOK'
  <2>. SUFFICES ASSUME page # None, NEW i \in page.buttons
                PROVE  runs'[i].job = page.job /\ runs'[i].status \in Failed
    BY DEF PageOK, Close
  <2>1. i \in 1..Len(runs) /\ runs[i].job = page.job /\ runs[i].status \in Failed
    BY Types DEF PageOK, Pages
  <2>2. task[w].run # i
    BY <2>1, Types DEF Own, Failed
  <2>. QED
    BY <2>1, <2>2, Closed
<1>. QED
  BY <1>1, <1>2, <1>3, <1>4, <1>5

\* Another prompt is in the server's hands, at the end of the others.
LEMMA Delivered ==
    ASSUME TypeOK, NEW w \in Workers, Deliver(w)
    PROVE  /\ mails' \in Seq(Mails(Len(runs)))
           /\ Len(mails') = Len(mails) + 1
           /\ \A m \in 1..Len(mails) : mails'[m] = mails[m]
           /\ mails'[Len(mails) + 1] = [date |-> task[w].date, run |-> task[w].run]
BY Types DEF Deliver, Tasks, Mails

\* What was well typed before is so after a mail was sent, or was not.
LEMMA MoreMails ==
    ASSUME TypeOK, NEW w \in Workers, UNCHANGED mails \/ Deliver(w)
    PROVE  /\ Len(mails) \in Nat /\ Len(mails') \in Nat /\ Len(mails) <= Len(mails')
           /\ mails' \in Seq(Mails(Len(runs)))
           /\ \A m \in 1..Len(mails) : mails'[m] = mails[m]
           /\ Tasks(Len(runs), Len(mails)) \subseteq Tasks(Len(runs), Len(mails'))
           /\ replies \in Seq(Replies(Len(mails')))
           /\ pending \in [Days -> 1..Len(mails') \cup {None}]
           /\ \A d \in Days : pending[d] # None => mails'[pending[d]].date = d
<1>1. /\ Len(mails) \in Nat /\ Len(mails') \in Nat /\ Len(mails) <= Len(mails')
      /\ mails' \in Seq(Mails(Len(runs)))
      /\ \A m \in 1..Len(mails) : mails'[m] = mails[m]
  <2>1. Len(mails) \in Nat /\ mails \in Seq(Mails(Len(runs)))
    BY Types
  <2>2. CASE UNCHANGED mails
    BY <2>1, <2>2
  <2>3. CASE Deliver(w)
    <3>1. /\ mails' \in Seq(Mails(Len(runs))) /\ Len(mails') = Len(mails) + 1
          /\ \A m \in 1..Len(mails) : mails'[m] = mails[m]
      BY <2>3, Delivered, Zenon
    <3>. QED
      BY <2>1, <3>1
  <2>. QED
    BY <2>2, <2>3
<1>2. Len(runs) \in Nat /\ Len(runs) <= Len(runs)
  BY Types
<1>3. /\ Tasks(Len(runs), Len(mails)) \subseteq Tasks(Len(runs), Len(mails'))
      /\ Replies(Len(mails)) \subseteq Replies(Len(mails'))
  BY <1>1, <1>2, Wider, Zenon
<1>4. replies \in Seq(Replies(Len(mails')))
  BY <1>3, SeqWider, Types
<1>5. \A d \in Days : pending[d] # None => pending[d] \in 1..Len(mails)
  BY Types
<1>. QED
  BY <1>1, <1>3, <1>4, <1>5, Types

LEMMA SendRow ==
    ASSUME RowInv, NEW w \in Workers, Send(w) PROVE RowInv'
<1>. USE ConstantsAssumption DEF RowInv
<1>1. TypeOK'
  <2>1. task' \in [Workers -> Tasks(Len(runs), Len(mails'))]
    <3>1. \A v \in Workers : task[v] \in Tasks(Len(runs), Len(mails'))
      BY MoreMails, Types DEF Send
    <3>2. Len(mails') = Len(mails) + 1 /\ Len(mails') \in Nat
      BY Delivered, MoreMails DEF Send
    <3>3. [task[w] EXCEPT !.pc = "record", !.sent = Len(mails) + 1] \in Tasks(Len(runs), Len(mails'))
      <4>1. Len(mails) + 1 \in 1..Len(mails') \cup {None}
        BY <3>2, MoreMails DEF Send
      <4>. QED
        BY <3>1, <4>1 DEF Tasks
    <3>. QED
      BY <3>1, <3>3, Types DEF Send, Sent
  <2>. QED
    BY <2>1, MoreMails, Types DEF Send, TypeOK, Rows, Tasks, Mails, Replies, Pages
<1>2. \A v \in Workers : Own(v)'
  <2>. SUFFICES ASSUME NEW v \in Workers PROVE Own(v)'
    OBVIOUS
  <2>1. task[v] \in Tasks(Len(runs), Len(mails)) /\ Own(v) /\ runs' = runs
    BY Types DEF Send
  <2>2. CASE v = w
    <3>1. /\ task'[v].pc = "record" /\ task'[v].sent = Len(mails) + 1
          /\ task'[v].run = task[v].run /\ task'[v].date = task[v].date
      BY <2>1, <2>2, Types DEF Send, Sent, Tasks
    <3>2. Len(mails) + 1 # None
      BY Types
    <3>3. mails'[Len(mails) + 1] = [date |-> task[w].date, run |-> task[w].run]
      <4>1. TypeOK /\ Deliver(w)
        BY DEF Send
      <4>. QED
        BY <4>1, Delivered, Zenon
    <3>. QED
      BY <2>1, <2>2, <3>1, <3>2, <3>3 DEF Own
  <2>3. CASE v # w
    <3>1. task'[v] = task[v]
      BY <2>3, Types DEF Send
    <3>2. task[v].sent # None => mails'[task[v].sent] = mails[task[v].sent]
      BY <2>1, Delivered DEF Send, Tasks
    <3>. QED
      BY <2>1, <3>1, <3>2 DEF Own
  <2>. QED
    BY <2>2, <2>3
<1>3. Apart' /\ Calm' /\ PageOK'
  BY Types DEF Send, Apart, Calm, PageOK, Tasks
<1>. QED
  BY <1>1, <1>2, <1>3

\* A step that only lets a worker fail, get to its end or go, and may leave
\* another mail with the server.
LEMMA MoveRow ==
    ASSUME RowInv, NEW w \in Workers, UNCHANGED mails \/ Deliver(w),
           \/ GoTo(w, "done") \/ GoTo(w, "failed") \/ task' = [task EXCEPT ![w] = Idle],
           UNCHANGED <<today, runs, pending, replies, page>>,
           orphans' \subseteq 1..Len(runs)
    PROVE  RowInv'
<1>. USE ConstantsAssumption DEF RowInv
<1>1. TypeOK'
  <2>1. \A v \in Workers : task[v] \in Tasks(Len(runs), Len(mails'))
    BY MoreMails, Types
  <2>2. Idle \in Tasks(Len(runs), Len(mails'))
    BY DEF Idle, Tasks, Days
  <2>3. task' \in [Workers -> Tasks(Len(runs), Len(mails'))]
    <3>1. CASE task' = [task EXCEPT ![w] = Idle]
      BY <2>1, <2>2, <3>1, Types
    <3>2. ASSUME NEW pc \in {"done", "failed"}, GoTo(w, pc)
          PROVE  task' \in [Workers -> Tasks(Len(runs), Len(mails'))]
      <4>1. [task[w] EXCEPT !.pc = pc] \in Tasks(Len(runs), Len(mails'))
        BY <2>1 DEF Tasks
      <4>. QED
        BY <2>1, <3>2, <4>1, Types DEF GoTo
    <3>. QED
      BY <3>1, <3>2
  <2>. QED
    BY <2>3, MoreMails, Types DEF TypeOK, Rows, Tasks, Mails, Replies, Pages
<1>2. \A v \in Workers : Own(v)'
  <2>. SUFFICES ASSUME NEW v \in Workers PROVE Own(v)'
    OBVIOUS
  <2>1. CASE v = w
    BY <2>1, Types DEF Own, GoTo, Tasks, Idle
  <2>2. CASE v # w
    BY <2>2, MoreMails, Types DEF Own, GoTo, Tasks
  <2>. QED
    BY <2>1, <2>2
<1>3. Apart' /\ Calm' /\ PageOK'
  BY Types DEF GoTo, Apart, Calm, PageOK, Tasks, Idle
<1>. QED
  BY <1>1, <1>2, <1>3

LEMMA RecordRow ==
    ASSUME RowInv, NEW w \in Workers, Record(w) PROVE RowInv'
<1>. USE ConstantsAssumption DEF RowInv
<1>1. TypeOK'
  <2>1. task' \in [Workers -> Tasks(Len(runs), Len(mails))]
    BY Types DEF Record, GoTo, Tasks
  <2>2. task[w].sent \in 1..Len(mails) /\ mails[task[w].sent].date = task[w].date
    BY Types DEF Record, Own, Tasks
  <2>3. /\ pending' \in [Days -> 1..Len(mails) \cup {None}]
        /\ \A d \in Days : pending'[d] # None => mails[pending'[d]].date = d
    BY <2>2, Types DEF Record, PromptDay
  <2>. QED
    BY <2>1, <2>3, Types DEF Record, TypeOK, Rows, Tasks, Mails, Replies, Pages
<1>2. \A v \in Workers : Own(v)'
  BY Types DEF Record, Own, GoTo, Tasks
<1>3. Apart' /\ Calm' /\ PageOK'
  BY Types DEF Record, GoTo, Apart, Calm, PageOK, Tasks
<1>. QED
  BY <1>1, <1>2, <1>3

LEMMA CrashRow ==
    ASSUME RowInv, NEW w \in Workers, Crash(w) PROVE RowInv'
<1>. USE ConstantsAssumption DEF RowInv
<1>1. TypeOK'
  <2>1. Idle \in Tasks(Len(runs), Len(mails))
    BY DEF Idle, Tasks, Days
  <2>2. task' \in [Workers -> Tasks(Len(runs), Len(mails))]
    BY <2>1, Types DEF Crash
  <2>3. orphans' \subseteq 1..Len(runs)
    BY Types DEF Crash, Orphan, Tasks, Dying
  <2>. QED
    BY <2>2, <2>3, Types DEF Crash, TypeOK, Rows, Tasks, Mails, Replies, Pages
<1>2. \A v \in Workers : Own(v)'
  BY Types DEF Crash, Own, Idle
<1>3. Apart' /\ Calm' /\ PageOK'
  BY Types DEF Crash, Apart, Calm, PageOK, Idle
<1>. QED
  BY <1>1, <1>2, <1>3

LEMMA ByHandRow ==
    ASSUME RowInv, NEW w \in Workers, NEW d \in Days, SendByHand(w, d) PROVE RowInv'
<1>. USE ConstantsAssumption DEF RowInv
<1>1. [Idle EXCEPT !.pc = "work", !.date = d] \in Tasks(Len(runs), Len(mails))
  BY DEF Idle, Tasks
<1>2. TypeOK'
  BY <1>1, Types DEF SendByHand, TypeOK, Rows, Tasks, Mails, Replies, Pages
<1>3. \A v \in Workers : Own(v)'
  BY Types DEF SendByHand, Own, Idle
<1>4. Apart' /\ Calm' /\ PageOK'
  BY Types DEF SendByHand, Apart, Calm, PageOK, Idle
<1>. QED
  BY <1>2, <1>3, <1>4

LEMMA RepliesRow ==
    ASSUME RowInv,
           \/ \E m \in 1..Len(mails) \cup {None}, date \in {today, None} : WriteReply(m, date)
           \/ \E w \in Workers, i \in 1..Len(replies) : FileReply(w, i)
    PROVE  RowInv'
<1>. USE ConstantsAssumption DEF RowInv
<1>1. UNCHANGED <<today, runs, task, mails, pending, page, orphans>>
  BY DEF WriteReply, FileReply
<1>2. replies' \in Seq(Replies(Len(mails)))
  <2>1. CASE \E m \in 1..Len(mails) \cup {None}, date \in {today, None} : WriteReply(m, date)
    BY <2>1, Types DEF WriteReply, Replies
  <2>2. ASSUME NEW w \in Workers, NEW i \in 1..Len(replies), FileReply(w, i)
        PROVE  replies' \in Seq(Replies(Len(mails)))
    <3>1. replies[i] \in Replies(Len(mails))
      BY Types
    <3>2. Resolve(replies[i]) \in Days
      BY <3>1, Types DEF Resolve, Anchors, Replies
    <3>3. [replies[i] EXCEPT !.filed = Resolve(replies[i])] \in Replies(Len(mails))
      BY <3>1, <3>2 DEF Replies
    <3>. QED
      BY <2>2, <3>3, Types DEF FileReply
  <2>. QED
    BY <2>1, <2>2
<1>3. TypeOK'
  BY <1>1, <1>2, Types DEF TypeOK, Rows, Tasks, Mails, Replies, Pages
<1>4. (\A v \in Workers : Own(v)') /\ Apart' /\ Calm' /\ PageOK'
  BY <1>1 DEF Own, Apart, Calm, PageOK
<1>. QED
  BY <1>3, <1>4

\* The rows that get acked are failures of one job, and nothing else changes.
Acks(is) ==
    /\ runs' \in Seq(Rows) /\ Len(runs') = Len(runs)
    /\ \A i \in 1..Len(runs) :
         runs'[i] = IF i \in is THEN [runs[i] EXCEPT !.acked = TRUE] ELSE runs[i]

LEMMA Acked ==
    ASSUME TypeOK, PageOK,
           (\E i \in 1..Len(runs) : Acknowledge(i)) \/ AcknowledgeAll
    PROVE  \E is \in SUBSET (1..Len(runs)) :
             /\ Acks(is)
             /\ page # None
             /\ \A i \in is : runs[i].job = page.job /\ runs[i].status \in Failed
<1>1. Len(runs) \in Nat /\ runs \in Seq(Rows)
  BY Types
<1>2. \A i \in 1..Len(runs) : [runs[i] EXCEPT !.acked = TRUE] \in Rows
  <2>. SUFFICES ASSUME NEW i \in 1..Len(runs) PROVE [runs[i] EXCEPT !.acked = TRUE] \in Rows
    OBVIOUS
  <2>1. runs[i] \in Rows
    BY <1>1
  <2>. QED
    BY <2>1 DEF Rows
<1>3. ASSUME NEW i \in 1..Len(runs), Acknowledge(i)
      PROVE  Acks({i}) /\ page # None /\ runs[i].job = page.job /\ runs[i].status \in Failed
  <2>. DEFINE r == [runs[i] EXCEPT !.acked = TRUE]
  <2>1. runs' = [runs EXCEPT ![i] = r]
    BY <1>3 DEF Acknowledge
  <2>r. r \in Rows
    BY <1>2
  <2>2. Acks({i})
    <3>. HIDE DEF r
    <3>1. runs' \in Seq(Rows) /\ Len(runs') = Len(runs)
      BY <1>1, <2>1, <2>r
    <3>2. \A k \in 1..Len(runs) : runs'[k] = IF k = i THEN r ELSE runs[k]
      BY <1>1, <2>1
    <3>. QED
      BY <3>1, <3>2 DEF Acks, r
  <2>. QED
    BY <1>3, <2>2 DEF Acknowledge, PageOK
<1>4. ASSUME AcknowledgeAll
      PROVE  /\ Acks(Acknowledged(page.job)) /\ page # None
             /\ Acknowledged(page.job) \subseteq 1..Len(runs)
             /\ \A i \in Acknowledged(page.job) : runs[i].job = page.job /\ runs[i].status \in Failed
  <2>1. runs' = [i \in 1..Len(runs) |->
                   IF i \in Acknowledged(page.job) THEN [runs[i] EXCEPT !.acked = TRUE]
                   ELSE runs[i]]
    BY <1>4 DEF AcknowledgeAll
  <2>2. \A i \in 1..Len(runs) : runs[i] \in Rows
    BY <1>1
  <2>3. Acks(Acknowledged(page.job))
    BY <1>1, <1>2, <2>1, <2>2 DEF Acks
  <2>. QED
    BY <1>4, <2>3 DEF AcknowledgeAll, Acknowledged, RunsOf, Unacked
<1>5. CASE \E i \in 1..Len(runs) : Acknowledge(i)
  <2>1. PICK i \in 1..Len(runs) : Acknowledge(i)
    BY <1>5
  <2>2. {i} \in SUBSET (1..Len(runs))
    BY <2>1
  <2>. QED
    BY <1>3, <2>1, <2>2
<1>6. CASE AcknowledgeAll
  BY <1>4, <1>6
<1>. QED
  BY <1>5, <1>6

LEMMA AckRow ==
    ASSUME RowInv, (\E i \in 1..Len(runs) : Acknowledge(i)) \/ AcknowledgeAll
    PROVE  RowInv'
<1>. USE ConstantsAssumption DEF RowInv
<1>1. PICK is \in SUBSET (1..Len(runs)) :
             /\ Acks(is)
             /\ \A i \in is : runs[i].job = page.job /\ runs[i].status \in Failed
  BY Acked
<1>2. page' = None /\ UNCHANGED <<today, task, mails, pending, replies, orphans>>
  BY DEF Acknowledge, AcknowledgeAll
<1>3. \A i \in 1..Len(runs) :
        runs'[i].status = runs[i].status /\ (runs'[i].acked => runs[i].acked \/ i \in is)
  <2>1. \A i \in 1..Len(runs) : runs[i] \in Rows
    BY Types
  <2>. QED
    BY <1>1, <2>1 DEF Acks, Rows
<1>4. TypeOK'
  BY <1>1, <1>2, Types DEF Acks, TypeOK, Rows, Tasks, Mails, Replies, Pages
<1>5. \A v \in Workers : Own(v)'
  BY <1>2, <1>3, Types DEF Own, Tasks
<1>6. Apart' /\ Calm' /\ PageOK'
  BY <1>1, <1>2, <1>3, Types DEF Apart, Calm, PageOK, Acks
<1>. QED
  BY <1>4, <1>5, <1>6

LEMMA OpenRow ==
    ASSUME RowInv, NEW j \in Jobs, NEW onlyFailed \in BOOLEAN, OpenHistory(j, onlyFailed)
    PROVE  RowInv'
<1>. USE ConstantsAssumption DEF RowInv
<1>. DEFINE b == {i \in Recent(j, onlyFailed) : Unacked(i)}
<1>1. /\ b \subseteq 1..Len(runs)
      /\ \A i \in b : runs[i].job = j /\ runs[i].status \in Failed
  BY DEF Recent, RunsOf, Unacked
<1>2. page' = None \/ page' = [job |-> j, buttons |-> b]
  BY DEF OpenHistory, History
<1>. HIDE DEF b
<1>3. page' = None \/ page' \in Pages(Len(runs))
  BY <1>1, <1>2 DEF Pages
<1>4. TypeOK'
  BY <1>3, Types DEF OpenHistory, TypeOK, Rows, Tasks, Mails, Replies, Pages
<1>5. PageOK'
  BY <1>1, <1>2 DEF PageOK, OpenHistory
<1>6. (\A v \in Workers : Own(v)') /\ Apart' /\ Calm'
  BY DEF OpenHistory, Own, Apart, Calm
<1>. QED
  BY <1>4, <1>5, <1>6

LEMMA RowStep == RowInv /\ [Next]_vars => RowInv'
<1>. SUFFICES ASSUME RowInv, [Next]_vars PROVE RowInv'
  OBVIOUS
<1>1. ASSUME NEW w \in Workers, Start(w) \/ Work(w) \/ Crash(w) \/ Cancel(w) PROVE RowInv'
  <2>1. CASE Start(w) \/ Close(w) \/ Send(w) \/ Record(w) \/ Crash(w)
    BY <2>1, StartRow, CloseRow, SendRow, RecordRow, CrashRow
  <2>2. CASE \E i \in 1..Len(replies) : FileReply(w, i)
    BY <2>2, RepliesRow
  <2>3. CASE SendFails(w) \/ RecordFails(w) \/ EndPoll(w) \/ Cancel(w)
    <3>1. orphans' \subseteq 1..Len(runs)
      BY <2>3, Types DEF RowInv, SendFails, RecordFails, EndPoll, Cancel
    <3>. QED
      BY <2>3, <3>1, MoveRow DEF SendFails, RecordFails, EndPoll, Cancel, Caught
  <2>4. CASE CloseFails(w)
    <3>1. orphans' \subseteq 1..Len(runs)
      BY <2>4, Types DEF RowInv, CloseFails, Orphan, Tasks
    <3>. QED
      BY <2>4, <3>1, MoveRow DEF CloseFails
  <2>. QED
    BY <1>1, <2>1, <2>2, <2>3, <2>4 DEF Work
<1>2. CASE \E w \in Workers, d \in Days : SendByHand(w, d)
  BY <1>2, ByHandRow
<1>3. CASE \E m \in 1..Len(mails) \cup {None}, date \in {today, None} : WriteReply(m, date)
  BY <1>3, RepliesRow
<1>4. CASE \E j \in Jobs, onlyFailed \in BOOLEAN : OpenHistory(j, onlyFailed)
  BY <1>4, OpenRow
<1>5. CASE (\E i \in 1..Len(runs) : Acknowledge(i)) \/ AcknowledgeAll
  BY <1>5, AckRow
<1>6. CASE Midnight \/ UNCHANGED vars
  <2>1. today' \in Days /\ UNCHANGED <<runs, task, mails, pending, replies, page, orphans>>
    BY <1>6, Types, ConstantsAssumption DEF RowInv, Midnight, vars, Days
  <2>2. TypeOK'
    BY <2>1, Types DEF RowInv, TypeOK, Rows, Tasks, Mails, Replies, Pages
  <2>3. (\A v \in Workers : Own(v)') /\ Apart' /\ Calm' /\ PageOK'
    BY <2>1 DEF RowInv, Own, Apart, Calm, PageOK
  <2>. QED
    BY <2>2, <2>3 DEF RowInv
<1>. QED
  BY <1>1, <1>2, <1>3, <1>4, <1>5, <1>6 DEF Next

\* Every variable keeps its type, and the anchor of a day is a prompt about
\* that day (prompt_job.py:38-44), for any number of workers and days.
THEOREM TypeCorrect == Spec => []TypeOK
<1>1. RowInv => TypeOK
  BY DEF RowInv
<1>. QED
  BY <1>1, InitRow, RowStep, PTL DEF Spec

LEMMA RowInvariance == Spec => []RowInv
BY InitRow, RowStep, PTL DEF Spec

-----------------------------------------------------------------------------
(* What may happen to a row *)

\* Only its worker ends a run, and only the page acknowledges a failure.
LEMMA Changes ==
    ASSUME RowInv, [Next]_vars, NEW i \in 1..Len(runs), runs'[i] # runs[i]
    PROVE  \/ /\ \E w \in Workers : Close(w) /\ task[w].run = i
              /\ runs[i].status = "running" /\ ~runs[i].acked
              /\ UNCHANGED today
              /\ Len(runs') = Len(runs)
              /\ runs'[i].started = runs[i].started /\ ~runs'[i].acked
           \/ /\ page # None /\ runs[i].job = page.job
              /\ runs[i].status \in Failed
              /\ runs'[i] = [runs[i] EXCEPT !.acked = TRUE]
              /\ runs'[i].status = runs[i].status
<1>0. runs \in Seq(Rows) /\ Len(runs) \in Nat /\ runs[i] \in Rows
  BY Types DEF RowInv
<1>1. \/ \E w \in Workers : Start(w) \/ Close(w)
      \/ (\E k \in 1..Len(runs) : Acknowledge(k)) \/ AcknowledgeAll
  BY DEF Next, vars, Work, CloseFails, Send, SendFails, Record, RecordFails, FileReply,
         EndPoll, Crash, Cancel, SendByHand, WriteReply, OpenHistory, Midnight
<1>2. ASSUME NEW w \in Workers, Start(w) PROVE FALSE
  BY <1>0, <1>2 DEF Start
<1>3. ASSUME NEW w \in Workers, Close(w)
      PROVE  /\ task[w].run = i
             /\ runs[i].status = "running" /\ ~runs[i].acked
             /\ UNCHANGED today
             /\ Len(runs') = Len(runs)
             /\ runs'[i].started = runs[i].started /\ ~runs'[i].acked
  <2>1. /\ Len(runs') = Len(runs) /\ runs' \in Seq(Rows)
        /\ runs'[i].job = runs[i].job /\ runs'[i].started = runs[i].started
        /\ runs'[i].acked = runs[i].acked
        /\ i # task[w].run => runs'[i].status = runs[i].status
    BY <1>3, Closed DEF RowInv
  <2>2. i = task[w].run
    <3>1. runs'[i] \in Rows /\ runs[i] \in Rows
      BY <1>0, <2>1
    <3>2. runs'[i].status = runs[i].status => runs'[i] = runs[i]
      BY <2>1, <3>1 DEF Rows
    <3>. QED
      BY <2>1, <3>2
  <2>3. i # None
    BY <1>0, ConstantsAssumption
  <2>4. runs[i].status = "running" /\ ~runs[i].acked
    BY <2>2, <2>3 DEF RowInv, Own, Calm, Failed
  <2>. QED
    BY <1>3, <2>1, <2>2, <2>4 DEF Close
<1>4. CASE (\E k \in 1..Len(runs) : Acknowledge(k)) \/ AcknowledgeAll
  <2>1. PICK is \in SUBSET (1..Len(runs)) :
               /\ Acks(is)
               /\ page # None
               /\ \A k \in is : runs[k].job = page.job /\ runs[k].status \in Failed
    BY <1>4, Acked DEF RowInv
  <2>2. i \in is /\ runs'[i] = [runs[i] EXCEPT !.acked = TRUE]
    BY <2>1 DEF Acks
  <2>. QED
    BY <1>0, <2>1, <2>2 DEF Rows
<1>. QED
  BY <1>1, <1>2, <1>3, <1>4

\* A failure is acknowledged only by the user and from the history of its own
\* job, and no row that failed is made good (jobs.py:82-106).
THEOREM FailuresStay == Spec => OnlyItsPageAcknowledges
<1>. DEFINE Kept == \A i \in 1..Len(runs) :
         Unacked(i) /\ runs'[i] # runs[i] =>
           /\ runs'[i] = [runs[i] EXCEPT !.acked = TRUE]
           /\ page # None /\ page.job = runs[i].job
<1>1. RowInv /\ [Next]_vars => [Kept]_vars
  BY Changes DEF Unacked, Failed
<1>. QED
  BY <1>1, RowInvariance, PTL DEF Spec, OnlyItsPageAcknowledges

\* A run that fails turns up in the banner, whatever was acknowledged while it
\* ran (jobs.py:86-106, banners.py:25-34).
THEOREM FailuresAreReported == Spec => FailureIsReported
<1>. DEFINE Reported == \A i \in 1..Len(runs) :
         runs[i].status # "error" /\ runs'[i].status = "error" =>
           /\ ~runs'[i].acked
           /\ runs[i].started >= today - BannerDays => i \in Counted'
<1>1. RowInv /\ [Next]_vars => [Reported]_vars
  <2>. SUFFICES ASSUME RowInv, [Next]_vars, NEW i \in 1..Len(runs),
                       runs[i].status # "error", runs'[i].status = "error"
                PROVE  /\ ~runs'[i].acked
                       /\ runs[i].started >= today - BannerDays => i \in Counted'
    OBVIOUS
  <2>1. /\ UNCHANGED today /\ Len(runs') = Len(runs)
        /\ runs'[i].started = runs[i].started /\ ~runs'[i].acked
    BY Changes
  <2>. QED
    BY <2>1 DEF Counted, Unacked, Failed
<1>. QED
  BY <1>1, RowInvariance, PTL DEF Spec, FailureIsReported

\* A running row keeps its worker in every step.
LEMMA LiveStep == RowInv /\ RunningHasAWorker /\ [Next]_vars => RunningHasAWorker'
<1>. DEFINE Has(i) == \E w \in Workers : task[w].run = i /\ task[w].pc # "idle"
<1>. SUFFICES ASSUME RowInv, RunningHasAWorker, [Next]_vars,
                     NEW i \in (1..Len(runs')) \ orphans', runs'[i].status = "running"
              PROVE  Has(i)'
  BY DEF RunningHasAWorker
<1>0. /\ runs \in Seq(Rows) /\ Len(runs) \in Nat
      /\ task \in [Workers -> Tasks(Len(runs), Len(mails))]
      /\ \A w \in Workers : task[w] \in Tasks(Len(runs), Len(mails))
  BY Types DEF RowInv
<1>1. ASSUME NEW w \in Workers, Start(w) PROVE Has(i)'
  <2>1. CASE i = Len(runs) + 1
    BY <1>0, <1>1, <2>1 DEF Start
  <2>2. CASE i # Len(runs) + 1
    <3>1. i \in (1..Len(runs)) \ orphans /\ runs[i].status = "running"
      BY <1>0, <1>1, <2>2 DEF Start
    <3>2. PICK v \in Workers : task[v].run = i /\ task[v].pc # "idle"
      BY <3>1 DEF RunningHasAWorker
    <3>3. task'[v] = task[v]
      BY <1>0, <1>1, <3>2 DEF Start
    <3>. QED
      BY <3>2, <3>3
  <2>. QED
    BY <2>1, <2>2
<1>2. ASSUME NEW w \in Workers, Close(w) PROVE Has(i)'
  <2>1. i \in (1..Len(runs)) \ orphans /\ i # task[w].run /\ runs[i].status = "running"
    BY <1>0, <1>2, Closed DEF RowInv, Close
  <2>2. PICK v \in Workers : task[v].run = i /\ task[v].pc # "idle"
    BY <2>1 DEF RunningHasAWorker
  <2>3. task'[v] = task[v]
    BY <1>0, <1>2, <2>1, <2>2 DEF Close
  <2>. QED
    BY <2>2, <2>3
<1>3. ASSUME NEW w \in Workers, CloseFails(w) \/ Crash(w) PROVE Has(i)'
  <2>1. i \in (1..Len(runs)) \ orphans /\ runs[i].status = "running"
    BY <1>3 DEF CloseFails, Crash, Orphan
  <2>2. PICK v \in Workers : task[v].run = i /\ task[v].pc # "idle"
    BY <2>1 DEF RunningHasAWorker
  <2>3. i # None
    BY <1>0, <2>1, ConstantsAssumption
  <2>4. task'[v] = task[v]
    <3>1. CASE CloseFails(w)
      BY <1>0, <2>2, <3>1 DEF CloseFails, Orphan
    <3>2. CASE Crash(w)
      BY <1>0, <2>2, <2>3, <3>2 DEF Crash, Orphan
    <3>. QED
      BY <1>3, <3>1, <3>2
  <2>. QED
    BY <2>2, <2>4
<1>4. ASSUME UNCHANGED orphans, Len(runs') = Len(runs), runs'[i].status = runs[i].status,
             \A v \in Workers : task[v].pc # "idle" =>
               task'[v].run = task[v].run /\ task'[v].pc # "idle"
      PROVE  Has(i)'
  <2>1. PICK v \in Workers : task[v].run = i /\ task[v].pc # "idle"
    BY <1>4 DEF RunningHasAWorker
  <2>. QED
    BY <1>4, <2>1
<1>5. ASSUME NEW w \in Workers, Work(w) \/ Cancel(w), ~Close(w), ~CloseFails(w) PROVE Has(i)'
  <2>1. UNCHANGED <<runs, orphans>>
    BY <1>5 DEF Work, Send, SendFails, Record, RecordFails, FileReply, EndPoll, Cancel
  <2>2. ASSUME NEW v \in Workers, task[v].pc # "idle"
        PROVE  task'[v].run = task[v].run /\ task'[v].pc # "idle"
    BY <1>0, <1>5, <2>2
    DEF Work, Send, Sent, SendFails, Record, RecordFails, FileReply, EndPoll, Cancel, Caught, GoTo, Tasks
  <2>. QED
    BY <1>4, <2>1, <2>2
<1>6. CASE \E w \in Workers, d \in Days : SendByHand(w, d)
  BY <1>0, <1>4, <1>6 DEF SendByHand, Idle
<1>7. CASE \/ \E m \in 1..Len(mails) \cup {None}, date \in {today, None} : WriteReply(m, date)
           \/ \E j \in Jobs, onlyFailed \in BOOLEAN : OpenHistory(j, onlyFailed)
           \/ Midnight \/ UNCHANGED vars
  BY <1>4, <1>7 DEF WriteReply, OpenHistory, Midnight, vars
<1>8. CASE (\E k \in 1..Len(runs) : Acknowledge(k)) \/ AcknowledgeAll
  <2>1. Len(runs') = Len(runs)
    BY <1>8, Acked DEF RowInv, Acks
  <2>2. runs'[i].status = runs[i].status
    BY <1>8, <2>1, Changes DEF Acknowledge, AcknowledgeAll, Close
  <2>. QED
    BY <1>4, <1>8, <2>1, <2>2 DEF Acknowledge, AcknowledgeAll
<1>. QED
  BY <1>1, <1>2, <1>3, <1>5, <1>6, <1>7, <1>8 DEF Next, Work

\* A row that job_run keeps says "running" only while its worker is at it, also when
\* the tick is cancelled, unless its process died or the database refused the last
\* write (runner.py:42-76).
THEOREM RunningIsWorkedOn == Spec => []RunningHasAWorker
<1>1. Init => RunningHasAWorker
  BY DEF Init, RunningHasAWorker
<1>. QED
  BY <1>1, RowInvariance, LiveStep, PTL DEF Spec

-----------------------------------------------------------------------------
(* The admin page *)

\* Every failure the banner counts can be acknowledged on the history of its
\* job, filtered or not (jobs.py:163-196): the button for all is there, however
\* far the row has been pushed off the page.
THEOREM FailuresHaveButtons == Spec => []EveryFailureHasAButton
<1>1. RowInv => EveryFailureHasAButton
  <2>. SUFFICES ASSUME RowInv, NEW i \in Counted, NEW onlyFailed \in BOOLEAN
                PROVE  History(runs[i].job, onlyFailed).count >= 1
    BY DEF EveryFailureHasAButton
  <2>. DEFINE U == {k \in RunsOf(runs[i].job) : Unacked(k)}
  <2>1. i \in U /\ U \subseteq 1..Len(runs) /\ Len(runs) \in Nat
    BY Types DEF RowInv, Counted, RunsOf
  <2>2. IsFiniteSet(1..Len(runs))
    BY <2>1, FS_Interval
  <2>3. IsFiniteSet(U)
    BY <2>1, <2>2, FS_Subset
  <2>4. Cardinality(U) \in Nat /\ Cardinality(U) # 0
    BY <2>1, <2>3, FS_CardinalityType, FS_EmptySet
  <2>5. History(runs[i].job, onlyFailed).count = Cardinality(U)
    BY DEF History, Count
  <2>. QED
    BY <2>4, <2>5
<1>. QED
  BY <1>1, RowInvariance, PTL

-----------------------------------------------------------------------------
(* Replies follow their prompt *)

LEMMA InitAnchor == Init => AnchorInv
BY DEF Init, AnchorInv, Progress, OkIsAnchored, Prompts

\* An anchor is replaced, never removed.
LEMMA AnchorsStay ==
    ASSUME RowInv, [Next]_vars, NEW d \in Days, pending[d] # None
    PROVE  pending'[d] # None
<1>1. CASE UNCHANGED pending
  BY <1>1
<1>2. ASSUME NEW w \in Workers, Record(w) PROVE pending'[d] # None
  BY <1>2, Types DEF RowInv, Record, Own, PromptDay
<1>. QED
  BY <1>1, <1>2
  DEF Next, vars, Work, Start, Close, CloseFails, Send, SendFails, RecordFails, FileReply,
      EndPoll, Crash, Cancel, SendByHand, WriteReply, OpenHistory, Acknowledge, AcknowledgeAll, Midnight

\* Prompts that are with the server stay as they are.
LEMMA MailsStay ==
    ASSUME RowInv, [Next]_vars, NEW m \in 1..Len(mails)
    PROVE  m \in 1..Len(mails') /\ mails'[m] = mails[m] /\ mails[m] \in Mails(Len(runs))
<1>0. mails[m] \in Mails(Len(runs))
  BY Types DEF RowInv
<1>1. CASE UNCHANGED mails
  BY <1>0, <1>1
<1>2. CASE \E w \in Workers : Deliver(w)
  BY <1>0, <1>2, MoreMails DEF RowInv
<1>. QED
  BY <1>1, <1>2
  DEF Next, vars, Work, Start, Close, CloseFails, Send, SendFails, Record, RecordFails, FileReply,
      EndPoll, Crash, Cancel, SendByHand, WriteReply, OpenHistory, Acknowledge, AcknowledgeAll, Midnight

\* A worker at rest keeps what it knows of the prompts of its run, when no other
\* prompt of that run appears.
LEMMA ProgressFrame ==
    ASSUME RowInv, [Next]_vars, NEW v \in Workers, Progress(v), task'[v] = task[v],
           \A m \in 1..Len(mails') : m > Len(mails) => mails'[m].run # task[v].run
    PROVE  Progress(v)'
<1>. SUFFICES ASSUME task[v].run # None, NEW m \in 1..Len(mails'), mails'[m].run = task[v].run
              PROVE  CASE task[v].pc = "work" -> FALSE
                       [] task[v].pc = "record" -> mails'[m].date = task[v].date
                       [] task[v].pc = "done" -> pending'[mails'[m].date] # None
                       [] OTHER -> TRUE
  BY DEF Progress, Prompts, Anchored
<1>1. Len(mails) \in Nat /\ Len(mails') \in Nat /\ ~(m > Len(mails))
  BY Types, MoreMails DEF RowInv, Next, vars, Work, Start, Close, CloseFails, Send, SendFails, Record,
     RecordFails, FileReply, EndPoll, Crash, Cancel, SendByHand, WriteReply, OpenHistory,
     Acknowledge, AcknowledgeAll, Midnight
<1>2. m \in 1..Len(mails)
  BY <1>1
<1>3. mails'[m] = mails[m] /\ mails[m] \in Mails(Len(runs))
  BY <1>2, MailsStay
<1>4. m \in Prompts(task[v].run)
  BY <1>2, <1>3 DEF Prompts
<1>5. Anchored(m) => pending'[mails'[m].date] # None
  BY <1>3, AnchorsStay DEF Anchored, Mails
<1>. QED
  BY <1>3, <1>4, <1>5 DEF Progress

LEMMA ProgressStep ==
    ASSUME RowInv, AnchorInv, [Next]_vars, NEW v \in Workers
    PROVE  Progress(v)'
<1>0. /\ runs \in Seq(Rows) /\ Len(runs) \in Nat
      /\ mails \in Seq(Mails(Len(runs))) /\ Len(mails) \in Nat
      /\ task \in [Workers -> Tasks(Len(runs), Len(mails))]
      /\ \A w \in Workers : task[w] \in Tasks(Len(runs), Len(mails))
      /\ Progress(v)
  BY Types DEF RowInv, AnchorInv
<1>1. CASE UNCHANGED mails /\ task'[v] = task[v]
  BY <1>0, <1>1, ProgressFrame
<1>2. CASE task'[v].run = None \/ task'[v].pc = "failed"
  BY <1>2 DEF Progress
<1>3. ASSUME NEW w \in Workers, w # v, Deliver(w), task'[v] = task[v] PROVE Progress(v)'
  <2>1. /\ Len(mails') = Len(mails) + 1
        /\ mails'[Len(mails) + 1] = [date |-> task[w].date, run |-> task[w].run]
    BY <1>3, Delivered DEF RowInv
  <2>2. task[v].run # None => task[w].run # task[v].run
    BY <1>3 DEF RowInv, Apart
  <2>3. CASE task[v].run = None
    BY <1>3, <2>3 DEF Progress
  <2>4. CASE task[v].run # None
    <3>1. \A m \in 1..Len(mails') : m > Len(mails) => mails'[m].run # task[v].run
      BY <1>0, <2>1, <2>2, <2>4
    <3>. QED
      BY <1>0, <1>3, <3>1, ProgressFrame
  <2>. QED
    BY <2>3, <2>4
<1>4. ASSUME NEW w \in Workers, Start(w) PROVE Progress(v)'
  <2>1. CASE v = w
    <3>1. task'[v].run = Len(runs) + 1 /\ mails' = mails
      BY <1>0, <1>4, <2>1 DEF Start
    <3>2. \A m \in 1..Len(mails) : mails[m].run # Len(runs) + 1
      <4>0. \A m \in 1..Len(mails) : mails[m] \in Mails(Len(runs))
        BY <1>0
      <4>1. \A m \in 1..Len(mails) : mails[m].run \in 1..Len(runs) \cup {None}
        BY <4>0 DEF Mails
      <4>2. Len(runs) + 1 # None
        BY <1>0, ConstantsAssumption
      <4>. QED
        BY <1>0, <4>1, <4>2
    <3>. QED
      BY <3>1, <3>2 DEF Progress, Prompts
  <2>2. CASE v # w
    BY <1>0, <1>1, <1>4, <2>2 DEF Start
  <2>. QED
    BY <2>1, <2>2
<1>5. ASSUME NEW w \in Workers, Send(w) PROVE Progress(v)'
  <2>1. CASE v = w
    <3>1. /\ task'[v].pc = "record" /\ task'[v].run = task[v].run /\ task'[v].date = task[v].date
          /\ task[v].pc = "work" /\ Deliver(w)
      BY <1>0, <1>5, <2>1 DEF Send, Sent, Tasks
    <3>2. /\ Len(mails') = Len(mails) + 1
          /\ \A m \in 1..Len(mails) : mails'[m] = mails[m]
          /\ mails'[Len(mails) + 1] = [date |-> task[w].date, run |-> task[w].run]
      BY <3>1, Delivered DEF RowInv
    <3>3. \A m \in 1..Len(mails) : task[v].run # None => mails[m].run # task[v].run
      BY <1>0, <3>1 DEF Progress, Prompts
    <3>4. \A m \in 1..Len(mails') : m \in 1..Len(mails) \/ m = Len(mails) + 1
      BY <1>0, <3>2
    <3>. QED
      BY <2>1, <3>1, <3>2, <3>3, <3>4 DEF Progress, Prompts
  <2>2. CASE v # w
    BY <1>0, <1>3, <1>5, <2>2 DEF Send
  <2>. QED
    BY <2>1, <2>2
<1>6. ASSUME NEW w \in Workers, Record(w) PROVE Progress(v)'
  <2>1. CASE v = w
    <3>1. /\ task'[v].pc = "done" /\ task'[v].run = task[v].run /\ mails' = mails
          /\ task[v].pc = "record" /\ task[v].date \in Days
      BY <1>0, <1>6, <2>1 DEF Record, GoTo, Tasks
    <3>2. pending'[task[v].date] # None
      BY <1>6, <2>1, <3>1, Types DEF Record, RowInv, Own, PromptDay
    <3>3. task[v].run # None =>
            \A m \in Prompts(task[v].run) : mails[m].date = task[v].date
      BY <1>0, <3>1 DEF Progress
    <3>. QED
      BY <3>1, <3>2, <3>3 DEF Progress, Prompts, Anchored
  <2>2. CASE v # w
    BY <1>0, <1>1, <1>6, <2>2 DEF Record, GoTo
  <2>. QED
    BY <2>1, <2>2
<1>7. ASSUME NEW w \in Workers, EndPoll(w) PROVE Progress(v)'
  <2>1. CASE v = w /\ GoTo(w, "done")
    <3>1. task'[v].run = task[v].run /\ mails' = mails /\ task[v].pc = "work"
      BY <1>0, <1>7, <2>1 DEF EndPoll, GoTo, Tasks
    <3>2. \A m \in 1..Len(mails) : task[v].run # None => mails[m].run # task[v].run
      BY <1>0, <3>1 DEF Progress, Prompts
    <3>. QED
      BY <3>1, <3>2 DEF Progress, Prompts
  <2>2. CASE v # w \/ GoTo(w, "failed")
    BY <1>0, <1>1, <1>2, <1>7, <2>2 DEF EndPoll, GoTo, Tasks
  <2>. QED
    BY <1>7, <2>1, <2>2 DEF EndPoll
<1>8. ASSUME NEW w \in Workers, SendFails(w) \/ Cancel(w) PROVE Progress(v)'
  <2>1. CASE v = w
    BY <1>0, <1>2, <1>8, <2>1 DEF SendFails, Cancel, Caught, GoTo, Tasks
  <2>2. CASE v # w
    <3>1. task'[v] = task[v] /\ (UNCHANGED mails \/ Deliver(w))
      BY <1>0, <1>8, <2>2 DEF SendFails, Cancel, GoTo
    <3>. QED
      BY <1>1, <1>3, <2>2, <3>1
  <2>. QED
    BY <2>1, <2>2
<1>9. ASSUME NEW w \in Workers, Close(w) \/ CloseFails(w) \/ RecordFails(w) \/ Crash(w)
      PROVE  Progress(v)'
  <2>1. UNCHANGED mails
    BY <1>9 DEF Close, CloseFails, RecordFails, Crash
  <2>2. task'[v] = task[v] \/ task'[v].run = None \/ task'[v].pc = "failed"
    BY <1>0, <1>9 DEF Close, CloseFails, RecordFails, Crash, GoTo, Idle, Tasks
  <2>. QED
    BY <1>1, <1>2, <2>1, <2>2
<1>10. ASSUME NEW w \in Workers, NEW d \in Days, SendByHand(w, d) PROVE Progress(v)'
  <2>1. UNCHANGED mails /\ (task'[v] = task[v] \/ task'[v].run = None)
    BY <1>0, <1>10 DEF SendByHand, Idle
  <2>. QED
    BY <1>1, <1>2, <2>1
<1>. QED
  BY <1>1, <1>4, <1>5, <1>6, <1>7, <1>8, <1>9, <1>10
  DEF Next, vars, Work, FileReply, WriteReply, OpenHistory, Acknowledge, AcknowledgeAll, Midnight

LEMMA OkStep ==
    ASSUME RowInv, AnchorInv, [Next]_vars
    PROVE  OkIsAnchored'
<1>. SUFFICES ASSUME NEW m \in 1..Len(mails'), mails'[m].run # None,
                     runs'[mails'[m].run].status = "ok"
              PROVE  pending'[mails'[m].date] # None
  BY DEF OkIsAnchored, Anchored
<1>0. /\ runs \in Seq(Rows) /\ Len(runs) \in Nat
      /\ mails \in Seq(Mails(Len(runs))) /\ Len(mails) \in Nat
      /\ task \in [Workers -> Tasks(Len(runs), Len(mails))]
  BY Types DEF RowInv
<1>1. CASE m \in 1..Len(mails)
  <2>1. mails'[m] = mails[m] /\ mails[m] \in Mails(Len(runs))
    BY <1>1, MailsStay
  <2>. DEFINE r == mails[m].run
  <2>2. r \in 1..Len(runs)
    BY <2>1 DEF Mails
  <2>3. Anchored(m)
    <3>1. CASE runs[r].status = "ok"
      BY <1>1, <2>1, <3>1 DEF AnchorInv, OkIsAnchored
    <3>2. CASE runs[r].status # "ok"
      <4>1. PICK w \in Workers : Close(w) /\ task[w].run = r
        BY <2>1, <2>2, <3>2, Changes
      <4>2. task[w].pc = "done"
        BY <2>1, <2>2, <4>1, Closed DEF RowInv, Close
      <4>. QED
        BY <1>1, <2>1, <4>1, <4>2 DEF AnchorInv, Progress, Prompts
    <3>. QED
      BY <3>1, <3>2
  <2>. QED
    BY <2>1, <2>3, AnchorsStay DEF Anchored, Mails
<1>2. CASE m \notin 1..Len(mails)
  <2>1. mails' # mails
    BY <1>0, <1>2
  <2>2. PICK w \in Workers : Deliver(w) /\ UNCHANGED runs
    BY <2>1
    DEF Next, vars, Work, Start, Close, CloseFails, Send, SendFails, Record, RecordFails, FileReply,
        EndPoll, Crash, Cancel, SendByHand, WriteReply, OpenHistory, Acknowledge, AcknowledgeAll, Midnight
  <2>3. /\ Len(mails') = Len(mails) + 1
        /\ mails'[Len(mails) + 1] = [date |-> task[w].date, run |-> task[w].run]
    BY <2>2, Delivered DEF RowInv
  <2>4. m = Len(mails) + 1
    BY <1>0, <1>2, <2>3
  <2>5. task[w].run # None => runs[task[w].run].status = "running"
    BY DEF RowInv, Own
  <2>. QED
    BY <2>2, <2>3, <2>4, <2>5
<1>. QED
  BY <1>1, <1>2

LEMMA AnchorInvariance == Spec => [](RowInv /\ AnchorInv)
<1>1. RowInv /\ AnchorInv /\ [Next]_vars => AnchorInv'
  BY ProgressStep, OkStep DEF AnchorInv
<1>. QED
  BY <1>1, InitRow, InitAnchor, RowStep, PTL DEF Spec

\* A reply that names its prompt is filed under the prompt's day, on whatever
\* day it is written or read, when the prompt's run is ok and there is no other
\* prompt for that day (prompt_job.py:31-44, pipeline.py:191-201).
THEOREM RepliesReachTheirDay == Spec => RepliesFollowTheirPrompt
<1>. DEFINE Follows == \A i \in 1..Len(replies) :
         LET m == replies[i].inReplyTo IN
         /\ replies'[i].filed # replies[i].filed
         /\ m # None
         /\ mails[m].run # None /\ runs[mails[m].run].status = "ok"
         /\ \A k \in 1..Len(mails) : k # m => mails[k].date # mails[m].date
         => replies'[i].filed = mails[m].date
<1>1. RowInv /\ AnchorInv /\ [Next]_vars => [Follows]_vars
  <2>. SUFFICES ASSUME RowInv, AnchorInv, [Next]_vars, NEW i \in 1..Len(replies),
                       NEW m, m = replies[i].inReplyTo,
                       replies'[i].filed # replies[i].filed,
                       m # None, mails[m].run # None, runs[mails[m].run].status = "ok",
                       \A k \in 1..Len(mails) : k # m => mails[k].date # mails[m].date
                PROVE  replies'[i].filed = mails[m].date
    OBVIOUS
  <2>0. /\ replies \in Seq(Replies(Len(mails))) /\ replies[i] \in Replies(Len(mails))
        /\ Len(replies) \in Nat
    BY Types DEF RowInv
  <2>1. m \in 1..Len(mails) /\ mails[m].date \in Days
    <3>1. m \in 1..Len(mails)
      BY <2>0 DEF Replies
    <3>2. mails[m] \in Mails(Len(runs))
      BY <3>1, Types DEF RowInv
    <3>. QED
      BY <3>1, <3>2 DEF Mails
  <2>2. pending[mails[m].date] = m
    <3>1. pending[mails[m].date] # None
      BY <2>1 DEF AnchorInv, OkIsAnchored, Anchored
    <3>2. /\ pending[mails[m].date] \in 1..Len(mails)
          /\ mails[pending[mails[m].date]].date = mails[m].date
      BY <2>1, <3>1, Types DEF RowInv
    <3>. QED
      BY <3>2
  <2>3. \A d \in Days : pending[d] = m => d = mails[m].date
    BY <2>1, Types DEF RowInv
  <2>4. Anchors(replies[i]) = {mails[m].date}
    BY <2>1, <2>2, <2>3 DEF Anchors
  <2>5. Resolve(replies[i]) = mails[m].date
    BY <2>4 DEF Resolve
  <2>6. CASE \E w \in Workers, k \in 1..Len(replies) : FileReply(w, k)
    <3>1. PICK k \in 1..Len(replies) :
                 replies' = [replies EXCEPT ![k].filed = Resolve(replies[k])]
      BY <2>6 DEF FileReply
    <3>2. k = i
      BY <2>0, <3>1
    <3>. QED
      BY <2>0, <2>5, <3>1, <3>2 DEF Replies
  <2>7. CASE \E n \in 1..Len(mails) \cup {None}, date \in {today, None} : WriteReply(n, date)
    BY <2>0, <2>7 DEF WriteReply
  <2>8. CASE UNCHANGED replies
    BY <2>8
  <2>. QED
    BY <2>6, <2>7, <2>8
    DEF Next, vars, Work, Start, Close, CloseFails, Send, SendFails, Record, RecordFails,
        EndPoll, Crash, Cancel, SendByHand, OpenHistory, Acknowledge, AcknowledgeAll, Midnight
<1>. QED
  BY <1>1, AnchorInvariance, PTL DEF Spec, RepliesFollowTheirPrompt
=============================================================================
