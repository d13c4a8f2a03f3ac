-------------------------------- MODULE Poll --------------------------------
(***************************************************************************)
(* run_poll_job (scheduler/poll_job.py) and restore-imap (cli.py) against  *)
(* the IMAP mailbox (mail/imap.py).  Every await is a point where another  *)
(* process, the server or a failure may come in between, so every IMAP     *)
(* command is an action.  aioimaplib returns a command's NO like its OK:   *)
(* the code raises on that of LOGIN, SEARCH HEADER and COPY (an Abort),    *)
(* and goes on after that of the others (Refuse).  ingest_one is one       *)
(* atomic action here: it accepts a reply once, or raises and leaves no    *)
(* row (Ingest.tla has its steps).                                         *)
(***************************************************************************)
EXTENDS Integers, Sequences

CONSTANTS Pollers,    \* processes that may run a poll: the app, the CLI
          Messages,   \* replies, by Message-ID
          AbortAt,    \* the control states at which a poll or restore may die
          MaxAborts,  \* bound: how often one does
          RefuseAt,   \* the commands the server may not do as it is told
          MaxRefusals,   \* bound: how often it does not
          Windows,    \* the SINCE/BEFORE windows given: what was sent in them
          MayLoseIndex,  \* may the database be lost (restore on a fresh host)?
          Restores,   \* bound: how often the operator runs restore-imap
          ServerTells,   \* does COPY's response report others' EXPUNGEs?
          None

VARIABLES inbox,      \* Driftnote/Inbox, in server order
          seen,       \* messages flagged \Seen
          deleted,    \* messages flagged \Deleted
          processed,  \* messages with a copy in Driftnote/Processed
          arrived,    \* messages delivered so far
          row,        \* row[m]: None, "pending" (imap_moved=0) or "moved" (1)
          poll,       \* poll[p]: control state and locals of a poll
          restore,    \* control state and locals of restore-imap
          aborts,     \* number of aborts so far
          refusals,   \* number of refusals so far
          unmoved,    \* history: replies whose STORE or EXPUNGE was refused
          lost        \* has the database been lost?

mailbox == <<inbox, seen, deleted, processed>>
failures == <<aborts, refusals, unmoved>>
vars == <<mailbox, arrived, row, poll, restore, failures, lost>>

PollPCs == {"drain", "search", "fetch", "check", "ingest",
            "locate", "copy", "store", "expunge", "mark"}

FolderNames == {"inbox", "processed"}

\* The commands whose failure the code does not raise on.  "fetch" is a FETCH
\* that gives nothing; "body" is one that is done, and so sets \Seen, but
\* with an answer no message is found in.
Refusable == {"search", "fetch", "body", "store", "expunge"}

\* drain: rows still to be retried; todo: fetched next; view and ident: what
\* the server session of move_to_processed has selected and found.
Idle == [pc |-> "idle", drain |-> {}, todo |-> <<>>, msg |-> None,
         view |-> <<>>, ident |-> 0]

\* owed is a history variable: what of its window had arrived when
\* restore-imap began, but for what the server did not list or give.
NoRestore == [pc |-> "idle", folder |-> "inbox", window |-> {}, todo |-> {},
              msg |-> None, owed |-> {}, runs |-> 0]

ASSUME ConstantsAssumption ==
    /\ MaxAborts \in Nat /\ MaxRefusals \in Nat /\ Restores \in Nat
    /\ MayLoseIndex \in BOOLEAN /\ ServerTells \in BOOLEAN
    /\ AbortAt \subseteq PollPCs
    /\ RefuseAt \subseteq Refusable
    /\ Windows \subseteq SUBSET Messages
    /\ None \notin Messages \cup {"pending", "moved"}

Init ==
    /\ inbox = <<>> /\ seen = {} /\ deleted = {} /\ processed = {}
    /\ arrived = {}
    /\ row = [m \in Messages |-> None]
    /\ poll = [p \in Pollers |-> Idle]
    /\ restore = NoRestore
    /\ aborts = 0 /\ refusals = 0 /\ unmoved = {}
    /\ lost = FALSE

-----------------------------------------------------------------------------
(* The IMAP server, as imap.py relies on it *)

InInbox(m) == \E i \in 1..Len(inbox) : inbox[i] = m

\* A reply comes in; the filter labels it Driftnote/Inbox.
Deliver(m) ==
    /\ m \notin arrived
    /\ inbox' = Append(inbox, m)
    /\ arrived' = arrived \cup {m}
    /\ UNCHANGED <<seen, deleted, processed, row, poll, restore, failures, lost>>

\* The server does not do what command c asks (NO, or BAD, or "body").
Refuse(c) ==
    /\ c \in RefuseAt
    /\ refusals < MaxRefusals
    /\ refusals' = refusals + 1
    /\ UNCHANGED aborts

\* The messages of s but those in gone, in the order of s.
Without(s, gone) ==
    LET Kept[n \in 0..Len(s)] ==
          IF n = 0 THEN <<>>
          ELSE IF s[n] \in gone THEN Kept[n - 1] ELSE Append(Kept[n - 1], s[n])
    IN  Kept[Len(s)]

\* SEARCH UNSEEN.  Mutant: the last match is dropped.
UnseenButLast == LET s == Without(inbox, seen)
                 IN SubSeq(s, 1, Len(s) - 1)
Unseen == Without(inbox, seen)

\* Sequence numbers stay valid in a session until the server tells it of an
\* EXPUNGE, which it may not do during FETCH, STORE and SEARCH but may do in
\* the response to COPY.
Told(view) == IF ServerTells THEN Without(view, {m \in Messages : ~InInbox(m)}) ELSE view

\* SEARCH HEADER Message-ID.  Mutant: any message of the folder.
FirstFound(m) == IF InInbox(m) THEN {1} ELSE {}
Found(m) == {i \in 1..Len(inbox) : inbox[i] = m}

\* The message a sequence number denotes in a session, if any.
Denoted(view, n) == {m \in Messages : n <= Len(view) /\ view[n] = m}

-----------------------------------------------------------------------------
(* run_poll_job *)

\* A move ends in the loop it was called from.
AfterMark(c) == IF c.msg \in c.drain THEN "drain" ELSE "fetch"

\* A row is found: poll_job skips ingestion, ingest_one is a no-op.
Ingested(m) == row[m] # None

\* pending_imap_moves.  Mutant: the retry finds nothing to do.
NoPendingMoves == {}
PendingMoves == {m \in Messages : row[m] = "pending"}

\* record_ingested writes imap_moved=0.  Mutant: it writes 1.
RowMoved == "moved"
NewRow == "pending"

Begin(p) ==
    /\ poll[p].pc = "idle"
    /\ poll' = [poll EXCEPT ![p] =
                  [Idle EXCEPT !.pc = "drain", !.drain = PendingMoves]]
    /\ UNCHANGED <<mailbox, arrived, row, restore, failures, lost>>

\* Step 1: retry the moves that are still to be done.
DrainNext(p) ==
    /\ poll[p].pc = "drain"
    /\ poll[p].drain # {}
    /\ \E m \in poll[p].drain :
         poll' = [poll EXCEPT ![p].pc = "locate", ![p].msg = m]
    /\ UNCHANGED <<mailbox, arrived, row, restore, failures, lost>>

DrainDone(p) ==
    /\ poll[p].pc = "drain"
    /\ poll[p].drain = {}
    /\ poll' = [poll EXCEPT ![p].pc = "search"]
    /\ UNCHANGED <<mailbox, arrived, row, restore, failures, lost>>

\* Step 2: SEARCH UNSEEN, once; refused, the poll is over.
Search(p) ==
    /\ poll[p].pc = "search"
    /\ \/ /\ poll' = [poll EXCEPT ![p].pc = "fetch", ![p].todo = Unseen]
          /\ UNCHANGED failures
       \/ /\ Refuse("search")
          /\ poll' = [poll EXCEPT ![p] = Idle]
          /\ UNCHANGED unmoved
    /\ UNCHANGED <<mailbox, arrived, row, restore, lost>>

\* What FETCH (RFC822) of message m, of a mailbox that holds it or not, leaves
\* the caller with: the message, flagged \Seen, or none.
Yields(held, sets) == held /\ seen' = seen \cup sets /\ UNCHANGED failures
YieldsNothing(held, sets) ==
    /\ UNCHANGED unmoved
    /\ \/ ~held /\ UNCHANGED <<seen, aborts, refusals>>
       \/ Refuse("fetch") /\ UNCHANGED seen
       \/ held /\ Refuse("body") /\ seen' = seen \cup sets

\* A message that is not given is passed over.
Fetch(p) ==
    LET m == Head(poll[p].todo) IN
    /\ poll[p].pc = "fetch"
    /\ poll[p].todo # <<>>
    /\ \/ /\ Yields(InInbox(m), {m})
          /\ poll' = [poll EXCEPT ![p].pc = "check", ![p].msg = m,
                                  ![p].todo = Tail(@)]
       \/ /\ YieldsNothing(InInbox(m), {m})
          /\ poll' = [poll EXCEPT ![p].todo = Tail(@)]
    /\ UNCHANGED <<inbox, deleted, processed, arrived, row, restore, lost>>

FetchDone(p) ==
    /\ poll[p].pc = "fetch"
    /\ poll[p].todo = <<>>
    /\ poll' = [poll EXCEPT ![p] = Idle]
    /\ UNCHANGED <<mailbox, arrived, row, restore, failures, lost>>

\* _handle_one: is_ingested decides between ingestion and the bare move.
Check(p) ==
    /\ poll[p].pc = "check"
    /\ poll' = [poll EXCEPT ![p].pc =
                  IF Ingested(poll[p].msg) THEN "locate" ELSE "ingest"]
    /\ UNCHANGED <<mailbox, arrived, row, restore, failures, lost>>

\* The other process recorded the reply since the check: the key conflict
\* raises out of the poll, unless ingest_one's own check comes first.
Ingest(p) ==
    /\ poll[p].pc = "ingest"
    /\ \/ /\ ~Ingested(poll[p].msg)
          /\ row' = [row EXCEPT ![poll[p].msg] = NewRow]
          /\ poll' = [poll EXCEPT ![p].pc = "locate"]
       \/ /\ Ingested(poll[p].msg)
          /\ poll' \in {[poll EXCEPT ![p].pc = "locate"],
                        [poll EXCEPT ![p] = Idle]}
          /\ UNCHANGED row
    /\ UNCHANGED <<mailbox, arrived, restore, failures, lost>>

-----------------------------------------------------------------------------
(* move_to_processed, a session of its own *)

\* SELECT and SEARCH HEADER Message-ID; not found raises out of the poll.
Locate(p) ==
    LET m == poll[p].msg IN
    /\ poll[p].pc = "locate"
    /\ \/ \E i \in Found(m) :
            poll' = [poll EXCEPT ![p].pc = "copy", ![p].view = inbox,
                                 ![p].ident = i]
       \/ /\ Found(m) = {}
          /\ poll' = [poll EXCEPT ![p] = Idle]
    /\ UNCHANGED <<mailbox, arrived, row, restore, failures, lost>>

\* What a COPY that does not raise adds to Processed: its result is looked
\* at.  Mutant: it is not, and the server refused.
CopyRefused(m) == {}
CopyOf(m) == {m}

\* COPY by sequence number; a message that is gone makes it raise.  The
\* response may tell the session what others expunged.
Copy(p) ==
    LET m == poll[p].view[poll[p].ident] IN
    /\ poll[p].pc = "copy"
    /\ \/ /\ InInbox(m)
          /\ processed' = processed \cup CopyOf(m)
          /\ \E view \in {poll[p].view, Told(poll[p].view)} :
               poll' = [poll EXCEPT ![p].pc = "store", ![p].view = view]
       \/ /\ ~InInbox(m)
          /\ poll' = [poll EXCEPT ![p] = Idle]
          /\ UNCHANGED processed
    /\ UNCHANGED <<inbox, seen, deleted, arrived, row, restore, failures, lost>>

\* STORE +FLAGS \Deleted by the same sequence number.  Its result is not
\* looked at: refused, the move goes on without the flag.
Store(p) ==
    LET c == poll[p] IN
    /\ c.pc = "store"
    /\ poll' = [poll EXCEPT ![p].pc = "expunge"]
    /\ \/ /\ deleted' = deleted \cup {m \in Denoted(c.view, c.ident) : InInbox(m)}
          /\ UNCHANGED failures
       \/ /\ Refuse("store")
          /\ unmoved' = unmoved \cup {c.msg}
          /\ UNCHANGED deleted
    /\ UNCHANGED <<inbox, seen, processed, arrived, row, restore, lost>>

\* EXPUNGE removes every message flagged \Deleted; its result is not looked
\* at either.
Expunge(p) ==
    LET c == poll[p] IN
    /\ c.pc = "expunge"
    /\ poll' = [poll EXCEPT ![p].pc = "mark"]
    /\ \/ /\ inbox' = Without(inbox, deleted)
          /\ deleted' = {}
          /\ UNCHANGED failures
       \/ /\ Refuse("expunge")
          /\ unmoved' = unmoved \cup {c.msg}
          /\ UNCHANGED <<inbox, deleted>>
    /\ UNCHANGED <<seen, processed, arrived, row, restore, lost>>

\* Mutant: a value the column does not have.
MarkedDone(r) == "done"

\* mark_imap_moved: an UPDATE, without effect when there is no row.
Marked(r) == IF r = None THEN None ELSE "moved"

Mark(p) ==
    LET c == poll[p] IN
    /\ c.pc = "mark"
    /\ row' = [row EXCEPT ![c.msg] = Marked(@)]
    /\ poll' = [poll EXCEPT ![p] =
                  [Idle EXCEPT !.pc = AfterMark(c), !.todo = c.todo,
                               !.drain = c.drain \ {c.msg}]]
    /\ UNCHANGED <<mailbox, arrived, restore, failures, lost>>

\* An exception (connection lost, ingest_one raising) or the death of the
\* process: nothing is caught in run_poll_job, the rest of the poll is gone.
Abort(p) ==
    /\ poll[p].pc \in AbortAt
    /\ aborts < MaxAborts
    /\ aborts' = aborts + 1
    /\ poll' = [poll EXCEPT ![p] = Idle]
    /\ UNCHANGED <<mailbox, arrived, row, restore, refusals, unmoved, lost>>

PollStep(p) ==
    \/ Begin(p) \/ DrainNext(p) \/ DrainDone(p) \/ Search(p) \/ Fetch(p)
    \/ FetchDone(p) \/ Check(p) \/ Ingest(p) \/ Locate(p) \/ Copy(p)
    \/ Store(p) \/ Expunge(p) \/ Mark(p)

-----------------------------------------------------------------------------
(* restore-imap: both folders, the window's messages, no row of the        *)
(* database read                                                            *)

\* Mutant: only the inbox is searched.
InboxOnly(folder) == IF folder = "inbox" THEN {m \in Messages : InInbox(m)} ELSE {}
Contents(folder) == IF folder = "inbox" THEN {m \in Messages : InInbox(m)}
                                        ELSE processed

RestoreBegin ==
    /\ restore.pc = "idle"
    /\ restore.runs < Restores
    /\ \E w \in Windows :
         restore' = [NoRestore EXCEPT !.pc = "search", !.window = w,
                                      !.owed = arrived \cap w,
                                      !.runs = restore.runs + 1]
    /\ UNCHANGED <<mailbox, arrived, row, poll, failures, lost>>

\* Of messages the server does not list or give in this folder, those that
\* are not in the next one either.
PassedOver(ms) == IF restore.folder = "inbox" THEN ms \ processed ELSE ms

\* SEARCH SINCE ... BEFORE ...; refused, the folder is passed over.
RestoreSearch ==
    LET found == Contents(restore.folder) IN
    /\ restore.pc = "search"
    /\ \/ /\ restore' = [restore EXCEPT !.pc = "fetch",
                                         !.todo = found \cap restore.window]
          /\ UNCHANGED failures
       \/ /\ Refuse("search")
          /\ restore' = [restore EXCEPT !.pc = "fetch", !.owed = @ \ PassedOver(found)]
          /\ UNCHANGED unmoved
    /\ UNCHANGED <<mailbox, arrived, row, poll, lost>>

\* FETCH sets \Seen here as well; its result is not looked at, and a message
\* that is not given is passed over.
RestoreFetch ==
    /\ restore.pc = "fetch"
    /\ \E m \in restore.todo :
         LET held == m \in Contents(restore.folder)
             sets == IF restore.folder = "inbox" THEN {m} ELSE {}
         IN  \/ /\ Yields(held, sets)
                /\ restore' = [restore EXCEPT !.pc = "check", !.msg = m,
                                              !.todo = @ \ {m}]
             \/ /\ YieldsNothing(held, sets)
                /\ restore' = [restore EXCEPT
                                 !.todo = @ \ {m},
                                 !.owed = @ \ PassedOver({m} \cap Contents(restore.folder))]
    /\ UNCHANGED <<inbox, deleted, processed, arrived, row, poll, lost>>

\* ingest_one: the idempotency check, then the record.
RestoreCheck ==
    /\ restore.pc = "check"
    /\ restore' = [restore EXCEPT !.pc =
                     IF Ingested(restore.msg) THEN "fetch" ELSE "ingest"]
    /\ UNCHANGED <<mailbox, arrived, row, poll, failures, lost>>

RestoreIngest ==
    /\ restore.pc = "ingest"
    /\ ~Ingested(restore.msg)
    /\ row' = [row EXCEPT ![restore.msg] = NewRow]
    /\ restore' = [restore EXCEPT !.pc = "fetch"]
    /\ UNCHANGED <<mailbox, arrived, poll, failures, lost>>

\* A poll recorded the reply since the check: the command dies of the
\* key conflict, and the operator may run it again.
RestoreConflict ==
    /\ restore.pc = "ingest"
    /\ Ingested(restore.msg)
    /\ restore' = [NoRestore EXCEPT !.runs = restore.runs]
    /\ UNCHANGED <<mailbox, arrived, row, poll, failures, lost>>

RestoreNextFolder ==
    /\ restore.pc = "fetch" /\ restore.folder = "inbox" /\ restore.todo = {}
    /\ restore' = [restore EXCEPT !.pc = "search", !.folder = "processed"]
    /\ UNCHANGED <<mailbox, arrived, row, poll, failures, lost>>

RestoreEnd ==
    /\ restore.pc = "fetch" /\ restore.folder = "processed" /\ restore.todo = {}
    /\ restore' = [NoRestore EXCEPT !.runs = restore.runs]
    /\ UNCHANGED <<mailbox, arrived, row, poll, failures, lost>>

\* The command dies: connection lost, ingest_one raising, killed.
RestoreAbort ==
    /\ restore.pc \in AbortAt
    /\ aborts < MaxAborts
    /\ aborts' = aborts + 1
    /\ restore' = [NoRestore EXCEPT !.runs = restore.runs]
    /\ UNCHANGED <<mailbox, arrived, row, poll, refusals, unmoved, lost>>

RestoreStep == RestoreSearch \/ RestoreFetch \/ RestoreCheck \/ RestoreIngest \/ RestoreConflict
               \/ RestoreNextFolder \/ RestoreEnd

\* The host is lost with its index.sqlite (which no backup holds) and set up
\* again, the app being stopped meanwhile; reindex does not bring the
\* ingested_messages rows back.
LoseIndex ==
    /\ MayLoseIndex /\ ~lost
    /\ \A p \in Pollers : poll[p].pc = "idle"
    /\ restore.pc = "idle"
    /\ lost' = TRUE
    /\ row' = [m \in Messages |-> None]
    /\ UNCHANGED <<mailbox, arrived, poll, restore, failures>>

-----------------------------------------------------------------------------

Next ==
    \/ \E m \in Messages : Deliver(m)
    \/ \E p \in Pollers : PollStep(p) \/ Abort(p)
    \/ RestoreBegin
    \/ RestoreStep
    \/ RestoreAbort
    \/ LoseIndex

Spec == Init /\ [][Next]_vars

\* The scheduler starts a poll every few minutes and the event loop runs it;
\* a command that was started runs on.  Nobody is forced to send a reply, to
\* run restore-imap or to fail.
Fairness == /\ \A p \in Pollers : WF_vars(PollStep(p))
            /\ WF_vars(RestoreStep)

FairSpec == Spec /\ Fairness

-----------------------------------------------------------------------------
(* Properties *)

\* Every variable has the type the code gives it.
TypeOK ==
    /\ inbox \in Seq(Messages)
    /\ {seen, deleted, processed, arrived} \subseteq SUBSET Messages
    /\ row \in [Messages -> {None, "pending", "moved"}]
    /\ poll \in [Pollers -> [pc : PollPCs \cup {"idle"}, drain : SUBSET Messages,
                             todo : Seq(Messages), msg : Messages \cup {None},
                             view : Seq(Messages), ident : Nat]]
    /\ restore \in [pc : {"idle", "search", "fetch", "check", "ingest"},
                    folder : FolderNames, window : SUBSET Messages,
                    todo : SUBSET Messages, msg : Messages \cup {None},
                    owed : SUBSET Messages, runs : 0..Restores]
    /\ aborts \in 0..MaxAborts /\ refusals \in 0..MaxRefusals
    /\ unmoved \subseteq Messages \cup {None}
    /\ lost \in BOOLEAN

\* A reply leaves the inbox only after it was copied to Processed: what
\* EXPUNGE removes is what COPY copied, whatever happened between the two.
CopiedBeforeExpunged ==
    \A m \in arrived : InInbox(m) \/ m \in processed

\* A reply leaves the inbox only after it was ingested (until the database
\* is lost): the mailbox is the only copy of a reply that is not.
GoneOnlyWhenIngested ==
    ~lost => \A m \in arrived : InInbox(m) \/ Ingested(m)

\* imap_moved=1 says that the reply is in Processed, and no longer in the
\* inbox unless the server refused STORE or EXPUNGE when it was moved: that
\* answer is ignored and the row marked all the same, so that the reply stays
\* in the inbox for good.
MarkedIsMoved ==
    \A m \in Messages : row[m] = "moved" =>
        /\ m \in processed
        /\ InInbox(m) => m \in unmoved

\* Every reply is ingested in the end: "message left UNSEEN; next poll
\* retries".
EveryReplyIngested == \A m \in Messages : m \in arrived ~> Ingested(m)

\* Every pending move is tried again and recorded in the end, whether or not
\* the server does all that it is asked: "imap_moved=0 flags the message for
\* an IMAP-only retry on the next poll".
EveryPendingMoveRetried ==
    \A m \in Messages : row[m] = "pending" ~> row[m] = "moved"

\* When restore-imap ends, every reply of its window that had arrived when it
\* began is ingested, whatever polls, failures or the loss of the database
\* left behind, and while polls move replies from the folder it has still to
\* read to the other.  Replies the server did not list or give are excepted:
\* the command passes them over and says "restore-imap complete".
RestoreRecovers ==
    [][RestoreEnd => \A m \in restore.owed : Ingested(m)]_vars

=============================================================================
