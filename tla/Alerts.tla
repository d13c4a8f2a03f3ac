------------------------------- MODULE Alerts -------------------------------
(***************************************************************************)
(* run_disk_check (scheduler/disk_job.py) and dispatch_alert (alerts.py):  *)
(* the disk_state row of each threshold, the job_runs rows of the alerts   *)
(* as far as the 24-hour dedup reads them, and the mails.  The scheduler   *)
(* runs one check at a time; it awaits the SMTP server, may be killed      *)
(* between two of its transactions, and raises when a mail cannot be sent. *)
(***************************************************************************)
EXTENDS Integers

CONSTANTS WarnPercent, AlertPercent,
          Levels,       \* the disk usages that occur, in percent
          Window,       \* the dedup window, counted in check intervals
          MailMayFail,  \* may the SMTP server refuse a mail?
          CrashAt,      \* the control states at which the process may die
          MaxCrashes    \* bound: how often it does

VARIABLES percent,    \* disk usage
          crossed,    \* crossed[t]: threshold t has a disk_state row
          age,        \* age[t]: intervals since the last row of t's error_kind
          check,      \* control state and locals of run_disk_check
          crashes,    \* number of crashes so far
          mailAge,    \* history: intervals since the last mail about t
          dropped     \* history: usage was measured below t since that mail

vars == <<percent, crossed, age, check, crashes, mailAge, dropped>>
history == <<mailAge, dropped>>

Thresholds == {WarnPercent, AlertPercent}
\* Ages are counted up to the first one outside the window.
Ages == 0..(Window + 1)
PCs == {"idle", "compare", "dispatch", "send", "finish"}

ASSUME ConstantsAssumption ==
    /\ WarnPercent \in Nat /\ AlertPercent \in Nat /\ WarnPercent < AlertPercent
    /\ Levels \subseteq Nat
    /\ Window \in Nat /\ MaxCrashes \in Nat
    /\ MailMayFail \in BOOLEAN
    /\ CrashAt \subseteq PCs \ {"idle"}

\* at: the threshold in hand; used: the usage measured.
Idle == [pc |-> "idle", at |-> WarnPercent, used |-> 0]

Init ==
    /\ percent \in Levels
    /\ crossed = [t \in Thresholds |-> FALSE]
    /\ age = [t \in Thresholds |-> Window + 1]
    /\ check = Idle
    /\ crashes = 0
    /\ mailAge = [t \in Thresholds |-> Window + 1]
    /\ dropped = [t \in Thresholds |-> TRUE]

-----------------------------------------------------------------------------

\* What follows when a threshold is dealt with: the warning threshold is
\* followed by the alert threshold.  Mutant: it is not.
OnlyWarn(c) == Idle
After(c) == IF c.at = WarnPercent
            THEN [c EXCEPT !.pc = "compare", !.at = AlertPercent]
            ELSE Idle

\* Mutant: the rows of the last day are not looked at.
NeverRecent(t) == FALSE
Recent(t) == age[t] <= Window

\* Mutant: the row is not read before the alert.
NeverPrior(t) == FALSE
Prior(t) == crossed[t]

\* What the check measures.  Mutant: the share that is free.
MeasuredFree == 100 - percent
Measured == percent

Begin ==
    /\ check.pc = "idle"
    /\ check' = [pc |-> "compare", at |-> WarnPercent, used |-> Measured]
    /\ UNCHANGED <<percent, crossed, age, crashes, history>>

\* _maybe_alert, up to dispatch_alert: the crossing is recorded first.
Cross ==
    LET t == check.at IN
    /\ check.pc = "compare"
    /\ check.used >= t /\ ~Prior(t)
    /\ crossed' = [crossed EXCEPT ![t] = TRUE]
    /\ check' = [check EXCEPT !.pc = "dispatch"]
    /\ UNCHANGED <<percent, age, crashes, history>>

StayAbove ==
    /\ check.pc = "compare"
    /\ check.used >= check.at /\ Prior(check.at)
    /\ check' = After(check)
    /\ UNCHANGED <<percent, crossed, age, crashes, history>>

StayBelow ==
    LET t == check.at IN
    /\ check.pc = "compare"
    /\ check.used < t
    /\ crossed' = [crossed EXCEPT ![t] = FALSE]
    /\ dropped' = [dropped EXCEPT ![t] = TRUE]
    /\ check' = After(check)
    /\ UNCHANGED <<percent, age, crashes, mailAge>>

\* dispatch_alert: a row of this kind within the window suppresses the mail,
\* and is itself followed by another one of the kind.
Dedup ==
    LET t == check.at IN
    /\ check.pc = "dispatch"
    /\ Recent(t)
    /\ age' = [age EXCEPT ![t] = 0]
    /\ check' = After(check)
    /\ UNCHANGED <<percent, crossed, crashes, history>>

\* Otherwise a row is inserted, without a kind until it is finished.
Dispatch ==
    /\ check.pc = "dispatch"
    /\ ~Recent(check.at)
    /\ check' = [check EXCEPT !.pc = "send"]
    /\ UNCHANGED <<percent, crossed, age, crashes, history>>

\* The server takes the mail about t.
Mailed(t) == /\ mailAge' = [mailAge EXCEPT ![t] = 0]
             /\ dropped' = [dropped EXCEPT ![t] = FALSE]

Send ==
    /\ check.pc = "send"
    /\ Mailed(check.at)
    /\ check' = [check EXCEPT !.pc = "finish"]
    /\ UNCHANGED <<percent, crossed, age, crashes>>

Finish ==
    /\ check.pc = "finish"
    /\ age' = [age EXCEPT ![check.at] = 0]
    /\ check' = After(check)
    /\ UNCHANGED <<percent, crossed, crashes, history>>

\* send raises, the mail refused or taken and the answer lost: the row is
\* finished with its kind, and the exception ends the check, the alert
\* threshold included.
SendFails ==
    /\ MailMayFail
    /\ check.pc = "send"
    /\ UNCHANGED history \/ Mailed(check.at)
    /\ age' = [age EXCEPT ![check.at] = 0]
    /\ check' = Idle
    /\ UNCHANGED <<percent, crossed, crashes>>

\* A tick that is cancelled where it awaits the server ends like this too: no
\* `except Exception` of the two functions catches it, so the rows they opened
\* stay as they are.
Crash ==
    /\ check.pc \in CrashAt
    /\ crashes < MaxCrashes
    /\ crashes' = crashes + 1
    /\ check' = Idle
    /\ UNCHANGED <<percent, crossed, age, history>>

\* A check takes less time than lies between two.
TimePasses ==
    LET Older(a) == IF a <= Window THEN a + 1 ELSE a IN
    /\ check.pc = "idle"
    /\ age' = [t \in Thresholds |-> Older(age[t])]
    /\ mailAge' = [t \in Thresholds |-> Older(mailAge[t])]
    /\ UNCHANGED <<percent, crossed, check, crashes, dropped>>

DiskChanges ==
    /\ percent' \in Levels
    /\ UNCHANGED <<crossed, age, check, crashes, history>>

-----------------------------------------------------------------------------

CheckStep == Cross \/ StayAbove \/ StayBelow \/ Dedup \/ Dispatch \/ Send
             \/ Finish \/ SendFails

Next == Begin \/ CheckStep \/ Crash \/ TimePasses \/ DiskChanges

Spec == Init /\ [][Next]_vars

\* The scheduler starts a check every few hours, and one that runs ends: the
\* SMTP client has a timeout.
Fairness == WF_vars(Begin) /\ WF_vars(CheckStep)

FairSpec == Spec /\ Fairness

-----------------------------------------------------------------------------
(* Properties *)

\* compute_banners: what every page says of the disk.  It asks for the rows of
\* the thresholds config.example.toml names, whatever is configured.
CrossedAt(t) == t \in Thresholds /\ crossed[t]
Banner == IF CrossedAt(95) THEN "error"
          ELSE IF CrossedAt(80) THEN "warn" ELSE "none"

\* Every variable has the type the code gives it.
TypeOK ==
    /\ percent \in Levels
    /\ crossed \in [Thresholds -> BOOLEAN]
    /\ age \in [Thresholds -> Ages]
    /\ check \in [pc : PCs, at : Thresholds, used : Levels \cup {0}]
    /\ crashes \in 0..MaxCrashes
    /\ mailAge \in [Thresholds -> Ages]
    /\ dropped \in [Thresholds -> BOOLEAN]

MailSent(t) == check.pc = "send" /\ check.at = t /\ Mailed(t)

\* "Re-alert only after dropping back below the threshold": between two mails
\* about a threshold a check measured a usage below it, whatever fails or
\* dies between recording the crossing and sending.
MailOnlyAfterDrop == [][\A t \in Thresholds : MailSent(t) => dropped[t]]_vars

\* No two mails about one threshold within the window (the 24-hour dedup),
\* also when the usage swings around the threshold.
MailsApart == [][\A t \in Thresholds : MailSent(t) => mailAge[t] > Window]_vars

\* A usage that stays on one side of a threshold is what the banner says in
\* the end (with the thresholds of config.example.toml), also when the mail
\* about the lower threshold fails and its exception keeps the check from the
\* upper one.
BannerSettles ==
    /\ <>[](percent >= AlertPercent) => <>[](Banner = "error")
    /\ <>[](percent < WarnPercent) => <>[](Banner = "none")
    /\ <>[](percent >= WarnPercent /\ percent < AlertPercent) => <>[](Banner = "warn")

=============================================================================
