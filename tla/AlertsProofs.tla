---------------------------- MODULE AlertsProofs ----------------------------
(***************************************************************************)
(* Proofs about Alerts, for every value of its constants.                  *)
(***************************************************************************)
EXTENDS Alerts, TLAPS

\* A threshold is recorded while a mail about it is under way, and until that
\* mail is out the usage was below it since the last one.
DropInv ==
    /\ \A t \in Thresholds : ~crossed[t] => dropped[t]
    /\ check.pc \in {"dispatch", "send", "finish"} => crossed[check.at]
    /\ check.pc \in {"dispatch", "send"} => dropped[check.at]

\* The last row of a kind is no older than the last mail, but while the row
\* of that mail is being finished; a mail goes out when no row is recent.
ApartInv ==
    /\ \A t \in Thresholds :
         age[t] <= mailAge[t] \/ (check.pc = "finish" /\ check.at = t)
    /\ check.pc = "send" => age[check.at] > Window

USE DEF PCs

-----------------------------------------------------------------------------

LEMMA AfterType ==
    ASSUME NEW c, c \in [pc : PCs, at : Thresholds, used : Levels \cup {0}]
    PROVE  /\ After(c) \in [pc : PCs, at : Thresholds, used : Levels \cup {0}]
           /\ After(c).pc \in {"idle", "compare"}
<1>1. CASE c.at = WarnPercent
  <2>1. After(c) = [c EXCEPT !.pc = "compare", !.at = AlertPercent]
    BY <1>1 DEF After
  <2>. QED
    BY <2>1 DEF Thresholds
<1>2. CASE c.at # WarnPercent
  BY <1>2 DEF After, Idle, Thresholds
<1>. QED
  BY <1>1, <1>2

LEMMA InitType == Init => TypeOK
BY ConstantsAssumption DEF Init, TypeOK, Idle, Thresholds, Ages

LEMMA NextType == TypeOK /\ [Next]_vars => TypeOK'
<1>. SUFFICES ASSUME TypeOK, [Next]_vars PROVE TypeOK'
  OBVIOUS
<1>. USE DEF TypeOK, history
<1>0. 0 \in Ages
  BY ConstantsAssumption DEF Ages
<1>1. After(check) \in [pc : PCs, at : Thresholds, used : Levels \cup {0}]
  BY AfterType
<1>2. CASE Begin
  BY <1>2 DEF Begin, Measured, Thresholds
<1>3. CASE Cross
  BY <1>3 DEF Cross
<1>4. CASE StayAbove
  BY <1>1, <1>4 DEF StayAbove
<1>5. CASE StayBelow
  BY <1>1, <1>5 DEF StayBelow
<1>6. CASE Dedup
  BY <1>0, <1>1, <1>6 DEF Dedup
<1>7. CASE Dispatch
  BY <1>7 DEF Dispatch
<1>8. CASE Send
  BY <1>0, <1>8 DEF Send, Mailed
<1>9. CASE Finish
  BY <1>0, <1>1, <1>9 DEF Finish
<1>10. CASE SendFails
  <2>1. Idle \in [pc : PCs, at : Thresholds, used : Levels \cup {0}]
    BY DEF Idle, Thresholds
  <2>2. mailAge' \in [Thresholds -> Ages] /\ dropped' \in [Thresholds -> BOOLEAN]
    <3>1. check.at \in Thresholds
      OBVIOUS
    <3>2. CASE UNCHANGED history
      BY <3>2
    <3>3. CASE Mailed(check.at)
      BY <1>0, <3>1, <3>3 DEF Mailed
    <3>. QED
      BY <1>10, <3>2, <3>3 DEF SendFails
  <2>. QED
    BY <1>0, <1>10, <2>1, <2>2 DEF SendFails
<1>11. CASE Crash
  <2>1. Idle \in [pc : PCs, at : Thresholds, used : Levels \cup {0}]
    BY DEF Idle, Thresholds
  <2>2. crashes + 1 \in 0..MaxCrashes
    BY <1>11, ConstantsAssumption DEF Crash
  <2>. QED
    BY <1>11, <2>1, <2>2 DEF Crash
<1>12. CASE TimePasses
  <2>1. \A a \in Ages : (IF a <= Window THEN a + 1 ELSE a) \in Ages
    BY ConstantsAssumption DEF Ages
  <2>. QED
    BY <1>12, <2>1 DEF TimePasses
<1>13. CASE DiskChanges
  BY <1>13 DEF DiskChanges
<1>14. CASE UNCHANGED vars
  BY <1>14 DEF vars
<1>. QED
  BY <1>2, <1>3, <1>4, <1>5, <1>6, <1>7, <1>8, <1>9, <1>10, <1>11, <1>12,
     <1>13, <1>14 DEF Next, CheckStep

\* Every variable keeps its type, with every failure and crash.
THEOREM TypeCorrect == Spec => []TypeOK
BY InitType, NextType, PTL DEF Spec

-----------------------------------------------------------------------------
(* A mail only after a drop *)

LEMMA NextDrop == TypeOK /\ DropInv /\ [Next]_vars => DropInv'
<1>. SUFFICES ASSUME TypeOK, DropInv, [Next]_vars PROVE DropInv'
  OBVIOUS
<1>. USE DEF TypeOK, DropInv, history
<1>1. After(check).pc \in {"idle", "compare"}
  BY AfterType
<1>2. CASE Begin
  BY <1>2 DEF Begin
<1>3. CASE Cross
  BY <1>3 DEF Cross, Prior
<1>4. CASE StayAbove
  BY <1>1, <1>4 DEF StayAbove
<1>5. CASE StayBelow
  BY <1>1, <1>5 DEF StayBelow
<1>6. CASE Dedup
  BY <1>1, <1>6 DEF Dedup
<1>7. CASE Dispatch
  BY <1>7 DEF Dispatch
<1>8. CASE Send
  BY <1>8 DEF Send, Mailed
<1>9. CASE Finish
  BY <1>1, <1>9 DEF Finish
<1>10. CASE SendFails
  BY <1>10 DEF SendFails, Mailed, Idle
<1>11. CASE Crash
  BY <1>11 DEF Crash, Idle
<1>12. CASE TimePasses
  BY <1>12 DEF TimePasses
<1>13. CASE DiskChanges
  BY <1>13 DEF DiskChanges
<1>14. CASE UNCHANGED vars
  BY <1>14 DEF vars
<1>. QED
  BY <1>2, <1>3, <1>4, <1>5, <1>6, <1>7, <1>8, <1>9, <1>10, <1>11, <1>12,
     <1>13, <1>14 DEF Next, CheckStep

\* Between two mails about a threshold a check measured a usage below it,
\* wherever the process dies and whichever mails are refused, or taken without
\* an answer.
THEOREM MailNeedsDrop == Spec => MailOnlyAfterDrop
<1>1. Init => DropInv
  BY DEF Init, Idle, DropInv
<1>2. DropInv /\ TypeOK =>
        [\A t \in Thresholds : MailSent(t) => dropped[t]]_vars
  BY DEF DropInv, MailSent
<1>. QED
  BY <1>1, <1>2, NextDrop, TypeCorrect, PTL DEF Spec, MailOnlyAfterDrop

-----------------------------------------------------------------------------
(* Mails apart *)

LEMMA NextApart ==
    ASSUME "finish" \notin CrashAt
    PROVE  TypeOK /\ ApartInv /\ [Next]_vars => ApartInv'
<1>. SUFFICES ASSUME TypeOK, ApartInv, [Next]_vars PROVE ApartInv'
  OBVIOUS
<1>. USE DEF TypeOK, ApartInv, history
<1>0. Window \in Nat /\ \A t \in Thresholds : age[t] \in Nat /\ mailAge[t] \in Nat
  BY ConstantsAssumption DEF Ages
<1>1. After(check).pc \in {"idle", "compare"}
  BY AfterType
<1>2. CASE Begin
  BY <1>2 DEF Begin
<1>3. CASE Cross
  BY <1>3 DEF Cross
<1>4. CASE StayAbove
  BY <1>1, <1>4 DEF StayAbove
<1>5. CASE StayBelow
  BY <1>1, <1>5 DEF StayBelow
<1>6. CASE Dedup
  BY <1>0, <1>1, <1>6 DEF Dedup
<1>7. CASE Dispatch
  BY <1>0, <1>7 DEF Dispatch, Recent
<1>8. CASE Send
  BY <1>0, <1>8 DEF Send, Mailed
<1>9. CASE Finish
  BY <1>0, <1>1, <1>9 DEF Finish
<1>10. CASE SendFails
  BY <1>0, <1>10 DEF SendFails, Mailed, Idle
<1>11. CASE Crash
  BY <1>11 DEF Crash, Idle
<1>12. CASE TimePasses
  <2>1. \A t \in Thresholds : age[t] <= mailAge[t]
    BY <1>12 DEF TimePasses
  <2>2. \A a, b \in Ages : a <= b => (IF a <= Window THEN a + 1 ELSE a)
                                     <= (IF b <= Window THEN b + 1 ELSE b)
    BY <1>0 DEF Ages
  <2>. QED
    BY <1>12, <2>1, <2>2 DEF TimePasses
<1>13. CASE DiskChanges
  BY <1>13 DEF DiskChanges
<1>14. CASE UNCHANGED vars
  BY <1>14 DEF vars
<1>. QED
  BY <1>2, <1>3, <1>4, <1>5, <1>6, <1>7, <1>8, <1>9, <1>10, <1>11, <1>12,
     <1>13, <1>14 DEF Next, CheckStep

\* No two mails about one threshold within the dedup window, unless the
\* process dies between a mail and the row that records it.
THEOREM MailsKeepApart ==
    ASSUME "finish" \notin CrashAt
    PROVE  Spec => MailsApart
<1>1. Init => ApartInv
  BY ConstantsAssumption DEF Init, Idle, ApartInv
<1>2. ApartInv /\ TypeOK =>
        [\A t \in Thresholds : MailSent(t) => mailAge[t] > Window]_vars
  BY ConstantsAssumption DEF ApartInv, TypeOK, Ages, MailSent
<1>. QED
  BY <1>1, <1>2, NextApart, TypeCorrect, PTL DEF Spec, MailsApart

=============================================================================
