----------------------------- MODULE MCAlerts -----------------------------
(* Small instances of Alerts for TLC. *)
EXTENDS Alerts

\* One usage below, between and above the thresholds.
MCLevels == {50, 85, 97}

\* Until the mail is out: a process that dies between the mail and the row
\* that records it forgets that it was sent.
BeforeMail == {"compare", "dispatch", "send"}

============================================================================
