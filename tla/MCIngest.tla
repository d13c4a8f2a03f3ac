----------------------------- MODULE MCIngest -----------------------------
(* Small instances of Ingest for TLC. *)
EXTENDS Ingest

CONSTANTS app, cli, m1, m2, m3, d1, d2, photo, happy, work

\* m1 and m2 carry an attachment of the same name, as phones send them; m3
\* has no mood and no attachment.
MCParsed == [m \in Messages |->
    IF m = m3 THEN [mood |-> NoMood, tags |-> {work}, media |-> <<>>]
    ELSE [mood |-> happy, tags |-> IF m = m1 THEN {work} ELSE {},
          media |-> <<photo>>]]

MCDatesFor == [m \in Messages |-> {d1}]

\* A reply without its prompt's row may be filed under either day.
MCDatesForAny == [m \in Messages |-> IF m = m2 THEN {d1, d2} ELSE {d1}]

\* No two processes are handed the same reply: the one that fetches it sets
\* \Seen before another one searches.
MCHandedApart == [p \in Procs |-> IF p = App THEN {m1, m2} ELSE {m3}]
MCHandedAll == [p \in Procs |-> Messages]
MCHandedApp == [p \in Procs |-> IF p = App THEN Messages ELSE {}]

\* Every step but the one between the two halves of a rollback.
MCCrashAt == (IngestPCs \cup SavePCs) \ {"unlink"}

============================================================================
