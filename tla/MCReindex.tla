------------------------------ MODULE MCReindex ------------------------------
(* The instances of Reindex: two replies of one day and one of the next. *)
EXTENDS Reindex

CONSTANTS app, cli, m1, m2, m3, d1, d2, photo, happy, work

MCParsed == [m \in Messages |->
    [mood |-> IF m = m3 THEN NoMood ELSE happy,
     tags |-> IF m = m1 THEN {work} ELSE {},
     media |-> IF m = m3 THEN <<>> ELSE <<photo>>]]

MCDatesFor == [m \in Messages |-> IF m = m3 THEN {d2} ELSE {d1}]

MCHanded == [p \in Procs |-> IF p = App THEN Messages ELSE {}]

MCWalkOrder == <<d1, d2>>

\* Every step of ingest_one between the raw file and the index.
MCCrashAt == {"media", "write", "commit"}

=============================================================================
