------------------------------ MODULE Journal ------------------------------
(***************************************************************************)
(* What the ingest pipeline and the edit form promise of the journal as    *)
(* the web pages read it: every reply is accepted at most once, and then   *)
(* as one more section at the end of one day's text; an edit keeps the     *)
(* text its form was opened on (an initial part of the day's text, when    *)
(* replies arrived since) and puts the user's change after it.  Ingest.tla *)
(* is shown to implement this specification.                               *)
(***************************************************************************)
EXTENDS Naturals, Sequences

CONSTANTS Messages,   \* replies, by Message-ID
          Dates,      \* days that have an entry
          DatesFor,   \* DatesFor[m]: the days a reply may be filed under
          Edited      \* the section a user's edit adds

VARIABLES journal,    \* journal[d]: the sections of day d, in order
          accepted    \* the replies recorded as ingested

jvars == <<journal, accepted>>

Init == /\ journal = [d \in Dates |-> <<>>]
        /\ accepted = {}

Accept(m, d) ==
    /\ m \notin accepted
    /\ d \in DatesFor[m]
    /\ accepted' = accepted \cup {m}
    /\ journal' = [journal EXCEPT ![d] = Append(@, m)]

Edit(d) ==
    /\ \E n \in 1..Len(journal[d]) :
         journal' = [journal EXCEPT ![d] = Append(SubSeq(@, 1, n), Edited)]
    /\ UNCHANGED accepted

Next == \/ \E m \in Messages, d \in Dates : Accept(m, d)
        \/ \E d \in Dates : Edit(d)

Spec == Init /\ [][Next]_jvars

=============================================================================
