------------------------------ MODULE MCPoll ------------------------------
(* Small instances of Poll for TLC. *)
EXTENDS Poll

CONSTANTS app, cli, m1, m2, m3

\* The failures that meet no message between FETCH and its record, and none
\* that is flagged \Deleted and not yet expunged.
BeforeStore == {"drain", "search", "fetch", "locate", "copy", "store"}

Everywhere == PollPCs

\* What the server may do without a later poll having lost the reply: all but
\* setting \Seen without giving the message.
AllButBody == Refusable \ {"body"}

\* The operator names the days of two replies, and not the third's.
TwoOfThem == {{m1, m2}}
NoWindow == {}

============================================================================
