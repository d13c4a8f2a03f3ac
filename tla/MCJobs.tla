------------------------------- MODULE MCJobs -------------------------------
(* The prompt tick, the poll tick and `driftnote send-prompt`. *)
EXTENDS Jobs

MCJobOf == [w \in Workers |-> CASE w = "prompt" -> "daily_prompt"
                                [] w = "poll" -> "imap_poll"
                                [] w = "hand" -> None]

=============================================================================
