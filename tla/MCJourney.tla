----------------------------- MODULE MCJourney -----------------------------
(* An instance of Journey for TLC: what the intents of journey_service say. *)
EXTENDS Journey

MCSignals ==
    [goal : {4, 5}, strong : {TRUE}, risk : {FALSE}]
       \cup [goal : {2, 3}, strong : {FALSE}, risk : {FALSE}]
       \cup [goal : {5}, strong : {TRUE}, risk : {TRUE}]
=============================================================================
