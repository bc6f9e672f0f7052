------------------------------ MODULE Session ------------------------------
(***************************************************************************)
(* What agents and the cron job do to a session beside its turns: the      *)
(* handoff to a human and the question for a rating that follows it.       *)
(* Handoff keeps its names, Ratings is an instance with a prefix; the two  *)
(* have variables of their own.                                            *)
(***************************************************************************)
EXTENDS Handoff, Naturals

CONSTANTS
    Questions,    \* bound: how many ratings are asked for
    StreakLimit,  \* HANDOFF_UNKNOWN_STREAK
    AskOnClose    \* CSAT_ON_CLOSE

VARIABLES context, bot, ticket, talking, asked, ratings, settled, unchecked

RA == INSTANCE Ratings WITH None <- Nobody, status <- bot, turns <- talking

\* What Ratings assumes of its constants.
ASSUME SessionAssumption == RA!RatingsAssumption

\* Stated and explained in Ratings: a question is answered at once or never, and
\* it is rated once.
RatedOnce == RA!RatedOnce
=============================================================================
