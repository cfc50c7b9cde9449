--------------------------- MODULE MCPublication ---------------------------
(***************************************************************************)
(* Model checking of Publication.  A day is two ticks, so that midnight    *)
(* falls between runs and inside them; a backoff, a lease, the spacing of  *)
(* the governor and the timeout of a run are one tick each; the warm-up    *)
(* lasts a day or two, so that the account graduates.  In MCPublicationOps *)
(* a day is one tick, and none falls inside a run.                         *)
(***************************************************************************)
EXTENDS Publication

\* What may go wrong in a run whose boards stay as they are.
MCRunFaults == Fault \ {"sandbox", "board_deleted"}

\* What changes the board under a stage, and what leaves it unknown what was done.
MCBoardFaults == {"crash", "lost_reply", "expired", "sandbox", "board_deleted"}

\* What a document survives by itself.
MCPassingFaults == {"crash", "transient", "expired", "lost_reply"}
=============================================================================
