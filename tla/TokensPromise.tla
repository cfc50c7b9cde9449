--------------------------- MODULE TokensPromise ----------------------------
(***************************************************************************)
(* The tokens of one account (see Tokens): their state, and what is        *)
(* promised of it.                                                         *)
(***************************************************************************)
CONSTANT Runs   \* the processes

VARIABLES stored,     \* the document, and its two blobs
          pinterest,  \* the refresh tokens Pinterest accepts, and whether it rotates them
          caller,     \* what each run holds
          orphaned    \* history: a pair was lost since the operator stored one

NoToken == 0             \* no blob, no token

(***************************************************************************)
(* The refresh token in the document is valid, or a run is about to write  *)
(* one that is: neither two runs that refresh at once nor an operator who  *)
(* stores a pair meanwhile lock the account out.  Only a run that dies, or *)
(* misses the reply, between the exchange and the write does.              *)
(***************************************************************************)
RefreshTokenIsValid ==
  stored.refresh # NoToken =>
    \/ stored.refresh \in pinterest.valid
    \/ \E r \in Runs : caller[r].pc = "save" /\ caller[r].refresh \in pinterest.valid
    \/ orphaned
=============================================================================
