----------------------------- MODULE MCOverCap -----------------------------
(***************************************************************************)
(* Publication with a history variable: the pins created in the UTC day,   *)
(* which nothing in the code counts, beside those verified in it.          *)
(***************************************************************************)
EXTENDS MCPublication

VARIABLE created

MCInit == Init /\ created = 0

MCNext ==
  /\ Next
  /\ created' = IF Create \/ CreateUnanswered THEN UpTo(LargestCap + 1, created + 1)
                ELSE IF Tick /\ day.time = DAY - 1 THEN 0
                ELSE created

MCSpec == MCInit /\ [][MCNext]_<<vars, created>>

(***************************************************************************)
(* The pins created in a UTC day stay within the account's cap.            *)
(***************************************************************************)
CreatedWithinCap == created <= DailyCap(account)
=============================================================================
