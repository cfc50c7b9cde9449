---------------------------- MODULE HelloPromise ----------------------------
(***************************************************************************)
(* The two documents of the hello pipeline and the count of the account    *)
(* (see Hello): what is promised of them.                                  *)
(***************************************************************************)
EXTENDS Integers, Registry

VARIABLES docs,    \* the product and, once it is inserted, the pin: status and lease
          account  \* its counted pins, and whether the last one is too recent

Absent == [status |-> "absent", lease |-> "none"]

(***************************************************************************)
(* "Re-runs never double-count": the pin counts against the account's      *)
(* quota at most once, and only when it is VERIFIED.  (A kill between the  *)
(* verification and the count leaves it uncounted for good.)               *)
(***************************************************************************)
CountedOnce ==
  /\ account.counted <= 1
  /\ account.counted = 1 => docs["pin"].status = "VERIFIED"

Holder(e) == IF docs[e].lease = "none" THEN "none" ELSE "walk"

ProductPromise ==
  INSTANCE Lifecycle WITH
    TRANSITIONS <- INGEST_TRANSITIONS, STATE_ROLES <- INGEST_ROLES,
    Docs <- {1}, Workers <- {"walk"}, None <- "none", FirstState <- "PENDING_FETCH",
    status <- [d \in {1} |-> IF docs["product"] = Absent THEN "PENDING_FETCH"
                                                         ELSE docs["product"].status],
    holder <- [d \in {1} |-> Holder("product")]

PinPromise ==
  INSTANCE Lifecycle WITH
    TRANSITIONS <- PUBLICATION_TRANSITIONS, STATE_ROLES <- PUBLICATION_ROLES,
    Docs <- {1}, Workers <- {"walk"}, None <- "none", FirstState <- "QUEUED",
    status <- [d \in {1} |-> IF docs["pin"] = Absent THEN "QUEUED" ELSE docs["pin"].status],
    holder <- [d \in {1} |-> Holder("pin")]

(***************************************************************************)
(* Across all its runs the walk moves each document along the rows of its  *)
(* machine, one at a time, and never claims one that an earlier run still  *)
(* holds.                                                                  *)
(***************************************************************************)
HelloImplementsLifecycle == ProductPromise!Spec /\ PinPromise!Spec
=============================================================================
