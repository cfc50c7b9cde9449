----------------------------- MODULE Lifecycle -----------------------------
(***************************************************************************)
(* What the engine promises about a collection, with no clock, no attempt  *)
(* counters and no calls in progress (src/pinner/repo/engine.py's and      *)
(* src/pinner/statemachine/registry.py's module docs): each document is in *)
(* one state of its machine and moves along its rows only, one row at a    *)
(* time; it is held by one worker exactly while it is in a WORKING state;  *)
(* it is taken by a claim, from nobody, and every other move lets it go.   *)
(***************************************************************************)
EXTENDS Validator

CONSTANTS Docs, Workers, None, FirstState

VARIABLES status,   \* the state of each document
          holder    \* the worker that holds it, or None

vars == <<status, holder>>

Init ==
  /\ status = [d \in Docs |-> FirstState]
  /\ holder = [d \in Docs |-> None]

Follow(d, row) ==
  /\ status[d] = row.source
  /\ status' = [status EXCEPT ![d] = row.target]

Take(w, d) ==
  \E row \in TRANSITIONS :
    /\ row.kind = "CLAIM"
    /\ holder[d] = None
    /\ Follow(d, row)
    /\ holder' = [holder EXCEPT ![d] = w]

Move(d) ==
  \E row \in TRANSITIONS :
    /\ row.kind # "CLAIM"
    /\ Follow(d, row)
    /\ holder' = [holder EXCEPT ![d] = None]

Next ==
  \E d \in Docs : Move(d) \/ \E w \in Workers : Take(w, d)

Spec == Init /\ [][Next]_vars
=============================================================================
