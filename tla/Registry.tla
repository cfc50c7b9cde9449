------------------------------ MODULE Registry ------------------------------
(***************************************************************************)
(* The declarative state machine registry of                               *)
(* src/pinner/statemachine/registry.py: the two machines as pure data, one *)
(* row per transition.  The publication machine drives the documents of    *)
(* the `pins` collection, the ingest machine those of `products`.          *)
(*                                                                         *)
(* Every other module reads control flow from these rows, as every other   *)
(* file of the program does.                                               *)
(***************************************************************************)

Transition(event, source, target, kind) ==
  [event |-> event, source |-> source, target |-> target, kind |-> kind]

-----------------------------------------------------------------------------
\* The rows one stage contributes to its machine: the claim of an idle state,
\* and the four ways out of the working state it enters: next, back, dead, swept.
Stage(idle, working, next, dead, claim, ok, fail, poison) ==
  { Transition(claim,           idle,    working, "CLAIM"),
    Transition(ok,              working, next,    "ADVANCE"),
    Transition(fail,            working, idle,    "RETRY"),
    Transition(poison,          working, dead,    "POISON"),
    Transition("SWEEP_EXPIRED", working, idle,    "SWEEP") }

ActivePinStates ==
  { "QUEUED", "ENRICHING", "ENRICHED", "BRIDGING",
    "BRIDGED", "PINNING", "PINNED", "VERIFYING" }

ResumablePinStates == {"QUEUED", "ENRICHED", "BRIDGED", "PINNED"}

PinState == ActivePinStates \cup {"VERIFIED", "PAUSED", "DEAD"}

PUBLICATION_TRANSITIONS ==
  Stage("QUEUED", "ENRICHING", "ENRICHED", "DEAD",
        "CLAIM_ENRICH", "ENRICH_OK", "ENRICH_FAIL", "ENRICH_POISON")
  \cup Stage("ENRICHED", "BRIDGING", "BRIDGED", "DEAD",
             "CLAIM_BRIDGE", "BRIDGE_OK", "BRIDGE_FAIL", "BRIDGE_POISON")
  \cup Stage("BRIDGED", "PINNING", "PINNED", "DEAD",
             "CLAIM_PIN", "PIN_OK", "PIN_FAIL", "PIN_POISON")
  \cup Stage("PINNED", "VERIFYING", "VERIFIED", "DEAD",
             "CLAIM_VERIFY", "VERIFY_OK", "VERIFY_FAIL", "VERIFY_POISON")
  \cup { Transition("PAUSE", s, "PAUSED", "PAUSE") : s \in ActivePinStates }
  \cup { Transition("RESUME", "PAUSED", s, "RESUME") : s \in ResumablePinStates }
  \cup { Transition("REQUEUE_DEAD", "DEAD", "QUEUED", "OPS") }

\* STATE_ROLES[Machine.PUBLICATION]
PUBLICATION_ROLES ==
  [ s \in PinState |->
      CASE s \in ResumablePinStates                   -> "IDLE"
        [] s \in ActivePinStates \ ResumablePinStates -> "WORKING"
        [] s \in {"VERIFIED", "DEAD"}                 -> "TERMINAL"
        [] s = "PAUSED"                               -> "PAUSED" ]

-----------------------------------------------------------------------------
ProductState ==
  { "PENDING_FETCH", "FETCHING", "FETCHED", "MODERATING",
    "APPROVED", "REJECTED", "DEAD_FETCH", "DEAD_MODERATE" }

\* Ingest has no pause; moderation has two verdicts, both an ADVANCE.
INGEST_TRANSITIONS ==
  Stage("PENDING_FETCH", "FETCHING", "FETCHED", "DEAD_FETCH",
        "CLAIM_FETCH", "FETCH_OK", "FETCH_FAIL", "FETCH_POISON")
  \cup Stage("FETCHED", "MODERATING", "APPROVED", "DEAD_MODERATE",
             "CLAIM_MODERATE", "MODERATE_APPROVE", "MODERATE_FAIL", "MODERATE_POISON")
  \cup { Transition("MODERATE_REJECT", "MODERATING", "REJECTED", "ADVANCE"),
         Transition("REQUEUE_DEAD", "DEAD_FETCH", "PENDING_FETCH", "OPS"),
         Transition("REQUEUE_DEAD", "DEAD_MODERATE", "FETCHED", "OPS") }

\* STATE_ROLES[Machine.INGEST]
INGEST_ROLES ==
  [ s \in ProductState |->
      CASE s \in {"PENDING_FETCH", "FETCHED"} -> "IDLE"
        [] s \in {"FETCHING", "MODERATING"}   -> "WORKING"
        [] OTHER                              -> "TERMINAL" ]
=============================================================================
