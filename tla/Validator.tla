------------------------------ MODULE Validator ------------------------------
(***************************************************************************)
(* The queries of src/pinner/statemachine/validator.py over one machine of *)
(* the registry, given as its transition rows and the roles of its states. *)
(*                                                                         *)
(* A query that raises in the code returns the SET of rows it resolves to  *)
(* here: one row when the code returns it, none when the code raises.      *)
(***************************************************************************)

CONSTANTS TRANSITIONS,   \* the rows of the machine: [event, source, target, kind]
          STATE_ROLES    \* the role of each of its states

\* IDLE: claimable.  WORKING: lease held, an external effect may be in flight.
\* PAUSED: kill-switched.  TERMINAL: done, with success or for good.
Role == {"IDLE", "WORKING", "PAUSED", "TERMINAL"}

Kind == {"CLAIM", "ADVANCE", "RETRY", "POISON", "SWEEP", "PAUSE", "RESUME", "OPS"}

States == DOMAIN STATE_ROLES

TransitionsFrom(source, event) ==
  { t \in TRANSITIONS : t.source = source /\ t.event = event }

\* transition_for without a target: the only row of the event, else it raises
\* (IllegalTransitionError on no row, AmbiguousTransitionError on several).
TransitionFor(source, event) ==
  { t \in TransitionsFrom(source, event) :
      \A u \in TransitionsFrom(source, event) : u = t }

\* transition_for with an explicit target, as RESUME needs.
TransitionTo(source, event, target) ==
  { t \in TransitionsFrom(source, event) : t.target = target }

RowsWithKind(source, kind) ==
  { t \in TRANSITIONS : t.source = source /\ t.kind = kind }

\* transition_of_kind: raises when there is no row or more than one.
TransitionOfKind(source, kind) ==
  { t \in RowsWithKind(source, kind) : \A u \in RowsWithKind(source, kind) : u = t }

\* sweep_target raises unless exactly one SWEEP_EXPIRED row leaves the state.
SweepRows(state) ==
  { t \in TransitionsFrom(state, "SWEEP_EXPIRED") : t.kind = "SWEEP" }

SweepTarget(state) == (CHOOSE t \in SweepRows(state) : TRUE).target

-----------------------------------------------------------------------------
(* check_invariants: the structural self-check of the registry, asserted   *)
(* empty by the tests, as a predicate.  Duplicate rows cannot be           *)
(* represented in a set and need no conjunct.                              *)

RoleOfKindOK(t) ==
  LET src == STATE_ROLES[t.source]
      dst == STATE_ROLES[t.target]
  IN /\ t.kind = "CLAIM"             => src = "IDLE" /\ dst = "WORKING"
     /\ t.kind = "ADVANCE"           => src = "WORKING" /\ dst \in {"IDLE", "TERMINAL"}
     /\ t.kind \in {"RETRY", "SWEEP"} => src = "WORKING" /\ dst = "IDLE"
     /\ t.kind = "POISON"            => src = "WORKING" /\ dst = "TERMINAL"
     /\ t.kind = "PAUSE"             => src \in {"IDLE", "WORKING"} /\ dst = "PAUSED"
     /\ t.kind = "RESUME"            => src = "PAUSED" /\ dst = "IDLE"
     /\ src = "TERMINAL"             => t.kind = "OPS"
     /\ dst = "WORKING"              => t.kind = "CLAIM"
     /\ dst = "PAUSED"               => t.kind = "PAUSE"

HasItsExits(s) ==
  /\ STATE_ROLES[s] # "TERMINAL" => \E t \in TRANSITIONS : t.source = s
  /\ STATE_ROLES[s] = "IDLE"     => RowsWithKind(s, "CLAIM") # {}
  /\ STATE_ROLES[s] = "WORKING"  =>
       /\ \E t \in SweepRows(s) : SweepRows(s) = {t}
       /\ RowsWithKind(s, "RETRY") # {}
       /\ RowsWithKind(s, "POISON") # {}

CheckInvariants ==
  /\ \A t \in TRANSITIONS : t.source \in States /\ t.target \in States
  /\ \A t \in TRANSITIONS : RoleOfKindOK(t)
  /\ \A s \in States : HasItsExits(s)
  /\ \A s \in States : \E t \in TRANSITIONS : s \in {t.source, t.target}

-----------------------------------------------------------------------------
(* What the engine needs of a registry beyond that.                        *)

\* Where a pause records a document to have been: a WORKING state rewinds to
\* its sweep target, so that a resume always lands on an IDLE state.
PausedFrom(state) ==
  IF STATE_ROLES[state] = "WORKING" THEN SweepTarget(state) ELSE state

(***************************************************************************)
(* What the engine needs of a registry: check_invariants, and rules that   *)
(* check_invariants does not look at.  An event has one kind, and those    *)
(* the engine calls by name have the kind it expects; pause_all            *)
(* writes, and resume_all queries, the one state "PAUSED"; and what a      *)
(* pause records, RESUME can reach.                                        *)
(***************************************************************************)
EngineCanDrive ==
  /\ \A t \in TRANSITIONS : t.kind \in Kind
  /\ CheckInvariants
  /\ \A t, u \in TRANSITIONS : t.event = u.event => t.kind = u.kind
  /\ \A t \in TRANSITIONS :
       /\ t.event = "PAUSE"         => t.kind = "PAUSE"
       /\ t.event = "RESUME"        => t.kind = "RESUME"
       /\ t.event = "REQUEUE_DEAD"  => t.kind = "OPS"
  /\ \A s \in States : STATE_ROLES[s] = "PAUSED" <=> s = "PAUSED"
  /\ \A t \in TRANSITIONS :
       t.kind = "PAUSE" => TransitionTo("PAUSED", "RESUME", PausedFrom(t.source)) # {}
=============================================================================
