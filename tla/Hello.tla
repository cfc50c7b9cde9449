------------------------------- MODULE Hello -------------------------------
(***************************************************************************)
(* The hello pipeline, src/pinner/pipeline.py: one product is walked       *)
(* through the ingest machine and then, for one account, through the       *)
(* publication machine, by a run that may be killed between any two of its *)
(* writes (the tests kill it at the twelve checkpoints) and is simply      *)
(* started again.                                                          *)
(*                                                                         *)
(* Both machines are the registry's: the walk claims the row of kind CLAIM *)
(* that leaves the status it reads, and completes an ADVANCE of the state  *)
(* it claimed.  Runs follow one another, so a read and the write it leads  *)
(* to are one step.  The stage's work lies between claim and transition;   *)
(* the stubs are functions of the documents, and their deployment check    *)
(* and verification always succeed, so the fail branches are never taken.  *)
(*                                                                         *)
(* Abstracted: attempts (the backoff is zero, and a sweep never poisons),  *)
(* the daily cap, which one product cannot reach, what the seeds write     *)
(* again, which nothing here reads, and the audit log.                     *)
(***************************************************************************)
EXTENDS Integers, Registry, HelloPromise

VARIABLES clean,   \* whether the moderator approves of the product's title
          walk     \* where the run is

vars == <<docs, clean, account, walk>>

Entity == {"product", "pin"}

Rows(e) == IF e = "product" THEN INGEST_TRANSITIONS ELSE PUBLICATION_TRANSITIONS

RowsWithKind(e, source, kind) ==
  { t \in Rows(e) : t.source = source /\ t.kind = kind }

Lease == {"none", "held", "expired"}

Outcome == {"off", "verified", "rejected", "blocked", "error"}

\* swept: the sweeps this run has done.  claimed: the document in hand.
\* did_verify: this run performed the verification.
Walk == [ pc         : Outcome \cup {"setup", "ingest", "gate", "publish", "stage", "bump"},
          swept      : SUBSET Entity,
          claimed    : Entity \cup {"none"},
          did_verify : BOOLEAN ]

Off(outcome) == [pc |-> outcome, swept |-> {}, claimed |-> "none", did_verify |-> FALSE]

Running == walk.pc \notin Outcome

At(pc) == walk.pc = pc

Goto(pc) == walk' = [walk EXCEPT !.pc = pc]

End(outcome) == walk' = Off(outcome)

Working(e) == \E t \in Rows(e) : t.kind = "CLAIM" /\ t.target = docs[e].status

-----------------------------------------------------------------------------
(* Setup: the seeds, the sweeps of both collections, the candidate.        *)

Start ==
  /\ ~Running
  /\ walk' = [Off("off") EXCEPT !.pc = "setup"]
  /\ UNCHANGED <<docs, clean, account>>

Reverted(e) ==
  \E row \in RowsWithKind(e, docs[e].status, "SWEEP") :
    docs' = [docs EXCEPT ![e] = [status |-> row.target, lease |-> "none"]]

\* As in Engine, no specification uses a definition named X_<Bug>.
Sweep_ProductsOnly(e) ==
  /\ At("setup") /\ e \notin walk.swept
  /\ e = "product" => walk.swept = {}
  /\ IF e = "product" /\ docs[e].lease = "expired" THEN Reverted(e) ELSE UNCHANGED docs
  /\ walk' = [walk EXCEPT !.swept = @ \cup {e}]
  /\ UNCHANGED <<clean, account>>

\* Products first, then pins; a lease that still runs is left alone.
Sweep(e) ==
  /\ At("setup") /\ e \notin walk.swept
  /\ e = "pin" => "product" \in walk.swept
  /\ IF docs[e].lease = "expired" THEN Reverted(e) ELSE UNCHANGED docs
  /\ walk' = [walk EXCEPT !.swept = @ \cup {e}]
  /\ UNCHANGED <<clean, account>>

\* upsert_candidate, and the title a test asks for.
Upsert ==
  /\ At("setup") /\ walk.swept = Entity
  /\ docs' = IF docs["product"] = Absent
             THEN [docs EXCEPT !["product"].status = "PENDING_FETCH"] ELSE docs
  /\ Goto("ingest")
  /\ UNCHANGED <<clean, account>>

-----------------------------------------------------------------------------
(* One turn of either loop.                                                *)

Claim(e) ==
  /\ At(IF e = "product" THEN "ingest" ELSE "publish")
  /\ docs[e].lease = "none"
  /\ \E row \in RowsWithKind(e, docs[e].status, "CLAIM") :
       docs' = [docs EXCEPT ![e] = [status |-> row.target, lease |-> "held"]]
  /\ walk' = [walk EXCEPT !.pc = "stage", !.claimed = e]
  /\ UNCHANGED <<clean, account>>

\* stub_moderate approves a clean title; every other stage has one way forward.
Succeeds(row) ==
  /\ row.event = "MODERATE_APPROVE" => clean
  /\ row.event = "MODERATE_REJECT"  => ~clean

\* transition_doc, which also lets the lease go.
Completed_KeepsLease(e, row) == [docs[e] EXCEPT !.status = row.target]

Completed(e, row) == [status |-> row.target, lease |-> "none"]

Complete(e) ==
  /\ At("stage") /\ walk.claimed = e
  /\ \E row \in RowsWithKind(e, docs[e].status, "ADVANCE") :
       /\ Succeeds(row)
       /\ docs' = [docs EXCEPT ![e] = Completed(e, row)]
       /\ walk' = [walk EXCEPT !.pc = IF e = "product" THEN "ingest" ELSE "publish",
                               !.claimed = "none",
                               !.did_verify = @ \/ row.event = "VERIFY_OK"]
  /\ UNCHANGED <<clean, account>>

\* Statuses that end a loop; a WORKING one, that of a killed run whose lease
\* still runs, raises.
IngestEnds ==
  /\ At("ingest")
  /\ \/ docs["product"].status = "APPROVED" /\ Goto("gate")
     \/ docs["product"].status = "REJECTED" /\ End("rejected")
     \/ Working("product") /\ End("error")
  /\ UNCHANGED <<docs, clean, account>>

\* decide, and _ensure_pin_doc.
Gate ==
  /\ At("gate")
  /\ \/ /\ account.recent
        /\ End("blocked")
        /\ UNCHANGED docs
     \/ /\ ~account.recent
        /\ Goto("publish")
        /\ docs' = IF docs["pin"] = Absent THEN [docs EXCEPT !["pin"].status = "QUEUED"] ELSE docs
  /\ UNCHANGED <<clean, account>>

PublishEnds ==
  /\ At("publish")
  /\ \/ docs["pin"].status = "VERIFIED" /\ Goto("bump")
     \/ Working("pin") /\ End("error")
  /\ UNCHANGED <<docs, clean, account>>

Bump_Always ==
  /\ At("bump")
  /\ account' = [counted |-> account.counted + 1, recent |-> TRUE]
  /\ End("verified")
  /\ UNCHANGED <<docs, clean>>

\* bump_pin_stats, only by the run that verified.
Bump ==
  /\ At("bump")
  /\ account' = IF walk.did_verify THEN [counted |-> account.counted + 1, recent |-> TRUE]
                                   ELSE account
  /\ End("verified")
  /\ UNCHANGED <<docs, clean>>

-----------------------------------------------------------------------------
(* The environment.                                                        *)

\* SimulatedCrash, or a kill.
Crash ==
  /\ Running
  /\ End("off")
  /\ UNCHANGED <<docs, clean, account>>

\* Leases run out and the spacing elapses, in either order; not during a run,
\* which is given one `now`.
Tick ==
  /\ ~Running
  /\ \/ /\ docs' = [ e \in Entity |-> IF docs[e].lease = "held"
                                     THEN [docs[e] EXCEPT !.lease = "expired"] ELSE docs[e] ]
        /\ UNCHANGED account
     \/ /\ account' = [account EXCEPT !.recent = FALSE]
        /\ UNCHANGED docs
  /\ UNCHANGED <<clean, walk>>

-----------------------------------------------------------------------------
Init ==
  /\ docs = [e \in Entity |-> Absent]
  /\ clean \in BOOLEAN
  /\ account = [counted |-> 0, recent |-> FALSE]
  /\ walk = Off("off")

RunStep ==
  \/ Upsert \/ IngestEnds \/ Gate \/ PublishEnds \/ Bump
  \/ \E e \in Entity : Sweep(e) \/ Claim(e) \/ Complete(e)

Next == Start \/ RunStep \/ Crash \/ Tick

Spec == Init /\ [][Next]_vars

(***************************************************************************)
(* The run is started again and again, time passes, and from some time on  *)
(* nobody kills it.                                                        *)
(***************************************************************************)
Fairness ==
  /\ SF_vars(Start) /\ WF_vars(RunStep) /\ SF_vars(Tick)
  /\ <>[][~Crash]_vars

-----------------------------------------------------------------------------
(* Properties, beside CountedOnce and HelloImplementsLifecycle.            *)

\* The type of the four variables.
TypeOK ==
  /\ docs \in [Entity -> [status : ProductState \cup PinState \cup {"absent"}, lease : Lease]]
  /\ clean \in BOOLEAN
  /\ account \in [counted : Nat, recent : BOOLEAN]
  /\ walk \in Walk

(***************************************************************************)
(* "Kill at any of 12 checkpoints, resume, and the walk still completes":  *)
(* however often and wherever the runs are killed, also between two sweeps *)
(* or just before the stats are written, a clean product ends VERIFIED for *)
(* the account, and a dirty one REJECTED with no pin.                      *)
(***************************************************************************)
WalkCompletes ==
  <>[](IF clean THEN docs["pin"].status = "VERIFIED"
                      ELSE docs["product"].status = "REJECTED" /\ docs["pin"] = Absent)
=============================================================================
