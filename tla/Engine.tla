------------------------------- MODULE Engine -------------------------------
(***************************************************************************)
(* The Mongo state-machine engine, src/pinner/repo/engine.py, and the      *)
(* processes that call it: runner processes (WORKERS), which sweep, claim, *)
(* advance and fail documents as src/pinner/runner/main.py does, and       *)
(* operator processes, which pause, resume and requeue them                *)
(* (src/pinner/ops.py).                                                    *)
(*                                                                         *)
(* A claim is one atomic find_one_and_update.  Every other operation is a  *)
(* read followed by a guarded update, so each has two actions here and any *)
(* other process may run in between; and a worker's stage (Gemini, GitHub, *)
(* Pinterest calls) lies between its claim and its transition.             *)
(*                                                                         *)
(* The registry is a parameter: the module holds for every machine that    *)
(* satisfies RegistryAssumption, and is checked for both machines.         *)
(*                                                                         *)
(* Abstracted: the fields of a document no guard reads, the audit entries, *)
(* the jitter of +-20% of the backoff (below the grain of the clock), the  *)
(* skew between the clocks of two machines.  transition_doc's branch for   *)
(* kind PAUSE has no caller: pauses go through pause_all.                  *)
(***************************************************************************)
EXTENDS Integers, Sequences, Validator

CONSTANTS Docs,               \* document ids, in the order of (created_at, _id)
          Workers,            \* runner processes
          Operators,          \* operator command lines
          None,               \* an unset field
          LEASE_TTL,          \* DEFAULT_LEASE_TTL_SECONDS, in ticks of the clock
          MAX_ATTEMPTS,       \* DEFAULT_MAX_ATTEMPTS
          QUOTA_ATTEMPT_BUDGET, \* the runner's budget for quota-class failures
          BACKOFF_SCHEDULE,   \* BACKOFF_SCHEDULE_SECONDS, in ticks
          QUOTA_BACKOFF,      \* the runner's quota_backoff, in ticks
          MaxTime             \* bound: the clock stops there

Procs == Workers \cup Operators

ASSUME EngineAssumption ==
  /\ Docs \subseteq Nat
  /\ Workers \cap Operators = {}
  /\ None \notin Workers /\ None \notin States
  /\ LEASE_TTL \in Nat \ {0}
  /\ MAX_ATTEMPTS \in Nat \ {0}
  /\ QUOTA_ATTEMPT_BUDGET \in Nat \ {0}
  /\ BACKOFF_SCHEDULE \in Seq(Nat) /\ BACKOFF_SCHEDULE # << >>
  /\ QUOTA_BACKOFF \in Nat
  /\ MaxTime \in Nat

ASSUME RegistryAssumption == EngineCanDrive

VARIABLES now,    \* the clock
          doc,    \* the collection
          call    \* what each process is doing

vars == <<now, doc, call>>

-----------------------------------------------------------------------------
(* Documents and calls.                                                    *)

NoLease == [owner |-> None, expires_at |-> 0]

Lease == [owner : Workers, expires_at : Nat]

FreshAttempt == [count |-> 0, next_attempt_at |-> 0]    \* 0: no delay

Doc == [ status      : States,
         lease       : Lease \cup {NoLease},
         attempt     : [count : Nat, next_attempt_at : Nat],
         paused_from : States \cup {None} ]

NewDoc(state) == [ status |-> state, lease |-> NoLease,
                   attempt |-> FreshAttempt, paused_from |-> None ]

HasLease(d) == doc[d].lease # NoLease

RoleOf(d) == STATE_ROLES[doc[d].status]

(***************************************************************************)
(* A call in progress: where it is, the document it is about, the row it   *)
(* resolved at its read, the attempt it will write, and the `now` it took. *)
(* "stage": the worker holds its claim and talks to the outside.           *)
(* "failing": the transition raised and the except branch will call fail.  *)
(* "aborted": fail itself raised, and the exception ended the whole run.   *)
(***************************************************************************)
Writing == {"advance", "fail", "sweep", "pause", "resume", "requeue"}

Idle == [pc |-> "idle"]

Call == { Idle, [pc |-> "aborted"] }
        \cup [ pc : {"stage", "failing"} \cup (Writing \ {"fail", "sweep"}),
               id : Docs, row : TRANSITIONS ]
        \cup [ pc : {"fail", "sweep"}, id : Docs, row : TRANSITIONS,
               attempt : [count : Nat, next_attempt_at : Nat], now : Nat ]

Begin(p, c) == call' = [call EXCEPT ![p] = c]

End(p) == Begin(p, Idle)

\* Definitions named X_<Bug> are X as a plausible mistake would have it.  No
\* specification uses them: they show that the properties notice the mistake.
StillThere_Unguarded(p) == TRUE

\* The status half of every guarded update: {"_id": id, "status": source}.
StillThere(p) == doc[call[p].id].status = call[p].row.source

Write(p, new) == doc' = [doc EXCEPT ![call[p].id] = new]

-----------------------------------------------------------------------------
(* claim_one                                                               *)

Ready_Always(d) == TRUE

Ready(d) == doc[d].attempt.next_attempt_at <= now

LeaseFree(d) == doc[d].lease.expires_at <= now

Claimable(d, row) == doc[d].status = row.source /\ Ready(d) /\ LeaseFree(d)

Claim(w) ==
  \E row \in TRANSITIONS, d \in Docs :
    /\ call[w].pc = "idle"
    /\ row.kind = "CLAIM"
    /\ Claimable(d, row)
    /\ \A e \in Docs : Claimable(e, row) => d <= e
    /\ doc' = [doc EXCEPT ![d] =
                 [ @ EXCEPT !.status = row.target,
                            !.lease = [owner |-> w, expires_at |-> now + LEASE_TTL],
                            !.paused_from = None ]]
    /\ Begin(w, [pc |-> "stage", id |-> d, row |-> row])
    /\ UNCHANGED now

-----------------------------------------------------------------------------
(* transition_doc: a worker completes its stage.  The event is one the     *)
(* stage it claimed can end with, but it is resolved against the status    *)
(* the document has NOW.                                                   *)

TransitionRead(w) ==
  /\ call[w].pc = "stage"
  /\ \E outcome \in RowsWithKind(call[w].row.target, "ADVANCE") :
       LET resolved == TransitionFor(doc[call[w].id].status, outcome.event)
       IN \/ \E row \in resolved :
               Begin(w, [call[w] EXCEPT !.pc = "advance", !.row = row])
          \/ /\ resolved = {}      \* IllegalTransitionError
             /\ Begin(w, [call[w] EXCEPT !.pc = "failing"])
  /\ UNCHANGED <<now, doc>>

Transitioned_KeepsLease(d, row) ==
  [ doc[d] EXCEPT !.status = row.target, !.attempt = FreshAttempt, !.paused_from = None ]

\* An ADVANCE resets the attempt, and REQUEUE_DEAD patches a fresh one in.
Transitioned(d, row) ==
  [ doc[d] EXCEPT !.status = row.target,
                  !.lease = NoLease,
                  !.attempt = FreshAttempt,
                  !.paused_from = None ]

TransitionWrite(w) ==
  /\ call[w].pc = "advance"
  /\ \/ /\ StillThere(w)
        /\ Write(w, Transitioned(call[w].id, call[w].row))
        /\ End(w)
     \/ /\ ~StillThere(w)           \* ConcurrentStateError
        /\ Begin(w, [call[w] EXCEPT !.pc = "failing"])
        /\ UNCHANGED doc
  /\ UNCHANGED now

-----------------------------------------------------------------------------
(* fail_doc, as the except branches of the runner's stages call it.        *)

Backoff(count) ==
  BACKOFF_SCHEDULE[IF count < Len(BACKOFF_SCHEDULE) THEN count ELSE Len(BACKOFF_SCHEDULE)]

\* TRANSIENT and PERMANENT are the engine's; QUOTA is the runner's quota or
\* overload failure: TRANSIENT with QUOTA_ATTEMPT_BUDGET and quota_backoff.
ErrorClass == {"TRANSIENT", "PERMANENT", "QUOTA"}

Poisons(class, count) ==
  \/ class = "PERMANENT"
  \/ count >= (IF class = "QUOTA" THEN QUOTA_ATTEMPT_BUDGET ELSE MAX_ATTEMPTS)

Delay(class, count) == IF class = "QUOTA" THEN QUOTA_BACKOFF ELSE Backoff(count)

FailedAttempt_KeepsDelay(class, count) ==
  [ count |-> count, next_attempt_at |-> now - Delay(class, count) ]

FailedAttempt_Uncharged(class, count) ==
  [ count |-> IF class = "QUOTA" THEN count - 1 ELSE count,
    next_attempt_at |-> IF Poisons(class, count) THEN 0 ELSE now + Delay(class, count) ]

FailedAttempt(class, count) ==
  [ count |-> count,
    next_attempt_at |-> IF Poisons(class, count) THEN 0 ELSE now + Delay(class, count) ]

\* From "failing" the error is the engine's own, and TRANSIENT.
FailRead(w) ==
  /\ call[w].pc \in {"stage", "failing"}
  /\ LET d == call[w].id
         count == doc[d].attempt.count + 1
     IN \/ /\ RoleOf(d) # "WORKING"    \* ValueError, raised inside the except branch
           /\ Begin(w, [pc |-> "aborted"])
        \/ /\ RoleOf(d) = "WORKING"
           /\ \E class \in (IF call[w].pc = "stage" THEN ErrorClass ELSE {"TRANSIENT"}) :
              \E row \in TransitionOfKind(doc[d].status,
                             IF Poisons(class, count) THEN "POISON" ELSE "RETRY") :
                Begin(w, [ pc |-> "fail", id |-> d, row |-> row,
                           attempt |-> FailedAttempt(class, count), now |-> now ])
  /\ UNCHANGED <<now, doc>>

\* fail_doc leaves paused_from alone.
Failed(d, row, attempt) ==
  [ doc[d] EXCEPT !.status = row.target, !.lease = NoLease, !.attempt = attempt ]

FailWrite(w) ==
  /\ call[w].pc = "fail"
  /\ \/ /\ StillThere(w)
        /\ Write(w, Failed(call[w].id, call[w].row, call[w].attempt))
        /\ End(w)
     \/ /\ ~StillThere(w)           \* ConcurrentStateError, out of the except branch
        /\ Begin(w, [pc |-> "aborted"])
        /\ UNCHANGED doc
  /\ UNCHANGED now

-----------------------------------------------------------------------------
(* sweep_expired_leases, one document of its cursor at a time.             *)

SweepRead(w) ==
  \E d \in Docs :
    /\ call[w].pc = "idle"
    /\ RoleOf(d) = "WORKING"
    /\ HasLease(d) /\ doc[d].lease.expires_at < now
    /\ \E row \in SweepRows(doc[d].status) :
         LET count == doc[d].attempt.count + 1
         IN Begin(w, [ pc |-> "sweep", id |-> d, row |-> row, now |-> now,
                       attempt |-> [ count |-> count,
                                     next_attempt_at |-> now + Backoff(count) ] ])
    /\ UNCHANGED <<now, doc>>

LeaseStillExpired_Trusted(p) == TRUE

\* The lease half of the sweep's guard, against the `now` the sweep took.
LeaseStillExpired(p) ==
  HasLease(call[p].id) /\ doc[call[p].id].lease.expires_at < call[p].now

SweepWrite(w) ==
  /\ call[w].pc = "sweep"
  /\ \/ /\ StillThere(w) /\ LeaseStillExpired(w)
        /\ Write(w, Failed(call[w].id, call[w].row, call[w].attempt))
     \/ /\ ~(StillThere(w) /\ LeaseStillExpired(w))
        /\ UNCHANGED doc
  /\ End(w)
  /\ UNCHANGED now

-----------------------------------------------------------------------------
(* pause_all, resume_all and requeue_dead, one document of the cursor at a *)
(* time, by an operator process (kill switch, resume, requeue).            *)

PauseRead(o) ==
  \E d \in Docs :
    /\ call[o].pc = "idle"
    /\ RoleOf(d) \in {"IDLE", "WORKING"}
    /\ \E row \in TransitionFor(doc[d].status, "PAUSE") :
         Begin(o, [pc |-> "pause", id |-> d, row |-> row])
    /\ UNCHANGED <<now, doc>>

Paused_NoRewind(d, row) ==
  [ doc[d] EXCEPT !.status = row.target, !.lease = NoLease, !.paused_from = row.source ]

\* The attempt stays as it is: a pause neither spends nor refunds one.
Paused(d, row) ==
  [ doc[d] EXCEPT !.status = row.target,
                  !.lease = NoLease,
                  !.paused_from = PausedFrom(row.source) ]

PauseWrite(o) ==
  /\ call[o].pc = "pause"
  /\ \/ StillThere(o) /\ Write(o, Paused(call[o].id, call[o].row))
     \/ ~StillThere(o) /\ UNCHANGED doc
  /\ End(o)
  /\ UNCHANGED now

\* A document with no paused_from, or one RESUME cannot reach, is skipped.
ResumeRead(o) ==
  \E d \in Docs :
    /\ call[o].pc = "idle"
    /\ doc[d].status = "PAUSED"
    /\ doc[d].paused_from # None
    /\ \E row \in TransitionTo("PAUSED", "RESUME", doc[d].paused_from) :
         Begin(o, [pc |-> "resume", id |-> d, row |-> row])
    /\ UNCHANGED <<now, doc>>

ResumeWrite(o) ==
  /\ call[o].pc = "resume"
  /\ \/ /\ StillThere(o)
        /\ Write(o, [ doc[call[o].id] EXCEPT !.status = call[o].row.target,
                                             !.paused_from = None ])
     \/ ~StillThere(o) /\ UNCHANGED doc
  /\ End(o)
  /\ UNCHANGED now

\* requeue_dead is transition_doc with REQUEUE_DEAD; its errors end the command.
RequeueRead(o) ==
  \E d \in Docs :
    /\ call[o].pc = "idle"
    /\ \E row \in TransitionFor(doc[d].status, "REQUEUE_DEAD") :
         Begin(o, [pc |-> "requeue", id |-> d, row |-> row])
    /\ UNCHANGED <<now, doc>>

RequeueWrite(o) ==
  /\ call[o].pc = "requeue"
  /\ \/ StillThere(o) /\ Write(o, Transitioned(call[o].id, call[o].row))
     \/ ~StillThere(o) /\ UNCHANGED doc
  /\ End(o)
  /\ UNCHANGED now

-----------------------------------------------------------------------------
(* The environment: time passes, a process dies anywhere, an aborted run   *)
(* is followed by the next.                                                *)

Tick ==
  /\ now < MaxTime
  /\ now' = now + 1
  /\ UNCHANGED <<doc, call>>

\* What a dead process leaves behind is its document, and the lease on it.
Crash(p) ==
  /\ call[p].pc \notin {"idle", "aborted"}
  /\ End(p)
  /\ UNCHANGED <<now, doc>>

NextRun(w) ==
  /\ call[w].pc = "aborted"
  /\ End(w)
  /\ UNCHANGED <<now, doc>>

-----------------------------------------------------------------------------
(* Documents are inserted in the state their machine's pipeline begins in. *)
CONSTANT FirstState
ASSUME FirstStateAssumption == FirstState \in States /\ STATE_ROLES[FirstState] = "IDLE"

Init ==
  /\ now = 0
  /\ doc = [d \in Docs |-> NewDoc(FirstState)]
  /\ call = [p \in Procs |-> Idle]

WorkerStep(w) ==
  \/ Claim(w)
  \/ TransitionRead(w) \/ TransitionWrite(w)
  \/ FailRead(w) \/ FailWrite(w)
  \/ SweepRead(w) \/ SweepWrite(w)
  \/ NextRun(w)

OperatorStep(o) ==
  \/ PauseRead(o) \/ PauseWrite(o)
  \/ ResumeRead(o) \/ ResumeWrite(o)
  \/ RequeueRead(o) \/ RequeueWrite(o)

Next ==
  \/ Tick
  \/ \E w \in Workers : WorkerStep(w)
  \/ \E o \in Operators : OperatorStep(o)
  \/ \E p \in Procs : Crash(p)

Spec == Init /\ [][Next]_vars

-----------------------------------------------------------------------------
(* Properties.                                                             *)

\* The type of the three variables.
TypeOK ==
  /\ now \in 0..MaxTime
  /\ doc \in [Docs -> Doc]
  /\ call \in [Procs -> Call]

(***************************************************************************)
(* A document carries a lease exactly while it is WORKING.  A WORKING      *)
(* document without a lease would match neither claim_one nor the sweep's  *)
(* lease.expires_at query, and be lost to the runner for ever; a lease     *)
(* left on an idle document would keep every worker off it.                *)
(***************************************************************************)
LeaseIffWorking == \A d \in Docs : HasLease(d) <=> RoleOf(d) = "WORKING"

(***************************************************************************)
(* A PAUSED document, and no other, says where it was paused from, and     *)
(* RESUME can take it there: resume_all never meets the "corrupted         *)
(* paused_from: leave for manual inspection" it skips, whichever workers   *)
(* and operators were half way through a write when the switch was thrown. *)
(***************************************************************************)
PausedIsResumable ==
  \A d \in Docs :
    /\ doc[d].status = "PAUSED" <=> doc[d].paused_from # None
    /\ doc[d].status = "PAUSED" =>
         TransitionTo("PAUSED", "RESUME", doc[d].paused_from) # {}

(***************************************************************************)
(* No document is worked on before its next_attempt_at: the claim under    *)
(* way was made when the backoff of the last failure or sweep had run      *)
(* out, however often the document was paused and resumed since.           *)
(***************************************************************************)
BackoffHonoured ==
  \A d \in Docs :
    RoleOf(d) = "WORKING" =>
      doc[d].attempt.next_attempt_at + LEASE_TTL <= doc[d].lease.expires_at

(***************************************************************************)
(* A sweep takes a document from nobody but a worker whose lease is over,  *)
(* and charges exactly one attempt for it: a sweeper that read the         *)
(* document before another one reverted it, and before it was claimed      *)
(* again, reverts nothing ("a concurrent sweeper can never revert a        *)
(* document twice").                                                       *)
(***************************************************************************)
SweepStep(w) ==
  LET d == call[w].id
  IN call[w].pc = "sweep" /\ doc'[d] # doc[d] =>
       /\ doc[d].lease.expires_at < now
       /\ doc'[d].attempt.count = doc[d].attempt.count + 1

SweepIsExact == [][\A w \in Workers : call'[w] # call[w] => SweepStep(w)]_vars

(***************************************************************************)
(* A worker that fails a document it still holds charges it exactly one    *)
(* attempt, although it computes the attempt from a count it read before,  *)
(* and the write is guarded by the status alone: whatever changes the      *)
(* count in between takes the lease away.  (A worker that has lost the     *)
(* lease may write an old count; see the hazards.)                         *)
(***************************************************************************)
FailStep(w) ==
  LET d == call[w].id
  IN call[w].pc = "fail" /\ doc'[d] # doc[d] /\ doc[d].lease.owner = w =>
       doc'[d].attempt.count = doc[d].attempt.count + 1

HolderIsCharged == [][\A w \in Workers : call'[w] # call[w] => FailStep(w)]_vars

(***************************************************************************)
(* A document that is paused or terminal is moved by an operator's resume  *)
(* or requeue only: a worker that was in the middle of a stage when the    *)
(* kill switch was thrown, or when the document died, cannot bring it      *)
(* back with its late write.                                               *)
(***************************************************************************)
OnlyOperatorsRevive ==
  [][ \A d \in Docs :
        RoleOf(d) \in {"PAUSED", "TERMINAL"} /\ doc'[d] # doc[d] =>
          \E o \in Operators :
            /\ call[o].pc \in {"resume", "requeue"}
            /\ call[o].id = d
            /\ call'[o] # call[o] ]_vars

(***************************************************************************)
(* The engine implements the lifecycle: moves follow the registry's rows,  *)
(* claims take unheld documents, and the holder is the lease's owner.      *)
(***************************************************************************)
Promise == INSTANCE Lifecycle WITH
             status <- [d \in Docs |-> doc[d].status],
             holder <- [d \in Docs |-> doc[d].lease.owner]

ImplementsLifecycle == Promise!Spec

(***************************************************************************)
(* "A stale worker physically cannot double-transition" (engine.py's       *)
(* concurrency model): the worker whose transition goes through is the one *)
(* that holds the document's lease.  The code's guard is on the status     *)
(* alone, and this does NOT hold; see the findings.                        *)
(***************************************************************************)
OnlyHolderCompletes ==
  [][ \A w \in Workers :
        LET d == call[w].id
        IN call[w].pc = "advance" /\ call'[w] # call[w] /\ doc'[d] # doc[d] =>
             doc[d].lease.owner = w ]_vars
=============================================================================
