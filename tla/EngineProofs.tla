---------------------------- MODULE EngineProofs ----------------------------
(***************************************************************************)
(* Theorems about Engine, for every registry that satisfies                *)
(* RegistryAssumption and every number of documents and processes.         *)
(***************************************************************************)
EXTENDS Engine, TLAPS

-----------------------------------------------------------------------------
(* The registry.                                                           *)

\* A row joins two states of the machine, and its kind fixes their roles.
LEMMA RowFacts ==
  ASSUME NEW t \in TRANSITIONS
  PROVE  /\ t.source \in States /\ t.target \in States
         /\ RoleOfKindOK(t)
BY RegistryAssumption DEF EngineCanDrive, CheckInvariants

\* A pause records a state of the machine.
LEMMA PausedFromType ==
  ASSUME NEW state \in States
  PROVE  PausedFrom(state) \in States
<1>1. CASE STATE_ROLES[state] = "WORKING"
  <2>1. PICK t \in SweepRows(state) : SweepRows(state) = {t}
    BY <1>1, RegistryAssumption DEF EngineCanDrive, CheckInvariants, HasItsExits
  <2>2. SweepTarget(state) = t.target
    BY <2>1 DEF SweepTarget
  <2>3. t \in TRANSITIONS
    BY <2>1 DEF SweepRows, TransitionsFrom
  <2>4. QED
    BY <1>1, <2>2, <2>3, RowFacts DEF PausedFrom
<1>2. CASE STATE_ROLES[state] # "WORKING"
  BY <1>2 DEF PausedFrom
<1>3. QED
  BY <1>1, <1>2

\* Backoffs are natural numbers.
LEMMA BackoffNat ==
  ASSUME NEW count \in Nat \ {0}
  PROVE  Backoff(count) \in Nat
<1>1. Len(BACKOFF_SCHEDULE) \in Nat \ {0}
  BY EngineAssumption
<1>2. QED
  BY <1>1, EngineAssumption DEF Backoff

-----------------------------------------------------------------------------
(* Types.                                                                  *)

\* What a failed attempt writes is an attempt.
LEMMA FailedAttemptType ==
  ASSUME NEW class \in ErrorClass, NEW count \in Nat \ {0}, now \in Nat
  PROVE  FailedAttempt(class, count) \in [count : Nat, next_attempt_at : Nat]
<1>1. Delay(class, count) \in Nat
  BY BackoffNat, EngineAssumption DEF Delay
<1>2. QED
  BY <1>1 DEF FailedAttempt

\* A process that begins or ends a call has a call of the right type.
LEMMA CallType ==
  ASSUME call \in [Procs -> Call], NEW p \in Procs, NEW c \in Call, Begin(p, c)
  PROVE  call' \in [Procs -> Call]
BY DEF Begin

\* The same for a write to the document of a call.
LEMMA WriteType ==
  ASSUME doc \in [Docs -> Doc], NEW p, NEW new \in Doc, Write(p, new)
  PROVE  doc' \in [Docs -> Doc]
BY DEF Write

\* A call that is about to write names a document and a row.
LEMMA WritingCall ==
  ASSUME call \in [Procs -> Call], NEW p \in Procs,
         call[p].pc \in Writing \cup {"stage", "failing"}
  PROVE  /\ call[p].id \in Docs /\ call[p].row \in TRANSITIONS
         /\ call[p].pc \in {"fail", "sweep"} =>
              /\ call[p].attempt \in [count : Nat, next_attempt_at : Nat]
              /\ call[p].now \in Nat
BY DEF Call, Writing, Idle

\* Updating the fields of a document gives a document.
LEMMA DocType ==
  ASSUME NEW e \in Doc, NEW s \in States
  PROVE  /\ \A l \in Lease \cup {NoLease}, pf \in States \cup {None} :
              [e EXCEPT !.status = s, !.lease = l, !.paused_from = pf] \in Doc
         /\ \A l \in Lease \cup {NoLease}, a \in [count : Nat, next_attempt_at : Nat] :
              /\ [e EXCEPT !.status = s, !.lease = l, !.attempt = a] \in Doc
              /\ [e EXCEPT !.status = s, !.lease = l, !.attempt = a,
                            !.paused_from = None] \in Doc
         /\ [e EXCEPT !.status = s, !.paused_from = None] \in Doc
BY DEF Doc

\* Each step keeps the types of the three variables.
LEMMA TypeStep == TypeOK /\ [Next]_vars => TypeOK'
<1> SUFFICES ASSUME TypeOK, [Next]_vars PROVE TypeOK'
  OBVIOUS
<1> USE DEF TypeOK
<1>0. /\ now \in Nat /\ MaxTime \in Nat
      /\ doc \in [Docs -> Doc] /\ call \in [Procs -> Call]
      /\ Idle \in Call /\ [pc |-> "aborted"] \in Call
  BY EngineAssumption DEF Call
<1>1. CASE Tick
  BY <1>0, <1>1 DEF Tick
<1>2. ASSUME NEW w \in Workers, Claim(w) PROVE TypeOK'
  <2>1. PICK row \in TRANSITIONS, d \in Docs :
          /\ doc' = [doc EXCEPT ![d] =
                       [ @ EXCEPT !.status = row.target,
                                  !.lease = [owner |-> w, expires_at |-> now + LEASE_TTL],
                                  !.paused_from = None ]]
          /\ Begin(w, [pc |-> "stage", id |-> d, row |-> row])
          /\ UNCHANGED now
    BY <1>2 DEF Claim
  <2>2. [owner |-> w, expires_at |-> now + LEASE_TTL] \in Lease
    BY <1>0, EngineAssumption DEF Lease
  <2>3. doc' \in [Docs -> Doc]
    BY <1>0, <2>1, <2>2, RowFacts, DocType
  <2>4. [pc |-> "stage", id |-> d, row |-> row] \in Call
    BY DEF Call, Writing
  <2>5. QED
    BY <1>0, <2>1, <2>3, <2>4, CallType DEF Procs
<1>3. ASSUME NEW w \in Workers, TransitionRead(w) PROVE TypeOK'
  <2>1. w \in Procs /\ call[w].id \in Docs /\ call[w].row \in TRANSITIONS
    BY <1>0, <1>3, WritingCall DEF TransitionRead, Procs
  <2>2. call[w] \in [pc : {"stage"}, id : Docs, row : TRANSITIONS]
    <3>1. call[w].pc = "stage" /\ call[w] \in Call
      BY <1>0, <1>3, <2>1, Zenon DEF TransitionRead
    <3>2. QED
      BY <3>1 DEF Call, Writing, Idle
  <2>3. \/ Begin(w, [call[w] EXCEPT !.pc = "failing"])
        \/ \E row \in TRANSITIONS : Begin(w, [call[w] EXCEPT !.pc = "advance", !.row = row])
    <3>1. PICK event :
            \/ Begin(w, [call[w] EXCEPT !.pc = "failing"])
            \/ \E row \in TransitionFor(doc[call[w].id].status, event) :
                 Begin(w, [call[w] EXCEPT !.pc = "advance", !.row = row])
      BY <1>3, Zenon DEF TransitionRead
    <3>2. TransitionFor(doc[call[w].id].status, event) \subseteq TRANSITIONS
      BY DEF TransitionFor, TransitionsFrom
    <3>3. QED
      BY <3>1, <3>2, Zenon
  <2>4. CASE Begin(w, [call[w] EXCEPT !.pc = "failing"])
    <3>1. [call[w] EXCEPT !.pc = "failing"] \in Call
      BY <2>2 DEF Call, Writing
    <3>2. QED
      BY <1>0, <1>3, <2>1, <2>4, <3>1, CallType DEF TransitionRead
  <2>5. ASSUME NEW row \in TRANSITIONS,
               Begin(w, [call[w] EXCEPT !.pc = "advance", !.row = row])
        PROVE  TypeOK'
    <3>1. [call[w] EXCEPT !.pc = "advance", !.row = row] \in Call
      BY <2>2 DEF Call, Writing
    <3>2. QED
      BY <1>0, <1>3, <2>1, <2>5, <3>1, CallType DEF TransitionRead
  <2>6. QED
    BY <2>3, <2>4, <2>5
<1>4. ASSUME NEW w \in Workers, TransitionWrite(w) PROVE TypeOK'
  <2>1. w \in Procs /\ call[w].id \in Docs /\ call[w].row \in TRANSITIONS
    BY <1>0, <1>4, WritingCall DEF TransitionWrite, Procs, Writing
  <2>2. Transitioned(call[w].id, call[w].row) \in Doc
    BY <1>0, <2>1, RowFacts, DocType DEF Transitioned, FreshAttempt
  <2>3. call[w] \in [pc : {"advance"}, id : Docs, row : TRANSITIONS]
    BY <1>0, <1>4, <2>1 DEF TransitionWrite, Call, Writing, Idle
  <2>4. [call[w] EXCEPT !.pc = "failing"] \in Call
    BY <2>3 DEF Call, Writing
  <2>5. QED
    BY <1>0, <1>4, <2>1, <2>2, <2>4, CallType, WriteType DEF TransitionWrite, End
<1>5. ASSUME NEW w \in Workers, FailRead(w) PROVE TypeOK'
  <2>1. w \in Procs /\ call[w].id \in Docs
    BY <1>0, <1>5, WritingCall DEF FailRead, Procs
  <2>2. doc[call[w].id].attempt.count + 1 \in Nat \ {0}
    BY <1>0, <2>1 DEF Doc
  <2>3. CASE Begin(w, [pc |-> "aborted"])
    BY <1>0, <1>5, <2>1, <2>3, CallType DEF FailRead
  <2>4. CASE ~Begin(w, [pc |-> "aborted"])
    <3>1. PICK class \in ErrorClass, row \in TRANSITIONS :
            Begin(w, [ pc |-> "fail", id |-> call[w].id, row |-> row, now |-> now,
                       attempt |-> FailedAttempt(class, doc[call[w].id].attempt.count + 1) ])
      BY <1>5, <2>4 DEF FailRead, TransitionOfKind, RowsWithKind, ErrorClass
    <3>2. FailedAttempt(class, doc[call[w].id].attempt.count + 1)
            \in [count : Nat, next_attempt_at : Nat]
      BY <1>0, <2>2, FailedAttemptType
    <3>3. [ pc |-> "fail", id |-> call[w].id, row |-> row, now |-> now,
            attempt |-> FailedAttempt(class, doc[call[w].id].attempt.count + 1) ] \in Call
      BY <1>0, <2>1, <3>2 DEF Call
    <3>4. QED
      BY <1>0, <1>5, <2>1, <3>1, <3>3, CallType DEF FailRead
  <2>5. QED
    BY <2>3, <2>4
<1>6. ASSUME NEW w \in Workers, FailWrite(w) \/ SweepWrite(w) PROVE TypeOK'
  <2>1. /\ w \in Procs /\ call[w].id \in Docs /\ call[w].row \in TRANSITIONS
        /\ call[w].attempt \in [count : Nat, next_attempt_at : Nat]
    BY <1>0, <1>6, WritingCall DEF FailWrite, SweepWrite, Procs, Writing
  <2>2. Failed(call[w].id, call[w].row, call[w].attempt) \in Doc
    BY <1>0, <2>1, RowFacts, DocType DEF Failed
  <2>3. QED
    BY <1>0, <1>6, <2>1, <2>2, CallType, WriteType DEF FailWrite, SweepWrite, End
<1>7. ASSUME NEW w \in Workers, SweepRead(w) PROVE TypeOK'
  <2>1. PICK d \in Docs, row \in TRANSITIONS :
          /\ UNCHANGED <<now, doc>>
          /\ Begin(w, [ pc |-> "sweep", id |-> d, row |-> row, now |-> now,
                        attempt |-> [ count |-> doc[d].attempt.count + 1,
                                      next_attempt_at |->
                                        now + Backoff(doc[d].attempt.count + 1) ] ])
    BY <1>7 DEF SweepRead, SweepRows, TransitionsFrom
  <2>2. doc[d].attempt.count + 1 \in Nat \ {0}
    BY <1>0 DEF Doc
  <2>3. [ pc |-> "sweep", id |-> d, row |-> row, now |-> now,
          attempt |-> [ count |-> doc[d].attempt.count + 1,
                        next_attempt_at |-> now + Backoff(doc[d].attempt.count + 1) ] ] \in Call
    BY <1>0, <2>2, BackoffNat DEF Call
  <2>4. QED
    BY <1>0, <2>1, <2>3, CallType DEF Procs
<1>8. ASSUME NEW o \in Operators, PauseRead(o) \/ ResumeRead(o) \/ RequeueRead(o)
      PROVE TypeOK'
  <2>1. PICK d \in Docs, row \in TRANSITIONS, pc \in {"pause", "resume", "requeue"} :
          UNCHANGED <<now, doc>> /\ Begin(o, [pc |-> pc, id |-> d, row |-> row])
    BY <1>8 DEF PauseRead, ResumeRead, RequeueRead, TransitionFor, TransitionTo, TransitionsFrom
  <2>2. [pc |-> pc, id |-> d, row |-> row] \in Call
    BY DEF Call, Writing
  <2>3. QED
    BY <1>0, <2>1, <2>2, CallType DEF Procs
<1>9. ASSUME NEW o \in Operators, PauseWrite(o) \/ ResumeWrite(o) \/ RequeueWrite(o)
      PROVE TypeOK'
  <2>1. o \in Procs /\ call[o].id \in Docs /\ call[o].row \in TRANSITIONS
    BY <1>0, <1>9, WritingCall DEF PauseWrite, ResumeWrite, RequeueWrite, Procs, Writing
  <2> DEFINE e == doc[call[o].id]
             row == call[o].row
  <2>2. e \in Doc /\ row.target \in States
    BY <1>0, <2>1, RowFacts
  <2>3. Paused(call[o].id, row) \in Doc
    BY <2>2, <2>1, RowFacts, PausedFromType, DocType DEF Paused
  <2>4. Transitioned(call[o].id, row) \in Doc
    BY <2>2, DocType DEF Transitioned, FreshAttempt
  <2>5. [e EXCEPT !.status = row.target, !.paused_from = None] \in Doc
    BY <2>2, DocType
  <2>6. QED
    BY <1>0, <1>9, <2>1, <2>3, <2>4, <2>5, CallType, WriteType
    DEF PauseWrite, ResumeWrite, RequeueWrite, End
<1>10. ASSUME NEW p \in Procs, Crash(p) \/ NextRun(p) PROVE TypeOK'
  BY <1>0, <1>10, CallType DEF Crash, NextRun, End
<1>11. CASE UNCHANGED vars
  BY <1>11 DEF vars
<1>12. QED
  BY <1>1, <1>2, <1>3, <1>4, <1>5, <1>6, <1>7, <1>8, <1>9, <1>10, <1>11
  DEF Next, WorkerStep, OperatorStep, Procs

\* The type of the state in every behaviour: documents stay well-formed records
\* of the machine, and calls in progress name documents and rows of it.
THEOREM TypeCorrect == Spec => []TypeOK
<1>1. Init => TypeOK
  BY EngineAssumption, FirstStateAssumption
  DEF Init, TypeOK, NewDoc, Doc, FreshAttempt, Call
<1>2. QED
  BY <1>1, TypeStep, PTL DEF Spec

-----------------------------------------------------------------------------
(* The form of a step.  A write is guarded by the status its row starts    *)
(* from; what is left is that the row has the kind its operation means,    *)
(* which was settled when the row was read.                                *)

KindsOf(pc) ==
  CASE pc = "advance" -> {"ADVANCE"}
    [] pc = "fail"    -> {"RETRY", "POISON"}
    [] pc = "sweep"   -> {"SWEEP"}
    [] pc = "pause"   -> {"PAUSE"}
    [] pc = "resume"  -> {"RESUME"}
    [] pc = "requeue" -> {"OPS"}

CallKinds ==
  \A p \in Procs : call[p].pc \in Writing => call[p].row.kind \in KindsOf(call[p].pc)

\* The row says all there is to say about the document that a step moves.
Moves(d, row) ==
  /\ doc[d].status = row.source /\ doc'[d].status = row.target
  /\ \A e \in Docs \ {d} : doc'[e] = doc[e]
  /\ now' = now
  /\ row.kind = "CLAIM" =>
       /\ Ready(d)
       /\ doc'[d].attempt = doc[d].attempt
       /\ \E w \in Workers :
            /\ doc'[d].lease = [owner |-> w, expires_at |-> now + LEASE_TTL]
            /\ call'[w] # call[w]
  /\ row.kind = "RESUME" => doc'[d].lease = doc[d].lease
  /\ row.kind \notin {"CLAIM", "RESUME"} => doc'[d].lease = NoLease
  /\ doc'[d].paused_from =
       CASE row.kind = "PAUSE"                         -> PausedFrom(row.source)
         [] row.kind \in {"RETRY", "POISON", "SWEEP"} -> doc[d].paused_from
         [] OTHER                                      -> None
  /\ row.kind \in {"RESUME", "OPS"} =>
       \E o \in Operators : /\ call[o].pc \in {"resume", "requeue"}
                            /\ call[o].id = d
                            /\ call'[o] # call[o]

\* A process that begins or ends a call changes the call of no other one.
LEMMA OwnCall ==
  ASSUME call \in [Procs -> Call], NEW p \in Procs, NEW c, Begin(p, c)
  PROVE  call'[p] = c /\ \A q \in Procs \ {p} : call'[q] = call[q]
BY DEF Begin

\* Reads settle the kind of the row that the write will follow.
LEMMA KindsStep == TypeOK /\ CallKinds /\ [Next]_vars => CallKinds'
<1> SUFFICES ASSUME TypeOK, CallKinds, [Next]_vars PROVE CallKinds'
  OBVIOUS
<1>0. call \in [Procs -> Call]
  BY DEF TypeOK
<1>1. ASSUME NEW p \in Procs, NEW c, Begin(p, c),
             c.pc \in Writing => c.row.kind \in KindsOf(c.pc)
      PROVE  CallKinds'
  BY <1>0, <1>1, OwnCall DEF CallKinds
<1>2. ASSUME NEW p \in Procs, NEW pc \in {"idle", "aborted"}, Begin(p, [pc |-> pc])
      PROVE  CallKinds'
  BY <1>1, <1>2 DEF Writing
<1>3. ASSUME call' = call PROVE CallKinds'
  BY <1>3 DEF CallKinds
<1>4. CASE Tick \/ UNCHANGED vars
  BY <1>3, <1>4 DEF Tick, vars
<1>5. ASSUME NEW w \in Workers, Claim(w) PROVE CallKinds'
  <2>1. PICK row \in TRANSITIONS, d \in Docs :
          Begin(w, [pc |-> "stage", id |-> d, row |-> row])
    BY <1>5 DEF Claim
  <2>2. QED
    BY <1>1, <2>1 DEF Procs, Writing
<1>6. ASSUME NEW w \in Workers, TransitionRead(w) PROVE CallKinds'
  <2>1. w \in Procs /\ call[w].row \in TRANSITIONS /\ call[w].pc = "stage"
    BY <1>0, <1>6, WritingCall DEF TransitionRead, Procs
  <2>2. PICK outcome \in RowsWithKind(call[w].row.target, "ADVANCE") :
          \/ Begin(w, [call[w] EXCEPT !.pc = "failing"])
          \/ \E row \in TransitionFor(doc[call[w].id].status, outcome.event) :
               Begin(w, [call[w] EXCEPT !.pc = "advance", !.row = row])
    BY <1>6, Zenon DEF TransitionRead
  <2>3. outcome \in TRANSITIONS /\ outcome.kind = "ADVANCE"
    BY <2>2 DEF RowsWithKind
  <2>4. call[w] \in [pc : {"stage"}, id : Docs, row : TRANSITIONS]
    BY <1>0, <2>1 DEF Call, Writing, Idle
  <2>5. CASE Begin(w, [call[w] EXCEPT !.pc = "failing"])
    <3>1. [call[w] EXCEPT !.pc = "failing"].pc = "failing"
      BY <2>4
    <3>2. QED
      BY <1>1, <2>1, <2>5, <3>1 DEF Writing
  <2>6. ASSUME NEW row \in TransitionFor(doc[call[w].id].status, outcome.event),
               Begin(w, [call[w] EXCEPT !.pc = "advance", !.row = row])
        PROVE  CallKinds'
    <3>1. row \in TRANSITIONS /\ row.event = outcome.event
      BY DEF TransitionFor, TransitionsFrom
    <3>2. row.kind = "ADVANCE"
      BY <2>3, <3>1, RegistryAssumption DEF EngineCanDrive
    <3>3. [call[w] EXCEPT !.pc = "advance", !.row = row].row = row
          /\ [call[w] EXCEPT !.pc = "advance", !.row = row].pc = "advance"
      BY <2>4
    <3>4. "ADVANCE" \in KindsOf("advance")
      BY DEF KindsOf
    <3>5. QED
      BY <1>1, <2>1, <2>6, <3>2, <3>3, <3>4
  <2>7. QED
    BY <2>2, <2>5, <2>6
<1>7. ASSUME NEW w \in Workers, TransitionWrite(w) PROVE CallKinds'
  <2>1. w \in Procs /\ call[w].pc = "advance"
    BY <1>7 DEF TransitionWrite, Procs
  <2>2. call[w] \in [pc : {"advance"}, id : Docs, row : TRANSITIONS]
    BY <1>0, <2>1 DEF Call, Writing, Idle
  <2>3. [call[w] EXCEPT !.pc = "failing"].pc = "failing"
    BY <2>2
  <2>4. Begin(w, Idle) \/ Begin(w, [call[w] EXCEPT !.pc = "failing"])
    BY <1>7, Zenon DEF TransitionWrite, End
  <2>5. QED
    BY <1>1, <2>1, <2>3, <2>4 DEF Writing, Idle
<1>8. ASSUME NEW w \in Workers, FailRead(w) PROVE CallKinds'
  <2>1. CASE Begin(w, [pc |-> "aborted"])
    BY <1>2, <2>1 DEF Procs
  <2>2. CASE ~Begin(w, [pc |-> "aborted"])
    <3> DEFINE Fail(row, attempt) == [ pc |-> "fail", id |-> call[w].id, row |-> row,
                                       attempt |-> attempt, now |-> now ]
    <3> DEFINE kind(class) == IF Poisons(class, doc[call[w].id].attempt.count + 1)
                                THEN "POISON" ELSE "RETRY"
    <3>1. PICK class : \E row \in TransitionOfKind(doc[call[w].id].status, kind(class)) :
            Begin(w, Fail(row, FailedAttempt(class, doc[call[w].id].attempt.count + 1)))
      BY <1>8, <2>2, Zenon DEF FailRead
    <3>2. PICK row \in TransitionOfKind(doc[call[w].id].status, kind(class)) :
            Begin(w, Fail(row, FailedAttempt(class, doc[call[w].id].attempt.count + 1)))
      BY <3>1
    <3>3. row.kind \in KindsOf("fail")
      BY <3>2 DEF TransitionOfKind, RowsWithKind, KindsOf
    <3>4. QED
      BY <1>1, <3>2, <3>3 DEF Procs
  <2>3. QED
    BY <2>1, <2>2
<1>9. ASSUME NEW w \in Workers, SweepRead(w) PROVE CallKinds'
  <2>1. PICK d, row, attempt :
          /\ d \in Docs /\ row \in TRANSITIONS
          /\ row.kind = "SWEEP"
          /\ Begin(w, [ pc |-> "sweep", id |-> d, row |-> row, now |-> now,
                        attempt |-> attempt ])
    BY <1>9 DEF SweepRead, SweepRows, TransitionsFrom
  <2>2. QED
    BY <1>1, <2>1 DEF Procs, KindsOf
<1>10. ASSUME NEW o \in Operators, PauseRead(o) \/ ResumeRead(o) \/ RequeueRead(o)
       PROVE  CallKinds'
  <2>1. PICK d \in Docs, row \in TRANSITIONS, pc \in {"pause", "resume", "requeue"} :
          /\ row.kind \in KindsOf(pc)
          /\ Begin(o, [pc |-> pc, id |-> d, row |-> row])
    <3>1. CASE PauseRead(o)
      BY <3>1, RegistryAssumption DEF EngineCanDrive, PauseRead, TransitionFor, TransitionsFrom, KindsOf
    <3>2. CASE ResumeRead(o)
      BY <3>2, RegistryAssumption DEF EngineCanDrive, ResumeRead, TransitionTo, TransitionsFrom, KindsOf
    <3>3. CASE RequeueRead(o)
      BY <3>3, RegistryAssumption DEF EngineCanDrive, RequeueRead, TransitionFor, TransitionsFrom, KindsOf
    <3>4. QED
      BY <1>10, <3>1, <3>2, <3>3
  <2>2. QED
    BY <1>1, <2>1 DEF Procs
<1>11. ASSUME NEW p \in Procs,
              \/ FailWrite(p) \/ SweepWrite(p)
              \/ PauseWrite(p) \/ ResumeWrite(p) \/ RequeueWrite(p)
              \/ Crash(p) \/ NextRun(p)
       PROVE  CallKinds'
  <2>1. Begin(p, [pc |-> "idle"]) \/ Begin(p, [pc |-> "aborted"])
    BY <1>11, Zenon
    DEF FailWrite, SweepWrite, PauseWrite, ResumeWrite, RequeueWrite, Crash, NextRun, End, Idle
  <2>2. QED
    BY <1>2, <2>1
<1>12. QED
  BY <1>4, <1>5, <1>6, <1>7, <1>8, <1>9, <1>10, <1>11
  DEF Next, WorkerStep, OperatorStep, Procs

\* A write that finds its document where the row starts moves it by that row.
LEMMA WriteMoves ==
  ASSUME TypeOK, CallKinds, NEW p \in Procs, call[p].pc \in Writing,
         StillThere(p), now' = now, NEW new \in Doc, Write(p, new),
         new.status = call[p].row.target,
         call[p].row.kind = "RESUME" => new.lease = doc[call[p].id].lease,
         call[p].row.kind # "RESUME" => new.lease = NoLease,
         new.paused_from =
           CASE call[p].row.kind = "PAUSE" -> PausedFrom(call[p].row.source)
             [] call[p].row.kind \in {"RETRY", "POISON", "SWEEP"} ->
                  doc[call[p].id].paused_from
             [] OTHER -> None,
         call[p].row.kind \in {"RESUME", "OPS"} =>
           /\ p \in Operators /\ call[p].pc \in {"resume", "requeue"}
           /\ call'[p] # call[p]
  PROVE  \E d \in Docs, row \in TRANSITIONS : Moves(d, row)
<1>1. /\ call[p].id \in Docs /\ call[p].row \in TRANSITIONS
      /\ doc \in [Docs -> Doc]
  BY WritingCall DEF TypeOK
<1>2. call[p].row.kind # "CLAIM"
  BY DEF CallKinds, KindsOf, Writing
<1>3. /\ doc'[call[p].id] = new
      /\ \A e \in Docs \ {call[p].id} : doc'[e] = doc[e]
  BY <1>1 DEF Write
<1>4. Moves(call[p].id, call[p].row)
  BY <1>1, <1>2, <1>3 DEF Moves, StillThere
<1>5. QED
  BY <1>1, <1>4

\* Every step leaves the collection alone or moves one document by one row.
LEMMA StepForm ==
  ASSUME TypeOK, CallKinds, [Next]_vars
  PROVE  doc' = doc \/ \E d \in Docs, row \in TRANSITIONS : Moves(d, row)
<1> DEFINE Goal == doc' = doc \/ \E d \in Docs, row \in TRANSITIONS : Moves(d, row)
<1>0. /\ now \in Nat /\ call \in [Procs -> Call] /\ doc \in [Docs -> Doc]
      /\ doc' \in [Docs -> Doc]
  BY EngineAssumption, TypeStep DEF TypeOK
<1>1. ASSUME NEW w \in Workers, Claim(w) PROVE Goal
  <2>1. PICK row \in TRANSITIONS, d \in Docs :
          /\ row.kind = "CLAIM" /\ Claimable(d, row) /\ now' = now
          /\ doc' = [doc EXCEPT ![d] =
                       [ @ EXCEPT !.status = row.target,
                                  !.lease = [owner |-> w, expires_at |-> now + LEASE_TTL],
                                  !.paused_from = None ]]
          /\ call[w].pc = "idle" /\ Begin(w, [pc |-> "stage", id |-> d, row |-> row])
    BY <1>1 DEF Claim
  <2>2. doc[d] \in Doc
    BY <1>0
  <2>3. call'[w] # call[w]
    BY <1>0, <2>1, OwnCall DEF Procs
  <2>4. Moves(d, row)
    BY <1>0, <2>1, <2>2, <2>3 DEF Moves, Claimable, Doc
  <2>5. QED
    BY <2>4
<1>2. ASSUME NEW p \in Procs, call[p].pc \in Writing
      PROVE  /\ call[p].id \in Docs /\ call[p].row \in TRANSITIONS
             /\ call[p].row.kind \in KindsOf(call[p].pc)
             /\ doc[call[p].id] \in Doc
  BY <1>0, <1>2, WritingCall DEF CallKinds
<1>3. ASSUME NEW p \in Procs, NEW new, Write(p, new), call[p].id \in Docs
      PROVE  new = doc'[call[p].id] /\ new \in Doc
  BY <1>0, <1>3 DEF Write
<1>4. ASSUME NEW w \in Workers, TransitionWrite(w) PROVE Goal
  <2>1. CASE doc' = doc
    BY <2>1
  <2>2. CASE doc' # doc
    <3>1. /\ w \in Procs /\ call[w].pc = "advance" /\ StillThere(w) /\ now' = now
          /\ Write(w, Transitioned(call[w].id, call[w].row))
      BY <1>4, <2>2, Zenon DEF TransitionWrite, Procs
    <3>2. /\ call[w].id \in Docs /\ call[w].row.kind = "ADVANCE" /\ doc[call[w].id] \in Doc
      BY <1>2, <3>1 DEF Writing, KindsOf
    <3> DEFINE new == Transitioned(call[w].id, call[w].row)
    <3>3. /\ new.status = call[w].row.target /\ new.lease = NoLease
          /\ new.paused_from = None
      BY <3>2 DEF Transitioned, Doc
    <3>4. new \in Doc
      BY <1>3, <3>1, <3>2
    <3> HIDE DEF new
    <3>5. QED
      BY <3>1, <3>2, <3>3, <3>4, WriteMoves DEF Writing, new
  <2>3. QED
    BY <2>1, <2>2
<1>5. ASSUME NEW w \in Workers, FailWrite(w) \/ SweepWrite(w) PROVE Goal
  <2>1. CASE doc' = doc
    BY <2>1
  <2>2. CASE doc' # doc
    <3>1. /\ w \in Procs /\ call[w].pc \in {"fail", "sweep"} /\ StillThere(w) /\ now' = now
          /\ Write(w, Failed(call[w].id, call[w].row, call[w].attempt))
      BY <1>5, <2>2 DEF FailWrite, SweepWrite, Procs
    <3>2. /\ call[w].id \in Docs /\ doc[call[w].id] \in Doc
          /\ call[w].row.kind \in {"RETRY", "POISON", "SWEEP"}
      BY <1>2, <3>1 DEF Writing, KindsOf
    <3> DEFINE new == Failed(call[w].id, call[w].row, call[w].attempt)
    <3>3. /\ new.status = call[w].row.target /\ new.lease = NoLease
          /\ new.paused_from = doc[call[w].id].paused_from
      BY <3>2 DEF Failed, Doc
    <3>4. new \in Doc
      BY <1>3, <3>1, <3>2
    <3> HIDE DEF new
    <3>5. QED
      BY <3>1, <3>2, <3>3, <3>4, WriteMoves DEF Writing, new
  <2>3. QED
    BY <2>1, <2>2
<1>6. ASSUME NEW o \in Operators, PauseWrite(o) PROVE Goal
  <2>1. CASE doc' = doc
    BY <2>1
  <2>2. CASE doc' # doc
    <3>1. /\ o \in Procs /\ call[o].pc = "pause" /\ StillThere(o) /\ now' = now
          /\ Write(o, Paused(call[o].id, call[o].row))
      BY <1>6, <2>2, Zenon DEF PauseWrite, Procs
    <3>2. /\ call[o].id \in Docs /\ call[o].row.kind = "PAUSE" /\ doc[call[o].id] \in Doc
      BY <1>2, <3>1 DEF Writing, KindsOf
    <3> DEFINE new == Paused(call[o].id, call[o].row)
    <3>3. /\ new.status = call[o].row.target /\ new.lease = NoLease
          /\ new.paused_from = PausedFrom(call[o].row.source)
      BY <3>2 DEF Paused, Doc
    <3>4. new \in Doc
      BY <1>3, <3>1, <3>2
    <3> HIDE DEF new
    <3>5. QED
      BY <3>1, <3>2, <3>3, <3>4, WriteMoves DEF Writing, new
  <2>3. QED
    BY <2>1, <2>2
<1>7. ASSUME NEW o \in Operators, ResumeWrite(o) PROVE Goal
  <2>1. CASE doc' = doc
    BY <2>1
  <2>2. CASE doc' # doc
    <3> DEFINE new == [ doc[call[o].id] EXCEPT !.status = call[o].row.target,
                                               !.paused_from = None ]
    <3>1. /\ o \in Procs /\ call[o].pc = "resume" /\ StillThere(o) /\ now' = now
          /\ Write(o, new) /\ Begin(o, Idle)
      BY <1>7, <2>2, Zenon DEF ResumeWrite, Procs, End
    <3>2. /\ call[o].id \in Docs /\ call[o].row.kind = "RESUME" /\ doc[call[o].id] \in Doc
      BY <1>2, <3>1 DEF Writing, KindsOf
    <3>3. /\ new.status = call[o].row.target /\ new.lease = doc[call[o].id].lease
          /\ new.paused_from = None
      BY <3>2 DEF Doc
    <3>4. new \in Doc
      BY <1>3, <3>1, <3>2
    <3>5. call'[o] # call[o]
      BY <1>0, <3>1, OwnCall DEF Idle
    <3> HIDE DEF new
    <3>6. QED
      BY <3>1, <3>2, <3>3, <3>4, <3>5, WriteMoves DEF Writing
  <2>3. QED
    BY <2>1, <2>2
<1>8. ASSUME NEW o \in Operators, RequeueWrite(o) PROVE Goal
  <2>1. CASE doc' = doc
    BY <2>1
  <2>2. CASE doc' # doc
    <3> DEFINE new == Transitioned(call[o].id, call[o].row)
    <3>1. /\ o \in Procs /\ call[o].pc = "requeue" /\ StillThere(o) /\ now' = now
          /\ Write(o, new) /\ Begin(o, Idle)
      BY <1>8, <2>2, Zenon DEF RequeueWrite, Procs, End
    <3>2. /\ call[o].id \in Docs /\ call[o].row.kind = "OPS" /\ doc[call[o].id] \in Doc
      BY <1>2, <3>1 DEF Writing, KindsOf
    <3>3. /\ new.status = call[o].row.target /\ new.lease = NoLease
          /\ new.paused_from = None
      BY <3>2 DEF Transitioned, Doc
    <3>4. new \in Doc
      BY <1>3, <3>1, <3>2
    <3>5. call'[o] # call[o]
      BY <1>0, <3>1, OwnCall DEF Idle
    <3> HIDE DEF new
    <3>6. QED
      BY <3>1, <3>2, <3>3, <3>4, <3>5, WriteMoves DEF Writing
  <2>3. QED
    BY <2>1, <2>2
<1>9. ASSUME \/ Tick \/ UNCHANGED vars
             \/ \E w \in Workers : TransitionRead(w) \/ FailRead(w) \/ SweepRead(w) \/ NextRun(w)
             \/ \E o \in Operators : PauseRead(o) \/ ResumeRead(o) \/ RequeueRead(o)
             \/ \E p \in Procs : Crash(p)
      PROVE  doc' = doc
  BY <1>9 DEF Tick, vars, TransitionRead, FailRead, SweepRead, NextRun,
              PauseRead, ResumeRead, RequeueRead, Crash
<1>10. QED
  BY <1>1, <1>4, <1>5, <1>6, <1>7, <1>8, <1>9 DEF Next, WorkerStep, OperatorStep

-----------------------------------------------------------------------------
(* The inductive invariant.                                                *)

IInv ==
  /\ TypeOK /\ CallKinds
  /\ LeaseIffWorking /\ PausedIsResumable /\ BackoffHonoured

\* Every document starts unheld, unpaused and at once ready.
LEMMA InitInv == Init => IInv
<1> SUFFICES ASSUME Init PROVE IInv
  OBVIOUS
<1>1. TypeOK
  BY EngineAssumption, FirstStateAssumption
  DEF Init, TypeOK, NewDoc, Doc, FreshAttempt, Call
<1>2. CallKinds
  BY DEF Init, CallKinds, Idle, Writing
<1>3. LeaseIffWorking /\ BackoffHonoured
  BY FirstStateAssumption
  DEF Init, NewDoc, LeaseIffWorking, BackoffHonoured, HasLease, RoleOf
<1>4. PausedIsResumable
  BY FirstStateAssumption, RegistryAssumption DEF EngineCanDrive, Init, NewDoc, PausedIsResumable
<1>5. QED
  BY <1>1, <1>2, <1>3, <1>4 DEF IInv

\* The three parts about documents, for the document that a step moves.
LEMMA MovedInv ==
  ASSUME IInv, TypeOK', NEW d \in Docs, NEW row \in TRANSITIONS, Moves(d, row)
  PROVE  LeaseIffWorking' /\ PausedIsResumable' /\ BackoffHonoured'
<1> USE DEF IInv
<1>1. /\ row.source \in States /\ row.target \in States /\ RoleOfKindOK(row)
  BY RowFacts
<1>2. doc[d] \in Doc /\ doc'[d] \in Doc /\ now \in Nat
  BY EngineAssumption DEF TypeOK
<1>3. ASSUME NEW e \in Docs \ {d} PROVE doc'[e] = doc[e]
  BY <1>3 DEF Moves
<1>4. /\ doc[d].status = row.source /\ doc'[d].status = row.target
  BY DEF Moves
<1>5. HasLease(d)' <=> RoleOf(d)' = "WORKING"
  <2>1. CASE row.kind = "CLAIM"
    <3>1. doc'[d].lease # NoLease
      <4>1. PICK w \in Workers : doc'[d].lease = [owner |-> w, expires_at |-> now + LEASE_TTL]
        BY <2>1 DEF Moves
      <4>2. doc'[d].lease.owner # NoLease.owner
        BY <4>1, EngineAssumption DEF NoLease
      <4>3. QED
        BY <4>2
    <3>2. STATE_ROLES[row.target] = "WORKING"
      BY <1>1, <2>1 DEF RoleOfKindOK
    <3>3. QED
      BY <1>4, <3>1, <3>2 DEF HasLease, RoleOf
  <2>2. CASE row.kind # "CLAIM"
    <3>1. STATE_ROLES[row.target] # "WORKING"
      BY <1>1, <2>2 DEF RoleOfKindOK
    <3>2. row.kind = "RESUME" => doc[d].lease = NoLease
      BY <1>1, <1>4 DEF RoleOfKindOK, LeaseIffWorking, HasLease, RoleOf
    <3>3. doc'[d].lease = NoLease
      BY <2>2, <3>2 DEF Moves
    <3>4. QED
      BY <1>4, <3>1, <3>3 DEF HasLease, RoleOf
  <2>3. QED
    BY <2>1, <2>2
<1>6. LeaseIffWorking'
  BY <1>3, <1>5 DEF LeaseIffWorking, HasLease, RoleOf
<1>7. /\ doc'[d].status = "PAUSED" <=> doc'[d].paused_from # None
      /\ doc'[d].status = "PAUSED" =>
           TransitionTo("PAUSED", "RESUME", doc'[d].paused_from) # {}
  <2>1. row.target = "PAUSED" <=> row.kind = "PAUSE"
    BY <1>1, RegistryAssumption DEF EngineCanDrive, RoleOfKindOK
  <2>2. CASE row.kind = "PAUSE"
    <3>1. /\ PausedFrom(row.source) # None
          /\ TransitionTo("PAUSED", "RESUME", PausedFrom(row.source)) # {}
      BY <1>1, <2>2, PausedFromType, RegistryAssumption, EngineAssumption DEF EngineCanDrive
    <3>2. QED
      BY <1>4, <2>1, <2>2, <3>1 DEF Moves
  <2>3. CASE row.kind \in {"RETRY", "POISON", "SWEEP"}
    <3>1. doc[d].paused_from = None
      BY <1>1, <1>4, <2>3, RegistryAssumption DEF EngineCanDrive, RoleOfKindOK, PausedIsResumable
    <3>2. QED
      BY <1>4, <2>1, <2>3, <3>1 DEF Moves
  <2>4. CASE row.kind \notin {"PAUSE", "RETRY", "POISON", "SWEEP"}
    BY <1>4, <2>1, <2>4 DEF Moves
  <2>5. QED
    BY <2>2, <2>3, <2>4
<1>8. PausedIsResumable'
  BY <1>3, <1>7 DEF PausedIsResumable
<1>9. RoleOf(d)' = "WORKING" =>
        doc'[d].attempt.next_attempt_at + LEASE_TTL <= doc'[d].lease.expires_at
  <2>1. CASE row.kind = "CLAIM"
    <3>1. doc'[d].attempt = doc[d].attempt /\ doc[d].attempt.next_attempt_at <= now
      BY <2>1, Zenon DEF Moves, Ready
    <3>2. PICK w \in Workers : doc'[d].lease = [owner |-> w, expires_at |-> now + LEASE_TTL]
      BY <2>1 DEF Moves
    <3>3. doc[d].attempt.next_attempt_at \in Nat /\ LEASE_TTL \in Nat
      BY <1>2, EngineAssumption DEF Doc
    <3>4. QED
      BY <1>2, <3>1, <3>2, <3>3
  <2>2. CASE row.kind # "CLAIM"
    BY <1>1, <1>4, <2>2 DEF RoleOfKindOK, RoleOf
  <2>3. QED
    BY <2>1, <2>2
<1>10. BackoffHonoured'
  BY <1>3, <1>9 DEF BackoffHonoured, RoleOf
<1>11. QED
  BY <1>6, <1>8, <1>10

\* Every step preserves the inductive invariant.
LEMMA InvStep == IInv /\ [Next]_vars => IInv'
<1> SUFFICES ASSUME IInv, [Next]_vars PROVE IInv'
  OBVIOUS
<1>1. TypeOK' /\ CallKinds'
  BY TypeStep, KindsStep DEF IInv
<1>2. CASE doc' = doc
  BY <1>1, <1>2
  DEF IInv, LeaseIffWorking, PausedIsResumable, BackoffHonoured, HasLease, RoleOf
<1>3. ASSUME NEW d \in Docs, NEW row \in TRANSITIONS, Moves(d, row) PROVE IInv'
  BY <1>1, <1>3, MovedInv DEF IInv
<1>4. QED
  BY <1>2, <1>3, StepForm DEF IInv

\* The inductive invariant holds in every reachable state.
LEMMA Invariant == Spec => []IInv
BY InitInv, InvStep, PTL DEF Spec

\* No document is ever WORKING without a lease, nor leased without WORKING: a
\* crash or a kill switch cannot strand one outside the sweep's reach.
THEOREM LeaseCorrect == Spec => []LeaseIffWorking
<1>1. IInv => LeaseIffWorking
  BY DEF IInv
<1>2. QED
  BY <1>1, Invariant, PTL

\* Whatever was in progress when the switch was thrown, a paused document
\* remembers a state that RESUME can take it to.
THEOREM ResumeCorrect == Spec => []PausedIsResumable
<1>1. IInv => PausedIsResumable
  BY DEF IInv
<1>2. QED
  BY <1>1, Invariant, PTL

\* A document is claimed only once the backoff of its last failure has run out.
THEOREM BackoffCorrect == Spec => []BackoffHonoured
<1>1. IInv => BackoffHonoured
  BY DEF IInv
<1>2. QED
  BY <1>1, Invariant, PTL

-----------------------------------------------------------------------------
(* Action properties.                                                      *)

\* A document that is paused or terminal leaves that state by an operator's
\* resume or requeue only; no late write of a worker brings it back.
THEOREM RevivalCorrect == Spec => OnlyOperatorsRevive
<1> DEFINE Revive ==
      \A d \in Docs :
        RoleOf(d) \in {"PAUSED", "TERMINAL"} /\ doc'[d] # doc[d] =>
          \E o \in Operators : /\ call[o].pc \in {"resume", "requeue"}
                               /\ call[o].id = d
                               /\ call'[o] # call[o]
<1>1. ASSUME IInv, [Next]_vars PROVE Revive
  <2>1. CASE doc' = doc
    BY <2>1
  <2>2. ASSUME NEW d \in Docs, NEW row \in TRANSITIONS, Moves(d, row) PROVE Revive
    <3>1. \A e \in Docs : doc'[e] # doc[e] => e = d
      BY <2>2 DEF Moves
    <3>2. RoleOf(d) \in {"PAUSED", "TERMINAL"} => row.kind \in {"RESUME", "OPS"}
      <4>1. RoleOfKindOK(row) /\ doc[d].status = row.source
        BY <2>2, RowFacts DEF Moves
      <4>2. row.kind \in Kind
        BY RegistryAssumption DEF EngineCanDrive
      <4>3. QED
        BY <4>1, <4>2 DEF RoleOfKindOK, RoleOf, Kind
    <3>3. QED
      BY <2>2, <3>1, <3>2 DEF Moves
  <2>3. QED
    BY <1>1, <2>1, <2>2, StepForm DEF IInv
<1>2. QED
  BY <1>1, Invariant, PTL DEF Spec, OnlyOperatorsRevive

\* A step of a process begins or ends a call of that process.
LEMMA StepIsACall ==
  ASSUME NEW p, WorkerStep(p) \/ OperatorStep(p) \/ Crash(p)
  PROVE  \E c : Begin(p, c)
<1>1. CASE Claim(p) \/ TransitionRead(p)
  BY <1>1, Zenon DEF Claim, TransitionRead
<1>2. CASE TransitionWrite(p) \/ FailWrite(p) \/ SweepWrite(p) \/ NextRun(p) \/ Crash(p)
  BY <1>2, Zenon DEF TransitionWrite, FailWrite, SweepWrite, NextRun, Crash, End
<1>3. CASE FailRead(p)
  BY <1>3, Zenon DEF FailRead
<1>4. CASE SweepRead(p)
  BY <1>4, Zenon DEF SweepRead
<1>5. CASE PauseRead(p) \/ ResumeRead(p) \/ RequeueRead(p)
  BY <1>5, Zenon DEF PauseRead, ResumeRead, RequeueRead
<1>6. CASE PauseWrite(p) \/ ResumeWrite(p) \/ RequeueWrite(p)
  BY <1>6, Zenon DEF PauseWrite, ResumeWrite, RequeueWrite, End
<1>7. QED
  BY <1>1, <1>2, <1>3, <1>4, <1>5, <1>6 DEF WorkerStep, OperatorStep

\* What changes a call is a step of a process.
LEMMA ProcessStep ==
  ASSUME [Next]_vars, call' # call
  PROVE  \E p \in Procs : \/ p \in Workers /\ WorkerStep(p)
                          \/ p \in Operators /\ OperatorStep(p)
                          \/ Crash(p)
BY DEF Next, vars, Tick, Procs

\* The clock does not go back.
LEMMA TimePasses == now \in Nat /\ [Next]_vars => now <= now'
<1> SUFFICES ASSUME now \in Nat, [Next]_vars PROVE now <= now'
  OBVIOUS
<1>1. ASSUME NEW w \in Workers, WorkerStep(w) PROVE now' = now
  BY <1>1 DEF WorkerStep, Claim, TransitionRead, TransitionWrite, FailRead, FailWrite,
              SweepRead, SweepWrite, NextRun
<1>2. ASSUME NEW o \in Operators, OperatorStep(o) PROVE now' = now
  BY <1>2 DEF OperatorStep, PauseRead, PauseWrite, ResumeRead, ResumeWrite,
              RequeueRead, RequeueWrite
<1>3. QED
  BY <1>1, <1>2 DEF Next, vars, Tick, Crash

\* While the lease a sweeper saw is still the expired one, the attempt it is
\* about to write is the document's own plus one: whatever moves the document
\* meanwhile removes that lease or renews it.
SweepFresh ==
  \A w \in Workers :
    call[w].pc = "sweep" =>
      /\ call[w].now <= now
      /\ LeaseStillExpired(w) =>
           call[w].attempt.count = doc[call[w].id].attempt.count + 1

\* A call becomes a sweep or a fail by reading a document only.
LEMMA AttemptBegins ==
  ASSUME TypeOK, [Next]_vars, NEW w \in Workers,
         call'[w] # call[w], call'[w].pc \in {"sweep", "fail"}
  PROVE  SweepRead(w) \/ FailRead(w)
<1>0. call \in [Procs -> Call] /\ w \in Procs
  BY DEF TypeOK, Procs
<1>1. PICK p \in Procs : \/ p \in Workers /\ WorkerStep(p)
                         \/ p \in Operators /\ OperatorStep(p)
                         \/ Crash(p)
  BY ProcessStep
<1>2. p = w
  <2>1. PICK c : Begin(p, c)
    BY <1>1, StepIsACall
  <2>2. QED
    BY <1>0, <2>1, OwnCall
<1>3. ASSUME NEW c, Begin(w, c) PROVE call'[w] = c
  BY <1>0, <1>3, OwnCall
<1>4. ~Claim(w)
  <2>1. SUFFICES ASSUME Claim(w) PROVE FALSE
    OBVIOUS
  <2>2. PICK row, d : call'[w] = [pc |-> "stage", id |-> d, row |-> row]
    BY <1>3, <2>1, Zenon DEF Claim
  <2>3. QED
    BY <2>2
<1>5. ~TransitionRead(w)
  <2>1. SUFFICES ASSUME TransitionRead(w) PROVE FALSE
    OBVIOUS
  <2>2. call[w].pc = "stage"
    BY <2>1 DEF TransitionRead
  <2>3. call[w] \in [pc : {"stage"}, id : Docs, row : TRANSITIONS]
    BY <1>0, <2>2 DEF Call, Writing, Idle
  <2>4. \/ call'[w] = [call[w] EXCEPT !.pc = "failing"]
        \/ \E row : call'[w] = [call[w] EXCEPT !.pc = "advance", !.row = row]
    BY <1>3, <2>1, Zenon DEF TransitionRead
  <2>5. QED
    BY <2>3, <2>4
<1>6. ~TransitionWrite(w)
  <2>1. SUFFICES ASSUME TransitionWrite(w) PROVE FALSE
    OBVIOUS
  <2>2. call[w].pc = "advance"
    BY <2>1 DEF TransitionWrite
  <2>3. call[w] \in [pc : {"advance"}, id : Docs, row : TRANSITIONS]
    BY <1>0, <2>2 DEF Call, Writing, Idle
  <2>4. call'[w] = Idle \/ call'[w] = [call[w] EXCEPT !.pc = "failing"]
    BY <1>3, <2>1, Zenon DEF TransitionWrite, End
  <2>5. QED
    BY <2>3, <2>4 DEF Idle
<1>7. ~(PauseRead(w) \/ ResumeRead(w) \/ RequeueRead(w))
  <2>1. SUFFICES ASSUME PauseRead(w) \/ ResumeRead(w) \/ RequeueRead(w) PROVE FALSE
    OBVIOUS
  <2>2. \E d, row : \/ call'[w] = [pc |-> "pause", id |-> d, row |-> row]
                    \/ call'[w] = [pc |-> "resume", id |-> d, row |-> row]
                    \/ call'[w] = [pc |-> "requeue", id |-> d, row |-> row]
    BY <1>3, <2>1, Zenon DEF PauseRead, ResumeRead, RequeueRead
  <2>3. QED
    BY <2>2
<1>8. ~(\/ FailWrite(w) \/ SweepWrite(w) \/ NextRun(w) \/ Crash(w)
        \/ PauseWrite(w) \/ ResumeWrite(w) \/ RequeueWrite(w))
  <2>1. SUFFICES ASSUME call'[w] = Idle \/ call'[w] = [pc |-> "aborted"] PROVE FALSE
    BY <1>3, Zenon DEF FailWrite, SweepWrite, NextRun, Crash, PauseWrite, ResumeWrite,
                       RequeueWrite, End
  <2>2. QED
    BY <2>1 DEF Idle
<1>9. QED
  BY <1>1, <1>2, <1>4, <1>5, <1>6, <1>7, <1>8 DEF WorkerStep, OperatorStep

\* What the two reads leave in the call.
LEMMA SweepBegins ==
  ASSUME TypeOK, [Next]_vars, NEW w \in Workers,
         call'[w] # call[w], call'[w].pc = "sweep"
  PROVE  SweepRead(w)
<1>1. ~FailRead(w)
  <2>1. SUFFICES ASSUME FailRead(w) PROVE FALSE
    OBVIOUS
  <2>2. ASSUME NEW c, Begin(w, c) PROVE call'[w] = c
    BY <2>2, OwnCall DEF TypeOK, Procs
  <2>3. call'[w] # [pc |-> "aborted"]
    OBVIOUS
  <2>4. PICK row, attempt :
          call'[w] = [pc |-> "fail", id |-> call[w].id, row |-> row,
                      attempt |-> attempt, now |-> now]
    BY <2>1, <2>2, <2>3, Zenon DEF FailRead
  <2>5. QED
    BY <2>4
<1>2. QED
  BY <1>1, AttemptBegins

\* fail_doc carries the count it read, and one more.
LEMMA FailBegins ==
  ASSUME TypeOK, [Next]_vars, NEW w \in Workers,
         call'[w] # call[w], call'[w].pc = "fail"
  PROVE  /\ UNCHANGED <<now, doc>>
         /\ call'[w].attempt.count = doc[call'[w].id].attempt.count + 1
<1>1. ASSUME NEW c, Begin(w, c) PROVE call'[w] = c
  BY <1>1, OwnCall DEF TypeOK, Procs
<1>2. ~SweepRead(w)
  <2>1. SUFFICES ASSUME SweepRead(w) PROVE FALSE
    OBVIOUS
  <2>2. PICK d, row, attempt :
          call'[w] = [pc |-> "sweep", id |-> d, row |-> row, now |-> now, attempt |-> attempt]
    BY <1>1, <2>1, Zenon DEF SweepRead
  <2>3. QED
    BY <2>2
<1>3. FailRead(w)
  BY <1>2, AttemptBegins
<1>4. call'[w] # [pc |-> "aborted"]
  OBVIOUS
<1>5. PICK row, class :
        call'[w] = [ pc |-> "fail", id |-> call[w].id, row |-> row, now |-> now,
                     attempt |-> FailedAttempt(class, doc[call[w].id].attempt.count + 1) ]
  BY <1>1, <1>3, <1>4, Zenon DEF FailRead
<1>6. QED
  BY <1>3, <1>5 DEF FailRead, FailedAttempt

\* A sweeper's call ends, with its document changed, by its own write only.
LEMMA SweepEnds ==
  ASSUME TypeOK, [Next]_vars, NEW w \in Workers, call[w].pc = "sweep",
         call'[w] # call[w], doc' # doc
  PROVE  SweepWrite(w)
<1>0. call \in [Procs -> Call] /\ w \in Procs
  BY DEF TypeOK, Procs
<1>1. PICK p \in Procs : \/ p \in Workers /\ WorkerStep(p)
                         \/ p \in Operators /\ OperatorStep(p)
                         \/ Crash(p)
  BY ProcessStep
<1>2. p = w
  <2>1. PICK c : Begin(p, c)
    BY <1>1, StepIsACall
  <2>2. QED
    BY <1>0, <2>1, OwnCall
<1>3. ~Crash(w)
  BY DEF Crash
<1>4. w \notin Operators
  BY EngineAssumption
<1>5. QED
  BY <1>1, <1>2, <1>3, <1>4
  DEF WorkerStep, Claim, TransitionRead, TransitionWrite, FailRead, FailWrite,
      SweepRead, NextRun

\* Documents that a step moves leave no sweep with a lease it may still revert.
LEMMA SweepFreshStep == IInv /\ SweepFresh /\ [Next]_vars => SweepFresh'
<1> SUFFICES ASSUME IInv, SweepFresh, [Next]_vars,
                    NEW w \in Workers, call'[w].pc = "sweep"
             PROVE  /\ call'[w].now <= now'
                    /\ LeaseStillExpired(w)' =>
                         call'[w].attempt.count = doc'[call'[w].id].attempt.count + 1
  BY DEF SweepFresh
<1> USE DEF IInv
<1>0. /\ now \in Nat /\ now' \in Nat /\ w \in Procs
      /\ call \in [Procs -> Call] /\ LEASE_TTL \in Nat \ {0}
  BY EngineAssumption, TypeStep DEF TypeOK, Procs
<1>1. CASE call'[w] # call[w]
  <2>1. SweepRead(w)
    BY <1>1, SweepBegins
  <2>2. PICK d, row, delay :
          /\ d \in Docs
          /\ Begin(w, [ pc |-> "sweep", id |-> d, row |-> row, now |-> now,
                        attempt |-> [ count |-> doc[d].attempt.count + 1,
                                      next_attempt_at |-> delay ] ])
          /\ UNCHANGED <<now, doc>>
    BY <2>1 DEF SweepRead
  <2>3. call'[w] = [ pc |-> "sweep", id |-> d, row |-> row, now |-> now,
                     attempt |-> [ count |-> doc[d].attempt.count + 1,
                                   next_attempt_at |-> delay ] ]
    BY <1>0, <2>2, OwnCall
  <2>4. QED
    BY <1>0, <2>2, <2>3
<1>2. CASE call'[w] = call[w]
  <2>1. /\ call[w].pc = "sweep" /\ call[w].now \in Nat /\ call[w].id \in Docs
        /\ call[w].now <= now
        /\ LeaseStillExpired(w) =>
             call[w].attempt.count = doc[call[w].id].attempt.count + 1
    BY <1>0, <1>2, WritingCall DEF SweepFresh, Writing
  <2>2. now <= now'
    BY <1>0, TimePasses
  <2>3. CASE doc'[call[w].id] = doc[call[w].id]
    BY <1>0, <1>2, <2>1, <2>2, <2>3 DEF LeaseStillExpired, HasLease
  <2>4. CASE doc'[call[w].id] # doc[call[w].id]
    <3> DEFINE d == call[w].id
    <3>1. PICK row \in TRANSITIONS : Moves(d, row)
      <4>1. PICK e \in Docs, row \in TRANSITIONS : Moves(e, row)
        BY <2>4, StepForm
      <4>2. e = d
        BY <2>1, <2>4, <4>1 DEF Moves
      <4>3. QED
        BY <4>1, <4>2
    <3>2. LeaseIffWorking'
      BY InvStep
    <3>3. CASE row.kind = "CLAIM"
      <4>1. PICK v \in Workers : doc'[d].lease = [owner |-> v, expires_at |-> now + LEASE_TTL]
        BY <3>1, <3>3 DEF Moves
      <4>2. ~LeaseStillExpired(w)'
        BY <1>0, <1>2, <2>1, <4>1 DEF LeaseStillExpired
      <4>3. QED
        BY <1>0, <1>2, <2>1, <2>2, <4>2
    <3>4. CASE row.kind # "CLAIM"
      <4>1. STATE_ROLES[doc'[d].status] # "WORKING"
        BY <3>1, <3>4, RowFacts DEF Moves, RoleOfKindOK
      <4>2. ~LeaseStillExpired(w)'
        BY <1>2, <2>1, <3>2, <4>1 DEF LeaseIffWorking, LeaseStillExpired, HasLease, RoleOf
      <4>3. QED
        BY <1>0, <1>2, <2>1, <2>2, <4>2
    <3>5. QED
      BY <3>3, <3>4
  <2>5. QED
    BY <2>3, <2>4
<1>3. QED
  BY <1>1, <1>2

\* A sweep reverts a document whose lease is over, and charges one attempt for
\* it, whatever other sweepers, workers and operators did since it read it.
THEOREM SweepCorrect == Spec => SweepIsExact
<1> DEFINE Exact == \A w \in Workers : call'[w] # call[w] => SweepStep(w)
<1>1. Init => SweepFresh
  BY DEF Init, SweepFresh, Idle, Procs
<1>2. ASSUME IInv, SweepFresh, [Next]_vars PROVE Exact
  <2>1. SUFFICES ASSUME NEW w \in Workers, call[w].pc = "sweep", call'[w] # call[w],
                        doc'[call[w].id] # doc[call[w].id]
                 PROVE  /\ doc[call[w].id].lease.expires_at < now
                        /\ doc'[call[w].id].attempt.count = doc[call[w].id].attempt.count + 1
    BY DEF SweepStep
  <2>2. /\ now \in Nat /\ doc \in [Docs -> Doc] /\ call[w].now \in Nat
        /\ call[w].id \in Docs /\ call[w].now <= now
    <3>1. now \in Nat /\ doc \in [Docs -> Doc] /\ call \in [Procs -> Call] /\ w \in Procs
      BY <1>2, EngineAssumption DEF IInv, TypeOK, Procs
    <3>2. QED
      BY <1>2, <2>1, <3>1, WritingCall DEF SweepFresh, Writing
  <2>3. SweepWrite(w)
    BY <1>2, <2>1, SweepEnds DEF IInv
  <2>4. /\ LeaseStillExpired(w)
        /\ Write(w, Failed(call[w].id, call[w].row, call[w].attempt))
    BY <2>1, <2>3 DEF SweepWrite
  <2>5. doc'[call[w].id].attempt = call[w].attempt
    BY <2>2, <2>4 DEF Write, Failed, Doc
  <2>6. doc[call[w].id].lease.expires_at < call[w].now
    BY <2>4 DEF LeaseStillExpired
  <2>7. doc[call[w].id].lease.expires_at \in Nat
    BY <2>2 DEF Doc, Lease, NoLease
  <2>8. QED
    BY <1>2, <2>1, <2>2, <2>4, <2>5, <2>6, <2>7 DEF SweepFresh
<1>3. IInv /\ SweepFresh /\ [Next]_vars => Exact
  BY <1>2
<1>4. QED
  BY <1>1, <1>3, Invariant, SweepFreshStep, PTL DEF Spec, SweepIsExact

\* While a worker that fails a document still holds it, the attempt it is about
\* to write is the document's own plus one.
FailFresh ==
  \A w \in Workers :
    call[w].pc = "fail" /\ doc[call[w].id].lease.owner = w =>
      call[w].attempt.count = doc[call[w].id].attempt.count + 1

\* A failing worker's call ends, with a document changed, by its own write only.
LEMMA FailEnds ==
  ASSUME TypeOK, [Next]_vars, NEW w \in Workers, call[w].pc = "fail",
         call'[w] # call[w], doc' # doc
  PROVE  FailWrite(w)
<1>0. call \in [Procs -> Call] /\ w \in Procs
  BY DEF TypeOK, Procs
<1>1. PICK p \in Procs : \/ p \in Workers /\ WorkerStep(p)
                         \/ p \in Operators /\ OperatorStep(p)
                         \/ Crash(p)
  BY ProcessStep
<1>2. p = w
  <2>1. PICK c : Begin(p, c)
    BY <1>1, StepIsACall
  <2>2. QED
    BY <1>0, <2>1, OwnCall
<1>3. ~Crash(w)
  BY DEF Crash
<1>4. w \notin Operators
  BY EngineAssumption
<1>5. QED
  BY <1>1, <1>2, <1>3, <1>4
  DEF WorkerStep, Claim, TransitionRead, TransitionWrite, FailRead, SweepRead,
      SweepWrite, NextRun

\* What moves the document of such a worker takes the lease off it, or gives it
\* to a worker that was idle.
LEMMA FailFreshStep == IInv /\ FailFresh /\ [Next]_vars => FailFresh'
<1> SUFFICES ASSUME IInv, FailFresh, [Next]_vars, NEW w \in Workers,
                    call'[w].pc = "fail", doc'[call'[w].id].lease.owner = w
             PROVE  call'[w].attempt.count = doc'[call'[w].id].attempt.count + 1
  BY DEF FailFresh
<1> USE DEF IInv
<1>1. CASE call'[w] # call[w]
  BY <1>1, FailBegins
<1>2. CASE call'[w] = call[w]
  <2> DEFINE d == call[w].id
  <2>1. d \in Docs /\ call[w].pc = "fail"
    BY <1>2, WritingCall DEF TypeOK, Procs, Writing
  <2>2. CASE doc'[d] = doc[d]
    BY <1>2, <2>1, <2>2 DEF FailFresh
  <2>3. CASE doc'[d] # doc[d]
    <3>1. PICK e \in Docs, row \in TRANSITIONS : Moves(e, row)
      BY <2>3, StepForm
    <3>2. e = d
      BY <2>1, <2>3, <3>1 DEF Moves
    <3>3. w # None
      BY EngineAssumption
    <3>4. row.kind # "CLAIM"
      <4>1. SUFFICES ASSUME row.kind = "CLAIM" PROVE FALSE
        OBVIOUS
      <4>2. PICK v \in Workers :
              /\ doc'[d].lease = [owner |-> v, expires_at |-> now + LEASE_TTL]
              /\ call'[v] # call[v]
        BY <3>1, <3>2, <4>1 DEF Moves
      <4>3. v = w
        BY <1>2, <4>2
      <4>4. QED
        BY <1>2, <4>2, <4>3
    <3>5. doc'[d].lease # NoLease
      BY <1>2, <3>3 DEF NoLease
    <3>6. LeaseIffWorking'
      BY InvStep
    <3>7. STATE_ROLES[doc'[d].status] # "WORKING"
      BY <3>1, <3>2, <3>4, RowFacts DEF Moves, RoleOfKindOK
    <3>8. QED
      BY <2>1, <3>5, <3>6, <3>7 DEF LeaseIffWorking, HasLease, RoleOf
  <2>4. QED
    BY <2>2, <2>3
<1>3. QED
  BY <1>1, <1>2

\* A worker that fails a document it holds charges it exactly one attempt, by
\* whatever count and however long ago it has read.
THEOREM ChargeCorrect == Spec => HolderIsCharged
<1> DEFINE Charged == \A w \in Workers : call'[w] # call[w] => FailStep(w)
<1>1. Init => FailFresh
  BY DEF Init, FailFresh, Idle, Procs
<1>2. ASSUME IInv, FailFresh, [Next]_vars PROVE Charged
  <2>1. SUFFICES ASSUME NEW w \in Workers, call[w].pc = "fail", call'[w] # call[w],
                        doc'[call[w].id] # doc[call[w].id], doc[call[w].id].lease.owner = w
                 PROVE  doc'[call[w].id].attempt.count = doc[call[w].id].attempt.count + 1
    BY DEF FailStep
  <2>2. doc \in [Docs -> Doc] /\ call[w].id \in Docs
    BY <1>2, <2>1, WritingCall DEF IInv, TypeOK, Procs, Writing
  <2>3. FailWrite(w)
    BY <1>2, <2>1, FailEnds DEF IInv
  <2>4. Write(w, Failed(call[w].id, call[w].row, call[w].attempt))
    BY <2>1, <2>3 DEF FailWrite
  <2>5. doc'[call[w].id].attempt = call[w].attempt
    BY <2>2, <2>4 DEF Write, Failed, Doc
  <2>6. QED
    BY <1>2, <2>1, <2>5 DEF FailFresh
<1>3. IInv /\ FailFresh /\ [Next]_vars => Charged
  BY <1>2
<1>4. QED
  BY <1>1, <1>3, Invariant, FailFreshStep, PTL DEF Spec, HolderIsCharged

-----------------------------------------------------------------------------
(* Refinement.                                                             *)

\* The engine implements the lifecycle: its initial state is one, and each of
\* its steps is a claim, a move or a stutter there.
THEOREM Refinement == Spec => ImplementsLifecycle
<1> DEFINE st == [d \in Docs |-> doc[d].status]
           ho == [d \in Docs |-> doc[d].lease.owner]
<1>1. Init => Promise!Init
  BY DEF Init, Promise!Init, NewDoc, NoLease
<1>2. ASSUME IInv, [Next]_vars PROVE Promise!Next \/ UNCHANGED Promise!vars
  <2>1. CASE doc' = doc
    BY <2>1 DEF Promise!vars
  <2>2. ASSUME NEW d \in Docs, NEW row \in TRANSITIONS, Moves(d, row) PROVE Promise!Next
    <3>1. RoleOfKindOK(row)
      BY RowFacts
    <3>0. \A e \in Docs \ {d} : doc'[e] = doc[e]
      BY <2>2 DEF Moves
    <3>2. st[d] = row.source /\ st' = [st EXCEPT ![d] = row.target]
      BY <2>2 DEF Moves
    <3>3. CASE row.kind = "CLAIM"
      <4>1. PICK w \in Workers : doc'[d].lease = [owner |-> w, expires_at |-> now + LEASE_TTL]
        BY <2>2, <3>3 DEF Moves
      <4>2. doc[d].lease = NoLease
        BY <1>2, <2>2, <3>1, <3>3 DEF IInv, LeaseIffWorking, HasLease, RoleOf, Moves, RoleOfKindOK
      <4>3. ho[d] = None /\ ho' = [ho EXCEPT ![d] = w]
        <5>1. doc[d].lease.owner = None /\ doc'[d].lease.owner = w
          BY <4>1, <4>2 DEF NoLease
        <5>2. QED
          BY <3>0, <5>1
      <4>4. Promise!Follow(d, row)
        BY <3>2 DEF Promise!Follow
      <4>5. Promise!Take(w, d)
        BY <3>3, <4>3, <4>4 DEF Promise!Take
      <4>6. QED
        BY <4>5 DEF Promise!Next
    <3>4. CASE row.kind # "CLAIM"
      <4>1. doc'[d].lease = NoLease
        BY <1>2, <2>2, <3>1, <3>4
        DEF IInv, LeaseIffWorking, HasLease, RoleOf, Moves, RoleOfKindOK
      <4>2. ho' = [ho EXCEPT ![d] = None]
        <5>1. doc'[d].lease.owner = None
          BY <4>1 DEF NoLease
        <5>2. QED
          BY <3>0, <5>1
      <4>3. Promise!Follow(d, row)
        BY <3>2 DEF Promise!Follow
      <4>4. Promise!Move(d)
        BY <3>4, <4>2, <4>3 DEF Promise!Move
      <4>5. QED
        BY <4>4 DEF Promise!Next
    <3>5. QED
      BY <3>3, <3>4
  <2>3. QED
    BY <1>2, <2>1, <2>2, StepForm DEF IInv
<1>3. QED
  BY <1>1, <1>2, Invariant, PTL DEF Spec, ImplementsLifecycle, Promise!Spec
============
