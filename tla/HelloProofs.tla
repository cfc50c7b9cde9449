---------------------------- MODULE HelloProofs ----------------------------
(***************************************************************************)
(* What is proved of Hello, for any number of runs and kills: its types,   *)
(* that the pin is counted once, and that the walk implements Lifecycle    *)
(* for both machines.                                                      *)
(***************************************************************************)
EXTENDS Hello, TLAPS

-----------------------------------------------------------------------------
(* The registry.                                                           *)

Kinds == {"CLAIM", "ADVANCE", "RETRY", "POISON", "SWEEP", "PAUSE", "RESUME", "OPS"}

\* No row leaves the state VERIFIED, and none leads to or from a document that is
\* not there.
LEMMA PublicationRow ==
  ASSUME NEW t \in PUBLICATION_TRANSITIONS
  PROVE  /\ t.source \in PinState \ {"VERIFIED"} /\ t.target \in PinState
         /\ t.kind \in Kinds
         /\ t.event = "VERIFY_OK" => t.target = "VERIFIED"
BY DEF PUBLICATION_TRANSITIONS, Stage, Transition, PinState, ActivePinStates, ResumablePinStates,
       Kinds

\* The ingest machine knows no verification.
LEMMA IngestRow ==
  ASSUME NEW t \in INGEST_TRANSITIONS
  PROVE  /\ t.source \in ProductState /\ t.target \in ProductState
         /\ t.kind \in Kinds
         /\ t.event # "VERIFY_OK"
BY DEF INGEST_TRANSITIONS, Stage, Transition, ProductState, Kinds

\* Both.
LEMMA RowFacts ==
  ASSUME NEW e \in Entity, NEW t \in Rows(e)
  PROVE  /\ t.source \in ProductState \cup PinState
         /\ t.target \in ProductState \cup PinState
         /\ t.source # "absent" /\ t.target # "absent"
         /\ e = "pin" => t.source # "VERIFIED"
         /\ t.event = "VERIFY_OK" => e = "pin" /\ t.target = "VERIFIED"
<1>1. "absent" \notin ProductState \cup PinState
  BY DEF ProductState, PinState, ActivePinStates
<1>2. CASE e = "product"
  <2>1. t \in INGEST_TRANSITIONS
    BY <1>2 DEF Rows
  <2> QED BY <1>1, <1>2, <2>1, IngestRow
<1>3. CASE e = "pin"
  <2>1. t \in PUBLICATION_TRANSITIONS
    BY <1>3 DEF Rows
  <2> QED BY <1>1, <1>3, <2>1, PublicationRow
<1> QED BY <1>2, <1>3 DEF Entity

-----------------------------------------------------------------------------
(***************************************************************************)
(* The inductive invariant.  The count and the verification are two        *)
(* writes, and the run that did the first may die before the second, so    *)
(* what a run remembers must agree with the documents: it verified only a  *)
(* pin that is VERIFIED now, which no row leaves, and not counted yet.     *)
(***************************************************************************)
VerifiedFirst ==
  walk.did_verify => docs["pin"].status = "VERIFIED" /\ account.counted = 0

IInv == TypeOK /\ VerifiedFirst /\ CountedOnce

Doc == [status : ProductState \cup PinState \cup {"absent"}, lease : Lease]

-----------------------------------------------------------------------------
(* What a step does to a document.                                         *)

Same(e) == docs'[e] = docs[e]

\* Inserted, at the first state of its machine.
Inserted(e) ==
  /\ docs[e] = Absent
  /\ docs'[e] = [status |-> IF e = "product" THEN "PENDING_FETCH" ELSE "QUEUED", lease |-> "none"]

Claimed(e) ==
  \E row \in Rows(e) :
    /\ row.kind = "CLAIM"
    /\ docs[e].status = row.source /\ docs[e].lease = "none"
    /\ docs'[e] = [status |-> row.target, lease |-> "held"]

Moved(e) ==
  \E row \in Rows(e) :
    /\ row.kind # "CLAIM"
    /\ docs[e].status = row.source
    /\ docs'[e] = [status |-> row.target, lease |-> "none"]

LeaseEnds(e) ==
  /\ docs[e].lease = "held"
  /\ docs'[e] = [status |-> docs[e].status, lease |-> "expired"]

\* The one document a step of the walk writes, and how.
LEMMA WriteOne ==
  ASSUME TypeOK, NEW e \in Entity, NEW new, docs' = [docs EXCEPT ![e] = new]
  PROVE  /\ docs'[e] = new
         /\ \A o \in Entity \ {e} : Same(o)
         /\ new \in Doc => docs' \in [Entity -> Doc]
BY DEF TypeOK, Same, Doc

\* A step leaves a document alone or does one of four things to it.
LEMMA DocumentSteps ==
  ASSUME TypeOK, [Next]_vars, NEW e \in Entity
  PROVE  Same(e) \/ Inserted(e) \/ Claimed(e) \/ Moved(e) \/ LeaseEnds(e)
<1>1. docs \in [Entity -> Doc] /\ "product" \in Entity /\ "pin" \in Entity
  BY DEF TypeOK, Doc, Entity
<1>2. CASE UNCHANGED docs
  BY <1>2 DEF Same
<1>3. ASSUME NEW o \in Entity, Sweep(o)
      PROVE  Same(e) \/ Moved(e)
  <2>1. CASE Reverted(o)
    <3>1. PICK row \in RowsWithKind(o, docs[o].status, "SWEEP") :
            docs' = [docs EXCEPT ![o] = [status |-> row.target, lease |-> "none"]]
      BY <2>1 DEF Reverted
    <3>2. row \in Rows(o) /\ docs[o].status = row.source /\ row.kind # "CLAIM"
      BY DEF RowsWithKind
    <3>3. PICK new : new = [status |-> row.target, lease |-> "none"]
      OBVIOUS
    <3>4. docs'[o] = new /\ \A x \in Entity \ {o} : Same(x)
      BY <3>1, <3>3, WriteOne
    <3> QED BY <3>2, <3>3, <3>4 DEF Moved
  <2>2. CASE UNCHANGED docs
    BY <2>2 DEF Same
  <2> QED BY <1>3, <2>1, <2>2 DEF Sweep
<1>4. ASSUME NEW o \in Entity, Claim(o)
      PROVE  Same(e) \/ Claimed(e)
  <2>1. PICK row \in RowsWithKind(o, docs[o].status, "CLAIM") :
          docs' = [docs EXCEPT ![o] = [status |-> row.target, lease |-> "held"]]
    BY <1>4 DEF Claim
  <2>2. /\ row \in Rows(o) /\ docs[o].status = row.source /\ row.kind = "CLAIM"
        /\ docs[o].lease = "none"
    BY <1>4 DEF RowsWithKind, Claim
  <2>3. PICK new : new = [status |-> row.target, lease |-> "held"]
    OBVIOUS
  <2>4. docs'[o] = new /\ \A x \in Entity \ {o} : Same(x)
    BY <2>1, <2>3, WriteOne
  <2> QED BY <2>2, <2>3, <2>4 DEF Claimed
<1>5. ASSUME NEW o \in Entity, Complete(o)
      PROVE  Same(e) \/ Moved(e)
  <2>1. PICK row \in RowsWithKind(o, docs[o].status, "ADVANCE") :
          docs' = [docs EXCEPT ![o] = Completed(o, row)]
    BY <1>5 DEF Complete
  <2>2. row \in Rows(o) /\ docs[o].status = row.source /\ row.kind # "CLAIM"
    BY DEF RowsWithKind
  <2>3. docs'[o] = Completed(o, row) /\ \A x \in Entity \ {o} : Same(x)
    BY <2>1, WriteOne
  <2> QED BY <2>2, <2>3 DEF Moved, Completed
<1>6. ASSUME NEW o \in Entity, docs[o] = Absent,
             docs' = [docs EXCEPT ![o].status = IF o = "product" THEN "PENDING_FETCH" ELSE "QUEUED"]
      PROVE  Same(e) \/ Inserted(e)
  <2>1. PICK first, new : /\ first = IF o = "product" THEN "PENDING_FETCH" ELSE "QUEUED"
                          /\ new = [status |-> first, lease |-> "none"]
    OBVIOUS
  <2>2. docs' = [docs EXCEPT ![o] = new]
    <3>1. docs' = [docs EXCEPT ![o] = [docs[o] EXCEPT !.status = first]]
      BY <1>1, <1>6, <2>1
    <3>2. [docs[o] EXCEPT !.status = first] = new
      BY <1>6, <2>1 DEF Absent
    <3> QED BY <3>1, <3>2
  <2>3. docs'[o] = new /\ \A x \in Entity \ {o} : Same(x)
    BY <2>2, WriteOne
  <2> QED BY <1>6, <2>1, <2>3 DEF Inserted
<1>7. CASE Upsert
  BY <1>1, <1>2, <1>6, <1>7 DEF Upsert
<1>8. CASE Gate
  BY <1>1, <1>2, <1>6, <1>8 DEF Gate
<1>9. CASE Tick
  <2>1. CASE docs' = [ o \in Entity |-> IF docs[o].lease = "held"
                         THEN [docs[o] EXCEPT !.lease = "expired"] ELSE docs[o] ]
    <3>1. CASE docs[e].lease = "held"
      <4>1. docs'[e] = [docs[e] EXCEPT !.lease = "expired"] /\ docs[e] \in Doc
        BY <1>1, <2>1, <3>1
      <4>2. [docs[e] EXCEPT !.lease = "expired"] = [status |-> docs[e].status, lease |-> "expired"]
        BY <4>1 DEF Doc
      <4> QED BY <3>1, <4>1, <4>2 DEF LeaseEnds
    <3>2. CASE docs[e].lease # "held"
      BY <2>1, <3>2 DEF Same
    <3> QED BY <3>1, <3>2
  <2> QED BY <1>2, <1>9, <2>1 DEF Tick
<1>10. CASE Start \/ Crash \/ IngestEnds \/ PublishEnds \/ Bump \/ UNCHANGED vars
  BY <1>2, <1>10 DEF Start, Crash, IngestEnds, PublishEnds, Bump, vars
<1> QED BY <1>3, <1>4, <1>5, <1>7, <1>8, <1>9, <1>10 DEF Next, RunStep

\* There are no other documents.
LEMMA DocumentsOnly ==
  ASSUME TypeOK, [Next]_vars
  PROVE  docs' = [e \in Entity |-> docs'[e]]
<1>1. docs \in [Entity -> Doc]
  BY DEF TypeOK, Doc
<1>2. CASE UNCHANGED docs
  BY <1>1, <1>2
<1>3. ASSUME NEW e, NEW new, docs' = [docs EXCEPT ![e] = new]
      PROVE  docs' = [x \in Entity |-> docs'[x]]
  BY <1>1, <1>3
<1>4. ASSUME NEW e \in Entity, Sweep(e) \/ Claim(e) \/ Complete(e)
      PROVE  docs' = [x \in Entity |-> docs'[x]]
  BY <1>2, <1>3, <1>4 DEF Sweep, Reverted, Claim, Complete
<1>5. CASE Upsert \/ Gate
  BY <1>1, <1>2, <1>3, <1>5 DEF Upsert, Gate
<1>6. CASE Tick
  BY <1>2, <1>6 DEF Tick
<1>7. CASE Start \/ Crash \/ IngestEnds \/ PublishEnds \/ Bump \/ UNCHANGED vars
  BY <1>2, <1>7 DEF Start, Crash, IngestEnds, PublishEnds, Bump, vars
<1> QED BY <1>4, <1>5, <1>6, <1>7 DEF Next, RunStep

\* So documents keep their type, and a verified pin stays verified.
LEMMA DocumentsKept ==
  ASSUME TypeOK, [Next]_vars
  PROVE  /\ docs' \in [Entity -> Doc]
         /\ docs["pin"].status = "VERIFIED" => docs'["pin"].status = "VERIFIED"
<1>1. ASSUME NEW e \in Entity
      PROVE  /\ docs'[e] \in Doc
             /\ e = "pin" /\ docs[e].status = "VERIFIED" => docs'[e].status = "VERIFIED"
  <2>1. docs[e] \in Doc
    BY DEF TypeOK, Doc
  <2>2. CASE Same(e)
    BY <2>1, <2>2 DEF Same
  <2>3. CASE Inserted(e)
    BY <2>3 DEF Inserted, Absent, Doc, Lease, ProductState, PinState, ActivePinStates
  <2>4. CASE Claimed(e)
    BY <2>4, RowFacts DEF Claimed, Doc, Lease
  <2>5. CASE Moved(e)
    BY <2>5, RowFacts DEF Moved, Doc, Lease
  <2>6. CASE LeaseEnds(e)
    BY <2>1, <2>6 DEF LeaseEnds, Doc, Lease
  <2> QED BY <2>2, <2>3, <2>4, <2>5, <2>6, DocumentSteps
<1> QED BY <1>1, DocumentsOnly DEF Entity

-----------------------------------------------------------------------------
(* The walk and the count.                                                 *)

\* The run keeps its type.
LEMMA WalkTyped ==
  ASSUME TypeOK, [Next]_vars
  PROVE  walk' \in Walk
<1>1. /\ walk \in Walk
      /\ \A outcome \in Outcome : Off(outcome) \in Walk
  BY DEF TypeOK, Off, Walk
<1>2. CASE UNCHANGED walk
  BY <1>1, <1>2
<1>3. ASSUME NEW outcome \in Outcome, End(outcome) PROVE walk' \in Walk
  BY <1>1, <1>3 DEF End
<1>4. ASSUME NEW pc \in {"ingest", "gate", "publish", "bump"}, Goto(pc) PROVE walk' \in Walk
  BY <1>1, <1>4 DEF Goto, Walk
<1>5. CASE Start
  BY <1>5 DEF Start, Off, Walk, Outcome
<1>6. ASSUME NEW e \in Entity, Sweep(e) PROVE walk' \in Walk
  BY <1>1, <1>6 DEF Sweep, Walk
<1>7. ASSUME NEW e \in Entity, Claim(e) PROVE walk' \in Walk
  BY <1>1, <1>7 DEF Claim, Walk
<1>8. ASSUME NEW e \in Entity, Complete(e) PROVE walk' \in Walk
  <2>1. PICK pc \in {"ingest", "publish"}, verified \in BOOLEAN :
          walk' = [walk EXCEPT !.pc = pc, !.claimed = "none", !.did_verify = verified]
    <3>1. PICK row : walk' = [walk EXCEPT !.pc = IF e = "product" THEN "ingest" ELSE "publish",
                                          !.claimed = "none",
                                          !.did_verify = @ \/ row.event = "VERIFY_OK"]
      BY <1>8 DEF Complete
    <3>2. PICK pc \in {"ingest", "publish"} : pc = IF e = "product" THEN "ingest" ELSE "publish"
      OBVIOUS
    <3>3. PICK verified \in BOOLEAN : verified = (walk.did_verify \/ row.event = "VERIFY_OK")
      OBVIOUS
    <3> QED BY <3>1, <3>2, <3>3
  <2> QED BY <1>1, <2>1 DEF Walk
<1>9. CASE Upsert
  BY <1>4, <1>9 DEF Upsert
<1>10. CASE IngestEnds \/ Gate \/ PublishEnds \/ Bump \/ Crash
  BY <1>3, <1>4, <1>10 DEF IngestEnds, Gate, PublishEnds, Bump, Crash, Outcome
<1>11. CASE Tick \/ UNCHANGED vars
  BY <1>2, <1>11 DEF Tick, vars
<1> QED BY <1>5, <1>6, <1>7, <1>8, <1>9, <1>10, <1>11 DEF Next, RunStep

\* Only a run that verified counts, and then it is over; only the completion of
\* VERIFY_OK makes a run one that verified.
LEMMA CountStep ==
  ASSUME TypeOK, [Next]_vars
  PROVE  /\ account' \in [counted : Nat, recent : BOOLEAN]
         /\ \/ account'.counted = account.counted
            \/ /\ walk.did_verify /\ account'.counted = account.counted + 1
               /\ ~walk'.did_verify /\ UNCHANGED docs
         /\ \/ ~walk'.did_verify
            \/ walk'.did_verify = walk.did_verify
            \/ /\ account'.counted = account.counted
               /\ docs["pin"].status # "VERIFIED" /\ docs'["pin"].status = "VERIFIED"
<1>1. /\ walk \in Walk /\ account \in [counted : Nat, recent : BOOLEAN]
      /\ docs \in [Entity -> Doc]
      /\ \A outcome : ~Off(outcome).did_verify
  BY DEF TypeOK, Off, Doc
<1>2. ASSUME NEW e \in Entity, Complete(e)
      PROVE  /\ UNCHANGED account
             /\ \/ walk'.did_verify = walk.did_verify
                \/ docs["pin"].status # "VERIFIED" /\ docs'["pin"].status = "VERIFIED"
  <2>1. PICK row \in RowsWithKind(e, docs[e].status, "ADVANCE") :
          /\ docs' = [docs EXCEPT ![e] = Completed(e, row)]
          /\ walk' = [walk EXCEPT !.pc = IF e = "product" THEN "ingest" ELSE "publish",
                                  !.claimed = "none",
                                  !.did_verify = @ \/ row.event = "VERIFY_OK"]
    BY <1>2 DEF Complete
  <2>2. row \in Rows(e) /\ docs[e].status = row.source
    BY DEF RowsWithKind
  <2>3. PICK verified : verified = (row.event = "VERIFY_OK")
    OBVIOUS
  <2>4. walk'.did_verify = (walk.did_verify \/ verified)
    BY <1>1, <2>1, <2>3 DEF Walk
  <2>5. CASE ~verified
    BY <1>1, <1>2, <2>4, <2>5, Zenon DEF Complete, Walk
  <2>6. CASE verified
    <3>1. e = "pin" /\ row.target = "VERIFIED" /\ row.source # "VERIFIED"
      BY <2>2, <2>3, <2>6, RowFacts
    <3>2. docs'[e] = Completed(e, row)
      BY <1>1, <2>1
    <3> QED BY <1>2, <2>2, <3>1, <3>2 DEF Complete, Completed
  <2> QED BY <2>5, <2>6
<1>3. ASSUME NEW e \in Entity, Sweep(e) \/ Claim(e)
      PROVE  UNCHANGED account /\ walk'.did_verify = walk.did_verify
  BY <1>1, <1>3 DEF Sweep, Claim, Walk
<1>4. CASE Start \/ Crash
  BY <1>1, <1>4 DEF Start, Crash, End, Off
<1>5. CASE Upsert \/ IngestEnds \/ Gate \/ PublishEnds
  <2>1. UNCHANGED account
    BY <1>5 DEF Upsert, IngestEnds, Gate, PublishEnds
  <2>2. (\E outcome : End(outcome)) \/ \E pc : Goto(pc)
    BY <1>5 DEF Upsert, IngestEnds, Gate, PublishEnds
  <2>3. ~walk'.did_verify \/ walk'.did_verify = walk.did_verify
    BY <1>1, <2>2 DEF End, Goto, Walk
  <2> QED BY <1>1, <2>1, <2>3
<1>6. CASE Bump
  <2>1. ~walk'.did_verify /\ UNCHANGED docs
    BY <1>1, <1>6 DEF Bump, End
  <2>2. CASE walk.did_verify
    <3>1. account' = [counted |-> account.counted + 1, recent |-> TRUE]
      BY <1>6, <2>2 DEF Bump
    <3>2. /\ account' \in [counted : Nat, recent : BOOLEAN]
          /\ account'.counted = account.counted + 1
      BY <1>1, <3>1
    <3> QED BY <2>1, <2>2, <3>2
  <2>3. CASE ~walk.did_verify
    <3>1. account' = account
      BY <1>6, <2>3 DEF Bump
    <3> QED BY <1>1, <2>1, <3>1
  <2> QED BY <2>2, <2>3
<1>7. CASE Tick \/ UNCHANGED vars
  BY <1>1, <1>7 DEF Tick, vars
<1> QED BY <1>1, <1>2, <1>3, <1>4, <1>5, <1>6, <1>7 DEF Next, RunStep

-----------------------------------------------------------------------------
(* The invariant, and the theorems.                                        *)

\* The invariant holds at first.
LEMMA InvInit == Init => IInv
<1> SUFFICES ASSUME Init PROVE IInv
  OBVIOUS
<1>1. TypeOK
  BY DEF Init, TypeOK, Absent, Lease, Off, Walk, Outcome
<1>2. VerifiedFirst /\ CountedOnce
  BY DEF Init, VerifiedFirst, CountedOnce, Off
<1> QED BY <1>1, <1>2 DEF IInv

\* Every step keeps the invariant.
LEMMA InvNext == IInv /\ [Next]_vars => IInv'
<1> SUFFICES ASSUME IInv, [Next]_vars PROVE IInv'
  OBVIOUS
<1>1. TypeOK
  BY DEF IInv
<1>2. clean' = clean
  BY DEF Next, RunStep, Start, Crash, Tick, Upsert, IngestEnds, Gate, PublishEnds, Bump,
         Sweep, Claim, Complete, vars
<1>3. TypeOK'
  BY <1>1, <1>2, DocumentsKept, WalkTyped, CountStep DEF TypeOK, Doc
<1>4. account.counted \in Nat /\ account'.counted \in Nat
  BY <1>1, <1>3 DEF TypeOK
<1>5. CountedOnce'
  BY <1>1, <1>4, DocumentsKept, CountStep DEF IInv, VerifiedFirst, CountedOnce
<1>6. VerifiedFirst'
  <2>1. SUFFICES ASSUME walk'.did_verify
                 PROVE  docs'["pin"].status = "VERIFIED" /\ account'.counted = 0
    BY DEF VerifiedFirst
  <2>2. account'.counted = account.counted
    BY <1>1, <2>1, CountStep
  <2>3. CASE walk'.did_verify = walk.did_verify
    <3>1. walk.did_verify
      BY <2>1, <2>3
    <3>2. docs["pin"].status = "VERIFIED" /\ account.counted = 0
      BY <3>1 DEF IInv, VerifiedFirst
    <3> QED BY <1>1, <2>2, <3>2, DocumentsKept
  <2>4. CASE docs["pin"].status # "VERIFIED" /\ docs'["pin"].status = "VERIFIED"
    BY <1>4, <2>2, <2>4 DEF IInv, CountedOnce
  <2> QED BY <1>1, <2>1, <2>3, <2>4, CountStep
<1> QED BY <1>3, <1>5, <1>6 DEF IInv

\* The invariant holds of every behaviour.
LEMMA InvHolds == Spec => []IInv
BY InvInit, InvNext, PTL DEF Spec

\* Every variable keeps its type, wherever a run is killed.
THEOREM TypeCorrect == Spec => []TypeOK
<1>1. IInv => TypeOK
  BY DEF IInv
<1> QED BY <1>1, InvHolds, PTL

\* bump_pin_stats: however often the walk is killed and started again, the pin
\* counts once at most, and not before it is VERIFIED.
THEOREM PinCountsOnce == Spec => []CountedOnce
<1>1. IInv => CountedOnce
  BY DEF IInv
<1> QED BY <1>1, InvHolds, PTL

-----------------------------------------------------------------------------
(* The refinement.  Each machine's promise sees a document's status, that  *)
(* of a document that is not there yet being the first of its machine, and *)
(* whether the walk holds it.                                              *)

First(e) == IF e = "product" THEN "PENDING_FETCH" ELSE "QUEUED"

Shown(e) == IF docs[e] = Absent THEN First(e) ELSE docs[e].status

\* What a step is to the promise: nothing, a Take, or a Move.
LEMMA ShownSteps ==
  ASSUME TypeOK, [Next]_vars, NEW e \in Entity
  PROVE  \/ UNCHANGED <<Shown(e), Holder(e)>>
         \/ \E row \in Rows(e) :
              /\ row.kind = "CLAIM"
              /\ Shown(e) = row.source /\ Shown(e)' = row.target
              /\ Holder(e) = "none" /\ Holder(e)' = "walk"
         \/ \E row \in Rows(e) :
              /\ row.kind # "CLAIM"
              /\ Shown(e) = row.source /\ Shown(e)' = row.target
              /\ Holder(e)' = "none"
<1>1. CASE Same(e)
  BY <1>1 DEF Same, Shown, Holder
<1>2. CASE Inserted(e)
  <2>1. PICK new : new = [status |-> First(e), lease |-> "none"]
    OBVIOUS
  <2>2. docs[e] = Absent /\ docs'[e] = new
    BY <1>2, <2>1 DEF Inserted, First
  <2>3. new.status = First(e) /\ new.lease = "none" /\ Absent.lease = "none"
    BY <2>1 DEF Absent
  <2> QED BY <2>2, <2>3 DEF Shown, Holder
<1>3. ASSUME NEW row \in Rows(e), docs[e].status = row.source
      PROVE  docs[e] # Absent /\ Shown(e) = row.source
  BY <1>3, RowFacts DEF Absent, Shown
<1>4. ASSUME NEW row \in Rows(e), NEW lease, docs'[e] = [status |-> row.target, lease |-> lease]
      PROVE  /\ Shown(e)' = row.target
             /\ Holder(e)' = IF lease = "none" THEN "none" ELSE "walk"
  <2>1. docs'[e].status = row.target /\ docs'[e].lease = lease
    BY <1>4
  <2>2. docs'[e] # Absent
    BY <2>1, RowFacts DEF Absent
  <2> QED BY <2>1, <2>2 DEF Shown, Holder
<1>5. CASE Claimed(e)
  <2>1. PICK row \in Rows(e) : /\ row.kind = "CLAIM"
                               /\ docs[e].status = row.source /\ docs[e].lease = "none"
                               /\ docs'[e] = [status |-> row.target, lease |-> "held"]
    BY <1>5 DEF Claimed
  <2>2. Shown(e) = row.source /\ Holder(e) = "none"
    BY <1>3, <2>1 DEF Holder
  <2>3. Shown(e)' = row.target /\ Holder(e)' = "walk"
    BY <1>4, <2>1
  <2> QED BY <2>1, <2>2, <2>3
<1>6. CASE Moved(e)
  <2>1. PICK row \in Rows(e) : /\ row.kind # "CLAIM"
                               /\ docs[e].status = row.source
                               /\ docs'[e] = [status |-> row.target, lease |-> "none"]
    BY <1>6 DEF Moved
  <2>2. Shown(e) = row.source
    BY <1>3, <2>1
  <2>3. Shown(e)' = row.target /\ Holder(e)' = "none"
    BY <1>4, <2>1
  <2> QED BY <2>1, <2>2, <2>3
<1>7. CASE LeaseEnds(e)
  <2>1. docs'[e].status = docs[e].status /\ docs'[e].lease = "expired" /\ docs[e].lease = "held"
    BY <1>7 DEF LeaseEnds
  <2>2. docs[e] # Absent /\ docs'[e] # Absent
    BY <2>1 DEF Absent
  <2> QED BY <2>1, <2>2 DEF Shown, Holder
<1> QED BY <1>1, <1>2, <1>5, <1>6, <1>7, DocumentSteps

\* run_hello drives each document along the rows of its machine, one at a time,
\* takes it from nobody, and lets it go with every other move.
THEOREM Refinement == Spec => HelloImplementsLifecycle
<1>1. Init => ProductPromise!Init /\ PinPromise!Init
  BY DEF Init, ProductPromise!Init, PinPromise!Init, Absent, Entity, Holder
<1>2. ASSUME TypeOK, [Next]_vars
      PROVE  ProductPromise!Next \/ UNCHANGED ProductPromise!vars
  <2>1. "product" \in Entity /\ Rows("product") = INGEST_TRANSITIONS
    BY DEF Entity, Rows
  <2>2. CASE UNCHANGED <<Shown("product"), Holder("product")>>
    BY <2>2 DEF ProductPromise!vars, Shown, First
  <2>3. ASSUME NEW row \in Rows("product"), row.kind = "CLAIM",
               Shown("product") = row.source, Shown("product")' = row.target,
               Holder("product") = "none", Holder("product")' = "walk"
        PROVE  ProductPromise!Next
    <3>1. ProductPromise!Take("walk", 1)
      BY <2>1, <2>3 DEF ProductPromise!Take, ProductPromise!Follow, Shown, First
    <3> QED BY <3>1 DEF ProductPromise!Next
  <2>4. ASSUME NEW row \in Rows("product"), row.kind # "CLAIM",
               Shown("product") = row.source, Shown("product")' = row.target, Holder("product")' = "none"
        PROVE  ProductPromise!Next
    <3>1. ProductPromise!Move(1)
      BY <2>1, <2>4 DEF ProductPromise!Move, ProductPromise!Follow, Shown, First
    <3> QED BY <3>1 DEF ProductPromise!Next
  <2>5. QED BY <1>2, <2>1, <2>2, <2>3, <2>4, ShownSteps
<1>3. ASSUME TypeOK, [Next]_vars
      PROVE  PinPromise!Next \/ UNCHANGED PinPromise!vars
  <2>1. "pin" \in Entity /\ Rows("pin") = PUBLICATION_TRANSITIONS
    BY DEF Entity, Rows
  <2>2. CASE UNCHANGED <<Shown("pin"), Holder("pin")>>
    BY <2>2 DEF PinPromise!vars, Shown, First
  <2>3. ASSUME NEW row \in Rows("pin"), row.kind = "CLAIM",
               Shown("pin") = row.source, Shown("pin")' = row.target,
               Holder("pin") = "none", Holder("pin")' = "walk"
        PROVE  PinPromise!Next
    <3>1. PinPromise!Take("walk", 1)
      BY <2>1, <2>3 DEF PinPromise!Take, PinPromise!Follow, Shown, First
    <3> QED BY <3>1 DEF PinPromise!Next
  <2>4. ASSUME NEW row \in Rows("pin"), row.kind # "CLAIM",
               Shown("pin") = row.source, Shown("pin")' = row.target, Holder("pin")' = "none"
        PROVE  PinPromise!Next
    <3>1. PinPromise!Move(1)
      BY <2>1, <2>4 DEF PinPromise!Move, PinPromise!Follow, Shown, First
    <3> QED BY <3>1 DEF PinPromise!Next
  <2>5. QED BY <1>3, <2>1, <2>2, <2>3, <2>4, ShownSteps
<1>4. Spec => []TypeOK
  BY TypeCorrect
<1>5. Spec => ProductPromise!Spec
  BY <1>1, <1>2, <1>4, PTL DEF Spec, ProductPromise!Spec
<1>6. Spec => PinPromise!Spec
  BY <1>1, <1>3, <1>4, PTL DEF Spec, PinPromise!Spec
<1> QED BY <1>5, <1>6, PTL DEF HelloImplementsLifecycle
=============================================================================
