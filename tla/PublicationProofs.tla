------------------------- MODULE PublicationProofs -------------------------
(***************************************************************************)
(* Theorems about Publication, for every number of documents and boards,   *)
(* every choice of faults and commands, and all limits that satisfy        *)
(* GovernorAssumption: caps that do not fall as an account ages.           *)
(***************************************************************************)
EXTENDS Publication, TLAPS, WellFoundedInduction, FiniteSetTheorems

-----------------------------------------------------------------------------
(* Numbers.                                                                *)

\* The least of some natural numbers is one of them.
LEMMA MinOfNats ==
  ASSUME NEW S, S \subseteq Nat, S # {}
  PROVE  Min(S) \in S
<1> DEFINE T == { 1 .. n : n \in S }
<1>1. T \subseteq FiniteSubsetsOf(Nat) /\ T # {}
  <2>1. ASSUME NEW n \in S PROVE 1 .. n \in SUBSET Nat /\ IsFiniteSet(1 .. n)
    BY <2>1, FS_Interval
  <2>2. QED
    BY <2>1 DEF FiniteSubsetsOf
<1>2. PICK X \in T : \A Y \in T : <<Y, X>> \notin StrictSubsetOrdering(Nat)
  BY <1>1, FS_StrictSubsetOrderingWellFounded, WFMin
<1>3. PICK x \in S : X = 1 .. x
  BY <1>2
<1>4. \A y \in S : x =< y
  <2>1. SUFFICES ASSUME NEW y \in S, y < x PROVE FALSE
    OBVIOUS
  <2>2. 1 .. y \subseteq 1 .. x /\ x \in 1 .. x /\ x \notin 1 .. y
    BY <2>1
  <2>3. <<1 .. y, 1 .. x>> \in StrictSubsetOrdering(Nat)
    BY <2>2 DEF StrictSubsetOrdering
  <2>4. QED
    BY <1>2, <1>3, <2>3
<1>5. QED
  BY <1>4 DEF Min

-----------------------------------------------------------------------------
(* The publication machine.                                                *)

Working == {"ENRICHING", "BRIDGING", "PINNING", "VERIFYING"}

\* Where a stage in progress started from.
StartOf(state) ==
  CASE state = "ENRICHING" -> "QUEUED"
    [] state = "BRIDGING"  -> "ENRICHED"
    [] state = "PINNING"   -> "BRIDGED"
    [] state = "VERIFYING" -> "PINNED"

\* The roles, as sets of states.
LEMMA Roles ==
  ASSUME NEW s \in PinState
  PROVE  /\ PUBLICATION_ROLES[s] = "WORKING" <=> s \in Working
         /\ PUBLICATION_ROLES[s] = "IDLE" <=> s \in ResumablePinStates
         /\ PUBLICATION_ROLES[s] = "TERMINAL" <=> s \in {"VERIFIED", "DEAD"}
         /\ PUBLICATION_ROLES[s] = "PAUSED" <=> s = "PAUSED"
BY DEF PUBLICATION_ROLES, PinState, ActivePinStates, ResumablePinStates, Working

\* The rows, event by event and kind by kind.
LEMMA Rows ==
  ASSUME NEW t \in PUBLICATION_TRANSITIONS
  PROVE  /\ t.event = "ENRICH_OK"    => t.source = "ENRICHING" /\ t.target = "ENRICHED"
         /\ t.event = "BRIDGE_OK"    => t.source = "BRIDGING" /\ t.target = "BRIDGED"
         /\ t.event = "PIN_OK"       => t.source = "PINNING" /\ t.target = "PINNED"
         /\ t.event = "VERIFY_OK"    => t.source = "VERIFYING" /\ t.target = "VERIFIED"
         /\ t.event \in {"CLAIM_ENRICH", "CLAIM_BRIDGE", "CLAIM_PIN", "CLAIM_VERIFY"}
              => t.target \in Working /\ t.source = StartOf(t.target)
         /\ t.kind \in {"RETRY", "SWEEP"} => t.source \in Working /\ t.target = StartOf(t.source)
         /\ t.kind = "POISON"             => t.source \in Working /\ t.target = "DEAD"
BY DEF PUBLICATION_TRANSITIONS, Stage, Transition, ActivePinStates, ResumablePinStates,
       Working, StartOf

\* A stage that is swept, or paused, begins again.
LEMMA SweepTargets == \A s \in Working : SweepTarget(s) = StartOf(s)
<1> TAKE s \in Working
<1>1. Transition("SWEEP_EXPIRED", s, StartOf(s), "SWEEP") \in SweepRows(s)
  BY DEF SweepRows, TransitionsFrom, PUBLICATION_TRANSITIONS, Stage, Transition, Working, StartOf
<1>2. \A t \in SweepRows(s) : t.target = StartOf(s)
  BY Rows DEF SweepRows, TransitionsFrom
<1>3. QED
  BY <1>1, <1>2 DEF SweepTarget

-----------------------------------------------------------------------------
(* What holds of a document by itself.                                     *)

Standing(e) == IF e.status = "PAUSED" THEN e.paused_from ELSE e.status

Published(e) == Standing(e) \in {"PINNED", "VERIFYING", "VERIFIED"}

\* A paused document can be resumed; what comes after a stage has what the stage
\* made; and what was bridged had content, also when it was requeued since.
Sound(e) ==
  /\ e.status = "PAUSED" => e.paused_from # None
  /\ Standing(e) \in PinState \ {"QUEUED", "ENRICHING", "DEAD"} => e.board # None
  /\ Standing(e) \in {"BRIDGED", "PINNING", "PINNED", "VERIFYING", "VERIFIED"} => e.link # None
  /\ e.link # None => e.board # None

\* What every operation but those of the stages' ends does with a document.
Kept(e, f) ==
  /\ f \in Doc /\ Sound(f)
  /\ f.board = e.board /\ f.pinned_on = e.pinned_on
  /\ f.link \in {e.link, None}
  /\ Published(f) => Published(e)

\* ... and it begins no stage and ends the last one with success only when it is
\* the run's.
KeptBack(e, f) ==
  /\ Kept(e, f)
  /\ f.status \in Working \cup {"VERIFIED"} => f.status = e.status

\* The numbers a document carries stay in their ranges.
LEMMA Counters ==
  /\ MAX_ATTEMPTS \in Nat /\ BACKOFF \in Nat /\ LEASE_TTL \in Nat
  /\ \A n \in Nat : UpTo(MAX_ATTEMPTS, n + 1) \in 0 .. MAX_ATTEMPTS
  /\ 0 \in 0 .. MAX_ATTEMPTS
  /\ 0 \in 0 .. BACKOFF /\ BACKOFF \in 0 .. BACKOFF
  /\ 0 \in 0 .. LEASE_TTL /\ LEASE_TTL \in 0 .. LEASE_TTL
BY PublicationAssumption DEF UpTo

\* None is no state.
LEMMA NoneIsNoState == None \notin PinState /\ None \notin ResumablePinStates /\ None \notin Boards
BY PublicationAssumption DEF PinState, ActivePinStates, ResumablePinStates

\* The sweep.
LEMMA SweptKeeps ==
  ASSUME NEW e \in Doc, Sound(e)
  PROVE  KeptBack(e, Swept(e))
<1>1. CASE ~(PUBLICATION_ROLES[e.status] = "WORKING" /\ e.lease = 0)
  BY <1>1 DEF Swept, KeptBack, Kept
<1>2. CASE PUBLICATION_ROLES[e.status] = "WORKING" /\ e.lease = 0
  <2>1. e.status \in Working /\ SweepTarget(e.status) = StartOf(e.status)
    BY <1>2, Roles, SweepTargets DEF Doc
  <2>2. UpTo(MAX_ATTEMPTS, e.count + 1) \in 0 .. MAX_ATTEMPTS
    BY Counters DEF Doc
  <2> DEFINE f == [ e EXCEPT !.status = StartOf(e.status),
                             !.count = UpTo(MAX_ATTEMPTS, @ + 1), !.wait = BACKOFF ]
  <2>3. Swept(e) = f
    BY <1>2, <2>1 DEF Swept
  <2>4. KeptBack(e, f)
    BY <2>1, <2>2, Counters
    DEF Doc, KeptBack, Kept, Sound, Published, Standing, Working, StartOf, PinState, ActivePinStates
  <2>5. QED
    BY <2>3, <2>4
<1>3. QED
  BY <1>1, <1>2

\* fail_doc.
LEMMA FailedKeeps ==
  ASSUME NEW e \in Doc, Sound(e), NEW class, NEW f \in Failed(e, class)
  PROVE  KeptBack(e, f) /\ e.status \in Working
<1> DEFINE poison == class = "PERMANENT" \/ (class = "TRANSIENT" /\ e.count + 1 >= MAX_ATTEMPTS)
<1>1. PICK row \in TransitionOfKind(e.status, IF poison THEN "POISON" ELSE "RETRY") :
        f = [ e EXCEPT !.status = row.target, !.lease = 0,
                       !.count = UpTo(MAX_ATTEMPTS, e.count + 1),
                       !.wait = IF poison THEN 0 ELSE BACKOFF ]
  BY DEF Failed
<1>2. e.status \in Working /\ row.target \in {"DEAD", StartOf(e.status)}
  BY <1>1, Rows DEF TransitionOfKind, RowsWithKind
<1>3. UpTo(MAX_ATTEMPTS, e.count + 1) \in 0 .. MAX_ATTEMPTS
  BY Counters DEF Doc
<1>4. KeptBack(e, f)
  BY <1>1, <1>2, <1>3, Counters
  DEF Doc, KeptBack, Kept, Sound, Published, Standing, Working, StartOf, PinState, ActivePinStates
<1>5. QED
  BY <1>2, <1>4

\* The two halves of the kill switch.
LEMMA PauseKeeps ==
  ASSUME NEW e \in Doc, Sound(e)
  PROVE  KeptBack(e, PauseDoc(e)) /\ KeptBack(e, ResumeDoc(e))
<1>1. KeptBack(e, ResumeDoc(e))
  <2>1. CASE e.status = "PAUSED" /\ e.paused_from # None
    <3>1. PICK f : f = [e EXCEPT !.status = e.paused_from, !.paused_from = None]
      OBVIOUS
    <3>0. e.paused_from \in ResumablePinStates /\ ResumablePinStates \subseteq PinState
      BY <2>1 DEF Doc, PinState, ActivePinStates, ResumablePinStates
    <3>2. /\ e.paused_from \in ResumablePinStates
          /\ f \in Doc /\ f.status = e.paused_from /\ f.paused_from = None
          /\ f.board = e.board /\ f.link = e.link /\ f.pinned_on = e.pinned_on
      BY <3>0, <3>1 DEF Doc
    <3>3. Standing(f) = Standing(e) /\ f.status \notin Working \cup {"VERIFIED", "PAUSED"}
      BY <2>1, <3>2 DEF Standing, Working, ResumablePinStates
    <3>4. QED
      BY <2>1, <3>1, <3>2, <3>3 DEF ResumeDoc, KeptBack, Kept, Sound, Published
  <2>2. CASE ~(e.status = "PAUSED" /\ e.paused_from # None)
    BY <2>2 DEF ResumeDoc, KeptBack, Kept
  <2>3. QED
    BY <2>1, <2>2
<1>2. CASE e.status \in Working
  <2>1. PauseDoc(e) = [e EXCEPT !.status = "PAUSED", !.lease = 0, !.paused_from = StartOf(e.status)]
    BY <1>2, Roles, SweepTargets DEF PauseDoc, Doc
  <2>2. QED
    BY <1>1, <1>2, <2>1, Counters, NoneIsNoState
    DEF Doc, KeptBack, Kept, Sound, Published, Standing, Working, StartOf, PinState,
        ActivePinStates, ResumablePinStates
<1>3. CASE e.status \in ResumablePinStates
  <2>1. PauseDoc(e) = [e EXCEPT !.status = "PAUSED", !.lease = 0, !.paused_from = e.status]
    BY <1>3, Roles DEF PauseDoc, Doc, ResumablePinStates, Working
  <2> DEFINE f == [e EXCEPT !.status = "PAUSED", !.lease = 0, !.paused_from = e.status]
  <2>2. f \in Doc
    BY <1>3, Counters DEF Doc, PinState
  <2>3. e.status # "PAUSED" /\ e.status # None
    BY <1>3, NoneIsNoState DEF ResumablePinStates
  <2>4. f.status = "PAUSED" /\ Standing(f) = Standing(e)
    BY <2>3 DEF Standing, Doc
  <2>5. KeptBack(e, f)
    BY <2>2, <2>3, <2>4 DEF Doc, KeptBack, Kept, Sound, Published, Working
  <2>6. QED
    BY <1>1, <2>1, <2>5
<1>4. CASE e.status \notin Working \cup ResumablePinStates
  <2>1. PauseDoc(e) = e
    BY <1>4, Roles, Zenon DEF PauseDoc, Doc
  <2>2. QED
    BY <1>1, <2>1 DEF KeptBack, Kept
<1>5. QED
  BY <1>2, <1>3, <1>4

\* A requeue, the second half of wiring a domain, and time.
LEMMA OthersKeep ==
  ASSUME NEW e \in Doc, Sound(e)
  PROVE  /\ e.status = "DEAD" =>
              KeptBack(e, [e EXCEPT !.status = "QUEUED", !.count = 0, !.wait = 0])
         /\ e.link # None /\ e.status \in {"BRIDGED", "PAUSED"} =>
              KeptBack(e, [e EXCEPT !.status = "ENRICHED", !.link = None])
         /\ KeptBack(e, [e EXCEPT !.wait = Older(@), !.lease = Older(@)])
         /\ KeptBack(e, e)
<1>1. Older(e.wait) \in 0 .. BACKOFF /\ Older(e.lease) \in 0 .. LEASE_TTL
  BY Counters DEF Doc, Older
<1>2. QED
  BY <1>1, Counters
  DEF Doc, KeptBack, Kept, Sound, Published, Standing, Working, PinState, ActivePinStates

\* A claim.
LEMMA ClaimKeeps ==
  ASSUME NEW e \in Doc, Sound(e), NEW event \in {"CLAIM_ENRICH", "CLAIM_BRIDGE", "CLAIM_PIN", "CLAIM_VERIFY"},
         NEW row \in TransitionFor(e.status, event)
  PROVE  /\ row.target \in Working
         /\ Kept(e, [e EXCEPT !.status = row.target, !.lease = LEASE_TTL, !.paused_from = None])
<1>1. row.target \in Working /\ e.status = StartOf(row.target)
  BY Rows DEF TransitionFor, TransitionsFrom
<1>2. QED
  BY <1>1, Counters
  DEF Doc, Kept, Sound, Published, Standing, Working, StartOf, PinState, ActivePinStates

-----------------------------------------------------------------------------
(* The forms of a step.                                                    *)

\* A run has a document in hand, and is on its way to a pin of it.
InHand  == {"stage", "reconcile", "create", "create_again", "pin_ok", "refresh"}
Pinning == {"reconcile", "create", "create_again", "pin_ok"}

AllKept == pin' \in [Docs -> Doc] /\ \A d \in Docs : Kept(pin[d], pin'[d])

AllKeptBack == pin' \in [Docs -> Doc] /\ \A d \in Docs : KeptBack(pin[d], pin'[d])

AllSound == \A d \in Docs : Sound(pin[d])

\* A step that replaces one document, or none.
LEMMA OneDoc ==
  ASSUME pin \in [Docs -> Doc], AllSound, NEW d \in Docs, NEW f, KeptBack(pin[d], f),
         pin' = [pin EXCEPT ![d] = f]
  PROVE  AllKeptBack
<1>1. ASSUME NEW e \in Docs PROVE KeptBack(pin[e], pin'[e]) /\ pin'[e] \in Doc
  <2>1. CASE e = d
    BY <2>1 DEF KeptBack, Kept
  <2>2. CASE e # d
    <3>1. pin'[e] = pin[e] /\ pin[e] \in Doc /\ Sound(pin[e])
      BY <2>2 DEF AllSound
    <3>2. QED
      BY <3>1 DEF KeptBack, Kept
  <2>3. QED
    BY <2>1, <2>2
<1>2. pin' \in [Docs -> Doc]
  BY <1>1
<1>3. QED
  BY <1>1, <1>2 DEF AllKeptBack

\* A step that keeps the one document it writes keeps all.
LEMMA OneDocKept ==
  ASSUME pin \in [Docs -> Doc], AllSound, NEW d \in Docs, NEW f, Kept(pin[d], f),
         pin' = [pin EXCEPT ![d] = f]
  PROVE  AllKept
<1>1. ASSUME NEW e \in Docs PROVE Kept(pin[e], pin'[e]) /\ pin'[e] \in Doc
  <2>1. CASE e = d
    BY <2>1 DEF Kept
  <2>2. CASE e # d
    <3>1. pin'[e] = pin[e] /\ pin[e] \in Doc /\ Sound(pin[e])
      BY <2>2 DEF AllSound
    <3>2. QED
      BY <3>1 DEF Kept
  <2>3. QED
    BY <2>1, <2>2
<1>2. pin' \in [Docs -> Doc]
  BY <1>1
<1>3. QED
  BY <1>1, <1>2 DEF AllKept

\* A step that writes none keeps all.
LEMMA NoDoc ==
  ASSUME pin \in [Docs -> Doc], AllSound, pin' = pin
  PROVE  AllKeptBack
BY DEF AllSound, AllKeptBack, KeptBack, Kept

\* A stage that raises is failed, or has nothing in hand any more.
LEMMA RaiseForm ==
  ASSUME pin \in [Docs -> Doc], AllSound, run.doc \in Docs, NEW class, Raise(class)
  PROVE  AllKeptBack /\ run' \in {Off, NextTurn}
<1>1. CASE UNCHANGED pin
  BY <1>1, NoDoc DEF Raise
<1>2. CASE ~UNCHANGED pin
  <2>1. PICK f \in Failed(pin[run.doc], IF run.retried THEN "TRANSIENT" ELSE class) :
          pin' = [pin EXCEPT ![run.doc] = f]
    BY <1>2 DEF Raise
  <2>2. KeptBack(pin[run.doc], f)
    BY FailedKeeps DEF AllSound
  <2>3. QED
    BY <2>1, <2>2, OneDoc DEF Raise
<1>3. QED
  BY <1>1, <1>2

\* What transition_doc makes of a document that its stage has patched.
Ended(patched, row) ==
  [ patched EXCEPT !.status = row.target, !.count = 0, !.wait = 0, !.lease = 0,
                   !.paused_from = None ]

\* A stage that emits its event advances its document, or raises.
LEMMA EmitForm ==
  ASSUME NEW event, NEW patched, NEW next, Emit(event, patched, next)
  PROVE  \/ Raise("TRANSIENT")
         \/ /\ run' = next
            /\ \E row \in TransitionFor(patched.status, event) :
                 pin' = [pin EXCEPT ![run.doc] = Ended(patched, row)]
BY DEF Emit, Advanced, Ended

\* A row of an event that ends a stage.
LEMMA AdvanceRow ==
  ASSUME NEW s, NEW event, NEW row \in TransitionFor(s, event)
  PROVE  /\ event = "ENRICH_OK" => s = "ENRICHING" /\ row.target = "ENRICHED"
         /\ event = "BRIDGE_OK" => s = "BRIDGING" /\ row.target = "BRIDGED"
         /\ event = "PIN_OK"    => s = "PINNING" /\ row.target = "PINNED"
         /\ event = "VERIFY_OK" => s = "VERIFYING" /\ row.target = "VERIFIED"
BY Rows DEF TransitionFor, TransitionsFrom

-----------------------------------------------------------------------------
(* The invariant of the documents, the run and Pinterest.                  *)

\* The document a run has in hand may have been paused, resumed and wired
\* meanwhile, but it is in no stage other than the run's.
RunInv ==
  /\ run.pc \in InHand => /\ run.doc \in Docs /\ run.stage \in Working
                          /\ pin[run.doc].status \in Working \cup {"VERIFIED"} =>
                               pin[run.doc].status = run.stage
  /\ run.pc \in InHand \cup {"claim"} => run.domain \in Domain
  /\ run.pc \in InHand /\ run.stage = "PINNING" =>
       /\ run.link \in Domain
       /\ pin[run.doc].status = "PINNING" => pin[run.doc].link = run.link
  /\ run.pc \in Pinning => run.stage = "PINNING" /\ run.board \in Boards

\* A run that is about to create a pin has found none with its link on that board,
\* unless it fell back on it.
FreshInv ==
  /\ run.pc = "create" /\ ~run.fallback => pinterest[run.doc][run.link][run.board] = 0
  /\ run.pc = "create_again" => run.fallback

\* A run that is about to record a pin has created or found it.
FoundInv ==
  run.pc = "pin_ok" /\ run.board \notin deleted => pinterest[run.doc][run.link][run.board] > 0

Core == AllSound /\ RunInv /\ PinIsReal /\ FreshInv /\ FoundInv

Links == [Docs -> [Domain -> [Boards -> 0 .. 2]]]

\* There are pins with a link on the boards that stand where there were some.
LinksStand ==
  /\ deleted \subseteq deleted'
  /\ \A d \in Docs, l \in Domain, b \in Boards \ deleted' :
       pinterest[d][l][b] > 0 => pinterest'[d][l][b] > 0

FewerLinks ==
  /\ pinterest' \in Links
  /\ \A d \in Docs, l \in Domain, b \in Boards : pinterest'[d][l][b] <= pinterest[d][l][b]

\* Pins stay real while documents are kept and links stand.
LEMMA RealStep ==
  ASSUME PinIsReal, AllKept, LinksStand
  PROVE  PinIsReal'
<1> SUFFICES ASSUME NEW d \in Docs, Published(pin'[d])
             PROVE  /\ pin'[d].pinned_on # None /\ pin'[d].pinned_on = pin'[d].board
                    /\ pin'[d].board \notin deleted' =>
                         pinterest'[d][pin'[d].link][pin'[d].board] > 0
  BY DEF PinIsReal, Stands, Published, Standing
<1>1. /\ pin'[d] \in Doc /\ pin'[d].board = pin[d].board /\ pin'[d].pinned_on = pin[d].pinned_on
      /\ Published(pin[d]) /\ pin'[d].link = pin[d].link /\ pin'[d].link \in Domain
  BY DEF AllKept, Kept, Sound, Published, Doc
<1>2. /\ pin[d].pinned_on # None /\ pin[d].pinned_on = pin[d].board
      /\ pin[d].board \notin deleted => pinterest[d][pin[d].link][pin[d].board] > 0
  BY <1>1 DEF PinIsReal, Stands, Published, Standing
<1>3. pin[d].board \in Boards
  BY <1>1, <1>2 DEF Doc
<1>4. QED
  BY <1>1, <1>2, <1>3 DEF LinksStand

\* A step after which no document is in hand.
LEMMA HandEmpty ==
  ASSUME PinIsReal, AllKept, LinksStand, run'.pc \notin InHand,
         run'.pc = "claim" => run'.domain \in Domain
  PROVE  Core'
<1>1. AllSound'
  BY DEF AllKept, Kept, AllSound
<1>2. QED
  BY <1>1, RealStep DEF Core, RunInv, FreshInv, FoundInv, InHand, Pinning

\* A step of somebody else.
LEMMA HandSame ==
  ASSUME TypeOK, Core, AllKeptBack, LinksStand,
         FewerLinks, run'.pc = run.pc, run'.doc = run.doc, run'.stage = run.stage,
         run'.board = run.board, run'.fallback = run.fallback,
         run'.link = run.link, run'.domain = run.domain
  PROVE  Core'
<1>1. AllKept /\ AllSound'
  BY DEF AllKeptBack, KeptBack, AllKept, Kept, AllSound
<1>2. PinIsReal'
  BY <1>1, RealStep DEF Core
<1>3. CASE run.pc \notin InHand
  BY <1>1, <1>2, <1>3 DEF Core, RunInv, FreshInv, FoundInv, InHand, Pinning
<1>4. CASE run.pc \in InHand
  <2>1. /\ run.doc \in Docs
        /\ run.pc \in Pinning => run.board \in Boards /\ run.link \in Domain
    BY <1>4 DEF Core, RunInv, InHand, Pinning
  <2>2. /\ pin'[run.doc].status \in Working \cup {"VERIFIED"} =>
             pin'[run.doc].status = pin[run.doc].status
        /\ pin'[run.doc].status = "PINNING" => pin'[run.doc].link = pin[run.doc].link
    BY <2>1 DEF AllKeptBack, KeptBack, Kept, Sound, Standing
  <2>3. RunInv'
    BY <1>4, <2>1, <2>2 DEF Core, RunInv, Working
  <2>4. FreshInv'
    <3>1. ASSUME run.pc = "create", ~run.fallback
          PROVE  pinterest'[run.doc][run.link][run.board] = 0
      <4>1. pinterest[run.doc][run.link][run.board] = 0 /\ run.board \in Boards /\ run.link \in Domain
        BY <2>1, <3>1 DEF Core, FreshInv, Pinning
      <4>2. /\ pinterest'[run.doc][run.link][run.board] <= 0
            /\ pinterest'[run.doc][run.link][run.board] \in 0 .. 2
        BY <2>1, <4>1 DEF FewerLinks, Links
      <4>3. QED
        BY <4>2
    <3>2. QED
      BY <3>1 DEF Core, FreshInv
  <2>5. FoundInv'
    BY <2>1 DEF Core, FoundInv, LinksStand, Pinning
  <2>6. QED
    BY <1>1, <1>2, <2>3, <2>4, <2>5 DEF Core
<1>5. QED
  BY <1>3, <1>4

\* Most steps leave Pinterest alone, and a run that ends its turn has nothing in hand.
LEMMA LinksSame ==
  ASSUME UNCHANGED <<pinterest, deleted>>
  PROVE  LinksStand
BY DEF LinksStand

\* A document that is kept, or sent back, is kept.
LEMMA KeptBackIsKept == AllKeptBack => AllKept
BY DEF AllKeptBack, AllKept, KeptBack

\* The run that is over, and the one at its next turn.
LEMMA TurnFields ==
  /\ Off.pc = "off"
  /\ NextTurn.pc = "loop" /\ NextTurn.done = run.done /\ NextTurn.boost = run.boost
BY DEF Off, NextTurn

\* A step that ends the turn keeps the core.
LEMMA TurnEnds ==
  ASSUME TypeOK, Core, AllKept, LinksStand, run' \in {Off, NextTurn}
  PROVE  Core' /\ pin' \in [Docs -> Doc]
<1>1. run'.pc \notin InHand /\ run'.pc # "claim"
  BY TurnFields DEF InHand
<1>2. QED
  BY <1>1, HandEmpty DEF Core, AllKept

\* A stage that raises ends the turn.
LEMMA RaiseCore ==
  ASSUME TypeOK, Core, run.doc \in Docs, NEW class, Raise(class), LinksStand
  PROVE  Core' /\ pin' \in [Docs -> Doc]
BY RaiseForm, TurnEnds, KeptBackIsKept DEF TypeOK, Core

\* A stage's end that keeps what there was of its document.
LEMMA StageEnds ==
  ASSUME TypeOK, Core, run.doc \in Docs, NEW f, f \in Doc, Sound(f), ~Published(f),
         pin' = [pin EXCEPT ![run.doc] = f], run' = NextTurn, UNCHANGED <<pinterest, deleted>>
  PROVE  Core' /\ pin' \in [Docs -> Doc]
<1>0. pin \in [Docs -> Doc] /\ AllSound
  BY DEF TypeOK, Core
<1>1. pin' \in [Docs -> Doc] /\ AllSound'
  BY <1>0 DEF AllSound
<1>2. PinIsReal'
  <2>1. ASSUME NEW d \in Docs, Published(pin'[d])
        PROVE  /\ pin'[d].pinned_on # None /\ pin'[d].pinned_on = pin'[d].board
               /\ pin'[d].board \notin deleted' =>
                    pinterest'[d][pin'[d].link][pin'[d].board] > 0
    <3>1. d # run.doc /\ pin'[d] = pin[d]
      BY <1>0, <2>1
    <3>2. QED
      BY <2>1, <3>1 DEF Core, PinIsReal, Stands, Published, Standing
  <2>2. QED
    BY <2>1 DEF PinIsReal, Stands, Published, Standing
<1>3. QED
  BY <1>1, <1>2, TurnFields DEF Core, RunInv, FreshInv, FoundInv, InHand, Pinning

\* The content, and the bridge.
LEMMA EnrichBridgeCore ==
  ASSUME TypeOK, Core, Enrich \/ Bridge
  PROVE  Core' /\ pin' \in [Docs -> Doc]
<1> DEFINE e == pin[run.doc]
<1>1. run.doc \in Docs /\ UNCHANGED <<pinterest, deleted>>
  BY DEF Enrich, Bridge, Core, RunInv, InStage, At, InHand
<1>2. e \in Doc /\ Sound(e) /\ LinksStand
  BY <1>1, LinksSame DEF TypeOK, Core, AllSound
<1>3. CASE Enrich
  <2>1. PICK board \in Boards : Emit("ENRICH_OK", [e EXCEPT !.board = board], NextTurn)
    BY <1>3 DEF Enrich, TypeOK, Run
  <2>2. CASE Raise("TRANSIENT")
    BY <1>1, <1>2, <2>2, RaiseCore
  <2>3. CASE ~Raise("TRANSIENT")
    <3>1. PICK row \in TransitionFor([e EXCEPT !.board = board].status, "ENRICH_OK") :
            /\ run' = NextTurn
            /\ pin' = [pin EXCEPT ![run.doc] = Ended([e EXCEPT !.board = board], row)]
      BY <2>1, <2>3, EmitForm
    <3> DEFINE f == Ended([e EXCEPT !.board = board], row)
    <3>2. row.target = "ENRICHED"
      BY AdvanceRow
    <3>3. f \in Doc /\ Sound(f) /\ ~Published(f)
      BY <1>2, <3>2, Counters, NoneIsNoState
      DEF Doc, Sound, Published, Standing, PinState, ActivePinStates, Ended
    <3>4. QED
      BY <1>1, <3>1, <3>3, StageEnds
  <2>4. QED
    BY <2>2, <2>3
<1>4. CASE Bridge
  <2>0. run.domain \in Domain
    BY <1>4 DEF Bridge, InStage, At, Core, RunInv, InHand
  <2>01. \E h : h = [e EXCEPT !.link = run.domain] /\ Emit("BRIDGE_OK", h, NextTurn)
    BY <1>4 DEF Bridge
  <2>1. PICK h : h = [e EXCEPT !.link = run.domain] /\ Emit("BRIDGE_OK", h, NextTurn)
    BY <2>01
  <2>11. Emit("BRIDGE_OK", h, NextTurn)
    BY <2>1
  <2>2. CASE Raise("TRANSIENT")
    BY <1>1, <1>2, <2>2, RaiseCore
  <2>3. CASE ~Raise("TRANSIENT")
    <3>1. PICK row \in TransitionFor(h.status, "BRIDGE_OK") :
            /\ run' = NextTurn
            /\ pin' = [pin EXCEPT ![run.doc] = Ended(h, row)]
      BY <2>11, <2>3, EmitForm
    <3> DEFINE f == Ended(h, row)
    <3>2. row.target = "BRIDGED" /\ e.status = "BRIDGING"
      BY <1>2, <2>1, AdvanceRow DEF Doc
    <3>3. f \in Doc /\ Sound(f) /\ ~Published(f)
      BY <1>2, <2>0, <2>1, <3>2, Counters, NoneIsNoState, PublicationAssumption
      DEF Doc, Sound, Published, Standing, PinState, ActivePinStates, Ended
    <3>4. QED
      BY <1>1, <3>1, <3>3, StageEnds
  <2>4. QED
    BY <2>2, <2>3
<1>5. QED
  BY <1>3, <1>4

\* A pin that was created or found is recorded on the board it is on.
LEMMA PinOkCore ==
  ASSUME TypeOK, Core, PinOk
  PROVE  Core' /\ pin' \in [Docs -> Doc]
<1> DEFINE e == pin[run.doc]
           g == [e EXCEPT !.pinned_on = run.board, !.board = run.board]
<1>1. /\ run.doc \in Docs /\ run.board \in Boards /\ run.pc = "pin_ok"
      /\ UNCHANGED <<pinterest, deleted>>
  BY DEF PinOk, Core, RunInv, At, InHand, Pinning
<1>2. e \in Doc /\ Sound(e) /\ LinksStand
  BY <1>1, LinksSame DEF TypeOK, Core, AllSound
<1>3. CASE Raise("TRANSIENT")
  BY <1>1, <1>2, <1>3, RaiseCore
<1>4. CASE ~Raise("TRANSIENT")
  <2>0. \E h : h = g /\ Emit("PIN_OK", h, NextTurn)
    BY DEF PinOk
  <2>1. PICK h : h = g /\ Emit("PIN_OK", h, NextTurn)
    BY <2>0
  <2>2. Emit("PIN_OK", h, NextTurn)
    BY <2>1
  <2>3. PICK row \in TransitionFor(h.status, "PIN_OK") :
          /\ run' = NextTurn
          /\ pin' = [pin EXCEPT ![run.doc] = Ended(h, row)]
    BY <1>4, <2>2, EmitForm
  <2> DEFINE f == Ended(h, row)
  <2>4. row.target = "PINNED" /\ e.status = "PINNING"
    BY <1>2, <2>1, AdvanceRow DEF Doc
  <2>5. f \in Doc /\ Sound(f)
    BY <1>1, <1>2, <2>1, <2>4, Counters, NoneIsNoState
    DEF Doc, Sound, Standing, PinState, ActivePinStates, Ended
  <2>6. pin' \in [Docs -> Doc] /\ AllSound'
    BY <2>1, <2>3, <2>5 DEF TypeOK, Core, AllSound
  <2>7. PinIsReal'
    <3>1. ASSUME NEW d \in Docs, Published(pin'[d])
          PROVE  /\ pin'[d].pinned_on # None /\ pin'[d].pinned_on = pin'[d].board
                 /\ pin'[d].board \notin deleted' =>
                      pinterest'[d][pin'[d].link][pin'[d].board] > 0
      <4>1. CASE d # run.doc
        <5>1. pin'[d] = pin[d]
          BY <2>1, <2>3, <4>1 DEF TypeOK
        <5>2. QED
          BY <1>1, <3>1, <5>1 DEF Core, PinIsReal, Stands, Published, Standing
      <4>2. CASE d = run.doc
        <5>1. /\ pin'[d].pinned_on = run.board /\ pin'[d].board = run.board
              /\ pin'[d].link = e.link
          BY <1>1, <1>2, <2>1, <2>3, <4>2 DEF TypeOK, Doc, Ended
        <5>2. /\ run.board \notin deleted => pinterest[run.doc][run.link][run.board] > 0
              /\ e.link = run.link
          BY <1>1, <2>4 DEF Core, FoundInv, RunInv, InHand, Pinning
        <5>3. QED
          BY <1>1, <4>2, <5>1, <5>2, NoneIsNoState
      <4>3. QED
        BY <4>1, <4>2
    <3>2. QED
      BY <3>1 DEF PinIsReal, Stands, Published, Standing
  <2>8. QED
    BY <2>1, <2>3, <2>6, <2>7, TurnFields DEF Core, RunInv, FreshInv, FoundInv, InHand, Pinning
<1>5. QED
  BY <1>3, <1>4

\* The pin that can be read is verified.
LEMMA VerifyCore ==
  ASSUME TypeOK, Core, Verify
  PROVE  Core' /\ pin' \in [Docs -> Doc]
<1> DEFINE e == pin[run.doc]
<1>1. run.doc \in Docs /\ UNCHANGED <<pinterest, deleted>>
  BY DEF Verify, Core, RunInv, InStage, At, InHand
<1>2. e \in Doc /\ Sound(e) /\ LinksStand
  BY <1>1, LinksSame DEF TypeOK, Core, AllSound
<1>3. ASSUME NEW class, Raise(class) PROVE Core' /\ pin' \in [Docs -> Doc]
  BY <1>1, <1>2, <1>3, RaiseCore
<1>4. ASSUME \A class : ~Raise(class) PROVE Core' /\ pin' \in [Docs -> Doc]
  <2>0. Emit("VERIFY_OK", e, [run EXCEPT !.pc = "bump"])
    BY <1>4 DEF Verify
  <2>1. PICK row \in TransitionFor(e.status, "VERIFY_OK") :
          /\ run' = [run EXCEPT !.pc = "bump"]
          /\ pin' = [pin EXCEPT ![run.doc] = Ended(e, row)]
    BY <1>4, <2>0, EmitForm
  <2>2. row.target = "VERIFIED" /\ e.status = "VERIFYING"
    BY AdvanceRow
  <2>3. Kept(e, Ended(e, row)) /\ Ended(e, row).status = "VERIFIED"
    BY <1>2, <2>2, Counters, NoneIsNoState
    DEF Doc, Kept, Sound, Published, Standing, PinState, ActivePinStates, Ended
  <2>5. AllKept
    BY <1>1, <2>1, <2>3, OneDocKept DEF TypeOK, Core
  <2>6. run'.pc = "bump"
    BY <2>1 DEF TypeOK, Run
  <2>7. QED
    BY <1>2, <2>5, <2>6, HandEmpty DEF Core, AllKept, InHand
<1>5. QED
  BY <1>3, <1>4

\* A claim, or the end of the run.
LEMMA ClaimCore ==
  ASSUME TypeOK, Core, ClaimNext
  PROVE  Core' /\ pin' \in [Docs -> Doc]
<1>0. /\ pin \in [Docs -> Doc] /\ AllSound /\ LinksStand
      /\ UNCHANGED <<pinterest, deleted>>
  BY LinksSame DEF TypeOK, Core, ClaimNext
<1>1. CASE UNCHANGED pin /\ run' = Off
  BY <1>0, <1>1, NoDoc, KeptBackIsKept, TurnEnds
<1>2. CASE ~(UNCHANGED pin /\ run' = Off)
  <2>1. PICK i \in DOMAIN ClaimOrder :
          LET d == Min(Claimable(ClaimOrder[i]))
          IN /\ Claimable(ClaimOrder[i]) # {}
             /\ \E row \in TransitionFor(pin[d].status, ClaimOrder[i]) :
                  /\ pin' = [pin EXCEPT ![d] = [@ EXCEPT !.status = row.target,
                                                         !.lease = LEASE_TTL,
                                                         !.paused_from = None]]
                  /\ run' = [run EXCEPT !.pc = "stage", !.doc = d, !.stage = row.target,
                                         !.link = pin[d].link]
    BY <1>2 DEF ClaimNext
  <2> DEFINE event == ClaimOrder[i]
             d     == Min(Claimable(event))
             e     == pin[d]
  <2>2. event \in {"CLAIM_ENRICH", "CLAIM_BRIDGE", "CLAIM_PIN", "CLAIM_VERIFY"}
    BY DEF ClaimOrder
  <2>3. d \in Docs
    <3>1. Claimable(event) \subseteq Docs
      BY DEF Claimable
    <3>2. QED
      BY <2>1, <3>1, MinOfNats, PublicationAssumption
  <2>4. PICK row \in TransitionFor(e.status, event) :
          /\ pin' = [pin EXCEPT ![d] = [e EXCEPT !.status = row.target, !.lease = LEASE_TTL,
                                                 !.paused_from = None]]
          /\ run' = [run EXCEPT !.pc = "stage", !.doc = d, !.stage = row.target, !.link = e.link]
    BY <2>1
  <2> DEFINE f == [e EXCEPT !.status = row.target, !.lease = LEASE_TTL, !.paused_from = None]
  <2> HIDE DEF event, d
  <2>5. e \in Doc /\ Sound(e)
    BY <1>0, <2>3 DEF AllSound
  <2>6. row.target \in Working /\ Kept(e, f) /\ f.status = row.target
    BY <2>2, <2>5, ClaimKeeps DEF Doc
  <2>7. AllKept
    BY <1>0, <2>3, <2>4, <2>6, OneDocKept
  <2>8. /\ run'.pc = "stage" /\ run'.doc = d /\ run'.stage = row.target
        /\ run'.link = e.link /\ run'.domain = run.domain /\ pin'[d] = f
    BY <1>0, <2>3, <2>4 DEF TypeOK, Run
  <2>9. RunInv' /\ FreshInv' /\ FoundInv'
    <3>1. run.domain \in Domain
      BY DEF ClaimNext, At, Core, RunInv
    <3>2. row.target = "PINNING" => e.link \in Domain /\ f.link = e.link
      BY <2>5, <2>6 DEF Kept, Sound, Standing, Doc
    <3>3. QED
      BY <2>3, <2>6, <2>8, <3>1, <3>2 DEF RunInv, FreshInv, FoundInv, Pinning
  <2>10. QED
    BY <1>0, <2>7, <2>9, RealStep DEF Core, AllKept, Kept, AllSound
<1>3. QED
  BY <1>1, <1>2

\* The steps of a run with nothing in hand, and its death.
LEMMA LoopCore ==
  ASSUME TypeOK, Core,
         \/ EnsureBoards \/ List \/ OpenAccount \/ GovernorAllows \/ GovernorBlocks
         \/ BumpStats \/ Die
  PROVE  Core' /\ pin' \in [Docs -> Doc]
<1>1. UNCHANGED <<pin, pinterest, deleted>>
  BY DEF EnsureBoards, List, OpenAccount, GovernorAllows, GovernorBlocks, BumpStats, Die
<1>2. run'.pc \notin InHand /\ (run'.pc = "claim" => run'.domain \in Domain)
  <2>0. run \in Run
    BY DEF TypeOK
  <2>1. CASE EnsureBoards
    BY <2>0, <2>1 DEF EnsureBoards, Goto, Run, InHand
  <2>2. CASE List
    BY <2>0, <2>2 DEF List, Off, Run, InHand
  <2>3. CASE OpenAccount
    BY <2>3, TurnFields DEF OpenAccount, InHand
  <2>4. CASE GovernorAllows
    BY <2>0, <2>4 DEF GovernorAllows, TypeOK, Run, InHand
  <2>5. CASE GovernorBlocks \/ Die
    BY <2>5, TurnFields DEF GovernorBlocks, Die, InHand
  <2>6. CASE BumpStats
    BY <2>6 DEF BumpStats, NextTurn, Off, InHand
  <2>7. QED
    BY <2>1, <2>2, <2>3, <2>4, <2>5, <2>6
<1>3. AllKept
  BY <1>1, NoDoc, KeptBackIsKept DEF TypeOK, Core
<1>4. QED
  BY <1>1, <1>2, <1>3, HandEmpty, LinksSame DEF Core, AllKept

\* The sweep.
LEMMA StartCore ==
  ASSUME TypeOK, Core, Start
  PROVE  Core' /\ pin' \in [Docs -> Doc]
<1>1. ASSUME NEW d \in Docs PROVE Kept(pin[d], pin'[d]) /\ pin'[d] \in Doc
  <2>1. pin[d] \in Doc /\ Sound(pin[d]) /\ pin'[d] = Swept(pin[d])
    BY DEF TypeOK, Core, AllSound, Start
  <2>2. QED
    BY <2>1, SweptKeeps DEF KeptBack, Kept
<1>2. AllKept
  <2>1. pin' = [d \in Docs |-> Swept(pin[d])]
    BY DEF Start
  <2>2. pin' \in [Docs -> Doc]
    BY <1>1, <2>1
  <2>3. QED
    BY <1>1, <2>2 DEF AllKept
<1>3. run'.pc \notin InHand /\ run'.pc # "claim"
  BY DEF Start, Off, InHand
<1>4. LinksStand
  BY LinksSame DEF Start
<1>5. QED
  BY <1>2, <1>3, <1>4, HandEmpty DEF Core, AllKept

\* A step of the stage that has a document in hand, and leaves it as it is.
LEMMA StageGoesOn ==
  ASSUME TypeOK, Core, UNCHANGED <<pin, pinterest, deleted>>, RunInv', FreshInv', FoundInv'
  PROVE  Core' /\ pin' \in [Docs -> Doc]
BY DEF TypeOK, Core, AllSound, PinIsReal, Stands

\* The first of some boards is one of them.
LEMMA FirstBoardIsOne ==
  ASSUME NEW boards, boards \subseteq Boards, boards # {}
  PROVE  FirstBoard(boards) \in boards
<1>1. CASE boards \subseteq CoveredBoards
  BY <1>1, MinOfNats, PublicationAssumption DEF FirstBoard
<1>2. CASE ~(boards \subseteq CoveredBoards)
  <2>1. boards \ CoveredBoards # {} /\ boards \ CoveredBoards \subseteq Nat
    BY <1>2, PublicationAssumption
  <2>2. Min(boards \ CoveredBoards) \in boards \ CoveredBoards
    BY <2>1, MinOfNats
  <2>3. QED
    BY <1>2, <2>2 DEF FirstBoard
<1>3. QED
  BY <1>1, <1>2

\* The board: allocated, reconciled with, or found deleted.
LEMMA AllocateCore ==
  ASSUME TypeOK, Core, Allocate
  PROVE  Core' /\ pin' \in [Docs -> Doc]
<1>1. /\ run.doc \in Docs /\ run.stage = "PINNING" /\ run.pc = "stage"
      /\ UNCHANGED <<pinterest, deleted>> /\ LinksStand
  BY LinksSame DEF Allocate, InStage, At, Core, RunInv, InHand
<1>2. CASE Raise("PERMANENT")
  BY <1>1, <1>2, RaiseCore
<1>3. CASE ~Raise("PERMANENT")
  <2>1. PICK cache \in {live, run.cache} :
          /\ pin[run.doc].board \in cache
          /\ run' = [run EXCEPT !.pc = "reconcile", !.cache = cache,
                                !.board = IF pin[run.doc].board \in CoveredBoards
                                             /\ ~ cache \subseteq CoveredBoards
                                          THEN FirstBoard(cache) ELSE pin[run.doc].board]
          /\ UNCHANGED pin
    BY <1>3 DEF Allocate
  <2>2. cache \subseteq Boards /\ cache # {}
    BY <2>1 DEF TypeOK, Run
  <2>3. FirstBoard(cache) \in Boards /\ pin[run.doc].board \in Boards
    BY <2>1, <2>2, FirstBoardIsOne
  <2>4. /\ run'.pc = "reconcile" /\ run'.board \in Boards
        /\ run'.doc = run.doc /\ run'.stage = run.stage
        /\ run'.link = run.link /\ run'.domain = run.domain
    BY <2>1, <2>3 DEF TypeOK, Run
  <2>5. RunInv' /\ FreshInv' /\ FoundInv'
    BY <1>1, <2>1, <2>4 DEF Core, RunInv, FreshInv, FoundInv, InHand, Pinning
  <2>6. QED
    BY <1>1, <2>1, <2>5, StageGoesOn
<1>4. QED
  BY <1>2, <1>3

\* The reconciliation: a pin found is recorded, and none found is none there.
LEMMA ReconcileCore ==
  ASSUME TypeOK, Core, Reconcile
  PROVE  Core' /\ pin' \in [Docs -> Doc]
<1>1. /\ run.doc \in Docs /\ run.board \in Boards /\ run.pc = "reconcile"
      /\ UNCHANGED <<pin, pinterest, deleted>>
  BY DEF Reconcile, At, Core, RunInv, InHand, Pinning
<1>2. /\ run' = [run EXCEPT !.pc = IF Found THEN "pin_ok" ELSE "create"]
      /\ run'.doc = run.doc /\ run'.stage = run.stage /\ run'.board = run.board
      /\ run'.link = run.link /\ run'.domain = run.domain
      /\ run'.pc = IF Found THEN "pin_ok" ELSE "create"
  BY DEF Reconcile, Goto, TypeOK, Run
<1>3. pinterest[run.doc][run.link][run.board] \in 0 .. 2
  BY <1>1 DEF TypeOK, Core, RunInv, InHand, Pinning
<1>4. RunInv' /\ FreshInv' /\ FoundInv'
  BY <1>1, <1>2, <1>3 DEF Core, RunInv, FreshInv, FoundInv, InHand, Pinning, Found
<1>5. QED
  BY <1>1, <1>4, StageGoesOn

\* The reconciliation on a board that was deleted falls back, or raises.
LEMMA ReconcileDeletedCore ==
  ASSUME TypeOK, Core, ReconcileDeleted
  PROVE  Core' /\ pin' \in [Docs -> Doc]
<1>1. /\ run.doc \in Docs /\ run.stage = "PINNING" /\ run.pc = "reconcile"
      /\ UNCHANGED <<pinterest, deleted>> /\ LinksStand
  BY LinksSame DEF ReconcileDeleted, At, Core, RunInv, InHand, Pinning
<1>2. CASE Raise("TRANSIENT")
  BY <1>1, <1>2, RaiseCore
<1>3. CASE ~Raise("TRANSIENT")
  <2>1. /\ live \ {run.board} # {}
        /\ run' = [run EXCEPT !.pc = "create", !.cache = live,
                              !.board = FirstBoard(live \ {run.board}), !.fallback = TRUE]
        /\ UNCHANGED pin
    BY <1>3 DEF ReconcileDeleted
  <2>2. FirstBoard(live \ {run.board}) \in Boards
    <3>1. live \ {run.board} \subseteq Boards
      BY DEF TypeOK
    <3>2. QED
      BY <2>1, <3>1, FirstBoardIsOne
  <2>3. /\ run'.pc = "create" /\ run'.board \in Boards /\ run'.fallback
        /\ run'.doc = run.doc /\ run'.stage = run.stage
        /\ run'.link = run.link /\ run'.domain = run.domain
    BY <2>1, <2>2 DEF TypeOK, Run
  <2>4. RunInv' /\ FreshInv' /\ FoundInv'
    BY <1>1, <2>1, <2>3 DEF Core, RunInv, FreshInv, FoundInv, InHand, Pinning
  <2>5. QED
    BY <1>1, <2>1, <2>4, StageGoesOn
<1>4. QED
  BY <1>2, <1>3

\* The pin.
LEMMA CreatedLinks ==
  ASSUME TypeOK, run.doc \in Docs, run.link \in Domain, run.board \in Boards,
         Created, UNCHANGED deleted
  PROVE  /\ LinksStand /\ pinterest' \in Links
         /\ pinterest'[run.doc][run.link][run.board] > 0
<1> DEFINE n == UpTo(2, pinterest[run.doc][run.link][run.board] + 1)
<1>1. pinterest \in Links /\ n \in 1 .. 2
  <2>1. pinterest \in Links
    BY DEF TypeOK, Links
  <2>2. pinterest[run.doc][run.link][run.board] \in 0 .. 2
    BY <2>1 DEF Links
  <2>3. QED
    BY <2>1, <2>2 DEF UpTo
<1> HIDE DEF n
<1>2. pinterest' = [pinterest EXCEPT ![run.doc][run.link][run.board] = n]
  BY DEF Created, n
<1>3. ASSUME NEW d \in Docs, NEW l \in Domain, NEW b \in Boards
      PROVE  pinterest'[d][l][b] = IF d = run.doc /\ l = run.link /\ b = run.board
                                   THEN n ELSE pinterest[d][l][b]
  BY <1>1, <1>2 DEF Links
<1>4. pinterest' \in Links
  BY <1>1, <1>2 DEF Links
<1>5. QED
  BY <1>1, <1>3, <1>4 DEF LinksStand

\* The creation of a pin, answered or not.
LEMMA CreateCore ==
  ASSUME TypeOK, Core, Create \/ CreateUnanswered
  PROVE  Core' /\ pin' \in [Docs -> Doc]
<1>1. /\ run.doc \in Docs /\ run.link \in Domain /\ run.board \in Boards
      /\ run.stage = "PINNING" /\ run.pc \in InHand /\ Created /\ UNCHANGED deleted
  BY DEF Create, CreateUnanswered, Creating, At, Core, RunInv, InHand, Pinning
<1>2. LinksStand /\ pinterest'[run.doc][run.link][run.board] > 0
  BY <1>1, CreatedLinks
<1>3. CASE CreateUnanswered
  <2>1. Raise("TRANSIENT")
    BY <1>3 DEF CreateUnanswered
  <2>2. QED
    BY <1>1, <1>2, <2>1, RaiseCore
<1>4. CASE Create
  <2>1. /\ UNCHANGED pin /\ run'.pc = "pin_ok" /\ run'.doc = run.doc
        /\ run'.stage = run.stage /\ run'.board = run.board
        /\ run'.link = run.link /\ run'.domain = run.domain
    BY <1>4 DEF Create, Goto, TypeOK, Run
  <2>2. AllKept
    BY <2>1, NoDoc, KeptBackIsKept DEF TypeOK, Core
  <2>3. PinIsReal' /\ AllSound' /\ pin' \in [Docs -> Doc]
    BY <1>2, <2>1, <2>2, RealStep DEF Core, AllKept, AllSound
  <2>4. RunInv' /\ FreshInv' /\ FoundInv'
    BY <1>1, <1>2, <2>1 DEF Core, RunInv, FreshInv, FoundInv, InHand, Pinning
  <2>5. QED
    BY <2>3, <2>4 DEF Core
<1>5. QED
  BY <1>3, <1>4

\* What a stage raises for.
LEMMA FailsCore ==
  ASSUME TypeOK, Core, CreateRefused \/ CallFails \/ RefreshFails
  PROVE  Core' /\ pin' \in [Docs -> Doc]
<1>1. run.doc \in Docs /\ LinksStand
  BY LinksSame
  DEF CreateRefused, CallFails, RefreshFails, Outside, Creating, At, Core, RunInv, InHand
<1>2. PICK class \in {"TRANSIENT", "PERMANENT", "QUOTA"} : Raise(class)
  BY DEF CreateRefused, CallFails, RefreshFails
<1>3. QED
  BY <1>1, <1>2, RaiseCore

\* A board in sandbox state makes the run fall back without a look.
LEMMA SandboxedCore ==
  ASSUME TypeOK, Core, CreateSandboxed
  PROVE  Core' /\ pin' \in [Docs -> Doc]
<1>1. /\ run.doc \in Docs /\ run.stage = "PINNING" /\ run.pc \in Pinning
      /\ UNCHANGED <<pinterest, deleted>> /\ LinksStand
  BY LinksSame DEF CreateSandboxed, Creating, At, Core, RunInv, InHand, Pinning
<1>2. CASE \E class \in {"TRANSIENT", "PERMANENT"} : Raise(class)
  BY <1>1, <1>2, RaiseCore
<1>3. CASE ~\E class \in {"TRANSIENT", "PERMANENT"} : Raise(class)
  <2>1. /\ run.cache \ {run.board} # {}
        /\ run' = [run EXCEPT !.pc = "create_again", !.board = FirstBoard(run.cache \ {run.board}),
                              !.fallback = TRUE]
        /\ UNCHANGED pin
    BY <1>3 DEF CreateSandboxed
  <2>2. FirstBoard(run.cache \ {run.board}) \in Boards
    <3>1. run.cache \subseteq Boards
      BY DEF TypeOK, Run
    <3>2. QED
      BY <2>1, <3>1, FirstBoardIsOne
  <2>3. /\ run'.pc = "create_again" /\ run'.board \in Boards /\ run'.fallback
        /\ run'.doc = run.doc /\ run'.stage = run.stage
        /\ run'.link = run.link /\ run'.domain = run.domain
    BY <2>1, <2>2 DEF TypeOK, Run
  <2>4. RunInv' /\ FreshInv' /\ FoundInv'
    BY <1>1, <2>1, <2>3 DEF Core, RunInv, FreshInv, FoundInv, InHand, Pinning
  <2>5. QED
    BY <1>1, <2>1, <2>4, StageGoesOn
<1>4. QED
  BY <1>2, <1>3

\* The token.
LEMMA TokenCore ==
  ASSUME TypeOK, Core, TokenExpires \/ TokenRefreshed
  PROVE  Core' /\ pin' \in [Docs -> Doc]
<1>1. /\ run.doc \in Docs /\ run.pc \in InHand
      /\ UNCHANGED <<pinterest, deleted>> /\ LinksStand
  BY LinksSame DEF TokenExpires, TokenRefreshed, Outside, Creating, At, Core, RunInv, InHand
<1>2. CASE \E class \in {"TRANSIENT"} : Raise(class)
  BY <1>1, <1>2, RaiseCore
<1>3. CASE UNCHANGED pin /\ run' = NextTurn
  BY <1>1, <1>3, NoDoc, KeptBackIsKept, TurnEnds DEF TypeOK, Core
<1>4. CASE TokenExpires /\ UNCHANGED pin /\ Goto("refresh")
  <2>1. /\ run'.pc = "refresh" /\ run'.doc = run.doc /\ run'.stage = run.stage
        /\ run'.link = run.link /\ run'.domain = run.domain
    BY <1>4 DEF Goto, TypeOK, Run
  <2>2. RunInv' /\ FreshInv' /\ FoundInv'
    BY <1>1, <1>4, <2>1 DEF Core, RunInv, FreshInv, FoundInv, InHand, Pinning
  <2>3. QED
    BY <1>1, <1>4, <2>2, StageGoesOn
<1>5. CASE TokenRefreshed /\ run' # NextTurn
  <2>1. /\ UNCHANGED pin /\ run'.pc = "stage" /\ run'.doc = run.doc
        /\ run'.stage = pin[run.doc].status /\ run'.stage \in {"PINNING", "VERIFYING"}
        /\ run'.link = pin[run.doc].link /\ run'.domain \in Domain
    BY <1>5 DEF TokenRefreshed, TypeOK, Run
  <2>2. pin[run.doc].status = "PINNING" => pin[run.doc].link \in Domain
    BY <1>1 DEF TypeOK, Core, AllSound, Sound, Standing, Doc
  <2>3. RunInv' /\ FreshInv' /\ FoundInv'
    BY <1>1, <2>1, <2>2 DEF RunInv, FreshInv, FoundInv, InHand, Pinning, Working
  <2>4. QED
    BY <1>1, <2>1, <2>3, StageGoesOn
<1>6. QED
  BY <1>2, <1>3, <1>4, <1>5 DEF TokenExpires, TokenRefreshed

\* The operator, the world and time: steps of somebody else.
LEMMA OthersMove ==
  ASSUME TypeOK, Core, OperatorStep \/ DeleteBoard \/ Tick
  PROVE  /\ run'.pc = run.pc /\ run'.doc = run.doc /\ run'.stage = run.stage
         /\ run'.board = run.board /\ run'.fallback = run.fallback
         /\ run'.link = run.link /\ run'.domain = run.domain
         /\ AllKeptBack /\ LinksStand /\ FewerLinks
<1>0. /\ pin \in [Docs -> Doc] /\ AllSound /\ \A d \in Docs : pin[d] \in Doc /\ Sound(pin[d])
      /\ pinterest \in Links /\ run \in Run
  BY DEF TypeOK, Core, AllSound, Links
<1>1. /\ run'.pc = run.pc /\ run'.doc = run.doc /\ run'.stage = run.stage
      /\ run'.board = run.board /\ run'.fallback = run.fallback
      /\ run'.link = run.link /\ run'.domain = run.domain
  BY <1>0
  DEF OperatorStep, PausePins, ResumePins, FlagAccount, Requeue, WireAccount, WirePins,
      DeleteBoard, Tick, Run
<1>3. AllKeptBack
  <2>1. CASE PausePins
    BY <1>0, <2>1, PauseKeeps DEF PausePins, AllKeptBack, KeptBack, Kept
  <2>2. CASE ResumePins
    BY <1>0, <2>2, PauseKeeps DEF ResumePins, AllKeptBack, KeptBack, Kept
  <2>3. CASE FlagAccount \/ WireAccount \/ DeleteBoard
    BY <1>0, <2>3, NoDoc DEF FlagAccount, WireAccount, DeleteBoard
  <2>4. CASE Requeue
    <3>1. PICK d \in Docs :
            /\ pin[d].status = "DEAD"
            /\ pin' = [pin EXCEPT ![d] = [pin[d] EXCEPT !.status = "QUEUED", !.count = 0, !.wait = 0]]
      BY <2>4 DEF Requeue
    <3>2. KeptBack(pin[d], [pin[d] EXCEPT !.status = "QUEUED", !.count = 0, !.wait = 0])
      BY <1>0, <3>1, OthersKeep
    <3>3. QED
      BY <1>0, <3>1, <3>2, OneDoc
  <2>5. CASE WirePins
    BY <1>0, <2>5, OthersKeep DEF WirePins, Rewired, AllKeptBack, KeptBack, Kept
  <2>6. CASE Tick
    BY <1>0, <2>6, OthersKeep DEF Tick, AllKeptBack, KeptBack, Kept
  <2>7. QED
    BY <2>1, <2>2, <2>3, <2>4, <2>5, <2>6 DEF OperatorStep
<1>4. LinksStand /\ FewerLinks
  <2>1. CASE UNCHANGED <<pinterest, deleted>>
    <3>1. \A d \in Docs, l \in Domain, b \in Boards : pinterest[d][l][b] \in 0 .. 2
      BY <1>0 DEF Links
    <3>2. QED
      BY <1>0, <2>1, <3>1, LinksSame DEF FewerLinks
  <2>2. CASE DeleteBoard
    <3>1. PICK b \in live :
            /\ deleted' = deleted \cup {b}
            /\ pinterest' = [d \in Docs |-> [l \in Domain |-> [pinterest[d][l] EXCEPT ![b] = 0]]]
      BY <2>2 DEF DeleteBoard
    <3>2. ASSUME NEW d \in Docs, NEW l \in Domain, NEW c \in Boards
          PROVE  /\ pinterest'[d][l][c] = IF c = b THEN 0 ELSE pinterest[d][l][c]
                 /\ pinterest[d][l][c] \in 0 .. 2
      BY <1>0, <3>1 DEF Links
    <3>3. pinterest' \in Links
      <4>1. ASSUME NEW f \in [Boards -> 0 .. 2] PROVE [f EXCEPT ![b] = 0] \in [Boards -> 0 .. 2]
        <5>1. ASSUME NEW c \in Boards PROVE [f EXCEPT ![b] = 0][c] \in 0 .. 2
          OBVIOUS
        <5>2. QED
          BY <5>1
      <4>2. \A d \in Docs, l \in Domain : pinterest[d][l] \in [Boards -> 0 .. 2]
        BY <1>0 DEF Links
      <4>3. QED
        BY <3>1, <4>1, <4>2 DEF Links
    <3>4. LinksStand
      BY <3>1, <3>2 DEF LinksStand
    <3>5. ASSUME NEW d \in Docs, NEW l \in Domain, NEW c \in Boards
          PROVE  pinterest'[d][l][c] <= pinterest[d][l][c]
      BY <3>2
    <3>6. QED
      BY <3>3, <3>4, <3>5 DEF FewerLinks
  <2>3. QED
    BY <2>1, <2>2
    DEF OperatorStep, PausePins, ResumePins, FlagAccount, Requeue, WireAccount, WirePins, Tick
<1>5. QED
  BY <1>1, <1>3, <1>4

\* The operator, Pinterest's boards and time.
LEMMA OthersCore ==
  ASSUME TypeOK, Core, OperatorStep \/ DeleteBoard \/ Tick
  PROVE  Core' /\ pin' \in [Docs -> Doc]
BY OthersMove, HandSame DEF AllKeptBack

\* Every step keeps the core.
LEMMA CoreStep ==
  ASSUME TypeOK, Core, [Next]_vars
  PROVE  Core' /\ pin' \in [Docs -> Doc]
<1>1. CASE UNCHANGED vars
  BY <1>1, StageGoesOn DEF vars, Core, RunInv, FreshInv, FoundInv
<1>2. QED
  BY <1>1, LoopCore, StartCore, ClaimCore, EnrichBridgeCore, AllocateCore, ReconcileCore,
     ReconcileDeletedCore, CreateCore, FailsCore, SandboxedCore, PinOkCore, VerifyCore,
     TokenCore, OthersCore
  DEF Next, RunStep

-----------------------------------------------------------------------------
(* The governor.                                                           *)

\* A run that has passed the gate and has not counted a pin since.
Gated == InHand \cup {"claim", "bump"}

\* The gate that a run passed stays open to it: nobody else counts a pin, and the
\* cap of an account never falls.
GateInv ==
  run.pc \in Gated =>
    /\ run.done < PINS_PER_ACCOUNT
    /\ \/ EffectivePinsToday(account.stats) < DailyCap(account)
       \/ run.boost /\ EffectivePinsToday(account.stats) < CAP_OVERRIDE

\* The pins verified today are counted, but for the one the run is about to count.
CountInv ==
  ~day.uncounted =>
    day.verified <= EffectivePinsToday(account.stats) + (IF At("bump") THEN 1 ELSE 0)

GovInv == GateInv /\ CountInv /\ VerifiedWithinCap

\* The bounds on the counters are numbers.
LEMMA CapsAreNat ==
  /\ LargestCap \in Nat /\ CAP_OVERRIDE <= LargestCap /\ PINS_DAILY_CAP <= LargestCap
  /\ FullAge \in Nat
BY GovernorAssumption DEF LargestCap, FullAge

\* The day of the warm-up never goes back.
LEMMA DivGrows ==
  ASSUME NEW m \in Nat, NEW n \in Nat, m <= n
  PROVE  m \div DAY \in Nat /\ n \div DAY \in Nat /\ m \div DAY <= n \div DAY
<1> DEFINE p == m \div DAY
           q == n \div DAY
<1>1. DAY \in Nat /\ DAY >= 1
  BY GovernorAssumption
<1>2. p \in Nat /\ q \in Nat /\ p * DAY <= m /\ n < (q + 1) * DAY
  BY <1>1
<1>3. SUFFICES ASSUME q + 1 <= p PROVE FALSE
  BY <1>2
<1> HIDE DEF p, q
<1>4. (q + 1) * DAY <= p * DAY
  BY <1>1, <1>2, <1>3
<1>5. QED
  BY <1>1, <1>2, <1>4

Accounts == [ status : AccountStatus, age : 0 .. FullAge, stats : Stats,
              boards_cache : SUBSET Boards, domain : Domain ]

\* The cap of an account is a number, and never falls: the warm-up goes on, or is
\* over.
LEMMA CapGrows ==
  ASSUME NEW a \in Accounts, NEW b \in Accounts, a.age <= b.age,
         b.status \in {a.status, "ACTIVE", "PAUSED"}
  PROVE  /\ DailyCap(a) \in Nat /\ DailyCap(b) \in Nat
         /\ DailyCap(a) <= DailyCap(b) /\ DailyCap(b) <= LargestCap
<1>1. a.age \in Nat /\ b.age \in Nat
  BY CapsAreNat DEF Accounts
<1>2. /\ WarmupDay(a) \in Nat /\ WarmupDay(b) \in Nat /\ WarmupDay(a) <= WarmupDay(b)
  BY <1>1, DivGrows DEF WarmupDay
<1>3. ASSUME NEW c \in {a, b}
      PROVE  /\ c.status = "WARMUP" /\ WarmupDay(c) <= WARMUP_EARLY_DAYS =>
                  DailyCap(c) = WARMUP_CAP_EARLY
             /\ c.status = "WARMUP" /\ WarmupDay(c) > WARMUP_EARLY_DAYS
                  /\ WarmupDay(c) <= WARMUP_TOTAL_DAYS => DailyCap(c) = WARMUP_CAP_LATE
             /\ c.status # "WARMUP" \/ WarmupDay(c) > WARMUP_TOTAL_DAYS =>
                  DailyCap(c) = PINS_DAILY_CAP
  BY <1>2, GovernorAssumption DEF DailyCap
<1>4. a.status \in AccountStatus /\ b.status \in AccountStatus
  BY DEF Accounts
<1>5. QED
  BY <1>2, <1>3, <1>4, GovernorAssumption, CapsAreNat DEF AccountStatus

\* The day's count is a number.
LEMMA EffectiveIsNat ==
  ASSUME NEW a \in Accounts
  PROVE  EffectivePinsToday(a.stats) \in Nat
BY CapsAreNat DEF Accounts, Stats, EffectivePinsToday

\* A step that counts no pin, opens no gate, and lets the account grow.
LEMMA GovSame ==
  ASSUME account \in Accounts, account' \in Accounts, GovInv,
         account'.stats = account.stats, account.age <= account'.age,
         account'.status \in {account.status, "ACTIVE", "PAUSED"},
         \/ run'.pc \notin Gated
         \/ run.pc \in Gated /\ run'.done = run.done /\ run'.boost = run.boost,
         run.pc = "bump" => run'.pc = "bump",
         day.verified \in Nat, UNCHANGED day
  PROVE  GovInv'
<1>1. /\ DailyCap(account) \in Nat /\ DailyCap(account') \in Nat
      /\ DailyCap(account) <= DailyCap(account')
  BY CapGrows
<1>2. EffectivePinsToday(account.stats) \in Nat
  BY EffectiveIsNat
<1>3. GateInv'
  BY <1>1, <1>2, GovernorAssumption DEF GovInv, GateInv
<1>4. CountInv'
  BY <1>2 DEF GovInv, CountInv, At
<1>5. VerifiedWithinCap'
  <2>1. CASE day.verified <= DailyCap(account)
    BY <1>1, <2>1 DEF VerifiedWithinCap
  <2>2. CASE ~(day.verified <= DailyCap(account))
    BY <2>2 DEF GovInv, VerifiedWithinCap
  <2>3. QED
    BY <2>1, <2>2 DEF VerifiedWithinCap
<1>6. QED
  BY <1>3, <1>4, <1>5 DEF GovInv

-----------------------------------------------------------------------------
(* Types.                                                                  *)

\* A run that is over, or at its next turn, is typed.
LEMMA TurnsType == run \in Run => Off \in Run /\ NextTurn \in Run
<1> SUFFICES ASSUME run \in Run PROVE Off \in Run /\ NextTurn \in Run
  OBVIOUS
<1>1. 0 \in 0 .. RUN_TTL /\ 0 \in 0 .. PINS_PER_ACCOUNT
  BY PublicationAssumption
<1>2. Off \in Run
  BY <1>1 DEF Run, Off
<1>3. QED
  BY <1>1, <1>2 DEF Run, NextTurn, Off

\* How a run moves on: out of the gate, or within it.
LEMMA RunMoves ==
  ASSUME TypeOK, Core, RunStep \/ Die, ~GovernorAllows, ~Verify, ~BumpStats
  PROVE  /\ run' \in Run
         /\ \/ run'.pc \notin Gated
            \/ run.pc \in Gated /\ run'.done = run.done /\ run'.boost = run.boost
         /\ run.pc = "bump" => Die
<1>0. run \in Run /\ Off \in Run /\ NextTurn \in Run
  BY TurnsType DEF TypeOK
<1>1. run.pc = "bump" => Die
  <2>1. Start \/ EnsureBoards \/ List \/ OpenAccount \/ GovernorBlocks \/ ClaimNext => run.pc # "bump"
    BY DEF Start, EnsureBoards, List, OpenAccount, GovernorBlocks, ClaimNext, At
  <2>2. Enrich \/ Bridge \/ Allocate \/ Reconcile \/ ReconcileDeleted \/ PinOk => run.pc # "bump"
    BY DEF Enrich, Bridge, Allocate, Reconcile, ReconcileDeleted, PinOk, InStage, At
  <2>3. Create \/ CreateUnanswered \/ CreateRefused \/ CreateSandboxed => run.pc # "bump"
    BY DEF Create, CreateUnanswered, CreateRefused, CreateSandboxed, Creating, At
  <2>4. CallFails \/ TokenExpires \/ TokenRefreshed \/ RefreshFails => run.pc # "bump"
    BY DEF CallFails, TokenExpires, TokenRefreshed, RefreshFails, Outside, Creating, At
  <2>5. QED
    BY <2>1, <2>2, <2>3, <2>4 DEF RunStep
<1>2. CASE run' \in {Off, NextTurn}
  BY <1>0, <1>2, <1>1, TurnFields DEF Gated, InHand
<1>3. CASE run' \notin {Off, NextTurn}
  <2>1. ASSUME NEW class, Raise(class) PROVE FALSE
    BY <1>3, <2>1 DEF Raise
  <2>2. ASSUME NEW event, NEW patched, Emit(event, patched, NextTurn) PROVE FALSE
    BY <1>3, <2>1, <2>2, EmitForm
  <2>3. CASE Start
    <3>1. \/ run' = [Off EXCEPT !.pc = "swept"]
          \/ run' = [Off EXCEPT !.pc = "swept", !.dry = TRUE]
          \/ run' = [Off EXCEPT !.pc = "swept", !.boost = TRUE]
      BY <2>3 DEF Start
    <3>2. run' \in Run /\ run'.pc = "swept"
      BY <1>0, <3>1 DEF Run
    <3>3. QED
      BY <1>1, <3>2 DEF Gated, InHand
  <2>4. CASE EnsureBoards \/ List
    <3>1. \/ run' = [run EXCEPT !.pc = "boards"]
          \/ run' = [run EXCEPT !.pc = "listed", !.listed = account.status]
      BY <1>3, <2>4 DEF EnsureBoards, List, Goto
    <3>2. run' \in Run /\ run'.pc \in {"boards", "listed"}
      BY <1>0, <3>1 DEF Run, TypeOK
    <3>3. QED
      BY <1>1, <3>2 DEF Gated, InHand
  <2>5. CASE ClaimNext
    <3>1. PICK i \in DOMAIN ClaimOrder :
            /\ Claimable(ClaimOrder[i]) # {}
            /\ \E row \in PUBLICATION_TRANSITIONS :
                 run' = [run EXCEPT !.pc = "stage", !.doc = Min(Claimable(ClaimOrder[i])),
                                    !.stage = row.target,
                                    !.link = pin[Min(Claimable(ClaimOrder[i]))].link]
      BY <1>3, <2>5 DEF ClaimNext, TransitionFor, TransitionsFrom
    <3> DEFINE d == Min(Claimable(ClaimOrder[i]))
    <3>2. d \in Docs
      <4>1. Claimable(ClaimOrder[i]) \subseteq Docs
        BY DEF Claimable
      <4>2. QED
        BY <3>1, <4>1, MinOfNats, PublicationAssumption
    <3>3. \A row \in PUBLICATION_TRANSITIONS : row.target \in PinState
      BY DEF PUBLICATION_TRANSITIONS, Stage, Transition, PinState, ActivePinStates,
             ResumablePinStates
    <3> HIDE DEF d
    <3>4. PICK row \in PUBLICATION_TRANSITIONS :
            run' = [run EXCEPT !.pc = "stage", !.doc = d, !.stage = row.target,
                               !.link = pin[d].link]
      BY <3>1 DEF d
    <3>5. run' \in Run /\ run'.done = run.done /\ run'.boost = run.boost
      BY <1>0, <3>2, <3>3, <3>4 DEF Run, TypeOK, Doc
    <3>6. QED
      BY <2>5, <3>5 DEF ClaimNext, At, Gated
  <2>6. CASE Allocate
    <3>1. PICK cache \in {live, run.cache} :
            /\ pin[run.doc].board \in cache
            /\ run' = [run EXCEPT !.pc = "reconcile", !.cache = cache,
                                  !.board = IF pin[run.doc].board \in CoveredBoards
                                               /\ ~ cache \subseteq CoveredBoards
                                            THEN FirstBoard(cache) ELSE pin[run.doc].board]
      BY <2>1, <2>6 DEF Allocate
    <3>2. cache \subseteq Boards /\ cache # {}
      BY <3>1 DEF TypeOK, Run
    <3>3. FirstBoard(cache) \in Boards /\ pin[run.doc].board \in Boards
      BY <3>1, <3>2, FirstBoardIsOne
    <3> DEFINE board == IF pin[run.doc].board \in CoveredBoards
                             /\ ~ cache \subseteq CoveredBoards
                        THEN FirstBoard(cache) ELSE pin[run.doc].board
    <3>4. board \in Boards /\ run' = [run EXCEPT !.pc = "reconcile", !.cache = cache, !.board = board]
      BY <3>1, <3>3
    <3> HIDE DEF board
    <3>41. run' \in Run /\ run'.done = run.done /\ run'.boost = run.boost
      BY <1>0, <3>2, <3>4 DEF Run
    <3>5. QED
      BY <2>6, <3>41 DEF Allocate, InStage, At, Gated, InHand
  <2>7. CASE Reconcile \/ Create
    BY <1>0, <2>7 DEF Reconcile, Create, Creating, Goto, Run, Gated, InHand, At
  <2>8. CASE ReconcileDeleted
    <3>1. /\ live \ {run.board} # {}
          /\ run' = [run EXCEPT !.pc = "create", !.cache = live,
                                !.board = FirstBoard(live \ {run.board}), !.fallback = TRUE]
      BY <2>1, <2>8 DEF ReconcileDeleted
    <3>2. live \ {run.board} \subseteq Boards /\ live \subseteq Boards
      BY DEF TypeOK
    <3>3. FirstBoard(live \ {run.board}) \in Boards
      BY <3>1, <3>2, FirstBoardIsOne
    <3>4. QED
      BY <1>0, <2>8, <3>1, <3>2, <3>3 DEF ReconcileDeleted, Run, Gated, InHand, At
  <2>9. CASE CreateSandboxed
    <3>1. /\ run.cache \ {run.board} # {}
          /\ run' = [run EXCEPT !.pc = "create_again", !.fallback = TRUE,
                                !.board = FirstBoard(run.cache \ {run.board})]
      BY <2>1, <2>9 DEF CreateSandboxed
    <3>2. run.cache \ {run.board} \subseteq Boards
      BY <1>0 DEF Run
    <3>3. FirstBoard(run.cache \ {run.board}) \in Boards
      BY <3>1, <3>2, FirstBoardIsOne
    <3>4. QED
      BY <1>0, <2>9, <3>1, <3>3 DEF CreateSandboxed, Creating, Run, Gated, InHand, At
  <2>10. CASE TokenExpires
    BY <1>0, <2>1, <2>10 DEF TokenExpires, Goto, Outside, Creating, Run, Gated, InHand, At
  <2>11. CASE TokenRefreshed
    <3>1. /\ run.pc = "refresh" /\ run.doc \in Docs /\ pin[run.doc] \in Doc
          /\ account.domain \in Domain /\ account.boards_cache \subseteq Boards
      BY <2>11 DEF TokenRefreshed, At, TypeOK, Core, RunInv, InHand
    <3>2. QED
      BY <1>0, <1>3, <2>11, <3>1 DEF TokenRefreshed, Run, Doc, Gated, InHand, PinState, ActivePinStates
  <2>12. QED
    BY <1>3, <1>1, <2>1, <2>2, <2>3, <2>4, <2>5, <2>6, <2>7, <2>8, <2>9, <2>10, <2>11
    DEF RunStep, OpenAccount, GovernorBlocks, Enrich, Bridge, CreateUnanswered, CreateRefused,
        PinOk, CallFails, RefreshFails, Die
<1>4. QED
  BY <1>2, <1>3

\* What becomes of the account, of Pinterest and of the operator's command.
LEMMA AccountMoves ==
  ASSUME TypeOK, [Next]_vars, ~BumpStats, ~Tick
  PROVE  /\ account' \in Accounts /\ account'.stats = account.stats
         /\ account'.age = account.age
         /\ account'.status \in {account.status, "ACTIVE", "PAUSED"}
<1>0. account \in Accounts /\ live \subseteq Boards /\ run.cache \subseteq Boards
  BY DEF TypeOK, Accounts, Run
<1>1. CASE UNCHANGED account
  BY <1>0, <1>1
<1>2. CASE \E cache \in SUBSET Boards : account' = [account EXCEPT !.boards_cache = cache]
  BY <1>0, <1>2 DEF Accounts
<1>3. CASE \E status \in {"ACTIVE", "PAUSED"} : account' = [account EXCEPT !.status = status]
  BY <1>0, <1>3 DEF Accounts, AccountStatus
<1>4. CASE WireAccount
  BY <1>0, <1>4 DEF WireAccount, Accounts, Domain
<1>5. CASE EnsureBoards
  <2>1. live' \subseteq Boards
    <3>1. live' \subseteq live \cup SeoBoards
      BY <1>5 DEF EnsureBoards
    <3>2. QED
      BY <1>0, <3>1, PublicationAssumption
  <2>2. QED
    BY <1>1, <1>2, <1>5, <2>1 DEF EnsureBoards
<1>6. CASE Allocate
  BY <1>0, <1>1, <1>2, <1>6 DEF Allocate, BoardsMap
<1>7. CASE ReconcileDeleted
  BY <1>0, <1>2, <1>7 DEF ReconcileDeleted
<1>8. CASE OpenAccount
  BY <1>1, <1>3, <1>8 DEF OpenAccount
<1>9. CASE FlagAccount
  BY <1>3, <1>9 DEF FlagAccount
<1>10. QED
  BY <1>1, <1>4, <1>5, <1>6, <1>7, <1>8, <1>9
  DEF Next, RunStep, OperatorStep, vars, Start, List, GovernorAllows, GovernorBlocks, ClaimNext,
      Enrich, Bridge, Reconcile, Create, CreateUnanswered, CreateRefused, CreateSandboxed,
      PinOk, Verify, CallFails, TokenExpires, TokenRefreshed, RefreshFails, PausePins,
      ResumePins, Requeue, WirePins, Die, DeleteBoard

\* What lies outside the documents and the run keeps its type.
LEMMA WorldMoves ==
  ASSUME TypeOK, Core, [Next]_vars
  PROVE  /\ pinterest' \in Links
         /\ live' \subseteq Boards /\ deleted' \subseteq Boards
         /\ operator' \in {"idle", "pausing", "resuming", "wiring"}
<1>0. /\ pinterest \in Links
      /\ live \subseteq Boards /\ deleted \subseteq Boards
      /\ operator \in {"idle", "pausing", "resuming", "wiring"}
  BY DEF TypeOK, Links
<1>1. operator' \in {"idle", "pausing", "resuming", "wiring"}
  BY <1>0
  DEF Next, RunStep, OperatorStep, vars, Start, EnsureBoards, List, OpenAccount, GovernorAllows,
      GovernorBlocks, ClaimNext, Enrich, Bridge, Allocate, Reconcile, ReconcileDeleted, Create,
      CreateUnanswered, CreateRefused, CreateSandboxed, PinOk, Verify, BumpStats, CallFails,
      TokenExpires, TokenRefreshed, RefreshFails, PausePins, ResumePins, FlagAccount, Requeue,
      WireAccount, WirePins, Die, DeleteBoard, Tick
<1>2. CASE UNCHANGED <<pinterest, live, deleted>>
  BY <1>0, <1>1, <1>2
<1>3. CASE EnsureBoards
  BY <1>0, <1>1, <1>3, PublicationAssumption DEF EnsureBoards
<1>4. CASE Create \/ CreateUnanswered
  <2>1. /\ run.doc \in Docs /\ run.link \in Domain /\ run.board \in Boards
        /\ Created /\ UNCHANGED <<live, deleted>>
    BY <1>4 DEF Create, CreateUnanswered, Creating, At, Core, RunInv, InHand, Pinning
  <2>2. QED
    BY <1>0, <1>1, <2>1, CreatedLinks
<1>5. CASE DeleteBoard
  <2>1. pinterest' \in Links
    BY <1>5, OthersMove DEF FewerLinks
  <2>2. QED
    BY <1>0, <1>1, <1>5, <2>1 DEF DeleteBoard
<1>6. QED
  BY <1>2, <1>3, <1>4, <1>5
  DEF Next, RunStep, OperatorStep, vars, Start, List, OpenAccount, GovernorAllows,
      GovernorBlocks, ClaimNext, Enrich, Bridge, Allocate, Reconcile, ReconcileDeleted,
      CreateRefused, CreateSandboxed, PinOk, Verify, BumpStats, CallFails,
      TokenExpires, TokenRefreshed, RefreshFails, PausePins, ResumePins, FlagAccount, Requeue,
      WireAccount, WirePins, Die, Tick

Day == [ time : 0 .. DAY - 1, verified : 0 .. LargestCap + 1, uncounted : BOOLEAN,
         boosted : BOOLEAN ]

\* The gate is asked.
LEMMA GateOpens ==
  ASSUME TypeOK, GovInv, GovernorAllows
  PROVE  run' \in Run /\ GovInv'
<1>1. /\ run \in Run /\ account \in Accounts /\ day \in Day
      /\ UNCHANGED <<account, day>> /\ run.pc = "loop"
      /\ run' = [run EXCEPT !.pc = "claim", !.cache = account.boards_cache,
                            !.domain = account.domain]
  BY DEF TypeOK, Accounts, Day, GovernorAllows, At
<1>2. run' \in Run /\ run'.pc = "claim" /\ run'.done = run.done /\ run'.boost = run.boost
  BY <1>1 DEF Run, Accounts
<1>3. /\ run.done < PINS_PER_ACCOUNT
      /\ \/ EffectivePinsToday(account.stats) < DailyCap(account)
         \/ run.boost /\ EffectivePinsToday(account.stats) < CAP_OVERRIDE
  <2>1. run.done \in Nat /\ run.boost \in BOOLEAN
    BY <1>1 DEF Run
  <2>2. run.done < PINS_PER_ACCOUNT
    BY <2>1, PublicationAssumption DEF GovernorAllows, MayGoOn
  <2>3. QED
    BY <2>2 DEF GovernorAllows, MayGoOn, Decide
<1>4. GateInv'
  BY <1>1, <1>2, <1>3 DEF GateInv
<1>5. CountInv' /\ VerifiedWithinCap'
  BY <1>1, <1>2 DEF GovInv, CountInv, VerifiedWithinCap, At
<1>6. QED
  BY <1>2, <1>4, <1>5 DEF GovInv

\* A pin is verified.
LEMMA VerifyMoves ==
  ASSUME TypeOK, Core, GovInv, Verify
  PROVE  run' \in Run /\ day' \in Day /\ GovInv'
<1>1. /\ run \in Run /\ account \in Accounts /\ day \in Day /\ account' = account
      /\ run.pc = "stage" /\ run.doc \in Docs /\ run.stage = "VERIFYING"
      /\ day' = IF pin'[run.doc].status = "VERIFIED"
                THEN [day EXCEPT !.verified = UpTo(LargestCap + 1, @ + 1),
                                 !.boosted = @ \/ run.boost] ELSE day
  BY DEF TypeOK, Accounts, Day, Verify, InStage, At, Core, RunInv, InHand
<1>2. CASE \E class \in {"TRANSIENT", "PERMANENT"} : Raise(class)
  <2>1. run' \in Run /\ run'.pc \notin Gated
    <3>1. run' \in {Off, NextTurn}
      BY <1>2 DEF Raise
    <3>2. QED
      BY <1>1, <3>1, TurnsType, TurnFields DEF Gated, InHand
  <2>2. pin'[run.doc].status # "VERIFIED"
    <3>1. AllKeptBack
      BY <1>1, <1>2, RaiseForm DEF TypeOK, Core
    <3>2. pin[run.doc].status # "VERIFIED"
      BY <1>1 DEF Core, RunInv, InHand
    <3>3. QED
      BY <1>1, <3>1, <3>2 DEF AllKeptBack, KeptBack
  <2>3. day' = day /\ day.verified \in Nat
    BY <1>1, <2>2, CapsAreNat DEF Day
  <2>4. GovInv'
    BY <1>1, <2>1, <2>3, GovSame DEF Accounts
  <2>5. QED
    BY <1>1, <2>1, <2>3, <2>4
<1>3. CASE ~\E class \in {"TRANSIENT", "PERMANENT"} : Raise(class)
  <2>1. run' = [run EXCEPT !.pc = "bump"]
    <3>1. Emit("VERIFY_OK", pin[run.doc], [run EXCEPT !.pc = "bump"])
      BY <1>3 DEF Verify
    <3>2. QED
      BY <1>3, <3>1, EmitForm
  <2>2. run' \in Run /\ run'.pc = "bump" /\ run'.done = run.done /\ run'.boost = run.boost
    BY <1>1, <2>1 DEF Run
  <2> DEFINE n == EffectivePinsToday(account.stats)
             v == UpTo(LargestCap + 1, day.verified + 1)
  <2>3. /\ n \in Nat /\ DailyCap(account) \in Nat /\ DailyCap(account) <= LargestCap
        /\ day.verified \in Nat /\ LargestCap \in Nat
        /\ CAP_OVERRIDE \in Nat /\ CAP_OVERRIDE <= LargestCap
    BY <1>1, EffectiveIsNat, CapGrows, CapsAreNat, GovernorAssumption DEF Day, Accounts
  <2>4. v \in 0 .. LargestCap + 1 /\ v <= day.verified + 1
    BY <2>3 DEF UpTo
  <2>5. GateInv'
    BY <1>1, <2>2 DEF GovInv, GateInv, Gated, InHand
  <2>6. ~day.uncounted => day.verified <= n
    BY <1>1, <2>3 DEF GovInv, CountInv, At
  <2>7. \/ n < DailyCap(account)
        \/ run.boost /\ n < CAP_OVERRIDE
    BY <1>1 DEF GovInv, GateInv, Gated, InHand
  <2> HIDE DEF n, v
  <2>8. CASE pin'[run.doc].status = "VERIFIED"
    <3>1. /\ day' \in Day /\ day'.verified = v /\ day'.uncounted = day.uncounted
          /\ day'.boosted = (day.boosted \/ run.boost)
      BY <1>1, <2>4, <2>8 DEF Day, v, Run
    <3>2. v \in Nat /\ EffectivePinsToday(account.stats) = n /\ account' = account
      BY <1>1, <2>3, <2>4 DEF n
    <3>3. ~day'.uncounted => day'.verified <= n + 1
      BY <2>3, <2>4, <2>6, <3>1, <3>2
    <3>4. CountInv'
      BY <2>2, <3>2, <3>3 DEF CountInv, At
    <3>5. VerifiedWithinCap'
      <4>1. CASE n < DailyCap(account)
        BY <2>3, <3>1, <3>2, <3>3, <4>1 DEF VerifiedWithinCap
      <4>2. CASE run.boost /\ n < CAP_OVERRIDE
        <5>1. day'.boosted
          BY <3>1, <4>2, Zenon
        <5>2. ~day'.uncounted => day'.verified <= CAP_OVERRIDE
          BY <2>3, <3>1, <3>2, <3>3, <4>2
        <5>3. QED
          BY <5>1, <5>2 DEF VerifiedWithinCap
      <4>3. QED
        BY <2>7, <4>1, <4>2
    <3>6. QED
      BY <2>2, <2>5, <3>1, <3>4, <3>5 DEF GovInv
  <2>9. CASE pin'[run.doc].status # "VERIFIED"
    <3>1. day' = day
      BY <1>1, <2>9
    <3>2. EffectivePinsToday(account.stats) = n /\ account' = account
      BY <1>1 DEF n
    <3>3. ~day'.uncounted => day'.verified <= n + 1
      BY <2>3, <2>6, <3>1
    <3>4. CountInv'
      BY <2>2, <3>2, <3>3 DEF CountInv, At
    <3>5. VerifiedWithinCap'
      BY <1>1, <3>1 DEF GovInv, VerifiedWithinCap
    <3>6. QED
      BY <1>1, <2>2, <2>5, <3>1, <3>4, <3>5 DEF GovInv
  <2>10. QED
    BY <2>8, <2>9
<1>4. QED
  BY <1>2, <1>3

\* It is counted.
LEMMA BumpMoves ==
  ASSUME TypeOK, GovInv, BumpStats
  PROVE  run' \in Run /\ account' \in Accounts /\ GovInv'
<1> DEFINE n == EffectivePinsToday(account.stats)
<1>1. /\ run \in Run /\ account \in Accounts /\ day \in Day /\ run.pc = "bump"
      /\ account' = [account EXCEPT !.stats = BumpPinStats(@)]
      /\ run' = [NextTurn EXCEPT !.done = run.done + 1] /\ UNCHANGED day
  BY DEF TypeOK, Accounts, Day, BumpStats, At
<1>2. /\ run.done < PINS_PER_ACCOUNT
      /\ \/ n < DailyCap(account)
         \/ run.boost /\ n < CAP_OVERRIDE
  BY <1>1 DEF GovInv, GateInv, Gated
<1>3. /\ n \in Nat /\ DailyCap(account) \in Nat /\ DailyCap(account) <= LargestCap
      /\ day.verified \in Nat /\ LargestCap \in Nat
      /\ CAP_OVERRIDE \in Nat /\ CAP_OVERRIDE <= LargestCap
  BY <1>1, EffectiveIsNat, CapGrows, CapsAreNat, GovernorAssumption DEF Day, Accounts
<1>4. run' \in Run /\ run'.pc = "loop"
  <2>1. run.done + 1 \in 0 .. PINS_PER_ACCOUNT
    BY <1>1, <1>2, PublicationAssumption DEF Run
  <2>2. NextTurn \in Run
    BY <1>1, TurnsType
  <2>3. QED
    BY <1>1, <2>1, <2>2, TurnFields DEF Run
<1>5. BumpPinStats(account.stats) = [pins_today |-> n + 1, is_today |-> TRUE, since_pin |-> 0]
  BY DEF BumpPinStats
<1> HIDE DEF n
<1>6. /\ account' \in Accounts /\ account'.stats = BumpPinStats(account.stats)
      /\ account'.status = account.status /\ account'.age = account.age
  <2>1. BumpPinStats(account.stats) \in Stats
    BY <1>2, <1>3, <1>5, GovernorAssumption DEF Stats
  <2>2. QED
    BY <1>1, <2>1 DEF Accounts
<1>7. EffectivePinsToday(account'.stats) = n + 1
  BY <1>5, <1>6 DEF EffectivePinsToday
<1>8. DailyCap(account') = DailyCap(account)
  BY <1>6 DEF DailyCap, WarmupDay
<1>9. CountInv'
  BY <1>1, <1>3, <1>4, <1>7 DEF GovInv, CountInv, At, n
<1>10. GateInv' /\ VerifiedWithinCap'
  BY <1>1, <1>4, <1>8 DEF GovInv, GateInv, VerifiedWithinCap, Gated, InHand
<1>11. QED
  BY <1>4, <1>6, <1>9, <1>10 DEF GovInv

\* Time passes, and a day with it.
LEMMA TickMoves ==
  ASSUME TypeOK, GovInv, Tick
  PROVE  run' \in Run /\ account' \in Accounts /\ day' \in Day /\ GovInv'
<1> DEFINE midnight == day.time = DAY - 1
<1>1. /\ run \in Run /\ account \in Accounts /\ day \in Day
      /\ day' = IF midnight THEN NewDay(0) ELSE [day EXCEPT !.time = @ + 1]
      /\ account' = OlderAccount(account, midnight)
      /\ run' = IF At("off") THEN run ELSE [run EXCEPT !.age = @ + 1]
      /\ At("off") \/ run.age < RUN_TTL
  BY DEF TypeOK, Accounts, Day, Tick
<1>2. day' \in Day
  BY <1>1, CapsAreNat, GovernorAssumption DEF Day, NewDay
<1>3. run' \in Run /\ run'.pc = run.pc /\ run'.done = run.done /\ run'.boost = run.boost
  <2>1. CASE At("off")
    BY <1>1, <2>1
  <2>2. CASE ~At("off")
    <3>1. run.age + 1 \in 0 .. RUN_TTL
      BY <1>1, <2>2, PublicationAssumption DEF Run
    <3>2. QED
      BY <1>1, <2>2, <3>1 DEF Run
  <2>3. QED
    BY <2>1, <2>2
<1>4. /\ account' \in Accounts /\ account'.stats = OlderStats(account.stats, midnight)
      /\ account'.status = account.status /\ account.age <= account'.age
  <2>1. /\ account.age \in 0 .. FullAge /\ FullAge \in Nat
        /\ account.stats \in Stats /\ account.stats.since_pin \in 0 .. MIN_PIN_INTERVAL
    BY <1>1, CapsAreNat DEF Accounts, Stats
  <2>2. UpTo(FullAge, account.age + 1) \in account.age .. FullAge
    BY <2>1 DEF UpTo
  <2>3. UpTo(MIN_PIN_INTERVAL, account.stats.since_pin + 1) \in 0 .. MIN_PIN_INTERVAL
    BY <2>1, GovernorAssumption DEF UpTo
  <2>4. OlderStats(account.stats, midnight) \in Stats
    BY <2>1, <2>3 DEF OlderStats, Stats
  <2> HIDE DEF midnight
  <2>5. account' = [account EXCEPT !.age = UpTo(FullAge, account.age + 1),
                                  !.stats = OlderStats(account.stats, midnight)]
    BY <1>1 DEF OlderAccount
  <2>6. UpTo(FullAge, account.age + 1) \in 0 .. FullAge
    BY <2>1, <2>2
  <2>7. account' \in Accounts
    BY <1>1, <2>4, <2>5, <2>6 DEF Accounts
  <2>8. QED
    BY <1>1, <2>1, <2>2, <2>5, <2>7 DEF Accounts
<1> DEFINE n == EffectivePinsToday(account.stats)
           m == EffectivePinsToday(account'.stats)
<1>5. n \in Nat /\ m \in Nat /\ (m = IF midnight THEN 0 ELSE n)
  <2>1. account.stats \in Stats
    BY <1>1 DEF Accounts
  <2>2. /\ account'.stats.pins_today = account.stats.pins_today
        /\ account'.stats.is_today = (account.stats.is_today /\ ~midnight)
    BY <1>4, <2>1 DEF OlderStats, Stats
  <2>3. QED
    BY <1>1, <1>4, <2>1, <2>2, EffectiveIsNat DEF EffectivePinsToday, Stats
<1>6. /\ DailyCap(account) \in Nat /\ DailyCap(account') \in Nat
      /\ DailyCap(account) <= DailyCap(account')
  BY <1>1, <1>4, CapGrows
<1> HIDE DEF n, m
<1>7. GateInv'
  BY <1>3, <1>5, <1>6, GovernorAssumption DEF GovInv, GateInv, n, m
<1>8. /\ day.verified \in Nat
      /\ midnight => day'.verified = 0
      /\ ~midnight => /\ day'.verified = day.verified /\ day'.uncounted = day.uncounted
                      /\ day'.boosted = day.boosted
  <2>1. day.verified \in Nat
    BY <1>1, CapsAreNat DEF Day
  <2>2. midnight => day'.verified = 0
    BY <1>1 DEF NewDay
  <2>3. ~midnight => /\ day'.verified = day.verified /\ day'.uncounted = day.uncounted
                     /\ day'.boosted = day.boosted
    BY <1>1 DEF Day
  <2>4. QED
    BY <2>1, <2>2, <2>3
<1> HIDE DEF midnight
<1>9. CountInv'
  BY <1>3, <1>5, <1>8 DEF GovInv, CountInv, At, n, m
<1>10. VerifiedWithinCap'
  <2>1. CASE midnight
    BY <1>6, <1>8, <2>1 DEF VerifiedWithinCap
  <2>2. CASE ~midnight /\ day.verified <= DailyCap(account)
    BY <1>6, <1>8, <2>2 DEF VerifiedWithinCap
  <2>3. CASE ~midnight /\ ~(day.verified <= DailyCap(account))
    BY <1>8, <2>3 DEF GovInv, VerifiedWithinCap
  <2>4. QED
    BY <2>1, <2>2, <2>3
<1>11. QED
  BY <1>2, <1>3, <1>4, <1>7, <1>9, <1>10 DEF GovInv

\* A run dies, possibly before it counts the pin it verified.
LEMMA DieMoves ==
  ASSUME TypeOK, GovInv, Die
  PROVE  run' \in Run /\ day' \in Day /\ GovInv'
<1>1. /\ run \in Run /\ account \in Accounts /\ day \in Day /\ account' = account
      /\ run' = Off /\ day' = [day EXCEPT !.uncounted = @ \/ At("bump")]
  BY DEF TypeOK, Accounts, Day, Die
<1>2. /\ run' \in Run /\ run'.pc = "off"
      /\ day' \in Day /\ day'.verified = day.verified /\ day'.boosted = day.boosted
      /\ day'.uncounted = (day.uncounted \/ run.pc = "bump")
  BY <1>1, TurnsType, TurnFields DEF Day, At
<1>3. GateInv' /\ CountInv' /\ VerifiedWithinCap'
  BY <1>1, <1>2 DEF GovInv, GateInv, CountInv, VerifiedWithinCap, Gated, InHand, At
<1>4. QED
  BY <1>2, <1>3 DEF GovInv

-----------------------------------------------------------------------------
(* The theorems.                                                           *)

IInv == TypeOK /\ Core /\ GovInv

\* The invariant holds at first.
LEMMA InvInit == Init => IInv
<1> SUFFICES ASSUME Init PROVE IInv
  OBVIOUS
<1>1. QueuedDoc \in Doc /\ Sound(QueuedDoc) /\ ~Published(QueuedDoc)
  BY Counters, NoneIsNoState
  DEF QueuedDoc, Doc, Sound, Published, Standing, PinState, ActivePinStates
<1>2. /\ run = Off /\ Off \in Run
      /\ \A d \in Docs : pin[d] = QueuedDoc
  <2>1. Off \in Run
    <3>1. 0 \in 0 .. RUN_TTL /\ 0 \in 0 .. PINS_PER_ACCOUNT
      BY PublicationAssumption
    <3>2. QED
      BY <3>1 DEF Run, Off
  <2>2. QED
    BY <2>1 DEF Init
<1>3. account \in Accounts
  <2>1. 0 \in 0 .. FullAge /\ NewStats \in Stats
    BY CapsAreNat, GovernorAssumption DEF NewStats, Stats
  <2>2. QED
    BY <2>1 DEF Init, Accounts, AccountStatus, Domain
<1>4. day \in Day /\ day.verified = 0
  BY CapsAreNat, GovernorAssumption DEF Init, NewDay, Day
<1>5. TypeOK
  BY <1>1, <1>2, <1>3, <1>4, PublicationAssumption DEF Init, TypeOK, Accounts, Day, Domain
<1>6. Core
  BY <1>1, <1>2, TurnFields
  DEF Core, AllSound, RunInv, PinIsReal, FreshInv, FoundInv, InHand, Pinning, Stands, Published,
      Standing
<1>7. GovInv
  <2>1. DailyCap(account) \in Nat /\ EffectivePinsToday(account.stats) \in Nat
    <3>1. account.age <= account.age /\ account.status \in {account.status, "ACTIVE", "PAUSED"}
      BY <1>3, CapsAreNat DEF Accounts
    <3>2. QED
      BY <1>3, <3>1, CapGrows, EffectiveIsNat
  <2>2. QED
    BY <1>2, <1>4, <2>1, TurnFields
    DEF GovInv, GateInv, CountInv, VerifiedWithinCap, Gated, InHand, At
<1>8. QED
  BY <1>5, <1>6, <1>7 DEF IInv

\* A step's run, account, day and governor.
LEMMA GovStep ==
  ASSUME TypeOK, Core, GovInv, [Next]_vars
  PROVE  run' \in Run /\ account' \in Accounts /\ day' \in Day /\ GovInv'
<1>0. /\ run \in Run /\ account \in Accounts /\ day \in Day /\ day.verified \in Nat
      /\ account.age <= account.age
  BY CapsAreNat DEF TypeOK, Accounts, Day
<1>1. CASE BumpStats
  BY <1>0, <1>1, BumpMoves DEF BumpStats
<1>2. CASE Tick
  BY <1>2, TickMoves
<1>3. CASE ~BumpStats /\ ~Tick
  <2>1. /\ account' \in Accounts /\ account'.stats = account.stats
        /\ account'.age = account.age
        /\ account'.status \in {account.status, "ACTIVE", "PAUSED"}
    BY <1>3, AccountMoves
  <2>2. CASE GovernorAllows
    BY <1>0, <2>1, <2>2, GateOpens DEF GovernorAllows
  <2>3. CASE Verify
    BY <2>1, <2>3, VerifyMoves
  <2>4. CASE Die
    BY <2>1, <2>4, DieMoves
  <2>5. CASE RunStep /\ ~GovernorAllows /\ ~Verify /\ ~Die
    <3>1. /\ run' \in Run
          /\ \/ run'.pc \notin Gated
             \/ run.pc \in Gated /\ run'.done = run.done /\ run'.boost = run.boost
          /\ run.pc # "bump"
      BY <1>3, <2>5, RunMoves
    <3>2. UNCHANGED day
      BY <2>5, <1>3
      DEF RunStep, Start, EnsureBoards, List, OpenAccount, GovernorBlocks, ClaimNext,
          Enrich, Bridge, Allocate, Reconcile, ReconcileDeleted, Create, CreateUnanswered,
          CreateRefused, CreateSandboxed, PinOk, CallFails, TokenExpires, TokenRefreshed,
          RefreshFails
    <3>3. QED
      BY <1>0, <2>1, <3>1, <3>2, GovSame
  <2>6. CASE OperatorStep \/ DeleteBoard \/ UNCHANGED vars
    <3>1. UNCHANGED <<run, day>>
      BY <2>6 DEF OperatorStep, PausePins, ResumePins, FlagAccount, Requeue, WireAccount,
                  WirePins, DeleteBoard, vars
    <3>2. QED
      BY <1>0, <2>1, <3>1, GovSame
  <2>7. QED
    BY <1>3, <2>2, <2>3, <2>4, <2>5, <2>6 DEF Next
<1>4. QED
  BY <1>1, <1>2, <1>3

\* Every step keeps the invariant.
LEMMA InvNext == IInv /\ [Next]_vars => IInv'
<1> SUFFICES ASSUME TypeOK, Core, GovInv, [Next]_vars PROVE IInv'
  BY DEF IInv
<1>1. Core' /\ pin' \in [Docs -> Doc]
  BY CoreStep
<1>2. run' \in Run /\ account' \in Accounts /\ day' \in Day /\ GovInv'
  BY GovStep
<1>3. TypeOK'
  BY <1>1, <1>2, WorldMoves DEF TypeOK, Accounts, Day, Links
<1>4. QED
  BY <1>1, <1>2, <1>3 DEF IInv

\* The invariant is what the theorems are proved from.
LEMMA InvHolds == Spec => []IInv
BY InvInit, InvNext, PTL DEF Spec

(***************************************************************************)
(* The state of the publication stage has its type: the counters stay in   *)
(* their ranges, whatever the limits, and a run's document, stage and      *)
(* board are what their fields hold.                                       *)
(***************************************************************************)
THEOREM TypeCorrect == Spec => []TypeOK
BY InvHolds, PTL DEF IInv

(***************************************************************************)
(* What _stage_bridge and _stage_pin subscript without asking is there, on *)
(* every path of sweeps, failures, pauses, resumes, requeues and wiring    *)
(* that leads a document to its stage.                                     *)
(***************************************************************************)
THEOREM InputsArePresent == Spec => []StageInputsPresent
<1>1. IInv => StageInputsPresent
  BY DEF IInv, Core, AllSound, Sound, Standing, StageInputsPresent, Stands
<1>2. QED
  BY <1>1, InvHolds, PTL

(***************************************************************************)
(* A document that is recorded as pinned has a pin with its link on the    *)
(* board it names, unless that board was deleted, however its runs died,   *)
(* lost replies, fell back on boards or started over with new tokens.      *)
(***************************************************************************)
THEOREM PinsAreReal == Spec => []PinIsReal
BY InvHolds, PTL DEF IInv, Core

(***************************************************************************)
(* The pins verified in a UTC day are within the cap of the account's      *)
(* warm-up, or the override of a launch wave, on every day on which no run *)
(* died before bump_pin_stats, for every number of pins and length of the  *)
(* warm-up.                                                                *)
(***************************************************************************)
THEOREM CapHolds == Spec => []VerifiedWithinCap
BY InvHolds, PTL DEF IInv, GovInv

\* A pin that adds to another is created by a run that fell back on its board.
LEMMA SecondPin ==
  ASSUME TypeOK, Core, [Next]_vars, NEW d \in Docs, NEW l \in Domain, NEW b \in Boards,
         pinterest'[d][l][b] > pinterest[d][l][b], pinterest[d][l][b] > 0
  PROVE  run.fallback
<1>0. pinterest[d][l][b] \in 0 .. 2
  BY DEF TypeOK
<1>1. CASE Create \/ CreateUnanswered
  <2>1. /\ run.doc \in Docs /\ run.link \in Domain /\ run.board \in Boards
        /\ run.pc \in {"create", "create_again"} /\ Created
    BY <1>1 DEF Create, CreateUnanswered, Creating, At, Core, RunInv, InHand, Pinning
  <2>2. d = run.doc /\ l = run.link /\ b = run.board
    BY <1>0, <2>1 DEF Created, TypeOK
  <2>3. QED
    BY <2>1, <2>2 DEF Core, FreshInv
<1>2. CASE OperatorStep \/ DeleteBoard \/ Tick
  <2>1. pinterest' \in Links /\ pinterest'[d][l][b] <= pinterest[d][l][b]
    BY <1>2, OthersMove DEF FewerLinks
  <2>2. pinterest'[d][l][b] \in 0 .. 2
    BY <2>1 DEF Links
  <2>3. QED
    BY <1>0, <2>1, <2>2
<1>3. CASE UNCHANGED pinterest
  BY <1>3 DEF TypeOK
<1>4. QED
  BY <1>1, <1>2, <1>3
  DEF Next, RunStep, vars, Start, EnsureBoards, List, OpenAccount, GovernorAllows,
      GovernorBlocks, ClaimNext, Enrich, Bridge, Allocate, Reconcile, ReconcileDeleted,
      CreateRefused, CreateSandboxed, PinOk, Verify, BumpStats, CallFails, TokenExpires,
      TokenRefreshed, RefreshFails, Die

(***************************************************************************)
(* No crash, lost reply, refreshed token, pause or requeue leads a run to  *)
(* pin a link again on the board it chose: only on a board it fell back on *)
(* without reconciling can a link get a second pin.                        *)
(***************************************************************************)
THEOREM ReconcilesFirst == Spec => ReconciledBeforeCreate
<1>1. IInv /\ [Next]_vars =>
        [ \A d \in Docs, l \in Domain, b \in Boards :
            pinterest'[d][l][b] > pinterest[d][l][b] /\ pinterest[d][l][b] > 0
              => run.fallback ]_vars
  BY SecondPin DEF IInv
<1>2. QED
  BY <1>1, InvHolds, PTL DEF Spec, ReconciledBeforeCreate

-----------------------------------------------------------------------------
(* Every document follows its machine.                                     *)

\* A row of the machine leads from one document to the next.
RowTo(e, f) == \E row \in PUBLICATION_TRANSITIONS : row.source = e.status /\ row.target = f.status

\* A row leads from a state to another one, and only a claim leads into a stage,
\* from outside the stages.
LEMMA RowsMove ==
  ASSUME NEW t \in PUBLICATION_TRANSITIONS
  PROVE  /\ t.source \in PinState /\ t.target \in PinState /\ t.source # t.target
         /\ t.kind = "CLAIM" => t.source \notin Working /\ t.target \in Working
         /\ t.kind # "CLAIM" => t.target \notin Working
         /\ t.event \in {"CLAIM_ENRICH", "CLAIM_BRIDGE", "CLAIM_PIN", "CLAIM_VERIFY"}
              => t.kind = "CLAIM"
BY DEF PUBLICATION_TRANSITIONS, Stage, Transition, PinState, ActivePinStates,
       ResumablePinStates, Working

\* The rows that operators and the sweep use.
LEMMA RowsAreThere ==
  /\ \A s \in Working : \E row \in PUBLICATION_TRANSITIONS :
       row.source = s /\ row.target = StartOf(s)
  /\ \A s \in Working \cup ResumablePinStates : \E row \in PUBLICATION_TRANSITIONS :
       row.source = s /\ row.target = "PAUSED"
  /\ \A s \in ResumablePinStates : \E row \in PUBLICATION_TRANSITIONS :
       row.source = "PAUSED" /\ row.target = s
  /\ \E row \in PUBLICATION_TRANSITIONS : row.source = "DEAD" /\ row.target = "QUEUED"
<1>1. \A s \in Working :
        Transition("SWEEP_EXPIRED", s, StartOf(s), "SWEEP") \in PUBLICATION_TRANSITIONS
  BY DEF PUBLICATION_TRANSITIONS, Stage, Transition, Working, StartOf
<1>2. \A s \in Working \cup ResumablePinStates :
        Transition("PAUSE", s, "PAUSED", "PAUSE") \in PUBLICATION_TRANSITIONS
  BY DEF PUBLICATION_TRANSITIONS, Working, ResumablePinStates, ActivePinStates
<1>3. \A s \in ResumablePinStates :
        Transition("RESUME", "PAUSED", s, "RESUME") \in PUBLICATION_TRANSITIONS
  BY DEF PUBLICATION_TRANSITIONS
<1>4. Transition("REQUEUE_DEAD", "DEAD", "QUEUED", "OPS") \in PUBLICATION_TRANSITIONS
  BY DEF PUBLICATION_TRANSITIONS
<1>5. \A event, s, t, kind :
        Transition(event, s, t, kind).source = s /\ Transition(event, s, t, kind).target = t
  BY DEF Transition
<1>6. QED
  BY <1>1, <1>2, <1>3, <1>4, <1>5

\* A document that stays, or goes along a row, does what Lifecycle promises.
LEMMA RowIsMove ==
  ASSUME NEW d \in Docs, pin[d].status \in PinState,
         pin'[d].status = pin[d].status \/ RowTo(pin[d], pin'[d])
  PROVE  MovesByARow(d)
<1> DEFINE st == [e \in {d} |-> pin[e].status]
           ho == [e \in {d} |-> IF RoleOf(e) = "WORKING" THEN "run" ELSE "none"]
<1>1. CASE pin'[d].status = pin[d].status
  BY <1>1 DEF MovesByARow, Promise!vars, RoleOf
<1>2. CASE RowTo(pin[d], pin'[d])
  <2>1. PICK row \in PUBLICATION_TRANSITIONS :
          row.source = pin[d].status /\ row.target = pin'[d].status
    BY <1>2 DEF RowTo
  <2>2. /\ ho[d] = IF row.source \in Working THEN "run" ELSE "none"
        /\ ho'[d] = IF row.target \in Working THEN "run" ELSE "none"
    BY <2>1, Roles, RowsMove DEF RoleOf
  <2>3. Promise(d)!Follow(d, row)
    BY <2>1 DEF Promise!Follow
  <2>4. CASE row.kind = "CLAIM"
    <3>1. ho[d] = "none" /\ ho' = [ho EXCEPT ![d] = "run"]
      BY <2>2, <2>4, RowsMove
    <3>2. Promise(d)!Take("run", d)
      BY <2>3, <2>4, <3>1 DEF Promise!Take
    <3>3. QED
      BY <3>2 DEF MovesByARow, Promise!Next
  <2>5. CASE row.kind # "CLAIM"
    <3>1. ho' = [ho EXCEPT ![d] = "none"]
      BY <2>2, <2>5, RowsMove
    <3>2. Promise(d)!Move(d)
      BY <2>3, <2>5, <3>1 DEF Promise!Move
    <3>3. QED
      BY <3>2 DEF MovesByARow, Promise!Next
  <2>6. QED
    BY <2>4, <2>5
<1>3. QED
  BY <1>1, <1>2

\* What a step may do to a document: nothing to its status, a row out of its
\* stage by who may let it go, or the one write past the registry.
Follows(d) ==
  \/ pin'[d].status = pin[d].status
  \/ (RowTo(pin[d], pin'[d]) \/ IsWiredAnew(d)) /\ IsLetGo(d)

\* fail_doc goes along a row.
LEMMA FailedRow ==
  ASSUME NEW e \in Doc, NEW class, NEW f \in Failed(e, class)
  PROVE  RowTo(e, f)
<1> DEFINE poison == class = "PERMANENT" \/ (class = "TRANSIENT" /\ e.count + 1 >= MAX_ATTEMPTS)
<1>1. PICK row \in TransitionOfKind(e.status, IF poison THEN "POISON" ELSE "RETRY") :
        f = [ e EXCEPT !.status = row.target, !.lease = 0,
                       !.count = UpTo(MAX_ATTEMPTS, e.count + 1),
                       !.wait = IF poison THEN 0 ELSE BACKOFF ]
  BY DEF Failed
<1>2. f.status = row.target
  BY <1>1 DEF Doc
<1>3. QED
  BY <1>2 DEF TransitionOfKind, RowsWithKind, RowTo

\* A run moves the document in its hand along a row: it was the run's stage that
\* the document was in.
LEMMA HandFollows ==
  ASSUME TypeOK, Core, run.pc \in InHand, NEW f, RowTo(pin[run.doc], f),
         pin' = [pin EXCEPT ![run.doc] = f], NEW d \in Docs
  PROVE  Follows(d)
<1>1. run.doc \in Docs /\ pin \in [Docs -> Doc] /\ pin[d].status \in PinState
  BY DEF TypeOK, Core, RunInv, Doc
<1>2. CASE d # run.doc
  BY <1>1, <1>2 DEF Follows
<1>3. CASE d = run.doc
  <2>1. pin'[d] = f /\ RowTo(pin[d], pin'[d])
    BY <1>1, <1>3
  <2>2. RoleOf(d) = "WORKING" => run.stage = pin[d].status
    BY <1>1, <1>3, Roles DEF Core, RunInv, RoleOf
  <2>3. QED
    BY <1>3, <2>1, <2>2 DEF Follows, IsLetGo
<1>4. QED
  BY <1>2, <1>3

\* A stage that raises, and one that emits its event.
LEMMA RaiseFollows ==
  ASSUME TypeOK, Core, run.pc \in InHand, NEW class, Raise(class), NEW d \in Docs
  PROVE  Follows(d)
<1>1. CASE UNCHANGED pin
  BY <1>1 DEF Follows
<1>2. CASE ~UNCHANGED pin
  <2>1. PICK f \in Failed(pin[run.doc], IF run.retried THEN "TRANSIENT" ELSE class) :
          pin' = [pin EXCEPT ![run.doc] = f]
    BY <1>2 DEF Raise
  <2>2. pin[run.doc] \in Doc
    BY DEF TypeOK, Core, RunInv
  <2>3. RowTo(pin[run.doc], f)
    BY <2>2, FailedRow
  <2>4. QED
    BY <2>1, <2>3, HandFollows
<1>3. QED
  BY <1>1, <1>2

\* See RaiseFollows.
LEMMA EmitFollows ==
  ASSUME TypeOK, Core, run.pc \in InHand, NEW event, NEW patched \in Doc, NEW next,
         patched.status = pin[run.doc].status, Emit(event, patched, next), NEW d \in Docs
  PROVE  Follows(d)
<1>1. CASE Raise("TRANSIENT")
  BY <1>1, RaiseFollows
<1>2. CASE ~Raise("TRANSIENT")
  <2>1. PICK row \in TransitionFor(patched.status, event) :
          pin' = [pin EXCEPT ![run.doc] = Ended(patched, row)]
    BY <1>2, EmitForm
  <2>2. Ended(patched, row).status = row.target
    BY DEF Ended, Doc
  <2>3. RowTo(pin[run.doc], Ended(patched, row))
    BY <2>2 DEF RowTo, TransitionFor, TransitionsFrom
  <2>4. QED
    BY <2>1, <2>3, HandFollows
<1>3. QED
  BY <1>1, <1>2

\* The stages.
LEMMA StageFollows ==
  ASSUME TypeOK, Core, NEW d \in Docs,
         \/ Enrich \/ Bridge \/ Allocate \/ Reconcile \/ ReconcileDeleted \/ Create
         \/ CreateUnanswered \/ CreateRefused \/ CreateSandboxed \/ PinOk \/ Verify
         \/ CallFails \/ TokenExpires \/ TokenRefreshed \/ RefreshFails
  PROVE  Follows(d)
<1>1. run.pc \in InHand
  BY DEF Enrich, Bridge, Allocate, Reconcile, ReconcileDeleted, Create, CreateUnanswered,
         CreateRefused, CreateSandboxed, PinOk, Verify, CallFails, TokenExpires, TokenRefreshed,
         RefreshFails, InStage, Creating, Outside, At, InHand
<1>2. run.doc \in Docs /\ pin[run.doc] \in Doc
  BY <1>1 DEF TypeOK, Core, RunInv
<1>3. CASE UNCHANGED pin
  BY <1>3 DEF Follows
<1>4. CASE \E class \in {"TRANSIENT", "PERMANENT", "QUOTA"} : Raise(class)
  BY <1>1, <1>4, RaiseFollows
<1>5. CASE Enrich
  <2>1. PICK board \in Boards :
          Emit("ENRICH_OK", [pin[run.doc] EXCEPT !.board = board], NextTurn)
    BY <1>5 DEF Enrich, TypeOK, Run
  <2>2. /\ [pin[run.doc] EXCEPT !.board = board] \in Doc
        /\ [pin[run.doc] EXCEPT !.board = board].status = pin[run.doc].status
    BY <1>2 DEF Doc
  <2>3. QED
    BY <1>1, <2>1, <2>2, EmitFollows
<1>6. CASE Bridge
  <2> DEFINE f == [pin[run.doc] EXCEPT !.link = run.domain]
  <2>1. Emit("BRIDGE_OK", f, NextTurn)
    BY <1>6 DEF Bridge
  <2>0. run.domain \in Domain \cup {None}
    BY DEF TypeOK, Run
  <2>2. f \in Doc /\ f.status = pin[run.doc].status
    BY <1>2, <2>0 DEF Doc
  <2>3. QED
    BY <1>1, <2>1, <2>2, EmitFollows
<1>7. CASE PinOk
  <2> DEFINE f == [pin[run.doc] EXCEPT !.pinned_on = run.board, !.board = run.board]
  <2>1. Emit("PIN_OK", f, NextTurn)
    BY <1>7 DEF PinOk
  <2>2. f \in Doc /\ f.status = pin[run.doc].status
    BY <1>2 DEF Doc, TypeOK, Run
  <2>3. QED
    BY <1>1, <2>1, <2>2, EmitFollows
<1>8. CASE Verify
  BY <1>1, <1>2, <1>4, <1>8, EmitFollows DEF Verify
<1>9. QED
  BY <1>3, <1>4, <1>5, <1>6, <1>7, <1>8
  DEF Allocate, Reconcile, ReconcileDeleted, Create, CreateUnanswered, CreateRefused,
      CreateSandboxed, CallFails, TokenExpires, TokenRefreshed, RefreshFails

\* The sweep of a run that starts.
LEMMA SweepFollows ==
  ASSUME TypeOK, Start, NEW d \in Docs
  PROVE  Follows(d)
<1>1. pin[d] \in Doc /\ pin[d].status \in PinState /\ pin'[d] = Swept(pin[d])
  BY DEF TypeOK, Start, Doc
<1>2. CASE ~(PUBLICATION_ROLES[pin[d].status] = "WORKING" /\ pin[d].lease = 0)
  BY <1>1, <1>2 DEF Swept, Follows
<1>3. CASE PUBLICATION_ROLES[pin[d].status] = "WORKING" /\ pin[d].lease = 0
  <2>1. pin[d].status \in Working /\ pin'[d].status = StartOf(pin[d].status)
    BY <1>1, <1>3, Roles, SweepTargets DEF Swept, Doc
  <2>2. RowTo(pin[d], pin'[d])
    BY <2>1, RowsAreThere DEF RowTo
  <2>3. run.pc = "off" /\ run'.pc = "swept"
    BY TurnFields DEF Start, At, Off
  <2>4. QED
    BY <1>3, <2>2, <2>3 DEF Follows, IsLetGo
<1>4. QED
  BY <1>2, <1>3

\* A claim.
LEMMA ClaimFollows ==
  ASSUME TypeOK, ClaimNext, NEW d \in Docs
  PROVE  Follows(d)
<1>1. CASE UNCHANGED pin
  BY <1>1 DEF Follows
<1>2. CASE ~UNCHANGED pin
  <2>1. PICK i \in DOMAIN ClaimOrder :
          /\ Claimable(ClaimOrder[i]) # {}
          /\ \E row \in TransitionFor(pin[Min(Claimable(ClaimOrder[i]))].status, ClaimOrder[i]) :
               pin' = [pin EXCEPT ![Min(Claimable(ClaimOrder[i]))] =
                         [pin[Min(Claimable(ClaimOrder[i]))] EXCEPT
                            !.status = row.target, !.lease = LEASE_TTL, !.paused_from = None]]
    BY <1>2 DEF ClaimNext
  <2> DEFINE event == ClaimOrder[i]
             c     == Min(Claimable(event))
  <2>2. c \in Docs
    <3>1. Claimable(event) \subseteq Docs /\ Claimable(event) \subseteq Nat
      BY PublicationAssumption DEF Claimable
    <3>2. QED
      BY <2>1, <3>1, MinOfNats
  <2>3. event \in {"CLAIM_ENRICH", "CLAIM_BRIDGE", "CLAIM_PIN", "CLAIM_VERIFY"}
    BY DEF ClaimOrder
  <2> HIDE DEF event, c
  <2>4. PICK row \in TransitionFor(pin[c].status, event) :
          pin' = [pin EXCEPT ![c] = [pin[c] EXCEPT !.status = row.target, !.lease = LEASE_TTL,
                                                   !.paused_from = None]]
    BY <2>1 DEF event, c
  <2>5. /\ row \in PUBLICATION_TRANSITIONS /\ row.source = pin[c].status
        /\ row.source \in PinState /\ row.source \notin Working
    BY <2>3, RowsMove DEF TransitionFor, TransitionsFrom
  <2>6. CASE d # c
    BY <2>4, <2>6 DEF TypeOK, Follows
  <2>7. CASE d = c
    <3>1. pin'[d].status = row.target
      BY <2>2, <2>4, <2>7 DEF TypeOK, Doc
    <3>2. RowTo(pin[d], pin'[d]) /\ RoleOf(d) # "WORKING"
      BY <2>5, <2>7, <3>1, Roles DEF RowTo, RoleOf
    <3>3. QED
      BY <3>2 DEF Follows, IsLetGo
  <2>8. QED
    BY <2>6, <2>7
<1>3. QED
  BY <1>1, <1>2

\* The operator: a pause and a resume go along rows, and wiring a domain along one
\* for a paused document only.
LEMMA OperatorFollows ==
  ASSUME TypeOK, Core, OperatorStep, NEW d \in Docs
  PROVE  Follows(d)
<1>1. pin[d] \in Doc /\ pin[d].status \in PinState /\ Sound(pin[d]) /\ pin \in [Docs -> Doc]
  BY DEF TypeOK, Core, AllSound, Doc
<1>2. CASE PausePins
  <2>1. pin'[d] = PauseDoc(pin[d]) /\ operator = "idle" /\ operator' = "pausing"
    BY <1>2 DEF PausePins, MayIssue
  <2>2. CASE pin[d].status \in Working \cup ResumablePinStates
    <3>1. pin'[d].status = "PAUSED"
      BY <1>1, <2>1, <2>2, Roles DEF PauseDoc, Doc
    <3>2. RowTo(pin[d], pin'[d])
      BY <2>2, <3>1, RowsAreThere DEF RowTo
    <3>3. QED
      BY <2>1, <3>2 DEF Follows, IsLetGo
  <2>3. CASE pin[d].status \notin Working \cup ResumablePinStates
    <3>1. PUBLICATION_ROLES[pin[d].status] \notin {"IDLE", "WORKING"}
      BY <1>1, <2>3, Roles, Zenon
    <3>2. QED
      BY <2>1, <3>1 DEF PauseDoc, Follows
  <2>4. QED
    BY <2>2, <2>3
<1>3. CASE ResumePins
  <2>1. pin'[d] = ResumeDoc(pin[d])
    BY <1>3 DEF ResumePins
  <2>2. CASE pin[d].status = "PAUSED" /\ pin[d].paused_from # None
    <3>1. pin'[d].status = pin[d].paused_from /\ pin[d].paused_from \in ResumablePinStates
      BY <1>1, <2>1, <2>2 DEF ResumeDoc, Doc
    <3>2. RowTo(pin[d], pin'[d])
      BY <2>2, <3>1, RowsAreThere DEF RowTo
    <3>3. RoleOf(d) # "WORKING"
      BY <1>1, <2>2, Roles DEF RoleOf, Working
    <3>4. QED
      BY <3>2, <3>3 DEF Follows, IsLetGo
  <2>3. QED
    BY <2>1, <2>2 DEF ResumeDoc, Follows
<1>4. CASE Requeue
  <2>1. PICK e \in Docs :
          /\ pin[e].status = "DEAD"
          /\ pin' = [pin EXCEPT ![e] = [pin[e] EXCEPT !.status = "QUEUED", !.count = 0, !.wait = 0]]
    BY <1>4 DEF Requeue
  <2>2. CASE d # e
    BY <1>1, <2>1, <2>2 DEF Follows
  <2>3. CASE d = e
    <3>1. pin'[d].status = "QUEUED"
      BY <1>1, <2>1, <2>3 DEF Doc
    <3>2. RowTo(pin[d], pin'[d])
      BY <2>1, <2>3, <3>1, RowsAreThere DEF RowTo
    <3>3. RoleOf(d) # "WORKING"
      BY <1>1, <2>1, <2>3, Roles DEF RoleOf, Working
    <3>4. QED
      BY <3>2, <3>3 DEF Follows, IsLetGo
  <2>4. QED
    BY <2>2, <2>3
<1>5. CASE WirePins
  <2>1. CASE d \notin Rewired
    BY <1>5, <2>1 DEF WirePins, Follows
  <2>2. CASE d \in Rewired
    <3>1. /\ pin[d].status \in {"BRIDGED", "PAUSED"} /\ pin'[d].status = "ENRICHED"
          /\ operator = "wiring"
      BY <1>1, <1>5, <2>2 DEF WirePins, Rewired, Doc
    <3>2. pin[d].status = "PAUSED" => RowTo(pin[d], pin'[d])
      BY <3>1, RowsAreThere DEF RowTo, ResumablePinStates
    <3>3. RoleOf(d) # "WORKING"
      BY <1>1, <3>1, Roles DEF RoleOf, Working
    <3>4. QED
      BY <3>1, <3>2, <3>3 DEF Follows, IsLetGo, IsWiredAnew
  <2>3. QED
    BY <2>1, <2>2
<1>6. CASE FlagAccount \/ WireAccount
  BY <1>6 DEF FlagAccount, WireAccount, Follows
<1>7. QED
  BY <1>2, <1>3, <1>4, <1>5, <1>6 DEF OperatorStep

\* Every step.
LEMMA StepFollows ==
  ASSUME TypeOK, Core, [Next]_vars, NEW d \in Docs
  PROVE  Follows(d)
<1>1. CASE UNCHANGED pin
  BY <1>1 DEF Follows
<1>2. CASE Tick
  <2>1. pin'[d].status = pin[d].status
    BY <1>2 DEF Tick, TypeOK, Doc
  <2>2. QED
    BY <2>1 DEF Follows
<1>3. QED
  BY <1>1, <1>2, StageFollows, SweepFollows, ClaimFollows, OperatorFollows
  DEF Next, RunStep, vars, EnsureBoards, List, OpenAccount, GovernorAllows, GovernorBlocks,
      BumpStats, Die, DeleteBoard

(***************************************************************************)
(* Each document follows its machine: whatever runs, failures, sweeps,     *)
(* crashes and operators do, in any order, its status moves along one row  *)
(* of the registry at a time, it is claimed when no stage has it, and it   *)
(* leaves a stage by the hand of the run that claimed it, of the sweep, or *)
(* of the kill switch.  It is Lifecycle, for each document, but for what   *)
(* scripts/wire_domains.py writes.                                         *)
(***************************************************************************)
THEOREM PublicationFollowsLifecycle == Spec => FollowsLifecycle
<1>1. ASSUME Init, NEW d \in Docs PROVE Promise(d)!Init
  <2>1. pin[d].status = "QUEUED" /\ RoleOf(d) # "WORKING"
    <3>1. pin[d].status = "QUEUED"
      BY <1>1 DEF Init, QueuedDoc
    <3>2. QED
      BY <3>1, Roles DEF RoleOf, Working, PinState, ActivePinStates
  <2>2. QED
    BY <2>1 DEF Promise!Init
<1>2. ASSUME IInv, [Next]_vars, NEW d \in Docs
      PROVE  (MovesByARow(d) \/ IsWiredAnew(d)) /\ IsLetGo(d)
  <2>1. Follows(d) /\ pin[d].status \in PinState
    BY <1>2, StepFollows DEF IInv, TypeOK, Doc
  <2>2. CASE pin'[d].status = pin[d].status
    BY <2>1, <2>2, RowIsMove DEF IsLetGo
  <2>3. CASE pin'[d].status # pin[d].status
    BY <2>1, <2>3, RowIsMove DEF Follows
  <2>4. QED
    BY <2>2, <2>3
<1>3. Init => \A d \in Docs : Promise(d)!Init
  BY <1>1
<1>4. IInv /\ [Next]_vars =>
        [ \A d \in Docs : (MovesByARow(d) \/ IsWiredAnew(d)) /\ IsLetGo(d) ]_vars
  BY <1>2
<1>5. QED
  BY <1>3, <1>4, InvHolds, PTL DEF Spec, FollowsLifecycle

-----------------------------------------------------------------------------
(* The engine can drive this machine.                                      *)

\* Every row has a kind that the engine knows.
LEMMA KindsAreKinds ==
  ASSUME NEW t \in PUBLICATION_TRANSITIONS
  PROVE  t.kind \in Kind
BY DEF PUBLICATION_TRANSITIONS, Stage, Transition, Kind

\* The kind of a row fits the roles of the states it joins.
LEMMA RolesOfKinds ==
  ASSUME NEW t \in PUBLICATION_TRANSITIONS
  PROVE  RoleOfKindOK(t)
<1>1. /\ t.kind = "CLAIM" => t.source \in ResumablePinStates /\ t.target \in Working
      /\ t.kind = "ADVANCE" => /\ t.source \in Working
                              /\ t.target \in ResumablePinStates \cup {"VERIFIED"}
      /\ t.kind \in {"RETRY", "SWEEP"} => t.source \in Working /\ t.target \in ResumablePinStates
      /\ t.kind = "POISON" => t.source \in Working /\ t.target = "DEAD"
      /\ t.kind = "PAUSE" => t.source \in Working \cup ResumablePinStates /\ t.target = "PAUSED"
      /\ t.kind = "RESUME" => t.source = "PAUSED" /\ t.target \in ResumablePinStates
      /\ t.source \in {"VERIFIED", "DEAD"} => t.kind = "OPS"
      /\ t.target \in Working => t.kind = "CLAIM"
      /\ t.target = "PAUSED" => t.kind = "PAUSE"
      /\ t.source \in PinState /\ t.target \in PinState
  BY DEF PUBLICATION_TRANSITIONS, Stage, Transition, PinState, ActivePinStates,
         ResumablePinStates, Working
<1>2. QED
  BY <1>1, Roles DEF RoleOfKindOK

\* An event has one kind, whichever stages share it.
LEMMA OneKind ==
  ASSUME NEW t \in PUBLICATION_TRANSITIONS, NEW u \in PUBLICATION_TRANSITIONS,
         t.event = u.event
  PROVE  t.kind = u.kind
BY DEF PUBLICATION_TRANSITIONS, Stage, Transition

\* An idle state can be claimed, and a stage can fail and be given up.
LEMMA StageRows ==
  /\ \A s \in ResumablePinStates :
       \E t \in PUBLICATION_TRANSITIONS : t.source = s /\ t.kind = "CLAIM"
  /\ \A s \in Working :
       \E t \in PUBLICATION_TRANSITIONS : t.source = s /\ t.kind = "RETRY"
  /\ \A s \in Working :
       \E t \in PUBLICATION_TRANSITIONS : t.source = s /\ t.kind = "POISON"
<1>1. ASSUME NEW idle, NEW working, NEW next, NEW dead, NEW claim, NEW ok, NEW fail, NEW poison,
             Stage(idle, working, next, dead, claim, ok, fail, poison)
               \subseteq PUBLICATION_TRANSITIONS
      PROVE  /\ \E t \in PUBLICATION_TRANSITIONS : t.source = idle /\ t.kind = "CLAIM"
             /\ \E t \in PUBLICATION_TRANSITIONS : t.source = working /\ t.kind = "RETRY"
             /\ \E t \in PUBLICATION_TRANSITIONS : t.source = working /\ t.kind = "POISON"
  <2>1. /\ Transition(claim, idle, working, "CLAIM") \in PUBLICATION_TRANSITIONS
        /\ Transition(fail, working, idle, "RETRY") \in PUBLICATION_TRANSITIONS
        /\ Transition(poison, working, dead, "POISON") \in PUBLICATION_TRANSITIONS
    BY <1>1 DEF Stage
  <2>2. QED
    BY <2>1 DEF Transition
<1>2. /\ Stage("QUEUED", "ENRICHING", "ENRICHED", "DEAD", "CLAIM_ENRICH", "ENRICH_OK",
               "ENRICH_FAIL", "ENRICH_POISON") \subseteq PUBLICATION_TRANSITIONS
      /\ Stage("ENRICHED", "BRIDGING", "BRIDGED", "DEAD", "CLAIM_BRIDGE", "BRIDGE_OK",
               "BRIDGE_FAIL", "BRIDGE_POISON") \subseteq PUBLICATION_TRANSITIONS
      /\ Stage("BRIDGED", "PINNING", "PINNED", "DEAD", "CLAIM_PIN", "PIN_OK",
               "PIN_FAIL", "PIN_POISON") \subseteq PUBLICATION_TRANSITIONS
      /\ Stage("PINNED", "VERIFYING", "VERIFIED", "DEAD", "CLAIM_VERIFY", "VERIFY_OK",
               "VERIFY_FAIL", "VERIFY_POISON") \subseteq PUBLICATION_TRANSITIONS
  BY DEF PUBLICATION_TRANSITIONS
<1>3. QED
  BY <1>1, <1>2 DEF Working, ResumablePinStates

\* One row sweeps a stage.
LEMMA SweepRowsAre ==
  ASSUME NEW s \in Working
  PROVE  /\ Transition("SWEEP_EXPIRED", s, StartOf(s), "SWEEP") \in SweepRows(s)
         /\ \A t \in SweepRows(s) : t = Transition("SWEEP_EXPIRED", s, StartOf(s), "SWEEP")
BY DEF SweepRows, TransitionsFrom, PUBLICATION_TRANSITIONS, Stage, Transition, Working, StartOf

\* Every state has the ways out that its role needs.
LEMMA Exits == \A s \in PinState : HasItsExits(s)
<1> TAKE s \in PinState
<1>1. CASE s \in Working
  <2>1. /\ \E t \in PUBLICATION_TRANSITIONS : t.source = s /\ t.kind = "RETRY"
        /\ \E t \in PUBLICATION_TRANSITIONS : t.source = s /\ t.kind = "POISON"
    BY <1>1, StageRows
  <2>2. \E t \in SweepRows(s) : SweepRows(s) = {t}
    <3>1. Transition("SWEEP_EXPIRED", s, StartOf(s), "SWEEP") \in SweepRows(s)
      BY <1>1, SweepRowsAre
    <3>2. \A t \in SweepRows(s) : t = Transition("SWEEP_EXPIRED", s, StartOf(s), "SWEEP")
      BY <1>1, SweepRowsAre
    <3>3. QED
      BY <3>1, <3>2
  <2>3. QED
    BY <1>1, <2>1, <2>2, Roles DEF HasItsExits, RowsWithKind, Working, ResumablePinStates
<1>2. CASE s \in ResumablePinStates
  <2>1. RowsWithKind(s, "CLAIM") # {}
    BY <1>2, StageRows DEF RowsWithKind
  <2>2. QED
    BY <1>2, <2>1, Roles DEF HasItsExits, RowsWithKind, Working, ResumablePinStates
<1>3. CASE s = "PAUSED"
  <2>1. \E t \in PUBLICATION_TRANSITIONS : t.source = s
    BY <1>3, RowsAreThere DEF ResumablePinStates
  <2>2. QED
    BY <1>3, <2>1, Roles DEF HasItsExits, Working, ResumablePinStates
<1>4. CASE s \in {"VERIFIED", "DEAD"}
  BY <1>4, Roles DEF HasItsExits, Working, ResumablePinStates
<1>5. QED
  BY <1>1, <1>2, <1>3, <1>4 DEF PinState, ActivePinStates, Working, ResumablePinStates

\* No state is cut off from the machine.
LEMMA Touched == \A s \in PinState : \E t \in PUBLICATION_TRANSITIONS : s \in {t.source, t.target}
<1> TAKE s \in PinState
<1>1. CASE s \in Working \cup ResumablePinStates
  BY <1>1, RowsAreThere
<1>2. CASE s \in {"PAUSED", "DEAD"}
  BY <1>2, RowsAreThere DEF ResumablePinStates
<1>3. CASE s = "VERIFIED"
  <2>1. Transition("VERIFY_OK", "VERIFYING", "VERIFIED", "ADVANCE") \in PUBLICATION_TRANSITIONS
    BY DEF PUBLICATION_TRANSITIONS, Stage
  <2>2. QED
    BY <1>3, <2>1 DEF Transition
<1>4. QED
  BY <1>1, <1>2, <1>3 DEF PinState, ActivePinStates, Working, ResumablePinStates

(***************************************************************************)
(* The publication machine of registry.py is one that the engine can       *)
(* drive: it has what check_invariants looks for, and what the engine      *)
(* relies on beyond that.  So what EngineProofs proves for every such      *)
(* registry holds of the pins.                                             *)
(***************************************************************************)
THEOREM PublicationIsDrivable == EngineCanDrive
<1>1. States = PinState
  BY DEF States, PUBLICATION_ROLES
<1>2. CheckInvariants
  <2>1. \A t \in PUBLICATION_TRANSITIONS : t.source \in States /\ t.target \in States
    BY <1>1, RowsMove
  <2>2. QED
    BY <1>1, <2>1, RolesOfKinds, Exits, Touched DEF CheckInvariants
<1>3. \A t \in PUBLICATION_TRANSITIONS :
       /\ t.event = "PAUSE"         => t.kind = "PAUSE"
       /\ t.event = "RESUME"        => t.kind = "RESUME"
       /\ t.event = "REQUEUE_DEAD"  => t.kind = "OPS"
  BY DEF PUBLICATION_TRANSITIONS, Stage, Transition
<1>4. ASSUME NEW t \in PUBLICATION_TRANSITIONS, t.kind = "PAUSE"
      PROVE  TransitionTo("PAUSED", "RESUME", PausedFrom(t.source)) # {}
  <2>1. t.source \in Working \cup ResumablePinStates /\ t.source \in PinState
    BY <1>4
    DEF PUBLICATION_TRANSITIONS, Stage, Transition, PinState, ActivePinStates,
        ResumablePinStates, Working
  <2>2. PausedFrom(t.source) \in ResumablePinStates
    <3>1. CASE t.source \in Working
      BY <2>1, <3>1, Roles, SweepTargets DEF PausedFrom, StartOf, Working, ResumablePinStates
    <3>2. CASE t.source \notin Working
      BY <2>1, <3>2, Roles DEF PausedFrom
    <3>3. QED
      BY <3>1, <3>2
  <2> DEFINE u == Transition("RESUME", "PAUSED", PausedFrom(t.source), "RESUME")
  <2>3. u \in PUBLICATION_TRANSITIONS
    BY <2>2 DEF PUBLICATION_TRANSITIONS
  <2>4. u.source = "PAUSED" /\ u.event = "RESUME" /\ u.target = PausedFrom(t.source)
    BY DEF Transition
  <2>5. QED
    BY <2>3, <2>4 DEF TransitionTo, TransitionsFrom
<1>5. QED
  BY <1>1, <1>2, <1>3, <1>4, KindsAreKinds, OneKind, Roles DEF EngineCanDrive

=============================================================================
