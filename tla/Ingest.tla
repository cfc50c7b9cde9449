------------------------------- MODULE Ingest -------------------------------
(***************************************************************************)
(* The ingest stages of the cron runner, src/pinner/runner/main.py:        *)
(* healing, discovery, fetching, moderation and enqueueing, over the       *)
(* products collection and the pins it feeds, for several accounts.        *)
(*                                                                         *)
(* Two collections without a transaction: a product is approved in one     *)
(* write and its pins are inserted by others, one per account, and a run   *)
(* may die between any two; the next run heals what is missing.            *)
(*                                                                         *)
(* As in Publication an operation of the engine is one step, and there is  *)
(* one run at a time.  Between its steps the operator may pause or resume  *)
(* an account, revive a dead product, and clean up or requeue a dead pin.  *)
(*                                                                         *)
(* Abstracted: the listing (a product has one or not), the choice of a     *)
(* niche's keyword, the life of a pin (see PinCloses), which is            *)
(* Publication's subject, and when a lease and a backoff end: one Tick     *)
(* ends those there are.  No gate asks for the Gemini budget here.         *)
(***************************************************************************)
EXTENDS Integers, Registry, FiniteSetsExt

INSTANCE Validator WITH TRANSITIONS <- INGEST_TRANSITIONS,
                        STATE_ROLES <- INGEST_ROLES

CONSTANTS Products,           \* what the store sells: (source, source_product_id)
          Accounts,           \* in the order of the collection
          NicheMaps,          \* how the niches may be shared out among the accounts
          Tainted,            \* the products whose listing violates brand safety
          None,               \* no product, no document
          MAX_ATTEMPTS,       \* DEFAULT_MAX_ATTEMPTS
          FETCH_BUDGET,       \* RunnerConfig.fetch_budget
          MODERATION_BUDGET   \* RunnerConfig.moderation_budget

ASSUME IngestAssumption ==
  /\ IsFiniteSet(Products) /\ Tainted \subseteq Products
  /\ Accounts \subseteq Nat
  /\ \A map \in NicheMaps : DOMAIN map = Accounts
  /\ None \notin Products
  /\ MAX_ATTEMPTS \in Nat \ {0}
  /\ FETCH_BUDGET \in Nat \ {0} /\ MODERATION_BUDGET \in Nat \ {0}

VARIABLES product,   \* the products collection, by product
          pin,       \* pin[a][p]: the pin of product p for account a
          active,    \* the accounts that are ACTIVE or WARMUP
          niche_id,  \* the niche of each account, which nothing changes
          run        \* the run in progress

vars == <<product, pin, active, niche_id, run>>

-----------------------------------------------------------------------------
(* Products.                                                               *)

Niches == UNION { { map[a] : a \in Accounts } : map \in NicheMaps }

Product == [ status  : ProductState,
             count   : 0 .. MAX_ATTEMPTS,               \* attempt.count, up to the last that matters
             delayed : BOOLEAN,                         \* next_attempt_at is ahead
             lease   : {"none", "held", "expired"},
             niche   : Niches,                          \* discovered_niche_id
             raw     : BOOLEAN,                         \* the listing is there
             created : 1 .. Cardinality(Products) ]     \* its place by created_at

\* No document is unset.
ASSUME NoneAssumption == None \notin Product

Known == { p \in Products : product[p] # None }

With(status) == { p \in Known : product[p].status = status }

UpTo(limit, n) == IF n < limit THEN n ELSE limit

Moved(doc, row) ==
  [ doc EXCEPT !.status = row.target, !.count = 0, !.delayed = FALSE, !.lease = "none" ]

\* transition_doc, of a document patched by its stage.
Advanced(doc, event) == { Moved(doc, row) : row \in TransitionFor(doc.status, event) }

\* fail_doc
Failed(doc, class) ==
  LET poison == class = "PERMANENT" \/ doc.count + 1 >= MAX_ATTEMPTS
  IN { [ doc EXCEPT !.status = row.target, !.lease = "none",
                    !.count = UpTo(MAX_ATTEMPTS, @ + 1), !.delayed = ~poison ]
       : row \in TransitionOfKind(doc.status, IF poison THEN "POISON" ELSE "RETRY") }

\* As in Engine, no specification uses a definition named X_<Bug>.
Swept_NotAtAll(doc) == doc

Swept_Unexpired(doc) ==
  IF INGEST_ROLES[doc.status] = "WORKING"
  THEN [ doc EXCEPT !.status = SweepTarget(doc.status), !.lease = "none",
                    !.count = UpTo(MAX_ATTEMPTS, @ + 1), !.delayed = TRUE ]
  ELSE doc

\* sweep_expired_leases, on one document.
Swept(doc) ==
  IF INGEST_ROLES[doc.status] = "WORKING" /\ doc.lease = "expired"
  THEN [ doc EXCEPT !.status = SweepTarget(doc.status), !.lease = "none",
                    !.count = UpTo(MAX_ATTEMPTS, @ + 1), !.delayed = TRUE ]
  ELSE doc

\* upsert_candidate of a product that is new; the unique index refuses the others.
NewProduct(niche) ==
  [ status |-> "PENDING_FETCH", count |-> 0, delayed |-> FALSE, lease |-> "none",
    niche |-> niche, raw |-> FALSE, created |-> Cardinality(Known) + 1 ]

-----------------------------------------------------------------------------
(* The run.                                                                *)

Run == [ pc      : {"off", "swept", "heal", "discover", "fetch", "fetching",
                    "moderate", "moderating", "approved", "enqueue"},
         pairs   : SUBSET (Accounts \X Products),      \* the pins still to be seen to
         niches  : SUBSET Niches,                      \* the niches still to be searched
         product : Products \cup {None},               \* the product claimed
         left    : 0 .. Max({FETCH_BUDGET, MODERATION_BUDGET}) ]

Off == [pc |-> "off", pairs |-> {}, niches |-> {}, product |-> None, left |-> 0]

At(pc) == run.pc = pc

Enter(pc, left) == run' = [Off EXCEPT !.pc = pc, !.left = left]

Stay == UNCHANGED <<product, pin, active, niche_id>>

Start ==
  /\ At("off")
  /\ product' = [p \in Products |-> IF p \in Known THEN Swept(product[p]) ELSE None]
  /\ Enter("swept", 0)
  /\ UNCHANGED <<pin, active, niche_id>>

\* The pins some products are to have: one for each active account of the niche.
Wanted(products) ==
  { pair \in active \X products : niche_id[pair[1]] = product[pair[2]].niche }

\* The next of them in the loops' order: product by product, account by account.
NextPair ==
  CHOOSE pair \in run.pairs : \A other \in run.pairs :
    \/ product[pair[2]].created < product[other[2]].created
    \/ pair[2] = other[2] /\ pair[1] <= other[1]

\* insert_one, unless the pin exists: the one loop asks first, the other is
\* told by the unique index.
InsertNext ==
  /\ run.pairs # {}
  /\ pin' = [pin EXCEPT ![NextPair[1]][NextPair[2]] = IF @ = "none" THEN "open" ELSE @]
  /\ run' = [run EXCEPT !.pairs = @ \ {NextPair}]
  /\ UNCHANGED <<product, active, niche_id>>

\* _requeue_orphaned_approvals: the APPROVED products, then pin by pin.
HealList_Nothing ==
  /\ At("swept")
  /\ run' = [Off EXCEPT !.pc = "heal"]
  /\ Stay

HealList ==
  /\ At("swept")
  /\ run' = [Off EXCEPT !.pc = "heal", !.pairs = Wanted(With("APPROVED"))]
  /\ Stay

HealOne == At("heal") /\ InsertNext

\* _discover: one search for each niche that active accounts have.
DiscoverList ==
  /\ At("heal") /\ run.pairs = {}
  /\ run' = [Off EXCEPT !.pc = "discover", !.niches = { niche_id[a] : a \in active }]
  /\ Stay

\* The niche being searched: the accounts' niches, each once, in their order.
Searched == niche_id[Min({ a \in Accounts : niche_id[a] \in run.niches })]

Upsert_Overwrites ==
  /\ At("discover") /\ run.niches # {}
  /\ \E p \in Products : product' = [product EXCEPT ![p] = NewProduct(Searched)]
  /\ UNCHANGED <<pin, active, niche_id, run>>

\* A candidate of a search; one that is known is left as it is.
Upsert ==
  /\ At("discover") /\ run.niches # {}
  /\ \E p \in Products \ Known : product' = [product EXCEPT ![p] = NewProduct(Searched)]
  /\ UNCHANGED <<pin, active, niche_id, run>>

\* The search of a niche ends, or failed: an error skips the niche.
NicheDone ==
  /\ At("discover") /\ run.niches # {}
  /\ run' = [run EXCEPT !.niches = @ \ {Searched}]
  /\ Stay

DiscoverDone ==
  /\ At("discover") /\ run.niches = {}
  /\ Enter("fetch", FETCH_BUDGET)
  /\ Stay

-----------------------------------------------------------------------------
(* The two stages: claim the oldest document that is ready, and work.      *)

Claimable(idle) ==
  { p \in With(idle) : ~product[p].delayed /\ product[p].lease # "held" }

Oldest(products) ==
  CHOOSE p \in products : \A q \in products : product[p].created <= product[q].created

\* The loop of a stage: claim_one, or the end of the stage.
Claim(idle, event, loop, stage) ==
  /\ At(loop)
  /\ run.left > 0 /\ Claimable(idle) # {}
  /\ LET p == Oldest(Claimable(idle))
     IN \E row \in TransitionFor(idle, event) :
          /\ product' = [product EXCEPT ![p] = [@ EXCEPT !.status = row.target, !.lease = "held"]]
          /\ run' = [run EXCEPT !.pc = stage, !.product = p, !.left = @ - 1]
  /\ UNCHANGED <<pin, active, niche_id>>

LoopEnds(idle, loop) == At(loop) /\ (run.left = 0 \/ Claimable(idle) = {})

ClaimFetch == Claim("PENDING_FETCH", "CLAIM_FETCH", "fetch", "fetching")

FetchEnds ==
  /\ LoopEnds("PENDING_FETCH", "fetch")
  /\ Enter("moderate", MODERATION_BUDGET)
  /\ Stay

ClaimModerate == Claim("FETCHED", "CLAIM_MODERATE", "moderate", "moderating")

\* The publication stage follows; here the run is over.
ModerationEnds ==
  /\ LoopEnds("FETCHED", "moderate")
  /\ run' = Off
  /\ Stay

\* The document the run has claimed is replaced, and the run goes on.
Finish(docs, pc) ==
  /\ \E doc \in docs : product' = [product EXCEPT ![run.product] = doc]
  /\ run' = [run EXCEPT !.pc = pc, !.product = IF pc = "approved" THEN @ ELSE None]
  /\ UNCHANGED <<pin, active, niche_id>>

Claimed == product[run.product]

FetchOk ==
  /\ At("fetching")
  /\ Finish(Advanced([Claimed EXCEPT !.raw = TRUE], "FETCH_OK"), "fetch")

\* The adapter fails.
FetchFails ==
  /\ At("fetching")
  /\ \E class \in {"TRANSIENT", "PERMANENT"} : Finish(Failed(Claimed, class), "fetch")

\* The verdicts the moderator's answer may end in: the brand-safety scan of
\* the listing overrides it.
Verdicts_ModeratorOnly(p) == {"MODERATE_APPROVE", "MODERATE_REJECT"}

Verdicts(p) ==
  IF p \in Tainted /\ product[p].raw THEN {"MODERATE_REJECT"}
                                     ELSE {"MODERATE_APPROVE", "MODERATE_REJECT"}

Moderate ==
  /\ At("moderating")
  /\ \E verdict \in Verdicts(run.product) :
       Finish(Advanced(Claimed, verdict),
              IF verdict = "MODERATE_APPROVE" THEN "approved" ELSE "moderate")

\* The moderator fails, or its answer contradicts itself (GuardrailError, PERMANENT).
ModerationFails ==
  /\ At("moderating")
  /\ \E class \in {"TRANSIENT", "PERMANENT"} : Finish(Failed(Claimed, class), "moderate")

\* _enqueue_pins: the accounts are read after the product has been approved.  An
\* insert the unique index refuses is passed over; any other error makes the except
\* branch fail an APPROVED document, which raises and ends the run, as Die does.
EnqueueList ==
  /\ At("approved")
  /\ run' = [run EXCEPT !.pc = "enqueue", !.pairs = Wanted({run.product})]
  /\ Stay

EnqueueOne == At("enqueue") /\ InsertNext

EnqueueDone ==
  /\ At("enqueue") /\ run.pairs = {}
  /\ Enter("moderate", run.left)
  /\ Stay

\* A crash, the workflow's timeout, or an exception that ends the run.
Die ==
  /\ ~At("off")
  /\ run' = Off
  /\ Stay

-----------------------------------------------------------------------------
(* The operator, the pins' later life, and time.                           *)

\* The account's half of the kill switch and of resume.
PauseAccount ==
  /\ \E a \in active : active' = active \ {a}
  /\ UNCHANGED <<product, pin, niche_id, run>>

ResumeAccount ==
  /\ \E a \in Accounts \ active : active' = active \cup {a}
  /\ UNCHANGED <<product, pin, niche_id, run>>

RequeueProduct_AsNew ==
  /\ \E p \in Known : \E row \in TransitionsFrom(product[p].status, "REQUEUE_DEAD") :
       product' = [product EXCEPT ![p] = [Moved(@, row) EXCEPT !.raw = FALSE]]
  /\ UNCHANGED <<pin, active, niche_id, run>>

\* requeue_dead
RequeueProduct ==
  /\ \E p \in Known : \E doc \in Advanced(product[p], "REQUEUE_DEAD") :
       product' = [product EXCEPT ![p] = doc]
  /\ UNCHANGED <<pin, active, niche_id, run>>

\* reset_dead_products: past the registry, and without a look at the lease.
ResetDeadProduct ==
  /\ \E p \in With("DEAD_FETCH") :
       product' = [product EXCEPT ![p] = [@ EXCEPT !.status = "PENDING_FETCH",
                                                   !.count = 0, !.delayed = FALSE]]
  /\ UNCHANGED <<pin, active, niche_id, run>>

\* What Publication does with a pin, as far as ingest can tell: an active
\* account's pin is VERIFIED or DEAD in the end.
PinCloses ==
  /\ \E a \in active, p \in Products :
       pin[a][p] = "open" /\ pin' = [pin EXCEPT ![a][p] = "closed"]
  /\ UNCHANGED <<product, active, niche_id, run>>

\* A dead pin is requeued, or cleaned up after an incident.
PinReopens ==
  /\ \E a \in Accounts, p \in Products, state \in {"open", "none"} :
       pin[a][p] = "closed" /\ pin' = [pin EXCEPT ![a][p] = state]
  /\ UNCHANGED <<product, active, niche_id, run>>

Tick ==
  /\ product' = [ p \in Products |->
                    IF p \in Known
                    THEN [ product[p] EXCEPT !.delayed = FALSE,
                                             !.lease = IF @ = "none" THEN @ ELSE "expired" ]
                    ELSE None ]
  /\ UNCHANGED <<pin, active, niche_id, run>>

-----------------------------------------------------------------------------
Init ==
  /\ product = [p \in Products |-> None]
  /\ pin = [a \in Accounts |-> [p \in Products |-> "none"]]
  /\ active = Accounts
  /\ niche_id \in NicheMaps
  /\ run = Off

RunStep ==
  \/ Start \/ HealList \/ HealOne
  \/ DiscoverList \/ Upsert \/ NicheDone \/ DiscoverDone
  \/ ClaimFetch \/ FetchOk \/ FetchFails \/ FetchEnds
  \/ ClaimModerate \/ Moderate \/ ModerationFails \/ ModerationEnds
  \/ EnqueueList \/ EnqueueOne \/ EnqueueDone

OperatorStep ==
  \/ PauseAccount \/ ResumeAccount
  \/ RequeueProduct \/ ResetDeadProduct
  \/ PinReopens

Next == RunStep \/ OperatorStep \/ PinCloses \/ Die \/ Tick

Spec == Init /\ [][Next]_vars

\* The workflow starts a run every four hours and a run takes its steps; time
\* passes; and from some time on no run dies and no product is revived by hand.
Fairness ==
  /\ WF_vars(RunStep) /\ WF_vars(Tick)
  /\ <>[][RunStep \/ PauseAccount \/ ResumeAccount \/ PinReopens \/ PinCloses \/ Tick]_vars

FairSpec == Spec /\ Fairness

-----------------------------------------------------------------------------
(* Properties.                                                             *)

\* The type of the state.  A product's place among the products says
\* that none was inserted twice.
TypeOK ==
  /\ product \in [Products -> Product \cup {None}]
  /\ pin \in [Accounts -> [Products -> {"none", "open", "closed"}]]
  /\ active \subseteq Accounts
  /\ niche_id \in NicheMaps
  /\ run \in Run

(***************************************************************************)
(* What is queued for publication has been vetted: a pin, whether its run  *)
(* inserted it, a later one healed it, or it was requeued, is of a product *)
(* that is APPROVED, that no brand-safety scan would have stopped, and     *)
(* that was found for the niche of the pin's account.                      *)
(***************************************************************************)
QueuedIsVetted ==
  \A a \in Accounts, p \in Products :
    pin[a][p] # "none" =>
      /\ p \in With("APPROVED") \ Tainted
      /\ product[p].niche = niche_id[a]

(***************************************************************************)
(* Whatever is still to be moderated, written up or pinned has the listing *)
(* that its next stage reads (moderation and the strategist take an empty  *)
(* one without complaint), also after a sweep, a requeue or a reset.       *)
(***************************************************************************)
LiveWorkHasRaw ==
  \A p \in Known :
    \/ product[p].status \in {"FETCHED", "MODERATING"}
    \/ \E a \in Accounts : pin[a][p] = "open"
    => product[p].raw

(***************************************************************************)
(* Moderation runs once per product: a verdict is final, however often the *)
(* product is found again, also for another niche, and whatever the        *)
(* operator revives.                                                       *)
(***************************************************************************)
VerdictsAreFinal ==
  [][ \A p \in With("APPROVED") \cup With("REJECTED") :
        /\ p \in Known'
        /\ product'[p].status = product[p].status
        /\ product'[p].niche = product[p].niche ]_vars

(***************************************************************************)
(* Each product follows its machine, from the state an unknown one will    *)
(* have: it moves along one row of the registry at a time, is claimed when *)
(* no stage has it, and is let go by every other move; reset_dead_products *)
(* does by hand what a row allows.  A stage's product is moved on by the   *)
(* run that claimed it into that stage, or by the sweep of a later run     *)
(* once its lease is over, and by nothing else: no search finds it anew,   *)
(* and no run finishes what another one has taken over.                    *)
(***************************************************************************)
StatusOf(p) == IF p \in Known THEN product[p].status ELSE "PENDING_FETCH"

IsHeld(p) == INGEST_ROLES[StatusOf(p)] = "WORKING"

Promise(p) ==
  INSTANCE Lifecycle WITH
    TRANSITIONS <- INGEST_TRANSITIONS, STATE_ROLES <- INGEST_ROLES,
    Docs <- {p}, Workers <- {"run"}, None <- "none", FirstState <- "PENDING_FETCH",
    status <- [q \in {p} |-> StatusOf(q)],
    holder <- [q \in {p} |-> IF IsHeld(q) THEN "run" ELSE "none"]

MovesByARow(p) == UNCHANGED Promise(p)!vars \/ Promise(p)!Next

\* Where the run that has claimed a product is.
StageOf(status) == IF status = "FETCHING" THEN "fetching" ELSE "moderating"

IsLetGo(p) ==
  IsHeld(p) /\ StatusOf(p)' # StatusOf(p) =>
    \/ run.product = p /\ run.pc = StageOf(StatusOf(p))
    \/ run.pc = "off" /\ run'.pc = "swept" /\ product[p].lease = "expired"

FollowsLifecycle ==
  /\ \A p \in Products : Promise(p)!Init
  /\ [][ \A p \in Products : MovesByARow(p) /\ IsLetGo(p) ]_vars

(***************************************************************************)
(* An approved product reaches every active account of its niche: also     *)
(* when the run died between the approval and the insert, when the account *)
(* was paused at the time, and when its dead pin was cleaned up.           *)
(***************************************************************************)
ApprovedReachesEveryAccount ==
  \A a \in Accounts, p \in Products :
    (p \in With("APPROVED") /\ product[p].niche = niche_id[a] /\ a \in active)
      ~> (pin[a][p] # "none" \/ a \notin active)

(***************************************************************************)
(* Every product found is approved, rejected or dead in the end, although  *)
(* runs die with a product in hand and a run has a budget.                 *)
(***************************************************************************)
EveryProductSettles ==
  \A p \in Products :
    p \in Known ~> (p \in Known /\ INGEST_ROLES[product[p].status] = "TERMINAL")
=============================================================================
