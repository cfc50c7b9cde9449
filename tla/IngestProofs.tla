---------------------------- MODULE IngestProofs ----------------------------
(***************************************************************************)
(* Theorems about Ingest, for every set of products and of accounts, every *)
(* way to share niches out among them, and all budgets.                    *)
(***************************************************************************)
EXTENDS Ingest, TLAPS, WellFoundedInduction, FiniteSetTheorems

-----------------------------------------------------------------------------
(* The least of some things.                                               *)

\* A set of natural numbers has a least one.
LEMMA LeastNumber ==
  ASSUME NEW S, S \subseteq Nat, S # {}
  PROVE  \E x \in S : \A y \in S : x =< y
<1> DEFINE T == { 1 .. n : n \in S }
<1>1. T \subseteq FiniteSubsetsOf(Nat) /\ T # {}
  <2>1. ASSUME NEW n \in S PROVE 1 .. n \in SUBSET Nat /\ IsFiniteSet(1 .. n)
    BY <2>1, FS_Interval
  <2>2. QED
    BY <2>1 DEF FiniteSubsetsOf
<1>2. PICK X \in T : \A Y \in T : <<Y, X>> \notin StrictSubsetOrdering(Nat)
  BY <1>1, FS_StrictSubsetOrderingWellFounded, WFMin
<1>3. PICK x \in S : X = 1 .. x
  BY <1>2
<1>4. ASSUME NEW y \in S, y < x PROVE FALSE
  <2>1. 1 .. y \subseteq 1 .. x /\ x \in 1 .. x /\ x \notin 1 .. y
    BY <1>4
  <2>2. <<1 .. y, 1 .. x>> \in StrictSubsetOrdering(Nat)
    BY <2>1 DEF StrictSubsetOrdering
  <2>3. QED
    BY <1>2, <1>3, <2>2
<1>5. QED
  BY <1>4

\* So Min is one of them.
LEMMA MinOfNats ==
  ASSUME NEW S, S \subseteq Nat, S # {}
  PROVE  Min(S) \in S
BY LeastNumber DEF Min

\* Of some things with a rank, one has the least.
LEMMA LeastRank ==
  ASSUME NEW S, S # {}, NEW rank, \A s \in S : rank[s] \in Nat
  PROVE  \E s \in S : \A t \in S : rank[s] =< rank[t]
<1> DEFINE R == { rank[s] : s \in S }
<1>1. R \subseteq Nat /\ R # {}
  OBVIOUS
<1>2. PICK x \in R : \A y \in R : x =< y
  BY <1>1, LeastNumber
<1>3. QED
  BY <1>2

-----------------------------------------------------------------------------
(* The ingest machine.                                                     *)

Verdict == {"APPROVED", "REJECTED"}

\* The states a product has its listing in.
Listed == {"FETCHED", "MODERATING", "APPROVED", "REJECTED", "DEAD_MODERATE"}

\* What the rows of the ingest machine do: a verdict is never left, a listing comes with FETCH_OK.
LEMMA Rows ==
  ASSUME NEW t \in INGEST_TRANSITIONS
  PROVE  /\ t.source \in ProductState \ Verdict /\ t.target \in ProductState
         /\ t.target \in Listed   => t.source \in Listed \/ t.event = "FETCH_OK"
         /\ t.target = "APPROVED" => t.event = "MODERATE_APPROVE"
         /\ t.event = "MODERATE_APPROVE" => t.target = "APPROVED"
         /\ t.kind # "ADVANCE"    => t.event \notin {"FETCH_OK", "MODERATE_APPROVE"}
BY DEF INGEST_TRANSITIONS, Stage, Transition, ProductState, Verdict, Listed

\* The two states that a sweep takes a product back to.
LEMMA SweepTargets ==
  ASSUME NEW s \in ProductState, INGEST_ROLES[s] = "WORKING"
  PROVE  /\ s \in {"FETCHING", "MODERATING"}
         /\ SweepTarget(s) = IF s = "FETCHING" THEN "PENDING_FETCH" ELSE "FETCHED"
<1> DEFINE idle == IF s = "FETCHING" THEN "PENDING_FETCH" ELSE "FETCHED"
<1>1. s \in {"FETCHING", "MODERATING"}
  BY DEF INGEST_ROLES, ProductState
<1>2. Transition("SWEEP_EXPIRED", s, idle, "SWEEP") \in SweepRows(s)
  BY <1>1 DEF SweepRows, TransitionsFrom, INGEST_TRANSITIONS, Stage, Transition
<1>3. \A t \in SweepRows(s) : t.target = idle
  BY <1>1 DEF SweepRows, TransitionsFrom, INGEST_TRANSITIONS, Stage, Transition
<1>4. QED
  BY <1>1, <1>2, <1>3 DEF SweepTarget

-----------------------------------------------------------------------------
(* What holds of a product by itself.                                      *)

\* It has its listing when it is past fetching, and brand safety has not refused
\* what is approved.
Good(p, doc) ==
  /\ doc \in Product
  /\ doc.status \in Listed     => doc.raw
  /\ doc.status = "APPROVED"   => p \notin Tainted

\* What every write to a product leaves as it is.
Kept(p, doc, new) ==
  /\ Good(p, new)
  /\ new.niche = doc.niche /\ new.created = doc.created
  /\ doc.status \in Verdict => new.status = doc.status

\* An attempt counter stays within its bound.
LEMMA Counts ==
  ASSUME NEW n \in 0 .. MAX_ATTEMPTS
  PROVE  UpTo(MAX_ATTEMPTS, n + 1) \in 0 .. MAX_ATTEMPTS /\ 0 \in 0 .. MAX_ATTEMPTS
BY IngestAssumption DEF UpTo

\* The sweep.
LEMMA SweptKeeps ==
  ASSUME NEW p \in Products, NEW doc, Good(p, doc)
  PROVE  Kept(p, doc, Swept(doc))
<1>1. CASE ~(INGEST_ROLES[doc.status] = "WORKING" /\ doc.lease = "expired")
  BY <1>1 DEF Swept, Kept
<1>2. CASE INGEST_ROLES[doc.status] = "WORKING" /\ doc.lease = "expired"
  <2> DEFINE idle == IF doc.status = "FETCHING" THEN "PENDING_FETCH" ELSE "FETCHED"
  <2>1. doc \in Product /\ doc.status \in ProductState /\ doc.count \in 0 .. MAX_ATTEMPTS
    BY DEF Good, Product
  <2>2. doc.status \in {"FETCHING", "MODERATING"} /\ SweepTarget(doc.status) = idle
    BY <1>2, <2>1, SweepTargets
  <2>3. Swept(doc) = [ doc EXCEPT !.status = idle, !.lease = "none",
                                  !.count = UpTo(MAX_ATTEMPTS, @ + 1), !.delayed = TRUE ]
    BY <1>2, <2>2 DEF Swept
  <2>4. QED
    BY <2>1, <2>2, <2>3, Counts DEF Kept, Good, Product, ProductState, Verdict, Listed
<1>3. QED
  BY <1>1, <1>2

\* An event of the engine.  FETCH_OK brings the listing, and brand safety is asked
\* before MODERATE_APPROVE.
LEMMA AdvancedKeeps ==
  ASSUME NEW p \in Products, NEW doc, Good(p, doc), NEW event, NEW new,
         \/ new \in Advanced(doc, event) /\ event # "FETCH_OK"
         \/ new \in Advanced([doc EXCEPT !.raw = TRUE], event),
         event = "MODERATE_APPROVE" => p \notin Tainted
  PROVE  /\ Kept(p, doc, new)
         /\ event = "MODERATE_APPROVE" => new.status = "APPROVED"
<1>1. PICK old \in {doc, [doc EXCEPT !.raw = TRUE]} :
        new \in Advanced(old, event) /\ (old.raw \/ event # "FETCH_OK")
  <2>1. [doc EXCEPT !.raw = TRUE].raw
    BY DEF Good, Product
  <2>2. QED
    BY <2>1
<1>2. PICK row \in TransitionFor(old.status, event) : new = Moved(old, row)
  BY <1>1 DEF Advanced
<1>3. row \in INGEST_TRANSITIONS /\ row.source = doc.status /\ row.event = event
  BY <1>1, <1>2 DEF TransitionFor, TransitionsFrom, Good, Product
<1>4. /\ old \in Product /\ old.status = doc.status /\ old.niche = doc.niche
      /\ old.created = doc.created /\ (doc.raw => old.raw)
  BY <1>1 DEF Good, Product
<1>5. 0 \in 0 .. MAX_ATTEMPTS
  BY IngestAssumption
<1>6. /\ new \in Product /\ new.status = row.target /\ new.niche = old.niche
      /\ new.created = old.created /\ new.raw = old.raw
  BY <1>2, <1>3, <1>4, <1>5, Rows DEF Moved, Product
<1>7. QED
  BY <1>1, <1>3, <1>4, <1>6, Rows DEF Kept, Good

\* A failure.
LEMMA FailedKeeps ==
  ASSUME NEW p \in Products, NEW doc, Good(p, doc), NEW class, NEW new \in Failed(doc, class)
  PROVE  Kept(p, doc, new)
<1>1. PICK kind \in {"POISON", "RETRY"}, delayed \in BOOLEAN :
        \E row \in TransitionOfKind(doc.status, kind) :
          new = [ doc EXCEPT !.status = row.target, !.lease = "none",
                             !.count = UpTo(MAX_ATTEMPTS, @ + 1), !.delayed = delayed ]
  BY DEF Failed
<1>2. PICK row \in INGEST_TRANSITIONS :
        /\ row.source = doc.status /\ row.kind = kind
        /\ new = [ doc EXCEPT !.status = row.target, !.lease = "none",
                              !.count = UpTo(MAX_ATTEMPTS, @ + 1), !.delayed = delayed ]
  BY <1>1 DEF TransitionOfKind, RowsWithKind
<1>3. doc \in Product /\ UpTo(MAX_ATTEMPTS, doc.count + 1) \in 0 .. MAX_ATTEMPTS
  BY Counts DEF Good, Product
<1>4. /\ new \in Product /\ new.status = row.target /\ new.niche = doc.niche
      /\ new.created = doc.created /\ new.raw = doc.raw
  BY <1>2, <1>3, Rows DEF Product
<1>5. row.event \notin {"FETCH_OK", "MODERATE_APPROVE"}
  BY <1>2, Rows
<1>6. QED
  BY <1>2, <1>4, <1>5, Rows DEF Kept, Good

\* A claim.
LEMMA ClaimKeeps ==
  ASSUME NEW p \in Products, NEW doc, Good(p, doc),
         NEW event \in {"CLAIM_FETCH", "CLAIM_MODERATE"},
         NEW row \in TransitionFor(doc.status, event)
  PROVE  Kept(p, doc, [doc EXCEPT !.status = row.target, !.lease = "held"])
<1>1. row \in INGEST_TRANSITIONS /\ row.source = doc.status /\ row.event = event
  BY DEF TransitionFor, TransitionsFrom
<1>2. QED
  BY <1>1, Rows DEF Kept, Good, Product

\* A reset, and time.
LEMMA OthersKeep ==
  ASSUME NEW p \in Products, NEW doc, Good(p, doc)
  PROVE  /\ doc.status = "DEAD_FETCH" =>
              Kept(p, doc, [doc EXCEPT !.status = "PENDING_FETCH", !.count = 0, !.delayed = FALSE])
         /\ Kept(p, doc, [ doc EXCEPT !.delayed = FALSE,
                                      !.lease = IF @ = "none" THEN @ ELSE "expired" ])
         /\ Kept(p, doc, doc)
<1>1. 0 \in 0 .. MAX_ATTEMPTS
  BY IngestAssumption
<1>2. QED
  BY <1>1 DEF Kept, Good, Product, ProductState, Verdict, Listed

-----------------------------------------------------------------------------
(* The invariant.                                                          *)

AllGood == \A p \in Known : Good(p, product[p])

\* Products have their places in the order they were found in.
Places ==
  /\ \A p \in Known : product[p].created <= Cardinality(Known)
  /\ \A p, q \in Known : product[p].created = product[q].created => p = q

\* The pins a run still has to see to are of approved products, for their niche.
PairsInv ==
  \A pair \in run.pairs :
    /\ pair[2] \in With("APPROVED")
    /\ product[pair[2]].niche = niche_id[pair[1]]

\* The product a run has claimed, and may have approved, is known.
ClaimInv ==
  /\ run.pc \in {"fetching", "moderating", "approved"} => run.product \in Known
  /\ run.pc = "approved" => run.product \in With("APPROVED")

\* A run searches the niches of accounts.
NichesInv == run.niches \subseteq { niche_id[a] : a \in Accounts }

IInv == TypeOK /\ AllGood /\ Places /\ QueuedIsVetted /\ PairsInv /\ ClaimInv /\ NichesInv

\* What a step may do to the products: find some, and write to those it keeps.
Grown ==
  /\ product' \in [Products -> Product \cup {None}]
  /\ AllGood' /\ Places'
  /\ \A p \in Known :
       /\ p \in Known'
       /\ product'[p].niche = product[p].niche
       /\ product[p].status \in Verdict => product'[p].status = product[p].status

\* A step that keeps each known product, and adds none, grows.
LEMMA KeptStep ==
  ASSUME TypeOK, AllGood, Places, product' \in [Products -> Product \cup {None}],
         \A p \in Known : Kept(p, product[p], product'[p]),
         \A p \in Products \ Known : product'[p] = None
  PROVE  Grown
<1>1. ASSUME NEW p \in Known PROVE p \in Known'
  <2>1. product'[p] \in Product
    BY DEF Kept, Good
  <2>2. QED
    BY <2>1, NoneAssumption DEF Known
<1>2. Known' = Known
  BY <1>1 DEF Known
<1>3. AllGood'
  BY <1>2 DEF AllGood, Kept
<1>4. Places'
  BY <1>2 DEF Places, Kept
<1>5. QED
  BY <1>2, <1>3, <1>4 DEF Grown, Kept

\* A write to one document, or to none.
LEMMA OneKept ==
  ASSUME TypeOK, AllGood, Places, NEW p \in Known, NEW new, Kept(p, product[p], new),
         product' = [product EXCEPT ![p] = new]
  PROVE  Grown
<1>1. new \in Product /\ p \in Products
  BY DEF Kept, Good, Known
<1>2. product' \in [Products -> Product \cup {None}]
  BY <1>1 DEF TypeOK
<1>3. ASSUME NEW q \in Known PROVE Kept(q, product[q], product'[q])
  <2>1. q \in Products /\ Good(q, product[q])
    BY DEF AllGood, Known
  <2>2. CASE q = p
    BY <1>1, <2>2 DEF TypeOK
  <2>3. CASE q # p
    BY <2>1, <2>3, OthersKeep DEF TypeOK
  <2>4. QED
    BY <2>2, <2>3
<1>4. ASSUME NEW q \in Products \ Known PROVE product'[q] = None
  BY <1>1 DEF TypeOK, Known
<1>5. QED
  BY <1>2, <1>3, <1>4, KeptStep

\* So does one that leaves the products alone.
LEMMA NoneKept ==
  ASSUME TypeOK, AllGood, Places, UNCHANGED product
  PROVE  Grown
<1>1. ASSUME NEW q \in Known PROVE Kept(q, product[q], product'[q])
  <2>1. q \in Products /\ Good(q, product[q])
    BY DEF AllGood, Known
  <2>2. QED
    BY <2>1, OthersKeep
<1>2. QED
  BY <1>1, KeptStep DEF TypeOK, Known

\* A candidate is found.
LEMMA UpsertGrows ==
  ASSUME IInv, Upsert
  PROVE  Grown
<1>1. PICK p \in Products \ Known : product' = [product EXCEPT ![p] = NewProduct(Searched)]
  BY DEF Upsert
<1> DEFINE new == NewProduct(Searched)
<1>2. /\ Known \in SUBSET Products /\ Known \cup {p} \in SUBSET Products
      /\ IsFiniteSet(Products)
  BY <1>1, IngestAssumption DEF Known
<1>3. /\ IsFiniteSet(Known) /\ Cardinality(Known) \in Nat /\ Cardinality(Products) \in Nat
      /\ Cardinality(Known \cup {p}) = Cardinality(Known) + 1
      /\ Cardinality(Known \cup {p}) <= Cardinality(Products)
  BY <1>1, <1>2, FS_Subset, FS_AddElement, FS_CardinalityType
<1>4. Searched \in Niches
  <2> DEFINE S == { a \in Accounts : niche_id[a] \in run.niches }
  <2>1. PICK n \in run.niches : TRUE
    BY DEF Upsert
  <2>5. PICK a \in Accounts : n = niche_id[a]
    BY <2>1 DEF IInv, NichesInv
  <2>6. S # {} /\ S \subseteq Nat
    BY <2>1, <2>5, IngestAssumption
  <2>2. Min(S) \in Accounts
    BY <2>6, MinOfNats
  <2>3. niche_id \in NicheMaps
    BY DEF IInv, TypeOK
  <2>7. Searched = niche_id[Min(S)]
    BY DEF Searched
  <2> HIDE DEF S
  <2>4. QED
    BY <2>2, <2>3, <2>7 DEF Niches
<1>5. new \in Product /\ Good(p, new) /\ new.created = Cardinality(Known) + 1
  BY <1>3, <1>4, IngestAssumption DEF NewProduct, Product, ProductState, Good, Listed
<1>6. /\ product' \in [Products -> Product \cup {None}]
      /\ product'[p] = new /\ \A q \in Known : product'[q] = product[q]
      /\ Known' = Known \cup {p}
  BY <1>1, <1>5, NoneAssumption DEF IInv, TypeOK, Known
<1>7. AllGood'
  BY <1>5, <1>6 DEF IInv, AllGood
<1>8. Places'
  <2>1. \A q \in Known : product[q].created \in Nat /\ product[q].created <= Cardinality(Known)
    BY DEF IInv, TypeOK, Places, Known, Product
  <2>2. QED
    BY <1>3, <1>5, <1>6, <2>1 DEF IInv, Places
<1>9. QED
  BY <1>6, <1>7, <1>8 DEF Grown

\* The product of a stage, which a claim picks and an event moves.
LEMMA OldestIsOne ==
  ASSUME TypeOK, NEW S, S \subseteq Known, S # {}
  PROVE  Oldest(S) \in S
<1> DEFINE rank == [p \in S |-> product[p].created]
<1>1. \A p \in S : rank[p] \in Nat
  BY DEF TypeOK, Known, Product
<1>2. \E p \in S : \A q \in S : rank[p] =< rank[q]
  BY <1>1, LeastRank
<1>3. QED
  BY <1>2 DEF Oldest

\* So does a claim, and it takes a known product.
LEMMA ClaimGrows ==
  ASSUME IInv, NEW idle, NEW event \in {"CLAIM_FETCH", "CLAIM_MODERATE"}, NEW loop, NEW stage,
         Claim(idle, event, loop, stage)
  PROVE  Grown /\ run'.product \in Known
<1> DEFINE p == Oldest(Claimable(idle))
<1>1. p \in Claimable(idle)
  BY OldestIsOne DEF Claim, Claimable, With, IInv
<1>2. p \in Known /\ product[p].status = idle
  BY <1>1 DEF Claimable, With
<1> HIDE DEF p
<1>3. PICK row \in TransitionFor(idle, event) :
        /\ product' = [product EXCEPT ![p] = [product[p] EXCEPT !.status = row.target, !.lease = "held"]]
        /\ run' = [run EXCEPT !.pc = stage, !.product = p, !.left = @ - 1]
  BY DEF Claim, p
<1>4. p \in Products /\ Good(p, product[p])
  BY <1>2 DEF IInv, AllGood, Known
<1>5. Kept(p, product[p], [product[p] EXCEPT !.status = row.target, !.lease = "held"])
  BY <1>2, <1>3, <1>4, ClaimKeeps
<1>6. run'.product = p
  BY <1>3 DEF IInv, TypeOK, Run
<1>7. QED
  BY <1>2, <1>3, <1>5, <1>6, OneKept DEF IInv

\* So does the end of a stage; enqueueing begins for an approved product only.
LEMMA StageGrows ==
  ASSUME IInv, FetchOk \/ FetchFails \/ Moderate \/ ModerationFails
  PROVE  /\ Grown
         /\ run'.pc = "approved" =>
              run'.product \in Known /\ product'[run'.product].status = "APPROVED"
<1> DEFINE p == run.product
           doc == product[p]
<1>0. run \in Run /\ product \in [Products -> Product \cup {None}]
  BY DEF IInv, TypeOK
<1>1. p \in Known /\ p \in Products /\ Good(p, doc)
  BY DEF IInv, AllGood, ClaimInv, Known, At, FetchOk, FetchFails, Moderate, ModerationFails
<1>2. ASSUME NEW new, Kept(p, doc, new), product' = [product EXCEPT ![p] = new]
      PROVE  Grown /\ product'[p] = new
  BY <1>0, <1>1, <1>2, OneKept DEF IInv
<1>3. CASE FetchOk
  <2>1. PICK new \in Advanced([doc EXCEPT !.raw = TRUE], "FETCH_OK") :
          product' = [product EXCEPT ![p] = new]
    BY <1>3 DEF FetchOk, Finish, Claimed
  <2>2. Kept(p, doc, new)
    BY <1>1, <2>1, AdvancedKeeps
  <2>3. run'.pc = "fetch"
    BY <1>0, <1>3 DEF FetchOk, Finish, Run
  <2>4. QED
    BY <1>2, <2>1, <2>2, <2>3
<1>4. CASE FetchFails \/ ModerationFails
  <2>1. PICK class \in {"TRANSIENT", "PERMANENT"} :
          \E new \in Failed(doc, class) : product' = [product EXCEPT ![p] = new]
    BY <1>4 DEF FetchFails, ModerationFails, Finish, Claimed
  <2>2. PICK new \in Failed(doc, class) : product' = [product EXCEPT ![p] = new]
    BY <2>1
  <2>3. Kept(p, doc, new)
    BY <1>1, FailedKeeps
  <2>4. run'.pc \in {"fetch", "moderate"}
    BY <1>0, <1>4 DEF FetchFails, ModerationFails, Finish, Run
  <2>5. QED
    BY <1>2, <2>2, <2>3, <2>4
<1>5. CASE Moderate
  <2>1. PICK verdict \in Verdicts(p) :
          Finish(Advanced(doc, verdict), IF verdict = "MODERATE_APPROVE" THEN "approved" ELSE "moderate")
    BY <1>5 DEF Moderate, Claimed
  <2>2. PICK new \in Advanced(doc, verdict) : product' = [product EXCEPT ![p] = new]
    BY <2>1 DEF Finish
  <2>3. verdict = "MODERATE_APPROVE" => p \notin Tainted
    <3>1. SUFFICES ASSUME verdict = "MODERATE_APPROVE" PROVE doc.raw
      BY <2>1, <3>1 DEF Verdicts
    <3>2. doc.status = "MODERATING"
      BY <1>1, <2>2, <3>1 DEF Advanced, TransitionFor, TransitionsFrom, INGEST_TRANSITIONS,
                              Stage, Transition
    <3>3. QED
      BY <1>1, <3>2 DEF Good, Listed
  <2>4. /\ Kept(p, doc, new)
        /\ verdict = "MODERATE_APPROVE" => new.status = "APPROVED"
    <3>1. verdict # "FETCH_OK"
      BY <2>1 DEF Verdicts
    <3>2. QED
      BY <1>1, <2>2, <2>3, <3>1, AdvancedKeeps
  <2>5. run'.pc = "approved" => verdict = "MODERATE_APPROVE" /\ run'.product = p
    BY <1>0, <2>1 DEF Finish, Run
  <2>6. QED
    BY <1>1, <1>2, <2>2, <2>4, <2>5
<1>6. QED
  BY <1>3, <1>4, <1>5

\* So does a sweep, and so does time.
LEMMA AllKept ==
  ASSUME IInv, Start \/ Tick
  PROVE  Grown
<1>1. ASSUME NEW p \in Known PROVE Kept(p, product[p], product'[p])
  <2>1. p \in Products /\ Good(p, product[p])
    BY DEF IInv, AllGood, Known
  <2>2. CASE Start
    BY <2>1, <2>2, SweptKeeps DEF Start
  <2>3. CASE Tick
    BY <2>1, <2>3, OthersKeep DEF Tick
  <2>4. QED
    BY <2>2, <2>3
<1>2. ASSUME NEW p \in Products \ Known PROVE product'[p] = None
  BY DEF Start, Tick
<1>3. product' \in [Products -> Product \cup {None}]
  <2>1. \A p \in Products : product'[p] \in Product \cup {None}
    BY <1>1, <1>2 DEF Kept, Good
  <2>2. \E f : product' = [p \in Products |-> f[p]]
    <3>1. product' = [p \in Products |-> product'[p]]
      BY DEF Start, Tick
    <3>2. QED
      BY <3>1
  <2>3. QED
    BY <2>1, <2>2
<1>4. QED
  BY <1>1, <1>2, <1>3, KeptStep DEF IInv

\* So do the operator's commands, which leave verdicts alone.
LEMMA OperatorGrows ==
  ASSUME IInv, RequeueProduct \/ ResetDeadProduct
  PROVE  Grown
<1>1. CASE RequeueProduct
  <2>1. PICK p \in Known : \E doc \in Advanced(product[p], "REQUEUE_DEAD") :
                             product' = [product EXCEPT ![p] = doc]
    BY <1>1 DEF RequeueProduct
  <2>2. PICK doc \in Advanced(product[p], "REQUEUE_DEAD") : product' = [product EXCEPT ![p] = doc]
    BY <2>1
  <2>3. p \in Products /\ Good(p, product[p])
    BY DEF IInv, AllGood, Known
  <2>4. Kept(p, product[p], doc)
    <3>1. PICK event : event = "REQUEUE_DEAD" /\ doc \in Advanced(product[p], event)
      BY <2>2
    <3>2. event # "FETCH_OK" /\ event # "MODERATE_APPROVE"
      BY <3>1
    <3>3. QED
      BY <2>3, <3>1, <3>2, AdvancedKeeps
  <2>5. QED
    BY <2>2, <2>4, OneKept DEF IInv
<1>2. CASE ResetDeadProduct
  <2>1. PICK p \in With("DEAD_FETCH") :
          product' = [product EXCEPT ![p] = [product[p] EXCEPT !.status = "PENDING_FETCH",
                                                               !.count = 0, !.delayed = FALSE]]
    BY <1>2 DEF ResetDeadProduct
  <2>2. p \in Known /\ p \in Products /\ Good(p, product[p]) /\ product[p].status = "DEAD_FETCH"
    BY DEF IInv, AllGood, Known, With
  <2>3. Kept(p, product[p], [product[p] EXCEPT !.status = "PENDING_FETCH",
                                               !.count = 0, !.delayed = FALSE])
    BY <2>2, OthersKeep
  <2>4. QED
    BY <2>1, <2>2, <2>3, OneKept DEF IInv
<1>3. QED
  BY <1>1, <1>2

\* So does every step.
LEMMA GrownStep ==
  ASSUME IInv, [Next]_vars
  PROVE  Grown
<1>1. CASE UNCHANGED product
  BY <1>1, NoneKept DEF IInv
<1>2. CASE ClaimFetch \/ ClaimModerate
  BY <1>2, ClaimGrows DEF ClaimFetch, ClaimModerate
<1>3. QED
  BY <1>1, <1>2, UpsertGrows, StageGrows, AllKept, OperatorGrows
  DEF Next, RunStep, OperatorStep, vars, Stay, HealList, HealOne, InsertNext, DiscoverList,
      NicheDone, DiscoverDone, FetchEnds, ModerationEnds, EnqueueList, EnqueueOne, EnqueueDone,
      PauseAccount, ResumeAccount, PinReopens, PinCloses, Die

-----------------------------------------------------------------------------
(* The pins.                                                               *)

\* The next pair is one of those there are: the CHOOSE of NextPair finds it.
LEMMA NextPairIsOne ==
  ASSUME IInv, run.pairs # {}
  PROVE  NextPair \in run.pairs
<1>1. run.pairs \subseteq Accounts \X Products
  BY DEF IInv, TypeOK, Run
<1>2. \A pair \in run.pairs : pair[2] \in Known /\ product[pair[2]].created \in Nat
  BY DEF IInv, PairsInv, TypeOK, With, Known, Product
<1> DEFINE found == [pair \in run.pairs |-> product[pair[2]].created]
<1>3. PICK first \in run.pairs : \A other \in run.pairs : found[first] =< found[other]
  BY <1>2, LeastRank
<1> DEFINE S    == { pair \in run.pairs : pair[2] = first[2] }
           rank == [pair \in S |-> pair[1]]
<1>4. S # {} /\ \A pair \in S : rank[pair] \in Nat
  BY <1>1, IngestAssumption
<1>5. PICK pair \in S : \A other \in S : rank[pair] =< rank[other]
  BY <1>4, LeastRank
<1>6. ASSUME NEW other \in run.pairs
      PROVE  \/ product[pair[2]].created < product[other[2]].created
             \/ pair[2] = other[2] /\ pair[1] =< other[1]
  <2>1. product[pair[2]].created =< product[other[2]].created
    BY <1>3, <1>5
  <2>2. CASE product[pair[2]].created = product[other[2]].created
    <3>1. pair[2] = other[2]
      BY <1>2, <1>5, <2>2 DEF IInv, Places
    <3>2. other \in S
      BY <1>5, <3>1
    <3>3. QED
      BY <1>5, <3>1, <3>2
  <2>3. QED
    BY <1>2, <1>5, <2>1, <2>2
<1>7. pair \in run.pairs
  BY <1>5
<1>8. QED
  BY <1>6, <1>7 DEF NextPair

\* A pin is there after a step if it was, or if a run was to see to it.
LEMMA PinsFrom ==
  ASSUME IInv, [Next]_vars
  PROVE  /\ pin' \in [Accounts -> [Products -> {"none", "open", "closed"}]]
         /\ \A a \in Accounts, p \in Products :
              pin'[a][p] # "none" => pin[a][p] # "none" \/ <<a, p>> \in run.pairs
<1>0. pin \in [Accounts -> [Products -> {"none", "open", "closed"}]]
  BY DEF IInv, TypeOK
<1>1. ASSUME NEW a \in Accounts, NEW p \in Products, NEW s \in {"none", "open", "closed"},
             pin' = [pin EXCEPT ![a][p] = s],
             s = "none" \/ pin[a][p] # "none" \/ <<a, p>> \in run.pairs
      PROVE  /\ pin' \in [Accounts -> [Products -> {"none", "open", "closed"}]]
             /\ \A b \in Accounts, q \in Products :
                  pin'[b][q] # "none" => pin[b][q] # "none" \/ <<b, q>> \in run.pairs
  BY <1>0, <1>1
<1>2. CASE UNCHANGED pin
  BY <1>0, <1>2
<1>3. CASE HealOne \/ EnqueueOne
  <2>1. NextPair \in run.pairs /\ NextPair \in Accounts \X Products
    BY <1>3, NextPairIsOne DEF HealOne, EnqueueOne, InsertNext, IInv, TypeOK, Run
  <2>2. PICK a \in Accounts, p \in Products : NextPair = <<a, p>>
    BY <2>1
  <2>3. /\ NextPair[1] = a /\ NextPair[2] = p
        /\ pin' = [pin EXCEPT ![NextPair[1]][NextPair[2]] =
                     IF pin[NextPair[1]][NextPair[2]] = "none" THEN "open"
                     ELSE pin[NextPair[1]][NextPair[2]]]
    BY <1>3, <2>2 DEF HealOne, EnqueueOne, InsertNext
  <2>4. /\ pin' = [pin EXCEPT ![a][p] = IF pin[a][p] = "none" THEN "open" ELSE pin[a][p]]
        /\ (IF pin[a][p] = "none" THEN "open" ELSE pin[a][p]) \in {"none", "open", "closed"}
    BY <1>0, <2>3
  <2>5. QED
    BY <1>1, <2>1, <2>2, <2>4
<1>4. CASE PinCloses
  <2>1. PICK a \in active, p \in Products :
          pin[a][p] = "open" /\ pin' = [pin EXCEPT ![a][p] = "closed"]
    BY <1>4 DEF PinCloses
  <2>2. a \in Accounts
    BY DEF IInv, TypeOK
  <2>3. QED
    BY <1>1, <2>1, <2>2
<1>5. CASE PinReopens
  <2>1. PICK a \in Accounts, p \in Products, s \in {"open", "none"} :
          pin[a][p] = "closed" /\ pin' = [pin EXCEPT ![a][p] = s]
    BY <1>5 DEF PinReopens
  <2>2. QED
    BY <1>1, <2>1
<1>6. QED
  BY <1>2, <1>3, <1>4, <1>5
  DEF Next, RunStep, OperatorStep, vars, Stay, Start, HealList, DiscoverList, Upsert, NicheDone,
      DiscoverDone, ClaimFetch, ClaimModerate, Claim, FetchOk, FetchFails, Moderate,
      ModerationFails, Finish, FetchEnds, ModerationEnds, EnqueueList, EnqueueDone,
      PauseAccount, ResumeAccount, RequeueProduct, ResetDeadProduct, Die, Tick

\* A new pin is of a pair that was listed for an approved product.
LEMMA QueuedStep ==
  ASSUME IInv, [Next]_vars, Grown, UNCHANGED niche_id
  PROVE  QueuedIsVetted'
<1> SUFFICES ASSUME NEW a \in Accounts, NEW p \in Products, pin'[a][p] # "none"
             PROVE  p \in With("APPROVED")' \ Tainted /\ product'[p].niche = niche_id[a]
  BY DEF QueuedIsVetted
<1>1. p \in With("APPROVED") /\ product[p].niche = niche_id[a]
  <2>1. CASE pin[a][p] # "none"
    BY <2>1 DEF IInv, QueuedIsVetted
  <2>2. CASE <<a, p>> \in run.pairs
    BY <2>2 DEF IInv, PairsInv
  <2>3. QED
    BY <2>1, <2>2, PinsFrom
<1>2. /\ p \in Known' /\ product'[p].status = "APPROVED"
      /\ product'[p].niche = product[p].niche
  BY <1>1 DEF Grown, With, Verdict
<1>3. p \notin Tainted
  BY <1>2 DEF Grown, AllGood, Good
<1>4. QED
  BY <1>1, <1>2, <1>3 DEF With

-----------------------------------------------------------------------------
(* The run.                                                                *)

\* The counter of a loop stays within its bound.
LEMMA Budgets ==
  LET limit == Max({FETCH_BUDGET, MODERATION_BUDGET})
  IN /\ limit \in Nat
     /\ 0 \in 0 .. limit /\ FETCH_BUDGET \in 0 .. limit /\ MODERATION_BUDGET \in 0 .. limit
<1> DEFINE S == {FETCH_BUDGET, MODERATION_BUDGET}
<1>1. \E x \in S : \A y \in S : x >= y
  BY IngestAssumption
<1>2. Max(S) \in S /\ \A y \in S : Max(S) >= y
  BY <1>1 DEF Max
<1>3. QED
  BY <1>2, IngestAssumption

\* A run that is over, or between two of its loops.
LEMMA Entered ==
  ASSUME NEW left, left \in 0 .. Max({FETCH_BUDGET, MODERATION_BUDGET}),
         NEW pc \in {"off", "swept", "heal", "discover", "fetch", "moderate"},
         run' = Off \/ run' = [Off EXCEPT !.pc = pc, !.left = left]
  PROVE  run' \in Run /\ PairsInv' /\ ClaimInv' /\ NichesInv'
<1>1. /\ run'.pc \in {"off", pc} /\ run'.pairs = {} /\ run'.niches = {} /\ run' \in Run
  <2>1. CASE run' = Off
    BY <2>1, Budgets DEF Off, Run
  <2>2. CASE run' = [Off EXCEPT !.pc = pc, !.left = left]
    BY <2>2 DEF Off, Run
  <2>3. QED
    BY <2>1, <2>2
<1>2. QED
  BY <1>1 DEF PairsInv, ClaimInv, NichesInv

\* A run's pairs and product stand, whatever becomes of the products.
LEMMA RunStands ==
  ASSUME IInv, Grown, UNCHANGED niche_id,
         run'.pairs \subseteq run.pairs, run'.niches \subseteq run.niches
  PROVE  PairsInv' /\ NichesInv'
BY DEF IInv, PairsInv, NichesInv, Grown, With, Verdict

\* The pins that a run lists.
LEMMA WantedStands ==
  ASSUME IInv, NEW S, S \subseteq With("APPROVED")
  PROVE  /\ Wanted(S) \subseteq Accounts \X Products
         /\ \A pair \in Wanted(S) :
              pair[2] \in With("APPROVED") /\ product[pair[2]].niche = niche_id[pair[1]]
BY DEF IInv, TypeOK, Wanted, With, Known

\* What the run carries from its reads stays true while products grow.
LEMMA RunsOn ==
  ASSUME IInv, [Next]_vars, Grown, UNCHANGED niche_id
  PROVE  run' \in Run /\ PairsInv' /\ ClaimInv' /\ NichesInv'
<1>0. run \in Run
  BY DEF IInv, TypeOK
<1>1. CASE UNCHANGED run
  <2>1. ClaimInv'
    BY <1>1 DEF IInv, ClaimInv, Grown, With, Verdict
  <2>2. QED
    BY <1>0, <1>1, <2>1, RunStands
<1>2. CASE Start \/ DiscoverDone \/ FetchEnds \/ ModerationEnds \/ EnqueueDone \/ Die
  <2>1. CASE run' = Off
    BY <2>1, Budgets, Entered
  <2>2. CASE run' # Off
    BY <1>0, <1>2, <2>2, Budgets, Entered
    DEF Start, DiscoverDone, FetchEnds, ModerationEnds, EnqueueDone, Die, Enter, Run
  <2>3. QED
    BY <2>1, <2>2
<1>3. CASE HealList
  <2>1. /\ run' = [Off EXCEPT !.pc = "heal", !.pairs = Wanted(With("APPROVED"))]
        /\ UNCHANGED <<product, niche_id>>
    BY <1>3 DEF HealList, Stay
  <2>2. /\ Wanted(With("APPROVED")) \subseteq Accounts \X Products
        /\ \A pair \in Wanted(With("APPROVED")) :
             pair[2] \in With("APPROVED") /\ product[pair[2]].niche = niche_id[pair[1]]
    BY WantedStands
  <2>3. /\ run' \in Run /\ run'.pc = "heal" /\ run'.pairs = Wanted(With("APPROVED"))
        /\ run'.niches = {}
    BY <2>1, <2>2, Budgets DEF Off, Run
  <2>4. QED
    BY <2>1, <2>2, <2>3 DEF PairsInv, ClaimInv, NichesInv, With, Known
<1>4. CASE HealOne \/ EnqueueOne \/ NicheDone
  <2>1. /\ run' \in Run /\ run'.pc = run.pc /\ run'.product = run.product
        /\ run'.pairs \subseteq run.pairs /\ run'.niches \subseteq run.niches
    BY <1>0, <1>4 DEF HealOne, EnqueueOne, InsertNext, NicheDone, Run
  <2>2. ClaimInv'
    BY <2>1 DEF IInv, ClaimInv, Grown, With, Verdict
  <2>3. QED
    BY <2>1, <2>2, RunStands
<1>5. CASE DiscoverList
  <2>1. /\ run' = [Off EXCEPT !.pc = "discover", !.niches = { niche_id[a] : a \in active }]
        /\ { niche_id[a] : a \in active } \subseteq { niche_id[a] : a \in Accounts }
        /\ { niche_id[a] : a \in Accounts } \subseteq Niches
    BY <1>5 DEF DiscoverList, IInv, TypeOK, Niches
  <2>2. /\ run' \in Run /\ run'.pc = "discover" /\ run'.pairs = {}
        /\ run'.niches \subseteq { niche_id[a] : a \in Accounts }
    BY <2>1, Budgets DEF Off, Run
  <2>3. QED
    BY <2>2 DEF PairsInv, ClaimInv, NichesInv
<1>6. ASSUME NEW idle, NEW event \in {"CLAIM_FETCH", "CLAIM_MODERATE"}, NEW loop,
             NEW stage \in {"fetching", "moderating"}, Claim(idle, event, loop, stage)
      PROVE  run' \in Run /\ PairsInv' /\ ClaimInv' /\ NichesInv'
  <2>1. run'.product \in Known
    BY <1>6, ClaimGrows
  <2>2. /\ run' = [run EXCEPT !.pc = stage, !.product = Oldest(Claimable(idle)), !.left = @ - 1]
        /\ run.left > 0
    BY <1>6 DEF Claim
  <2>3. run.left - 1 \in 0 .. Max({FETCH_BUDGET, MODERATION_BUDGET})
    BY <1>0, <2>2, Budgets DEF Run
  <2>4. run'.product = Oldest(Claimable(idle)) /\ run'.product \in Products
    BY <1>0, <2>1, <2>2 DEF Run, Known
  <2>5. /\ run' \in Run /\ run'.pc = stage
        /\ run'.pairs = run.pairs /\ run'.niches = run.niches
    BY <1>0, <2>2, <2>3, <2>4 DEF Run
  <2>6. ClaimInv'
    BY <2>1, <2>5 DEF ClaimInv, Grown
  <2>7. QED
    BY <2>5, <2>6, RunStands
<1>7. CASE FetchOk \/ FetchFails \/ Moderate \/ ModerationFails
  <2>1. PICK pc \in {"fetch", "moderate", "approved"} :
          run' = [run EXCEPT !.pc = pc, !.product = IF pc = "approved" THEN @ ELSE None]
    BY <1>7 DEF FetchOk, FetchFails, Moderate, ModerationFails, Finish
  <2>2. /\ run' \in Run /\ run'.pc = pc /\ run'.pairs = run.pairs /\ run'.niches = run.niches
    BY <1>0, <2>1 DEF Run
  <2>3. run'.pc = "approved" => run'.product \in Known /\ product'[run'.product].status = "APPROVED"
    BY <1>7, StageGrows
  <2>4. ClaimInv'
    BY <2>2, <2>3 DEF ClaimInv, Grown, With
  <2>5. QED
    BY <2>2, <2>4, RunStands
<1>8. CASE EnqueueList
  <2>1. /\ run.pc = "approved" /\ run.product \in With("APPROVED")
        /\ run' = [run EXCEPT !.pc = "enqueue", !.pairs = Wanted({run.product})]
        /\ UNCHANGED <<product, niche_id>>
    BY <1>8 DEF EnqueueList, Stay, At, IInv, ClaimInv
  <2>2. /\ Wanted({run.product}) \subseteq Accounts \X Products
        /\ \A pair \in Wanted({run.product}) :
             pair[2] \in With("APPROVED") /\ product[pair[2]].niche = niche_id[pair[1]]
    BY <2>1, WantedStands
  <2>3. /\ run' \in Run /\ run'.pc = "enqueue" /\ run'.pairs = Wanted({run.product})
        /\ run'.niches = run.niches
    BY <1>0, <2>1, <2>2 DEF Run
  <2>4. QED
    BY <2>1, <2>2, <2>3 DEF IInv, PairsInv, ClaimInv, NichesInv, With, Known
<1>9. QED
  BY <1>1, <1>2, <1>3, <1>4, <1>5, <1>6, <1>7, <1>8
  DEF Next, RunStep, OperatorStep, vars, Upsert, ClaimFetch, ClaimModerate, PauseAccount,
      ResumeAccount, RequeueProduct, ResetDeadProduct, PinReopens, PinCloses, Tick

-----------------------------------------------------------------------------
(* The theorems.                                                           *)

\* The invariant holds at first.
LEMMA InvInit == Init => IInv
<1> SUFFICES ASSUME Init PROVE IInv
  OBVIOUS
<1>1. Known = {} /\ run = Off
  BY DEF Init, Known
<1>2. /\ run \in Run /\ run.pc = "off" /\ run.pairs = {} /\ run.niches = {}
  BY <1>1, Budgets DEF Off, Run
<1>3. TypeOK /\ QueuedIsVetted
  BY <1>2 DEF Init, TypeOK, QueuedIsVetted
<1>4. QED
  BY <1>1, <1>2, <1>3 DEF IInv, AllGood, Places, PairsInv, ClaimInv, NichesInv

\* Every step keeps the invariant.
LEMMA InvNext == IInv /\ [Next]_vars => IInv'
<1> SUFFICES ASSUME IInv, [Next]_vars PROVE IInv'
  OBVIOUS
<1>1. /\ active' \subseteq Accounts /\ UNCHANGED niche_id
  BY DEF IInv, TypeOK,
      Next, RunStep, OperatorStep, vars, Stay, Start, HealList, HealOne, InsertNext,
      DiscoverList, Upsert, NicheDone, DiscoverDone, ClaimFetch, ClaimModerate, Claim, FetchOk,
      FetchFails, Moderate, ModerationFails, Finish, FetchEnds, ModerationEnds, EnqueueList,
      EnqueueOne, EnqueueDone, PauseAccount, ResumeAccount, RequeueProduct, ResetDeadProduct,
      PinReopens, PinCloses, Die, Tick
<1>2. Grown
  BY GrownStep
<1>3. run' \in Run /\ PairsInv' /\ ClaimInv' /\ NichesInv'
  BY <1>1, <1>2, RunsOn
<1>4. QueuedIsVetted'
  BY <1>1, <1>2, QueuedStep
<1>5. TypeOK'
  BY <1>1, <1>2, <1>3, PinsFrom DEF IInv, TypeOK, Grown
<1>6. QED
  BY <1>2, <1>3, <1>4, <1>5 DEF IInv, Grown

\* The invariant is what the theorems are proved from.
LEMMA InvHolds == Spec => []IInv
BY InvInit, InvNext, PTL DEF Spec

(***************************************************************************)
(* The state of the ingest stages has its type: in particular a product    *)
(* has a place among those there are, so none is inserted twice.           *)
(***************************************************************************)
THEOREM TypeCorrect == Spec => []TypeOK
BY InvHolds, PTL DEF IInv

(***************************************************************************)
(* A pin is only ever there of a product that moderation approved, that    *)
(* brand safety has nothing against, and that was found for the niche of   *)
(* its account, whenever runs die and the operator intervenes.             *)
(***************************************************************************)
THEOREM OnlyVettedIsQueued == Spec => []QueuedIsVetted
BY InvHolds, PTL DEF IInv

(***************************************************************************)
(* What is still to be moderated, written up or pinned has its listing.    *)
(***************************************************************************)
THEOREM ListingIsThere == Spec => []LiveWorkHasRaw
<1>1. ASSUME IInv PROVE LiveWorkHasRaw
  <2> SUFFICES ASSUME NEW p \in Known,
                      \/ product[p].status \in {"FETCHED", "MODERATING"}
                      \/ \E a \in Accounts : pin[a][p] = "open"
               PROVE  product[p].raw
    BY DEF LiveWorkHasRaw
  <2>1. Good(p, product[p]) /\ p \in Products
    BY <1>1 DEF IInv, AllGood, Known
  <2>2. product[p].status \in Listed
    BY <1>1, <2>1 DEF IInv, QueuedIsVetted, With, Listed
  <2>3. QED
    BY <2>1, <2>2 DEF Good
<1>2. QED
  BY <1>1, InvHolds, PTL

(***************************************************************************)
(* A verdict is final, and so is the niche it was given for: no search, no *)
(* sweep, no stage and no command of the operator changes either.          *)
(***************************************************************************)
THEOREM VerdictsStand == Spec => VerdictsAreFinal
<1>1. IInv /\ [Next]_vars =>
        [ \A p \in With("APPROVED") \cup With("REJECTED") :
            /\ p \in Known'
            /\ product'[p].status = product[p].status
            /\ product'[p].niche = product[p].niche ]_vars
  BY GrownStep DEF Grown, With, Verdict
<1>2. QED
  BY <1>1, InvHolds, PTL DEF Spec, VerdictsAreFinal

-----------------------------------------------------------------------------
(* Every product follows its machine.                                      *)

InStages == {"FETCHING", "MODERATING"}

Idle == {"PENDING_FETCH", "FETCHED"}

Terminal == {"APPROVED", "REJECTED", "DEAD_FETCH", "DEAD_MODERATE"}

\* The roles, as sets of states.
LEMMA Roles ==
  ASSUME NEW s \in ProductState
  PROVE  /\ s \in InStages \cup Idle \cup Terminal
         /\ INGEST_ROLES[s] = "WORKING" <=> s \in InStages
         /\ INGEST_ROLES[s] = "IDLE" <=> s \in Idle
         /\ INGEST_ROLES[s] = "TERMINAL" <=> s \in Terminal
         /\ INGEST_ROLES[s] # "PAUSED"
BY DEF INGEST_ROLES, ProductState, InStages, Idle, Terminal

\* A row of the machine leads from one state to another.
Row(s, t) == \E row \in INGEST_TRANSITIONS : row.source = s /\ row.target = t

\* A row leads from a state to another one, and only a claim leads into a stage,
\* from outside the stages.
LEMMA RowsMove ==
  ASSUME NEW t \in INGEST_TRANSITIONS
  PROVE  /\ t.source \in ProductState /\ t.target \in ProductState /\ t.source # t.target
         /\ t.kind = "CLAIM" => t.source \notin InStages /\ t.target \in InStages
         /\ t.kind # "CLAIM" => t.target \notin InStages
         /\ t.event = "CLAIM_FETCH"    => t.source = "PENDING_FETCH" /\ t.target = "FETCHING"
         /\ t.event = "CLAIM_MODERATE" => t.source = "FETCHED" /\ t.target = "MODERATING"
         /\ t.event = "REQUEUE_DEAD"   => t.source \notin InStages
BY DEF INGEST_TRANSITIONS, Stage, Transition, ProductState, InStages

\* The rows that the sweep and a reset go along.
LEMMA RowsAreThere ==
  /\ Row("FETCHING", "PENDING_FETCH")
  /\ Row("MODERATING", "FETCHED")
  /\ Row("DEAD_FETCH", "PENDING_FETCH")
<1>1. /\ Transition("SWEEP_EXPIRED", "FETCHING", "PENDING_FETCH", "SWEEP") \in INGEST_TRANSITIONS
      /\ Transition("SWEEP_EXPIRED", "MODERATING", "FETCHED", "SWEEP") \in INGEST_TRANSITIONS
      /\ Transition("REQUEUE_DEAD", "DEAD_FETCH", "PENDING_FETCH", "OPS") \in INGEST_TRANSITIONS
  BY DEF INGEST_TRANSITIONS, Stage, Transition
<1>2. \A event, s, t, kind :
        Transition(event, s, t, kind).source = s /\ Transition(event, s, t, kind).target = t
  BY DEF Transition
<1>3. QED
  BY <1>1, <1>2 DEF Row

\* A product that stays, or goes along a row, does what Lifecycle promises.
LEMMA RowIsMove ==
  ASSUME NEW p \in Products, StatusOf(p) \in ProductState,
         StatusOf(p)' = StatusOf(p) \/ Row(StatusOf(p), StatusOf(p)')
  PROVE  MovesByARow(p)
<1> DEFINE st == [q \in {p} |-> StatusOf(q)]
           ho == [q \in {p} |-> IF IsHeld(q) THEN "run" ELSE "none"]
<1>1. CASE StatusOf(p)' = StatusOf(p)
  BY <1>1 DEF MovesByARow, Promise!vars, IsHeld
<1>2. CASE Row(StatusOf(p), StatusOf(p)')
  <2>1. PICK row \in INGEST_TRANSITIONS : row.source = StatusOf(p) /\ row.target = StatusOf(p)'
    BY <1>2 DEF Row
  <2>2. /\ ho[p] = IF row.source \in InStages THEN "run" ELSE "none"
        /\ ho'[p] = IF row.target \in InStages THEN "run" ELSE "none"
    BY <2>1, Roles, RowsMove DEF IsHeld
  <2>3. Promise(p)!Follow(p, row)
    BY <2>1 DEF Promise!Follow
  <2>4. CASE row.kind = "CLAIM"
    <3>1. ho[p] = "none" /\ ho' = [ho EXCEPT ![p] = "run"]
      BY <2>2, <2>4, RowsMove
    <3>2. Promise(p)!Take("run", p)
      BY <2>3, <2>4, <3>1 DEF Promise!Take
    <3>3. QED
      BY <3>2 DEF MovesByARow, Promise!Next
  <2>5. CASE row.kind # "CLAIM"
    <3>1. ho' = [ho EXCEPT ![p] = "none"]
      BY <2>2, <2>5, RowsMove
    <3>2. Promise(p)!Move(p)
      BY <2>3, <2>5, <3>1 DEF Promise!Move
    <3>3. QED
      BY <3>2 DEF MovesByARow, Promise!Next
  <2>6. QED
    BY <2>4, <2>5
<1>3. QED
  BY <1>1, <1>2

\* The product a run works on is in the stage that the run is in: nothing but the
\* run takes it out of there while the run lasts.
StageInv ==
  /\ run.pc = "fetching"   => product[run.product].status = "FETCHING"
  /\ run.pc = "moderating" => product[run.product].status = "MODERATING"

\* StageInv is inductive, given the rest.
LEMMA StageStands ==
  ASSUME IInv, StageInv, [Next]_vars
  PROVE  StageInv'
<1>0. /\ run \in Run /\ product \in [Products -> Product \cup {None}]
      /\ \A p \in Known : p \in Products /\ product[p] \in Product
      /\ run.pc \in {"fetching", "moderating"} => run.product \in Known
  BY DEF IInv, TypeOK, ClaimInv, Known
<1>1. CASE UNCHANGED <<run, product>>
  BY <1>1 DEF StageInv
<1>2. ASSUME NEW idle, NEW event, NEW loop, NEW stage, Claim(idle, event, loop, stage),
             \/ idle = "PENDING_FETCH" /\ event = "CLAIM_FETCH" /\ stage = "fetching"
             \/ idle = "FETCHED" /\ event = "CLAIM_MODERATE" /\ stage = "moderating"
      PROVE  StageInv'
  <2> DEFINE p == Oldest(Claimable(idle))
  <2>1. PICK row \in TransitionFor(idle, event) :
          /\ product' = [product EXCEPT ![p] = [product[p] EXCEPT !.status = row.target,
                                                                  !.lease = "held"]]
          /\ run' = [run EXCEPT !.pc = stage, !.product = p, !.left = @ - 1]
    BY <1>2 DEF Claim
  <2>2. p \in Known
    BY <1>2, OldestIsOne DEF Claim, Claimable, With, IInv
  <2>3. row.target = IF stage = "fetching" THEN "FETCHING" ELSE "MODERATING"
    BY <1>2, RowsMove DEF TransitionFor, TransitionsFrom
  <2> HIDE DEF p
  <2>4. run'.pc = stage /\ run'.product = p /\ product'[p].status = row.target
    BY <1>0, <2>1, <2>2 DEF Run, Product
  <2>5. QED
    BY <1>2, <2>3, <2>4 DEF StageInv
<1>3. CASE RequeueProduct \/ ResetDeadProduct
  <2>1. PICK p, new :
          /\ p \in Known /\ product[p].status \notin InStages
          /\ product' = [product EXCEPT ![p] = new]
    <3>1. CASE RequeueProduct
      BY <3>1, RowsMove
      DEF RequeueProduct, Advanced, TransitionFor, TransitionsFrom
    <3>2. CASE ResetDeadProduct
      BY <3>2 DEF ResetDeadProduct, With, InStages
    <3>3. QED
      BY <1>3, <3>1, <3>2
  <2>2. UNCHANGED run
    BY <1>3 DEF RequeueProduct, ResetDeadProduct
  <2>3. QED
    BY <1>0, <2>1, <2>2 DEF StageInv, InStages
<1>4. CASE Tick
  BY <1>0, <1>4 DEF Tick, StageInv, Product
<1>5. CASE run'.pc \notin {"fetching", "moderating"}
  BY <1>5 DEF StageInv
<1>6. CASE FetchOk \/ FetchFails \/ Moderate \/ ModerationFails
  BY <1>0, <1>5, <1>6 DEF FetchOk, FetchFails, Moderate, ModerationFails, Finish, Run
<1>7. CASE \/ Start \/ HealList \/ HealOne \/ DiscoverList \/ Upsert \/ NicheDone \/ DiscoverDone
           \/ FetchEnds \/ ModerationEnds \/ EnqueueList \/ EnqueueOne \/ EnqueueDone \/ Die
  <2>1. CASE HealOne \/ Upsert \/ NicheDone \/ EnqueueList \/ EnqueueOne
    <3>1. run'.pc \in {"heal", "discover", "enqueue"}
      BY <1>0, <2>1
      DEF HealOne, Upsert, NicheDone, EnqueueList, EnqueueOne, InsertNext, At, Run
    <3>2. QED
      BY <1>5, <3>1
  <2>2. CASE HealList \/ DiscoverList \/ ModerationEnds \/ Die
    <3>1. HealList => run'.pc = "heal"
      BY DEF HealList, Off
    <3>2. DiscoverList => run'.pc = "discover"
      BY DEF DiscoverList, Off
    <3>3. ModerationEnds \/ Die => run'.pc = "off"
      BY DEF ModerationEnds, Die, Off
    <3>4. QED
      BY <1>5, <2>2, <3>1, <3>2, <3>3
  <2>3. CASE Start \/ DiscoverDone \/ FetchEnds \/ EnqueueDone
    <3>1. run'.pc \in {"swept", "fetch", "moderate"}
      BY <2>3 DEF Start, DiscoverDone, FetchEnds, EnqueueDone, Enter, Off
    <3>2. QED
      BY <1>5, <3>1
  <2>4. QED
    BY <1>7, <2>1, <2>2, <2>3
<1>8. QED
  BY <1>1, <1>2, <1>3, <1>4, <1>6, <1>7
  DEF Next, RunStep, OperatorStep, vars, ClaimFetch, ClaimModerate, PauseAccount, ResumeAccount,
      PinReopens, PinCloses

\* What a step may do to a product: nothing to its status, or a row, out of its
\* stage by who may let it go.
Follows(p) ==
  \/ StatusOf(p)' = StatusOf(p)
  \/ Row(StatusOf(p), StatusOf(p)') /\ IsLetGo(p)

\* A write to one known product follows if the product does.
LEMMA OneFollows ==
  ASSUME IInv, Grown, NEW q \in Known, NEW new, product' = [product EXCEPT ![q] = new],
         NEW p \in Products,
         p = q => \/ new.status = product[q].status
                  \/ Row(product[q].status, new.status) /\ IsLetGo(p)
  PROVE  Follows(p)
<1>1. product \in [Products -> Product \cup {None}] /\ q \in Products /\ q \in Known'
  BY DEF IInv, TypeOK, Known, Grown
<1>2. CASE p = q
  <2>1. StatusOf(p) = product[q].status /\ StatusOf(p)' = new.status
    BY <1>1, <1>2 DEF StatusOf
  <2>2. QED
    BY <1>2, <2>1 DEF Follows
<1>3. CASE p # q
  <2>1. product'[p] = product[p] /\ (p \in Known' <=> p \in Known)
    BY <1>1, <1>3 DEF Known
  <2>2. QED
    BY <2>1 DEF StatusOf, Follows
<1>4. QED
  BY <1>2, <1>3

\* The stages.
LEMMA StageFollows ==
  ASSUME IInv, StageInv, FetchOk \/ FetchFails \/ Moderate \/ ModerationFails,
         NEW p \in Products
  PROVE  Follows(p)
<1> DEFINE q   == run.product
           doc == product[q]
<1>1. q \in Known /\ q \in Products /\ doc \in Product /\ Grown
  BY StageGrows DEF IInv, AllGood, Good, ClaimInv, Known, At, FetchOk, FetchFails, Moderate,
                    ModerationFails
<1>2. p = q => IsLetGo(p)
  <2>1. StatusOf(q) = doc.status /\ run.pc = StageOf(doc.status)
    BY <1>1
    DEF StageInv, StatusOf, StageOf, At, FetchOk, FetchFails, Moderate, ModerationFails
  <2>2. QED
    BY <2>1 DEF IsLetGo
<1>3. PICK new : product' = [product EXCEPT ![q] = new] /\ Row(doc.status, new.status)
  <2>1. CASE FetchOk
    <3>1. PICK row \in TransitionFor([doc EXCEPT !.raw = TRUE].status, "FETCH_OK") :
            product' = [product EXCEPT ![q] = Moved([doc EXCEPT !.raw = TRUE], row)]
      BY <2>1 DEF FetchOk, Finish, Claimed, Advanced
    <3>2. Moved([doc EXCEPT !.raw = TRUE], row).status = row.target
      BY <1>1 DEF Moved, Product
    <3>3. row \in INGEST_TRANSITIONS /\ row.source = doc.status
      BY <1>1 DEF TransitionFor, TransitionsFrom, Product
    <3>4. QED
      BY <3>1, <3>2, <3>3 DEF Row
  <2>2. CASE Moderate
    <3>1. PICK verdict : \E row \in TransitionFor(doc.status, verdict) :
            product' = [product EXCEPT ![q] = Moved(doc, row)]
      BY <2>2 DEF Moderate, Finish, Claimed, Advanced
    <3>2. PICK row \in TransitionFor(doc.status, verdict) :
            product' = [product EXCEPT ![q] = Moved(doc, row)]
      BY <3>1
    <3>3. Moved(doc, row).status = row.target
      BY <1>1 DEF Moved, Product
    <3>4. QED
      BY <3>2, <3>3 DEF Row, TransitionFor, TransitionsFrom
  <2>3. CASE FetchFails \/ ModerationFails
    <3>1. PICK class \in {"TRANSIENT", "PERMANENT"} :
            \E new \in Failed(doc, class) : product' = [product EXCEPT ![q] = new]
      BY <2>3 DEF FetchFails, ModerationFails, Finish, Claimed
    <3>2. PICK new \in Failed(doc, class) : product' = [product EXCEPT ![q] = new]
      BY <3>1
    <3>3. PICK kind \in {"POISON", "RETRY"}, delayed \in BOOLEAN :
            \E row \in TransitionOfKind(doc.status, kind) :
              new = [ doc EXCEPT !.status = row.target, !.lease = "none",
                                 !.count = UpTo(MAX_ATTEMPTS, @ + 1), !.delayed = delayed ]
      BY DEF Failed
    <3>4. Row(doc.status, new.status)
      BY <1>1, <3>3 DEF TransitionOfKind, RowsWithKind, Row, Product
    <3>5. QED
      BY <3>2, <3>4
  <2>4. QED
    BY <2>1, <2>2, <2>3
<1>4. QED
  BY <1>1, <1>2, <1>3, OneFollows

\* A claim.
LEMMA ClaimFollows ==
  ASSUME IInv, NEW idle, NEW event \in {"CLAIM_FETCH", "CLAIM_MODERATE"}, NEW loop, NEW stage,
         Claim(idle, event, loop, stage), NEW p \in Products
  PROVE  Follows(p)
<1> DEFINE q == Oldest(Claimable(idle))
<1>1. q \in Known /\ product[q].status = idle
  BY OldestIsOne DEF Claim, Claimable, With, IInv
<1> HIDE DEF q
<1>2. PICK row \in TransitionFor(idle, event) :
        product' = [product EXCEPT ![q] = [product[q] EXCEPT !.status = row.target, !.lease = "held"]]
  BY DEF Claim, q
<1>3. /\ row \in INGEST_TRANSITIONS /\ row.source = idle
      /\ idle \in ProductState /\ idle \notin InStages
  BY <1>2, RowsMove DEF TransitionFor, TransitionsFrom, InStages
<1>4. [product[q] EXCEPT !.status = row.target, !.lease = "held"].status = row.target
  BY <1>1 DEF IInv, AllGood, Good, Product
<1>5. p = q => IsLetGo(p)
  BY <1>1, <1>3, Roles DEF IsLetGo, IsHeld, StatusOf
<1>6. Row(idle, row.target) /\ Grown
  BY <1>3, ClaimGrows DEF Row
<1>7. QED
  BY <1>1, <1>2, <1>4, <1>5, <1>6, OneFollows

\* The sweep of a run that starts, and time.
LEMMA AllFollow ==
  ASSUME IInv, Start \/ Tick, NEW p \in Products
  PROVE  Follows(p)
<1>0. Grown
  BY AllKept
<1>1. CASE p \notin Known
  <2>1. p \notin Known'
    BY <1>1 DEF Start, Tick, Known
  <2>2. QED
    BY <1>1, <2>1 DEF Follows, StatusOf
<1>2. CASE p \in Known
  <2>1. /\ product[p] \in Product /\ product[p].status \in ProductState
        /\ StatusOf(p) = product[p].status /\ StatusOf(p)' = product'[p].status
    BY <1>0, <1>2 DEF IInv, AllGood, Good, Product, Grown, StatusOf
  <2>2. CASE Tick
    <3>1. product'[p].status = product[p].status
      BY <1>2, <2>1, <2>2 DEF Tick, Product
    <3>2. QED
      BY <2>1, <3>1 DEF Follows
  <2>3. CASE Start
    <3>1. product'[p] = Swept(product[p]) /\ run.pc = "off" /\ run'.pc = "swept"
      BY <1>2, <2>3 DEF Start, Enter, At, Off
    <3>2. CASE ~(INGEST_ROLES[product[p].status] = "WORKING" /\ product[p].lease = "expired")
      BY <2>1, <3>1, <3>2 DEF Swept, Follows
    <3>3. CASE INGEST_ROLES[product[p].status] = "WORKING" /\ product[p].lease = "expired"
      <4>1. /\ product[p].status \in {"FETCHING", "MODERATING"}
            /\ product'[p].status = IF product[p].status = "FETCHING" THEN "PENDING_FETCH"
                                                                      ELSE "FETCHED"
        BY <2>1, <3>1, <3>3, SweepTargets DEF Swept, Product
      <4>2. Row(StatusOf(p), StatusOf(p)')
        BY <2>1, <4>1, RowsAreThere
      <4>3. QED
        BY <3>1, <3>3, <4>2 DEF Follows, IsLetGo
    <3>4. QED
      BY <3>2, <3>3
  <2>4. QED
    BY <2>2, <2>3
<1>3. QED
  BY <1>1, <1>2

\* The operator: what reset_dead_products does by hand is what a requeue does.
LEMMA OperatorFollows ==
  ASSUME IInv, RequeueProduct \/ ResetDeadProduct, NEW p \in Products
  PROVE  Follows(p)
<1>1. CASE RequeueProduct
  <2>1. PICK q \in Known : \E row \in TransitionFor(product[q].status, "REQUEUE_DEAD") :
          product' = [product EXCEPT ![q] = Moved(product[q], row)]
    BY <1>1 DEF RequeueProduct, Advanced
  <2>2. PICK row \in TransitionFor(product[q].status, "REQUEUE_DEAD") :
          product' = [product EXCEPT ![q] = Moved(product[q], row)]
    BY <2>1
  <2>3. /\ row \in INGEST_TRANSITIONS /\ row.source = product[q].status
        /\ row.event = "REQUEUE_DEAD"
    BY DEF TransitionFor, TransitionsFrom
  <2>4. Moved(product[q], row).status = row.target
    BY DEF IInv, AllGood, Good, Moved, Product
  <2>5. p = q => IsLetGo(p)
    BY <2>3, RowsMove, Roles DEF IsLetGo, IsHeld, StatusOf
  <2>6. Row(product[q].status, row.target) /\ Grown
    BY <1>1, <2>3, OperatorGrows DEF Row
  <2>7. QED
    BY <2>2, <2>4, <2>5, <2>6, OneFollows
<1>2. CASE ResetDeadProduct
  <2>1. PICK q \in With("DEAD_FETCH") :
          product' = [product EXCEPT ![q] = [product[q] EXCEPT !.status = "PENDING_FETCH",
                                                               !.count = 0, !.delayed = FALSE]]
    BY <1>2 DEF ResetDeadProduct
  <2>2. q \in Known /\ product[q] \in Product /\ product[q].status = "DEAD_FETCH"
    BY DEF With, IInv, AllGood, Good
  <2>3. [product[q] EXCEPT !.status = "PENDING_FETCH", !.count = 0, !.delayed = FALSE].status
          = "PENDING_FETCH"
    BY <2>2 DEF Product
  <2>4. p = q => IsLetGo(p)
    BY <2>2, Roles DEF IsLetGo, IsHeld, StatusOf, ProductState, InStages
  <2>5. Row(product[q].status, "PENDING_FETCH") /\ Grown
    BY <1>2, <2>2, RowsAreThere, OperatorGrows
  <2>6. QED
    BY <2>1, <2>2, <2>3, <2>4, <2>5, OneFollows
<1>3. QED
  BY <1>1, <1>2

\* A search: what it finds starts where an unknown product stands.
LEMMA UpsertFollows ==
  ASSUME IInv, Upsert, NEW p \in Products
  PROVE  Follows(p)
<1>1. PICK q \in Products \ Known : product' = [product EXCEPT ![q] = NewProduct(Searched)]
  BY DEF Upsert
<1>2. CASE p # q
  <2>1. product'[p] = product[p] /\ (p \in Known' <=> p \in Known)
    BY <1>1, <1>2 DEF Known, IInv, TypeOK
  <2>2. QED
    BY <2>1 DEF StatusOf, Follows
<1>3. CASE p = q
  <2>1. StatusOf(p) = "PENDING_FETCH"
    BY <1>3 DEF StatusOf
  <2>2. product'[p] = NewProduct(Searched)
    BY <1>1, <1>3 DEF IInv, TypeOK
  <2>3. StatusOf(p)' = "PENDING_FETCH"
    BY <2>2 DEF StatusOf, NewProduct
  <2>4. QED
    BY <2>1, <2>3 DEF Follows
<1>4. QED
  BY <1>2, <1>3

\* Every step.
LEMMA StepFollows ==
  ASSUME IInv, StageInv, [Next]_vars, NEW p \in Products
  PROVE  Follows(p)
<1>1. CASE UNCHANGED product
  BY <1>1 DEF Follows, StatusOf, Known
<1>2. CASE ClaimFetch \/ ClaimModerate
  BY <1>2, ClaimFollows DEF ClaimFetch, ClaimModerate
<1>3. QED
  BY <1>1, <1>2, StageFollows, AllFollow, OperatorFollows, UpsertFollows
  DEF Next, RunStep, OperatorStep, vars, Stay, HealList, HealOne, InsertNext, DiscoverList,
      NicheDone, DiscoverDone, FetchEnds, ModerationEnds, EnqueueList, EnqueueOne, EnqueueDone,
      PauseAccount, ResumeAccount, PinReopens, PinCloses, Die

(***************************************************************************)
(* Each product follows its machine: whatever runs, failures, sweeps and   *)
(* operators do, in any order, its status moves along one row of the       *)
(* registry at a time, it is claimed when no stage has it, and it leaves a *)
(* stage by the hand of the run that claimed it or of the sweep.  It is    *)
(* Lifecycle, for each product, with no exception.                         *)
(***************************************************************************)
THEOREM IngestFollowsLifecycle == Spec => FollowsLifecycle
<1>1. ASSUME Init, NEW p \in Products PROVE Promise(p)!Init
  <2>1. StatusOf(p) = "PENDING_FETCH"
    BY <1>1 DEF Init, StatusOf, Known
  <2>2. ~IsHeld(p)
    BY <2>1, Roles DEF IsHeld, ProductState, InStages
  <2>3. QED
    BY <2>1, <2>2 DEF Promise!Init
<1>2. ASSUME IInv, StageInv, [Next]_vars, NEW p \in Products
      PROVE  MovesByARow(p) /\ IsLetGo(p)
  <2>1. Follows(p)
    BY <1>2, StepFollows
  <2>2. StatusOf(p) \in ProductState
    BY <1>2 DEF IInv, AllGood, Good, Product, StatusOf, ProductState
  <2>3. CASE StatusOf(p)' = StatusOf(p)
    BY <2>2, <2>3, RowIsMove DEF IsLetGo
  <2>4. CASE StatusOf(p)' # StatusOf(p)
    BY <2>1, <2>2, <2>4, RowIsMove DEF Follows
  <2>5. QED
    BY <2>3, <2>4
<1>3. Init => StageInv /\ \A p \in Products : Promise(p)!Init
  BY <1>1 DEF Init, StageInv, Off
<1>4. IInv /\ StageInv /\ [Next]_vars => StageInv'
  BY StageStands
<1>5. IInv /\ StageInv /\ [Next]_vars =>
        [ \A p \in Products : MovesByARow(p) /\ IsLetGo(p) ]_vars
  BY <1>2
<1>6. QED
  BY <1>3, <1>4, <1>5, InvHolds, PTL DEF Spec, FollowsLifecycle

-----------------------------------------------------------------------------
(* The engine can drive this machine.                                      *)

\* Every row has a kind that the engine knows, and that kind fits the roles of the
\* states it joins.
LEMMA RolesOfKinds ==
  ASSUME NEW t \in INGEST_TRANSITIONS
  PROVE  t.kind \in Kind /\ RoleOfKindOK(t)
<1>1. t.kind \in Kind /\ t.kind \notin {"PAUSE", "RESUME"}
  BY DEF INGEST_TRANSITIONS, Stage, Transition, Kind
<1>2. /\ t.kind = "CLAIM"              => t.source \in Idle /\ t.target \in InStages
      /\ t.kind = "ADVANCE"            => t.source \in InStages /\ t.target \in Idle \cup Terminal
      /\ t.kind \in {"RETRY", "SWEEP"} => t.source \in InStages /\ t.target \in Idle
      /\ t.kind = "POISON"             => t.source \in InStages /\ t.target \in Terminal
      /\ t.source \in Terminal         => t.kind = "OPS"
      /\ t.target \in InStages         => t.kind = "CLAIM"
      /\ t.source \in ProductState /\ t.target \in ProductState
  BY DEF INGEST_TRANSITIONS, Stage, Transition, ProductState, Idle, InStages, Terminal
<1>3. QED
  BY <1>1, <1>2, Roles DEF RoleOfKindOK

\* An event has one kind, whichever stages share it.
LEMMA OneKind ==
  ASSUME NEW t \in INGEST_TRANSITIONS, NEW u \in INGEST_TRANSITIONS, t.event = u.event
  PROVE  t.kind = u.kind
BY DEF INGEST_TRANSITIONS, Stage, Transition

\* The rows that both stages have.
LEMMA StageRows ==
  /\ \A s \in Idle : \E t \in INGEST_TRANSITIONS : t.source = s /\ t.kind = "CLAIM"
  /\ \A s \in InStages : \E t \in INGEST_TRANSITIONS : t.source = s /\ t.kind = "RETRY"
  /\ \A s \in InStages : \E t \in INGEST_TRANSITIONS : t.source = s /\ t.kind = "POISON"
  /\ \A s \in InStages : \E t \in SweepRows(s) : SweepRows(s) = {t}
  /\ \A s \in Terminal : \E t \in INGEST_TRANSITIONS : t.target = s
<1>1. /\ Transition("CLAIM_FETCH", "PENDING_FETCH", "FETCHING", "CLAIM") \in INGEST_TRANSITIONS
      /\ Transition("CLAIM_MODERATE", "FETCHED", "MODERATING", "CLAIM") \in INGEST_TRANSITIONS
      /\ Transition("FETCH_FAIL", "FETCHING", "PENDING_FETCH", "RETRY") \in INGEST_TRANSITIONS
      /\ Transition("MODERATE_FAIL", "MODERATING", "FETCHED", "RETRY") \in INGEST_TRANSITIONS
      /\ Transition("FETCH_POISON", "FETCHING", "DEAD_FETCH", "POISON") \in INGEST_TRANSITIONS
      /\ Transition("MODERATE_POISON", "MODERATING", "DEAD_MODERATE", "POISON")
           \in INGEST_TRANSITIONS
      /\ Transition("MODERATE_APPROVE", "MODERATING", "APPROVED", "ADVANCE") \in INGEST_TRANSITIONS
      /\ Transition("MODERATE_REJECT", "MODERATING", "REJECTED", "ADVANCE") \in INGEST_TRANSITIONS
  BY DEF INGEST_TRANSITIONS, Stage
<1>2. \A event, s, t, kind :
        /\ Transition(event, s, t, kind).source = s /\ Transition(event, s, t, kind).target = t
        /\ Transition(event, s, t, kind).kind = kind
  BY DEF Transition
<1>3. ASSUME NEW s \in InStages PROVE \E t \in SweepRows(s) : SweepRows(s) = {t}
  <2> DEFINE back == IF s = "FETCHING" THEN "PENDING_FETCH" ELSE "FETCHED"
             u    == Transition("SWEEP_EXPIRED", s, back, "SWEEP")
  <2>1. u \in SweepRows(s) /\ \A t \in SweepRows(s) : t = u
    BY DEF SweepRows, TransitionsFrom, INGEST_TRANSITIONS, Stage, Transition, InStages
  <2>2. QED
    BY <2>1
<1>4. QED
  BY <1>1, <1>2, <1>3 DEF Idle, InStages, Terminal

(***************************************************************************)
(* The ingest machine of registry.py is one that the engine can drive, as  *)
(* the publication machine is: it has what check_invariants looks for, and *)
(* what the engine relies on beyond that.  So what EngineProofs proves     *)
(* holds of the products too.                                              *)
(***************************************************************************)
THEOREM IngestIsDrivable == EngineCanDrive
<1>1. States = ProductState
  BY DEF States, INGEST_ROLES
<1>2. \A s \in ProductState : HasItsExits(s)
  BY Roles, StageRows DEF HasItsExits, RowsWithKind, Idle, InStages, Terminal
<1>3. \A s \in ProductState : \E t \in INGEST_TRANSITIONS : s \in {t.source, t.target}
  BY Roles, StageRows
<1>4. CheckInvariants
  BY <1>1, <1>2, <1>3, RolesOfKinds, RowsMove DEF CheckInvariants
<1>5. \A t \in INGEST_TRANSITIONS :
        /\ t.event \notin {"PAUSE", "RESUME"} /\ t.kind # "PAUSE"
        /\ t.event = "REQUEUE_DEAD" => t.kind = "OPS"
  BY DEF INGEST_TRANSITIONS, Stage, Transition
<1>6. "PAUSED" \notin ProductState
  BY DEF ProductState
<1>7. QED
  BY <1>1, <1>4, <1>5, <1>6, RolesOfKinds, OneKind, Roles DEF EngineCanDrive

=============================================================================
