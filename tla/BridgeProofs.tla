---------------------------- MODULE BridgeProofs ----------------------------
(***************************************************************************)
(* What is proved of Bridge, for any contents and any number of polls: its *)
(* types, that a content is committed once, that a refused PUT has another *)
(* writer for a cause, and that a bridged document's page is served.       *)
(***************************************************************************)
EXTENDS Bridge, TLAPS

(***************************************************************************)
(* The inductive invariant.  A commit repeats a content when the runner    *)
(* PUTs what the file holds already.  It cannot: a PUT that GitHub takes   *)
(* names the sha the file has (Taken), a writer that is about to PUT read  *)
(* another content than its own (Different), the runner's payload is the   *)
(* document's content (Runner), and a counted commit is still in the file  *)
(* (Counted).  A refusal needs a file that is not the one read (Fresh).    *)
(***************************************************************************)
Runner ==
  /\ pin.status = "BRIDGING" <=> ~At("runner", "idle")
  /\ ~At("runner", "idle") => writer["runner"].payload = pin.content

Different == \A w \in Writers : At(w, "put") => writer[w].sha # writer[w].payload

Counted == own # 0 => own = 1 /\ file = pin.content

Fresh == \A w \in Writers : At(w, "put") /\ ~changed[w] => writer[w].sha = file

IInv == TypeOK /\ Runner /\ Different /\ Counted /\ Fresh /\ NoDeadLink

-----------------------------------------------------------------------------
(* What the actions are made of.                                           *)

\* The end of a stage, at any status the code gives the document: the writer is
\* idle, and the document moves with the runner only.
LEMMA LeaveStep ==
  ASSUME NEW w \in Writers, NEW status \in {"ENRICHED", "BRIDGED", "DEAD"},
         BridgeAssumption, TypeOK, Runner, Leave(w, status)
  PROVE  /\ writer' \in [Writers -> [ pc : {"idle", "get", "put", "poll"},
                              payload : Payloads \cup {None},
                              sha : Payloads \cup {None}, polls : 0 .. POLLS - 1 ]]
         /\ pin' \in [status : {"ENRICHED", "BRIDGING", "BRIDGED", "DEAD"}, content : Contents]
         /\ writer'[w] = Idle
         /\ \A v \in Writers \ {w} : writer'[v] = writer[v]
         /\ pin'.content = pin.content
         /\ w = "runner" => pin'.status = status
         /\ w # "runner" => pin' = pin
         /\ Runner'
<1>1. Idle \in [ pc : {"idle", "get", "put", "poll"}, payload : Payloads \cup {None},
                 sha : Payloads \cup {None}, polls : 0 .. POLLS - 1 ]
  BY DEF Idle, BridgeAssumption
<1>2. /\ writer' = [writer EXCEPT ![w] = Idle]
      /\ writer \in [Writers -> [ pc : {"idle", "get", "put", "poll"},
                              payload : Payloads \cup {None},
                              sha : Payloads \cup {None}, polls : 0 .. POLLS - 1 ]]
  BY DEF Leave, TypeOK
<1>3. /\ writer' \in [Writers -> [ pc : {"idle", "get", "put", "poll"},
                              payload : Payloads \cup {None},
                              sha : Payloads \cup {None}, polls : 0 .. POLLS - 1 ]]
      /\ writer'[w] = Idle
      /\ \A v \in Writers \ {w} : writer'[v] = writer[v]
  <2> HIDE DEF Idle
  <2> QED BY <1>1, <1>2
<1>4. /\ pin' \in [status : {"ENRICHED", "BRIDGING", "BRIDGED", "DEAD"}, content : Contents]
      /\ pin'.content = pin.content
      /\ w = "runner" => pin'.status = status
      /\ w # "runner" => pin' = pin
  BY DEF Leave, TypeOK
<1>5. Runner'
  <2>1. CASE w = "runner"
    BY <2>1, <1>3, <1>4 DEF Runner, At, Idle, Writers
  <2>2. CASE w # "runner"
    <3>1. writer'["runner"] = writer["runner"] /\ pin' = pin
      BY <2>2, <1>3, <1>4 DEF Writers
    <3> QED BY <3>1 DEF Runner, At
  <2> QED BY <2>1, <2>2
<1> QED BY <1>3, <1>4, <1>5

\* A commit by another writer is seen as a change, one's own is not, and the
\* count of the runner's commits of the content goes to one at most.
LEMMA TakenStep ==
  ASSUME NEW w \in Writers, IInv, At(w, "put"), Taken(w), pin'.content = pin.content
  PROVE  /\ file' \in Payloads \cup {None}
         /\ own' \in Nat
         /\ changed' \in [Writers -> BOOLEAN]
         /\ \A v \in Writers \ {w} : changed'[v]
         /\ Counted'
<1>1. writer[w].payload \in Payloads \cup {None} /\ own \in Nat /\ changed \in [Writers -> BOOLEAN]
  BY DEF IInv, TypeOK
<1>2. changed' = [v \in Writers |-> changed[v] \/ v # w]
  BY DEF Taken
<1>3. changed' \in [Writers -> BOOLEAN] /\ \A v \in Writers \ {w} : changed'[v]
  BY <1>1, <1>2
<1>4. Counted' /\ own' \in Nat
  <2>1. CASE w = "runner"
    <3>1. writer[w].payload = pin.content
      BY <2>1 DEF IInv, Runner, At
    <3>2. file # pin.content
      BY <3>1 DEF IInv, Different, Taken
    <3>3. own = 0
      BY <3>2 DEF IInv, Counted
    <3> QED BY <2>1, <3>1, <3>3 DEF Taken, Counted
  <2>2. CASE w # "runner"
    BY <2>2 DEF Taken, Counted
  <2> QED BY <2>1, <2>2
<1> QED BY <1>1, <1>3, <1>4 DEF Taken

\* Whoever ends a stage without a commit: an idle writer has nothing to PUT.
LEMMA LeaveKeeps ==
  ASSUME NEW w \in Writers, NEW status \in {"ENRICHED", "BRIDGED", "DEAD"},
         BridgeAssumption, IInv, Leave(w, status), UNCHANGED <<file, site, own, changed>>,
         w = "runner" /\ status = "BRIDGED" => site.page # None
  PROVE  IInv'
<1> USE LeaveStep DEF IInv
<1>1. TypeOK'
  BY DEF TypeOK
<1>2. Different'
  BY DEF Different, At, Idle
<1>3. Counted'
  BY DEF Counted
<1>4. Fresh'
  BY DEF Fresh, At, Idle
<1>5. NoDeadLink'
  BY DEF NoDeadLink
<1> QED BY <1>1, <1>2, <1>3, <1>4, <1>5

-----------------------------------------------------------------------------
(* The writers' steps.                                                     *)

\* A stage begins with the document's content for payload.
LEMMA BeginKeeps ==
  ASSUME NEW w \in Writers, BridgeAssumption, IInv, Begin(w)
  PROVE  IInv'
<1> DEFINE new == [Idle EXCEPT !.pc = "get",
                    !.payload = IF w = "runner" THEN pin.content ELSE SmokeContent]
<1>1. /\ new \in [ pc : {"idle", "get", "put", "poll"}, payload : Payloads \cup {None},
                   sha : Payloads \cup {None}, polls : 0 .. POLLS - 1 ]
      /\ new.pc = "get"
      /\ w = "runner" => new.payload = pin.content
  <2>1. (IF w = "runner" THEN pin.content ELSE SmokeContent) \in Payloads
    BY DEF IInv, TypeOK, Payloads
  <2>2. PICK payload \in Payloads : payload = IF w = "runner" THEN pin.content ELSE SmokeContent
    BY <2>1
  <2>3. Idle \in [ pc : {"idle", "get", "put", "poll"}, payload : Payloads \cup {None},
                   sha : Payloads \cup {None}, polls : 0 .. POLLS - 1 ]
    BY DEF Idle, BridgeAssumption
  <2>4. new = [Idle EXCEPT !.pc = "get", !.payload = payload]
    BY <2>2
  <2> HIDE DEF new, Idle
  <2> QED BY <2>2, <2>3, <2>4
<1> HIDE DEF new
<1>2. writer' = [writer EXCEPT ![w] = new]
  BY DEF Begin, new
<1>3. /\ writer' \in [Writers -> [ pc : {"idle", "get", "put", "poll"},
                              payload : Payloads \cup {None},
                              sha : Payloads \cup {None}, polls : 0 .. POLLS - 1 ]]
      /\ writer'[w] = new
      /\ \A v \in Writers \ {w} : writer'[v] = writer[v]
  BY <1>1, <1>2 DEF IInv, TypeOK
<1>4. /\ pin' \in [status : {"ENRICHED", "BRIDGING", "BRIDGED", "DEAD"}, content : Contents]
      /\ pin'.content = pin.content
      /\ w = "runner" => pin'.status = "BRIDGING"
      /\ w # "runner" => pin' = pin
  BY DEF Begin, IInv, TypeOK
<1>5. TypeOK'
  BY <1>3, <1>4 DEF Begin, IInv, TypeOK
<1>6. Runner'
  <2>1. CASE w = "runner"
    BY <2>1, <1>1, <1>3, <1>4 DEF Runner, At
  <2>2. CASE w # "runner"
    <3>1. writer'["runner"] = writer["runner"] /\ pin' = pin
      BY <2>2, <1>3, <1>4 DEF Writers
    <3> QED BY <3>1 DEF IInv, Runner, At
  <2> QED BY <2>1, <2>2
<1>7. Different' /\ Fresh'
  BY <1>1, <1>3 DEF Begin, IInv, Different, Fresh, At
<1>8. Counted' /\ NoDeadLink'
  BY <1>4 DEF Begin, IInv, Counted, NoDeadLink
<1> QED BY <1>5, <1>6, <1>7, <1>8 DEF IInv

\* The GET: what goes on to a PUT read another content than its own, just now.
LEMMA GetKeeps ==
  ASSUME NEW w \in Writers, BridgeAssumption, IInv, Get(w)
  PROVE  IInv'
<1> DEFINE new == [writer[w] EXCEPT !.pc = IF IsLive(w) THEN "poll" ELSE "put", !.sha = file]
<1>1. /\ new \in [ pc : {"idle", "get", "put", "poll"}, payload : Payloads \cup {None},
                   sha : Payloads \cup {None}, polls : 0 .. POLLS - 1 ]
      /\ new.pc # "idle"
      /\ new.payload = writer[w].payload
      /\ new.sha = file
      /\ new.pc = "put" => new.sha # new.payload
  BY DEF IInv, TypeOK, IsLive
<1> HIDE DEF new
<1>2. writer' = [writer EXCEPT ![w] = new]
  BY DEF Get, new, IInv, TypeOK
<1>3. /\ writer' \in [Writers -> [ pc : {"idle", "get", "put", "poll"},
                              payload : Payloads \cup {None},
                              sha : Payloads \cup {None}, polls : 0 .. POLLS - 1 ]]
      /\ writer'[w] = new
      /\ \A v \in Writers \ {w} : writer'[v] = writer[v]
  BY <1>1, <1>2 DEF IInv, TypeOK
<1>4. /\ changed' \in [Writers -> BOOLEAN]
      /\ \A v \in Writers \ {w} : changed'[v] = changed[v]
  BY DEF Get, IInv, TypeOK
<1>5. TypeOK'
  BY <1>3, <1>4 DEF Get, IInv, TypeOK
<1>6. Runner'
  BY <1>1, <1>3 DEF Get, IInv, Runner, At, Writers
<1>7. Different'
  BY <1>1, <1>3 DEF Get, IInv, Different, At
<1>8. Fresh'
  BY <1>1, <1>3, <1>4 DEF Get, IInv, Fresh, At
<1>9. Counted' /\ NoDeadLink'
  BY DEF Get, IInv, Counted, NoDeadLink
<1> QED BY <1>5, <1>6, <1>7, <1>8, <1>9 DEF IInv

\* The PUT that is answered.
LEMMA PutKeeps ==
  ASSUME NEW w \in Writers, BridgeAssumption, IInv, Put(w)
  PROVE  IInv'
<1>1. At(w, "put") /\ Taken(w) /\ UNCHANGED <<site, pin>>
  BY DEF Put
<1>2. /\ file' \in Payloads \cup {None}
      /\ own' \in Nat
      /\ changed' \in [Writers -> BOOLEAN]
      /\ \A v \in Writers \ {w} : changed'[v]
      /\ Counted'
  BY <1>1, TakenStep
<1>3. writer' = [writer EXCEPT ![w] = [writer[w] EXCEPT !.pc = "poll"]]
  BY DEF Put, Goto, IInv, TypeOK
<1>4. /\ writer' \in [Writers -> [ pc : {"idle", "get", "put", "poll"},
                              payload : Payloads \cup {None},
                              sha : Payloads \cup {None}, polls : 0 .. POLLS - 1 ]]
      /\ writer'[w].pc = "poll"
      /\ writer'[w].payload = writer[w].payload
      /\ \A v \in Writers \ {w} : writer'[v] = writer[v]
  BY <1>3 DEF IInv, TypeOK
<1>5. TypeOK'
  BY <1>1, <1>2, <1>4 DEF IInv, TypeOK
<1>6. Runner'
  BY <1>1, <1>4 DEF IInv, Runner, At, Writers
<1>7. Different'
  BY <1>4 DEF IInv, Different, At
<1>8. Fresh'
  BY <1>2, <1>4 DEF IInv, Fresh, At
<1>9. NoDeadLink'
  BY <1>1 DEF IInv, NoDeadLink
<1> QED BY <1>2, <1>5, <1>6, <1>7, <1>8, <1>9 DEF IInv

\* The PUT whose reply is lost: committed and counted all the same.
LEMMA PutUnansweredKeeps ==
  ASSUME NEW w \in Writers, BridgeAssumption, IInv, PutUnanswered(w)
  PROVE  IInv'
<1>1. PICK status \in {"ENRICHED", "DEAD"} : Leave(w, status)
  BY DEF PutUnanswered, Transient
<1>2. At(w, "put") /\ Taken(w) /\ UNCHANGED site
  BY DEF PutUnanswered
<1>3. /\ writer' \in [Writers -> [ pc : {"idle", "get", "put", "poll"},
                              payload : Payloads \cup {None},
                              sha : Payloads \cup {None}, polls : 0 .. POLLS - 1 ]]
      /\ pin' \in [status : {"ENRICHED", "BRIDGING", "BRIDGED", "DEAD"}, content : Contents]
      /\ writer'[w] = Idle
      /\ \A v \in Writers \ {w} : writer'[v] = writer[v]
      /\ pin'.content = pin.content
      /\ w = "runner" => pin'.status = status
      /\ w # "runner" => pin' = pin
      /\ Runner'
  BY <1>1, LeaveStep DEF IInv
<1>4. /\ file' \in Payloads \cup {None}
      /\ own' \in Nat
      /\ changed' \in [Writers -> BOOLEAN]
      /\ \A v \in Writers \ {w} : changed'[v]
      /\ Counted'
  BY <1>2, <1>3, TakenStep
<1>5. TypeOK'
  BY <1>2, <1>3, <1>4 DEF IInv, TypeOK
<1>6. Different'
  BY <1>3 DEF IInv, Different, At, Idle
<1>7. Fresh'
  BY <1>3, <1>4 DEF IInv, Fresh, At, Idle
<1>8. NoDeadLink'
  BY <1>1, <1>2, <1>3 DEF IInv, NoDeadLink
<1> QED BY <1>3, <1>4, <1>5, <1>6, <1>7, <1>8 DEF IInv

\* verify_deployed ends, or polls once more.
LEMMA PollKeeps ==
  ASSUME NEW w \in Writers, BridgeAssumption, IInv, Poll(w)
  PROVE  IInv'
<1>1. UNCHANGED <<file, site, own, changed>>
  BY DEF Poll
<1>2. CASE PollFinds(w) /\ Leave(w, "BRIDGED")
  BY <1>1, <1>2, LeaveKeeps DEF PollFinds, Served
<1>3. CASE Transient(w)
  BY <1>1, <1>3, LeaveKeeps DEF Transient
<1>4. CASE /\ writer[w].polls + 1 < POLLS
           /\ writer' = [writer EXCEPT ![w].polls = @ + 1]
           /\ UNCHANGED pin
  <2>1. writer' = [writer EXCEPT ![w] = [writer[w] EXCEPT !.polls = @ + 1]]
    BY <1>4 DEF IInv, TypeOK
  <2>2. writer[w].polls + 1 \in 0 .. POLLS - 1
    BY <1>4 DEF IInv, TypeOK, BridgeAssumption
  <2>3. /\ writer' \in [Writers -> [ pc : {"idle", "get", "put", "poll"},
                              payload : Payloads \cup {None},
                              sha : Payloads \cup {None}, polls : 0 .. POLLS - 1 ]]
        /\ \A v \in Writers : /\ writer'[v].pc = writer[v].pc
                              /\ writer'[v].payload = writer[v].payload
                              /\ writer'[v].sha = writer[v].sha
    BY <2>1, <2>2 DEF IInv, TypeOK
  <2> QED
    BY <1>1, <1>4, <2>3
    DEF IInv, TypeOK, Runner, Different, Counted, Fresh, NoDeadLink, At, Writers
<1> QED BY <1>2, <1>3, <1>4 DEF Poll

\* A step of a writer keeps the invariant.
LEMMA WriterKeeps ==
  ASSUME NEW w \in Writers, BridgeAssumption, IInv, WriterStep(w)
  PROVE  IInv'
<1>1. CASE Begin(w)
  BY <1>1, BeginKeeps
<1>2. CASE Get(w)
  BY <1>2, GetKeeps
<1>3. CASE Put(w)
  BY <1>3, PutKeeps
<1>4. CASE PutUnanswered(w)
  BY <1>4, PutUnansweredKeeps
<1>5. CASE PutRefused(w)
  BY <1>5, LeaveKeeps DEF PutRefused, Permanent
<1>6. CASE CallFails(w)
  BY <1>6, LeaveKeeps DEF CallFails, Permanent, Transient
<1>7. CASE Poll(w)
  BY <1>7, PollKeeps
<1>8. CASE Crash(w)
  BY <1>8, LeaveKeeps DEF Crash
<1> QED BY <1>1, <1>2, <1>3, <1>4, <1>5, <1>6, <1>7, <1>8 DEF WriterStep

-----------------------------------------------------------------------------
(* The site and the document's later life.                                 *)

\* No build takes away the page that is served.
LEMMA SiteKeeps ==
  ASSUME BridgeAssumption, IInv, Build \/ Deploy \/ BuildFails
  PROVE  IInv'
<1>1. /\ UNCHANGED <<file, pin, writer, own, changed>>
      /\ site' \in [page : Payloads \cup {None}, build : Payloads \cup {None}]
      /\ site.page # None => site'.page # None
  BY DEF Build, Deploy, BuildFails, IInv, TypeOK, BridgeAssumption
<1> QED
  BY <1>1 DEF IInv, TypeOK, Runner, Different, Counted, Fresh, NoDeadLink, At

\* A document comes back with the content counted, or the count begins again.
LEMMA DocumentKeeps ==
  ASSUME BridgeAssumption, IInv, Rewrite \/ Rewire
  PROVE  IInv'
<1>1. /\ UNCHANGED <<file, site, writer, changed>>
      /\ pin' \in [status : {"ENRICHED", "BRIDGING", "BRIDGED", "DEAD"}, content : Contents]
      /\ pin'.status = "ENRICHED"
      /\ pin.status # "BRIDGING"
      /\ own' \in Nat
      /\ own' # 0 => own' = own /\ pin'.content = pin.content
  BY DEF Rewrite, Rewire, IInv, TypeOK
<1> QED
  BY <1>1 DEF IInv, TypeOK, Runner, Different, Counted, Fresh, NoDeadLink, At

-----------------------------------------------------------------------------
(* The invariant, and the theorems.                                        *)

\* The invariant holds at first.
LEMMA InvInit ==
  ASSUME BridgeAssumption, Init
  PROVE  IInv
<1>1. TypeOK
  BY DEF Init, TypeOK, Idle, BridgeAssumption
<1>2. Runner /\ Different /\ Counted /\ Fresh /\ NoDeadLink
  BY DEF Init, Runner, Different, Counted, Fresh, NoDeadLink, Idle, At, Writers
<1> QED BY <1>1, <1>2 DEF IInv

\* Every step keeps the invariant.
LEMMA InvNext ==
  ASSUME BridgeAssumption, IInv, [Next]_vars
  PROVE  IInv'
<1>1. CASE \E w \in Writers : WriterStep(w)
  BY <1>1, WriterKeeps
<1>2. CASE Build \/ Deploy \/ BuildFails
  BY <1>2, SiteKeeps
<1>3. CASE Rewrite \/ Rewire
  BY <1>3, DocumentKeeps
<1>4. CASE UNCHANGED vars
  BY <1>4 DEF vars, IInv, TypeOK, Runner, Different, Counted, Fresh, NoDeadLink, At
<1> QED BY <1>1, <1>2, <1>3, <1>4 DEF Next

\* The invariant holds of every behaviour.
LEMMA InvHolds == BridgeAssumption => (Spec => []IInv)
<1> SUFFICES ASSUME BridgeAssumption
             PROVE  Spec => []IInv
  OBVIOUS
<1>1. Init => IInv
  BY InvInit
<1>2. IInv /\ [Next]_vars => IInv'
  BY InvNext
<1> QED BY <1>1, <1>2, PTL DEF Spec

\* Every variable keeps its type, whichever writer dies where.
THEOREM TypeCorrect == BridgeAssumption => (Spec => []TypeOK)
<1>1. IInv => TypeOK
  BY DEF IInv
<1> QED BY <1>1, InvHolds, PTL

\* push_product commits a content of the document once between two changes by
\* somebody else, for any contents and any number of attempts.
THEOREM CommitsOnce == BridgeAssumption => (Spec => []NeverCommitsTwice)
<1>1. IInv => NeverCommitsTwice
  BY DEF IInv, Counted, NeverCommitsTwice
<1> QED BY <1>1, InvHolds, PTL

\* verify_deployed: BRIDGED is written only when the page was served, and a page
\* that was served once stays, whatever builds fail.
THEOREM LinksAreLive == BridgeAssumption => (Spec => []NoDeadLink)
<1>1. IInv => NoDeadLink
  BY DEF IInv
<1> QED BY <1>1, InvHolds, PTL

\* A PUT that GitHub refuses (409, 422) names a sha somebody else replaced after
\* the GET: a stage never collides with its own commit.
THEOREM ConflictsComeFromOthers == BridgeAssumption => (Spec => []RefusedByOthers)
<1>1. IInv => RefusedByOthers
  BY DEF IInv, Fresh, At, Stale, RefusedByOthers
<1> QED BY <1>1, InvHolds, PTL
=============================================================================
