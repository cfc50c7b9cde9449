------------------------------- MODULE Bridge -------------------------------
(***************************************************************************)
(* One page of the GitHub Pages site: the file products/<key>.json of the  *)
(* bridge repository, what the site serves of it, and the processes that   *)
(* push it with src/pinner/tools/bridge.py: the runner's bridge stage      *)
(* (src/pinner/runner/main.py), for the document of a pin, and             *)
(* scripts/live_smoke_test.py, which every push to main starts beside the  *)
(* runner, in a concurrency group of its own, and which pushes a content   *)
(* of its own under the same key.                                          *)
(*                                                                         *)
(* A push is a GET and a PUT that names the sha it read.  GitHub's sha of  *)
(* a file is a hash of its content, so here it is the content.  A writer   *)
(* may die at any point, and a PUT may succeed and lose its reply.         *)
(*                                                                         *)
(* Abstracted: the payload (a content is a value; the canonical JSON of    *)
(* equal payloads is equal), the attempt and the backoff of the document,  *)
(* which are Publication's (here any failure may be the last), and the     *)
(* pages of other products, whose commits start builds too.                *)
(***************************************************************************)
EXTENDS Integers, BridgePromise

CONSTANTS Contents,     \* what the strategist may write for the product
          SmokeContent, \* what the smoke test writes for it
          POLLS         \* verify_deployed's attempts

BridgeAssumption ==
  /\ None \notin Contents \cup {SmokeContent}
  /\ SmokeContent \notin Contents
  /\ POLLS \in Nat \ {0}

Payloads == Contents \cup {SmokeContent}

vars == <<file, site, pin, writer, own, changed>>

Idle == [pc |-> "idle", payload |-> None, sha |-> None, polls |-> 0]

At(w, pc) == writer[w].pc = pc

Goto(w, pc) == writer' = [writer EXCEPT ![w].pc = pc]

-----------------------------------------------------------------------------
(* The end of the runner's stage; the smoke test just ends.                *)

Leave(w, status) ==
  /\ writer' = [writer EXCEPT ![w] = Idle]
  /\ pin' = IF w = "runner" THEN [pin EXCEPT !.status = status] ELSE pin

\* fail_doc: back to the start of the stage, or, after the last attempt, DEAD.
Transient(w) == \E status \in {"ENRICHED", "DEAD"} : Leave(w, status)

Permanent(w) == Leave(w, "DEAD")

\* The runner's stage, or the smoke test, builds its payload.
Begin(w) ==
  /\ At(w, "idle")
  /\ IF w = "runner" THEN pin.status = "ENRICHED" /\ pin' = [pin EXCEPT !.status = "BRIDGING"]
                     ELSE UNCHANGED pin
  /\ writer' = [writer EXCEPT ![w] = [Idle EXCEPT !.pc = "get",
                  !.payload = IF w = "runner" THEN pin.content ELSE SmokeContent]]
  /\ UNCHANGED <<file, site, own, changed>>

-----------------------------------------------------------------------------
(* push_product.                                                           *)

\* As in Engine, no specification uses a definition named X_<Bug>.
IsLive_Never(w) == FALSE

\* The remote content is the one to be pushed.
IsLive(w) == file = writer[w].payload

Get_NoSha(w) ==
  /\ At(w, "get")
  /\ writer' = [writer EXCEPT ![w].pc = IF IsLive(w) THEN "poll" ELSE "put"]
  /\ changed' = [changed EXCEPT ![w] = FALSE]
  /\ UNCHANGED <<file, site, pin, own>>

\* Identical content is adopted; another one will be replaced; 404 has no sha.
Get(w) ==
  /\ At(w, "get")
  /\ writer' = [writer EXCEPT ![w].pc = IF IsLive(w) THEN "poll" ELSE "put", ![w].sha = file]
  /\ changed' = [changed EXCEPT ![w] = FALSE]
  /\ UNCHANGED <<file, site, pin, own>>

\* GitHub takes a PUT that names the sha the file has, or none for a new file.
Taken(w) ==
  /\ writer[w].sha = file
  /\ file' = writer[w].payload
  /\ changed' = [v \in Writers |-> changed[v] \/ v # w]
  /\ own' = IF w = "runner" THEN own + 1 ELSE 0

Put(w) ==
  /\ At(w, "put")
  /\ Taken(w)
  /\ Goto(w, "poll")
  /\ UNCHANGED <<site, pin>>

PutUnanswered(w) ==
  /\ At(w, "put")
  /\ Taken(w)
  /\ Transient(w)
  /\ UNCHANGED site

\* HTTP 409 or 422.
PutRefused(w) ==
  /\ Stale(w)
  /\ Permanent(w)
  /\ UNCHANGED <<file, site, own, changed>>

\* Any other error: 5xx and 429 are transient, the rest are permanent.
CallFails(w) ==
  /\ At(w, "get") \/ At(w, "put")
  /\ Transient(w) \/ Permanent(w)
  /\ UNCHANGED <<file, site, own, changed>>

-----------------------------------------------------------------------------
(* verify_deployed, and BRIDGE_OK.                                         *)

Served(w) == site.page # None

PollFinds_Anything(w) == TRUE

\* HTTP 200, whichever version is served; the smoke test goes on in any case.
PollFinds(w) == Served(w)

Poll(w) ==
  /\ At(w, "poll")
  /\ \/ /\ PollFinds(w)
        /\ Leave(w, "BRIDGED")
     \/ /\ ~PollFinds(w) /\ writer[w].polls + 1 < POLLS
        /\ writer' = [writer EXCEPT ![w].polls = @ + 1]
        /\ UNCHANGED pin
     \/ /\ ~PollFinds(w) /\ writer[w].polls + 1 = POLLS
        /\ Transient(w)                \* "bridge not deployed after push"
  /\ UNCHANGED <<file, site, own, changed>>

\* The sweep returns the document of a run that died to the start of the stage.
Crash(w) ==
  /\ ~At(w, "idle")
  /\ Leave(w, "ENRICHED")
  /\ UNCHANGED <<file, site, own, changed>>

-----------------------------------------------------------------------------
(* The site, and the document's later life.                                *)

\* A commit, of this page or of another one, starts a build of all there is.
Build ==
  /\ file # None
  /\ site' = [site EXCEPT !.build = file]
  /\ UNCHANGED <<file, pin, writer, own, changed>>

Deploy ==
  /\ site.build # None
  /\ site' = [page |-> site.build, build |-> None]
  /\ UNCHANGED <<file, pin, writer, own, changed>>

BuildFails ==
  /\ site.build # None
  /\ site' = [site EXCEPT !.build = None]
  /\ UNCHANGED <<file, pin, writer, own, changed>>

\* A dead document is requeued and written up again, or it is bridged again with
\* the content it has, after wire_domains; in between it is another stage's.
Rewrite ==
  /\ pin.status = "DEAD"
  /\ \E content \in Contents :
       /\ pin' = [status |-> "ENRICHED", content |-> content]
       /\ own' = IF content = pin.content THEN own ELSE 0
  /\ UNCHANGED <<file, site, writer, changed>>

Rewire ==
  /\ pin.status = "BRIDGED"
  /\ pin' = [pin EXCEPT !.status = "ENRICHED"]
  /\ UNCHANGED <<file, site, writer, own, changed>>

-----------------------------------------------------------------------------
Init ==
  /\ file = None
  /\ site = [page |-> None, build |-> None]
  /\ pin \in [status : {"ENRICHED"}, content : Contents]
  /\ writer = [w \in Writers |-> Idle]
  /\ own = 0
  /\ changed = [w \in Writers |-> FALSE]

WriterStep(w) ==
  \/ Begin(w) \/ Get(w) \/ Put(w) \/ PutUnanswered(w) \/ PutRefused(w) \/ CallFails(w)
  \/ Poll(w) \/ Crash(w)

Next ==
  \/ \E w \in Writers : WriterStep(w)
  \/ Build \/ Deploy \/ BuildFails \/ Rewrite \/ Rewire

Spec == Init /\ [][Next]_vars

-----------------------------------------------------------------------------
(* Properties, beside NeverCommitsTwice, NoDeadLink and RefusedByOthers.   *)

\* The type of the state.
TypeOK ==
  /\ file \in Payloads \cup {None}
  /\ site \in [page : Payloads \cup {None}, build : Payloads \cup {None}]
  /\ pin \in [status : {"ENRICHED", "BRIDGING", "BRIDGED", "DEAD"}, content : Contents]
  /\ writer \in [Writers -> [ pc : {"idle", "get", "put", "poll"}, payload : Payloads \cup {None},
                              sha : Payloads \cup {None}, polls : 0 .. POLLS - 1 ]]
  /\ own \in Nat
  /\ changed \in [Writers -> BOOLEAN]
=============================================================================
