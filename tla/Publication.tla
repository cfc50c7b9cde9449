---------------------------- MODULE Publication ----------------------------
(***************************************************************************)
(* The publication stage of the cron runner, src/pinner/runner/main.py,    *)
(* for one account: its pins' documents, the governor's statistics, its    *)
(* boards, and what is really on Pinterest.                                *)
(*                                                                         *)
(* A run sweeps, reads the list of accounts, and then asks the governor,   *)
(* claims and runs one stage after another until the governor, an empty    *)
(* queue or a breaker ends it.  Between two of its steps the operator may  *)
(* act, a board may be deleted, time may pass, and the run may die; a      *)
(* call to Pinterest may fail, be refused, or succeed and lose its reply.  *)
(*                                                                         *)
(* Engine models the single operations of the engine and the processes     *)
(* that race in them; here an operation of the engine is one step, and     *)
(* there is one run at a time (the workflow's concurrency group).          *)
(*                                                                         *)
(* Time is relative: a document carries the time left of its backoff and   *)
(* of its lease.  Abstracted: the text of the pins, the pages of the       *)
(* bridge, the age of the boards cache (a refresh may happen in any        *)
(* PINNING stage), the count of Gemini calls (the ingest stages spend from *)
(* it too), boards of more pages than find_pin_by_link walks, and accounts *)
(* other than this one, which take the time between List and OpenAccount.  *)
(***************************************************************************)
EXTENDS Governor, Registry, FiniteSetsExt

INSTANCE Validator WITH TRANSITIONS <- PUBLICATION_TRANSITIONS,
                        STATE_ROLES <- PUBLICATION_ROLES

CONSTANTS Docs,              \* the account's pin documents, in order of creation
          Boards,            \* its boards, in the order of boards_cache
          SeoBoards,         \* those its niche declares, which runs create
          None,              \* an unset field
          MAX_ATTEMPTS,      \* DEFAULT_MAX_ATTEMPTS
          BACKOFF,           \* the backoff of any failure, in ticks
          LEASE_TTL,         \* DEFAULT_LEASE_TTL_SECONDS, in ticks
          PINS_PER_ACCOUNT,  \* RunnerConfig.pins_per_account
          RUN_TTL,           \* timeout-minutes of the workflow, in ticks
          Faults,            \* what may go wrong in this instance
          Commands           \* what the operator does in this instance

Fault == {"crash", "no_token", "transient", "permanent", "quota", "expired",
          "lost_reply", "sandbox", "board_deleted"}

\* What base a link is built on: the site of the seeds, or the domain wired since.
Domain == {"seeded", "wired"}

Command == {"pause", "resume", "requeue", "wire", "dry_run", "boost"}

ASSUME PublicationAssumption ==
  /\ Docs \subseteq Nat /\ Boards \subseteq Nat /\ SeoBoards \subseteq Boards
  /\ None \notin Boards /\ None \notin PinState \cup Domain
  /\ MAX_ATTEMPTS \in Nat \ {0} /\ PINS_PER_ACCOUNT \in Nat \ {0}
  /\ BACKOFF \in Nat /\ LEASE_TTL \in Nat /\ RUN_TTL \in Nat
  /\ Faults \subseteq Fault /\ Commands \subseteq Command

VARIABLES pin,        \* the pins collection
          account,    \* the account's document
          pinterest,  \* pinterest[d][l][b]: how many pins lead to d's page on l, on board b
          live,       \* the boards that exist on Pinterest
          deleted,    \* history: the boards that were deleted, if made again since or not
          run,        \* the run in progress
          operator,   \* where a two-part command of the operator is
          day         \* history: what was done since midnight, and the time of day

vars == <<pin, account, pinterest, live, deleted, run, operator, day>>

-----------------------------------------------------------------------------
(* Documents.                                                              *)

Doc == [ status      : PinState,
         count       : 0 .. MAX_ATTEMPTS,         \* attempt.count, up to the last that matters
         wait        : 0 .. BACKOFF,              \* until attempt.next_attempt_at
         lease       : 0 .. LEASE_TTL,            \* until lease.expires_at
         board       : Boards \cup {None},        \* content.board_choice
         link        : Domain \cup {None},        \* bridge.url, named by its domain
         pinned_on   : Boards \cup {None},        \* pin.pin_id, named by the board it is on
         paused_from : ResumablePinStates \cup {None} ]

QueuedDoc == [ status |-> "QUEUED", count |-> 0, wait |-> 0, lease |-> 0, board |-> None,
               link |-> None, pinned_on |-> None, paused_from |-> None ]

RoleOf(d) == PUBLICATION_ROLES[pin[d].status]

\* transition_doc of an ADVANCE event, with the document patched by the stage.
Advanced(patched, event) ==
  { [ patched EXCEPT !.status = row.target, !.count = 0, !.wait = 0,
                     !.lease = 0, !.paused_from = None ]
    : row \in TransitionFor(patched.status, event) }

\* fail_doc.  A quota-class failure is TRANSIENT with a budget of 10,000.
Failed(doc, class) ==
  LET count  == doc.count + 1
      poison == class = "PERMANENT" \/ (class = "TRANSIENT" /\ count >= MAX_ATTEMPTS)
  IN { [ doc EXCEPT !.status = row.target, !.lease = 0,
                    !.count = UpTo(MAX_ATTEMPTS, count),
                    !.wait = IF poison THEN 0 ELSE BACKOFF ]
       : row \in TransitionOfKind(doc.status, IF poison THEN "POISON" ELSE "RETRY") }

\* As in Engine, no specification uses a definition named X_<Bug>.
Swept_NotAtAll(doc) == doc

\* sweep_expired_leases, on one document.
Swept(doc) ==
  IF PUBLICATION_ROLES[doc.status] = "WORKING" /\ doc.lease = 0
  THEN [ doc EXCEPT !.status = SweepTarget(doc.status),
                    !.count = UpTo(MAX_ATTEMPTS, @ + 1), !.wait = BACKOFF ]
  ELSE doc

-----------------------------------------------------------------------------
(* The run.                                                                *)

Run == [ pc       : {"off", "swept", "boards", "listed", "loop", "claim", "stage", "reconcile",
                     "create", "create_again", "pin_ok", "bump", "refresh"},
         dry      : BOOLEAN,                  \* --dry-run
         boost    : BOOLEAN,                  \* a launch wave, with --daily-cap-override
         age      : 0 .. RUN_TTL,
         listed   : AccountStatus \cup {None},  \* the account's status when listed
         done     : 0 .. PINS_PER_ACCOUNT,    \* pins_done
         cache    : SUBSET Boards,            \* boards_cache of the account as last read
         domain   : Domain \cup {None},       \* and the domain of its site
         doc      : Docs \cup {None},         \* the document claimed
         stage    : PinState \cup {None},     \* the status it was claimed into
         link     : Domain \cup {None},       \* the link it had then
         board    : Boards \cup {None},       \* the board chosen for it
         fallback : BOOLEAN,                  \* that board was not reconciled with
         retried  : BOOLEAN ]                 \* the stage runs again, with a new token

Off == [ pc |-> "off", dry |-> FALSE, boost |-> FALSE, age |-> 0, listed |-> None, done |-> 0,
         cache |-> {}, domain |-> None, doc |-> None, stage |-> None, link |-> None, board |-> None,
        fallback |-> FALSE, retried |-> FALSE ]

NextTurn == [ Off EXCEPT !.pc = "loop", !.dry = run.dry, !.boost = run.boost, !.age = run.age,
                         !.done = run.done ]

At(pc) == run.pc = pc

Goto(pc) == run' = [run EXCEPT !.pc = pc]

InStage(state) == At("stage") /\ run.stage = state

\* A stage raises.  What follows a refreshed token is caught as one class only,
\* a quota-class failure breaks the loop, and fail_doc raises on a document that
\* the operator has paused meanwhile, which ends the run.
Raise(class) ==
  LET caught == IF run.retried THEN "TRANSIENT" ELSE class
  IN \/ /\ RoleOf(run.doc) = "WORKING"
        /\ \E new \in Failed(pin[run.doc], caught) : pin' = [pin EXCEPT ![run.doc] = new]
        /\ run' = IF caught = "QUOTA" THEN Off ELSE NextTurn
     \/ /\ RoleOf(run.doc) # "WORKING"
        /\ run' = Off
        /\ UNCHANGED pin

\* The stage emits its event: what the patch and the registry say, or an
\* IllegalTransitionError.
Emit(event, patched, next) ==
  LET advanced == Advanced(patched, event)
  IN \/ /\ \E new \in advanced : pin' = [pin EXCEPT ![run.doc] = new]
        /\ run' = next
     \/ advanced = {} /\ Raise("TRANSIENT")

\* execute: the sweep.  discovery, fetching and moderation follow it.
Start ==
  /\ At("off")
  /\ \/ run' = [Off EXCEPT !.pc = "swept"]
     \/ "dry_run" \in Commands /\ run' = [Off EXCEPT !.pc = "swept", !.dry = TRUE]
     \/ "boost" \in Commands /\ run' = [Off EXCEPT !.pc = "swept", !.boost = TRUE]
  /\ pin' = [d \in Docs |-> Swept(pin[d])]
  /\ UNCHANGED <<account, pinterest, live, deleted, operator, day>>

\* _ensure_seo_boards: creates the boards that are missing and renews the cache if
\* there were any; a failure on the way leaves it at what was done.
EnsureBoards ==
  /\ At("swept")
  /\ LET missing == IF run.dry \/ account.status = "PAUSED" THEN {} ELSE SeoBoards \ live
     IN \/ /\ missing # {}
           /\ live' = live \cup missing
           /\ account' = [account EXCEPT !.boards_cache = live']
        \/ /\ \E created \in SUBSET missing : live' = live \cup created
           /\ UNCHANGED account
  /\ Goto("boards")
  /\ UNCHANGED <<pin, pinterest, deleted, operator, day>>

List ==
  /\ At("boards")
  /\ run' = IF account.status \in {"ACTIVE", "WARMUP"}
            THEN [run EXCEPT !.pc = "listed", !.listed = account.status] ELSE Off
  /\ UNCHANGED <<pin, account, pinterest, live, deleted, operator, day>>

\* The turn of this account: it needs a token, and may graduate, judged by the
\* document that List read.
OpenAccount ==
  /\ At("listed")
  /\ \/ "no_token" \in Faults /\ ~run.dry /\ run' = Off /\ UNCHANGED account
     \/ /\ account' = IF ShouldGraduate([account EXCEPT !.status = run.listed])
                      THEN [account EXCEPT !.status = "ACTIVE"] ELSE account
        /\ run' = NextTurn
  /\ UNCHANGED <<pin, pinterest, live, deleted, operator, day>>

\* The gate, asked before every claim; gemini_left: the shared Gemini budget.  A
\* launch wave is for one pin.
MayGoOn(gemini_left) ==
  /\ run.done < (IF run.boost THEN 1 ELSE PINS_PER_ACCOUNT)
  /\ Decide(account, gemini_left, run.boost)

GovernorAllows ==
  /\ At("loop")
  /\ MayGoOn(TRUE)
  /\ run' = [run EXCEPT !.pc = "claim", !.cache = account.boards_cache,
                         !.domain = account.domain]
  /\ UNCHANGED <<pin, account, pinterest, live, deleted, operator, day>>

GovernorBlocks ==
  /\ At("loop")
  /\ \E gemini_left \in BOOLEAN : ~MayGoOn(gemini_left)
  /\ run' = Off
  /\ UNCHANGED <<pin, account, pinterest, live, deleted, operator, day>>

\* Finishers first; a dry run leaves CLAIM_PIN out.
ClaimOrder ==
  IF run.dry THEN << "CLAIM_BRIDGE", "CLAIM_VERIFY", "CLAIM_ENRICH" >>
             ELSE << "CLAIM_BRIDGE", "CLAIM_PIN", "CLAIM_VERIFY", "CLAIM_ENRICH" >>

Claimable(event) ==
  { d \in Docs : pin[d].wait = 0 /\ TransitionsFrom(pin[d].status, event) # {} }

ClaimNext ==
  /\ At("claim")
  /\ \/ \E i \in DOMAIN ClaimOrder :
          LET d == Min(Claimable(ClaimOrder[i]))
          IN /\ Claimable(ClaimOrder[i]) # {}
             /\ \A j \in 1 .. i - 1 : Claimable(ClaimOrder[j]) = {}
             /\ \E row \in TransitionFor(pin[d].status, ClaimOrder[i]) :
                  /\ pin' = [pin EXCEPT ![d] = [@ EXCEPT !.status = row.target,
                                                         !.lease = LEASE_TTL,
                                                         !.paused_from = None]]
                  /\ run' = [run EXCEPT !.pc = "stage", !.doc = d, !.stage = row.target,
                                          !.link = pin[d].link]
     \/ /\ \A i \in DOMAIN ClaimOrder : Claimable(ClaimOrder[i]) = {}
        /\ run' = Off
        /\ UNCHANGED pin
  /\ UNCHANGED <<account, pinterest, live, deleted, operator, day>>

-----------------------------------------------------------------------------
(* The stages.                                                             *)

\* The strategist's choice is one of the boards it is given, if any.
Enrich ==
  /\ InStage("ENRICHING")
  /\ \E board \in (IF run.cache = {} THEN Boards ELSE run.cache) :
       Emit("ENRICH_OK", [pin[run.doc] EXCEPT !.board = board], NextTurn)
  /\ UNCHANGED <<account, pinterest, live, deleted, operator, day>>

Bridge_Unpatched ==
  /\ InStage("BRIDGING")
  /\ Emit("BRIDGE_OK", pin[run.doc], NextTurn)
  /\ UNCHANGED <<account, pinterest, live, deleted, operator, day>>

\* The link is on the domain the account had when the run last read it.
Bridge ==
  /\ InStage("BRIDGING")
  /\ Emit("BRIDGE_OK", [pin[run.doc] EXCEPT !.link = run.domain], NextTurn)
  /\ UNCHANGED <<account, pinterest, live, deleted, operator, day>>

CoveredBoards ==
  { pin[d].board : d \in { e \in Docs : pin[e].status \in {"VERIFIED", "PINNED"} } }

\* The first board of _ordered_boards among some: uncovered ones come first.
FirstBoard(boards) ==
  IF boards \subseteq CoveredBoards THEN Min(boards) ELSE Min(boards \ CoveredBoards)

\* _boards_map: the cache the run has read, or a new one, which it keeps.
BoardsMap(cache) ==
  \/ cache = run.cache /\ cache # {} /\ UNCHANGED account
  \/ cache = live /\ account' = [account EXCEPT !.boards_cache = cache]

\* _stage_pin up to its first look at the board: the chosen board must be known,
\* and a covered choice gives way to an uncovered board.
Allocate ==
  /\ InStage("PINNING")
  /\ \E cache \in {live, run.cache} :
       LET choice == pin[run.doc].board
       IN /\ BoardsMap(cache)
          /\ \/ choice \notin cache /\ Raise("PERMANENT")
             \/ /\ choice \in cache
                /\ run' = [run EXCEPT !.pc = "reconcile", !.cache = cache,
                                      !.board = IF choice \in CoveredBoards
                                                   /\ ~ cache \subseteq CoveredBoards
                                                THEN FirstBoard(cache) ELSE choice]
                /\ UNCHANGED pin
  /\ UNCHANGED <<pinterest, live, deleted, operator, day>>

Found_Never == FALSE

\* find_pin_by_link, with the link the stage has read.
Found == pinterest[run.doc][run.link][run.board] > 0

Reconcile ==
  /\ At("reconcile") /\ run.board \in live
  /\ Goto(IF Found THEN "pin_ok" ELSE "create")
  /\ UNCHANGED <<pin, account, pinterest, live, deleted, operator, day>>

\* The id of the board is of one that was deleted; one that was made again may
\* still be known by the id it had.
Gone == run.board \notin live \/ run.board \in deleted

\* HTTP 404: the board is gone, so take another one, unreconciled.
ReconcileDeleted ==
  /\ At("reconcile") /\ Gone
  /\ account' = [account EXCEPT !.boards_cache = live]
  /\ LET fallbacks == live \ {run.board}
     IN \/ /\ fallbacks # {}
           /\ run' = [run EXCEPT !.pc = "create", !.cache = live,
                                 !.board = FirstBoard(fallbacks), !.fallback = TRUE]
           /\ UNCHANGED pin
        \/ fallbacks = {} /\ Raise("TRANSIENT")
  /\ UNCHANGED <<pinterest, live, deleted, operator, day>>

Creating == At("create") \/ At("create_again")

\* The call reaches Pinterest: there is one more pin, counted up to "several".
Created ==
  /\ run.board \in live
  /\ pinterest' = [pinterest EXCEPT ![run.doc][run.link][run.board] = UpTo(2, @ + 1)]

Create ==
  /\ Creating /\ Created
  /\ Goto("pin_ok")
  /\ UNCHANGED <<pin, account, live, deleted, operator, day>>

\* ... but the reply does not reach the runner.
CreateUnanswered ==
  /\ "lost_reply" \in Faults
  /\ Creating /\ Created
  /\ Raise("TRANSIENT")
  /\ UNCHANGED <<account, live, deleted, operator, day>>

\* The board has been deleted since it was looked at.
CreateRefused ==
  /\ Creating /\ Gone
  /\ Raise("PERMANENT")
  /\ UNCHANGED <<account, pinterest, live, deleted, operator, day>>

\* HTTP 400, a board in sandbox state: once, another board is tried instead.
CreateSandboxed ==
  /\ "sandbox" \in Faults
  /\ Creating
  /\ LET fallbacks == run.cache \ {run.board}
     IN \/ /\ At("create") /\ fallbacks # {}
           /\ run' = [run EXCEPT !.pc = "create_again", !.board = FirstBoard(fallbacks),
                                 !.fallback = TRUE]
           /\ UNCHANGED pin
        \/ At("create") /\ fallbacks = {} /\ Raise("TRANSIENT")
        \/ At("create_again") /\ Raise("PERMANENT")
  /\ UNCHANGED <<account, pinterest, live, deleted, operator, day>>

PinOk_KeepsChoice ==
  /\ At("pin_ok")
  /\ Emit("PIN_OK", [pin[run.doc] EXCEPT !.pinned_on = run.board], NextTurn)
  /\ UNCHANGED <<account, pinterest, live, deleted, operator, day>>

PinOk ==
  /\ At("pin_ok")
  /\ Emit("PIN_OK", [pin[run.doc] EXCEPT !.pinned_on = run.board, !.board = run.board], NextTurn)
  /\ UNCHANGED <<account, pinterest, live, deleted, operator, day>>

\* _stage_verify: the pin can be read, unless it is gone with its board.
Verify ==
  /\ InStage("VERIFYING")
  /\ LET board    == pin[run.doc].pinned_on
         readable == pinterest[run.doc][run.link][board] > 0
     IN \/ readable /\ Emit("VERIFY_OK", pin[run.doc], [run EXCEPT !.pc = "bump"])
        \/ ~readable /\ Raise("PERMANENT")
  /\ day' = IF pin'[run.doc].status = "VERIFIED"
            THEN [day EXCEPT !.verified = UpTo(LargestCap + 1, @ + 1),
                             !.boosted = @ \/ run.boost] ELSE day
  /\ UNCHANGED <<account, pinterest, live, deleted, operator>>

BumpStats ==
  /\ At("bump")
  /\ account' = [account EXCEPT !.stats = BumpPinStats(@)]
  /\ run' = [NextTurn EXCEPT !.done = run.done + 1]
  /\ UNCHANGED <<pin, pinterest, live, deleted, operator, day>>

-----------------------------------------------------------------------------
(* The ways a stage fails.                                                 *)

Outside == At("stage") \/ At("reconcile") \/ Creating

CallFails ==
  /\ Outside
  /\ \/ "transient" \in Faults /\ Raise("TRANSIENT")
     \/ "permanent" \in Faults /\ Raise("PERMANENT")
     \/ "quota" \in Faults /\ Raise("QUOTA")
  /\ UNCHANGED <<account, pinterest, live, deleted, operator, day>>

\* HTTP 401 from Pinterest: the first one is answered with a refresh.
TokenExpires ==
  /\ "expired" \in Faults
  /\ Outside /\ run.stage \in {"PINNING", "VERIFYING"}
  /\ \/ ~run.retried /\ Goto("refresh") /\ UNCHANGED pin
     \/ run.retried /\ Raise("TRANSIENT")
  /\ UNCHANGED <<account, pinterest, live, deleted, operator, day>>

TokenRefreshed_Again ==
  /\ At("refresh")
  /\ run' = IF pin[run.doc].status \in {"PINNING", "VERIFYING"}
            THEN [run EXCEPT !.pc = "stage", !.stage = pin[run.doc].status,
                             !.link = pin[run.doc].link, !.board = None, !.fallback = FALSE,
                             !.cache = account.boards_cache, !.domain = account.domain]
            ELSE NextTurn
  /\ UNCHANGED <<pin, account, pinterest, live, deleted, operator, day>>

\* The same stage runs again, on the document as it is now.
TokenRefreshed ==
  /\ At("refresh")
  /\ run' = IF pin[run.doc].status \in {"PINNING", "VERIFYING"}
            THEN [run EXCEPT !.pc = "stage", !.stage = pin[run.doc].status, !.retried = TRUE,
                             !.link = pin[run.doc].link, !.board = None, !.fallback = FALSE,
                             !.cache = account.boards_cache, !.domain = account.domain]
            ELSE NextTurn
  /\ UNCHANGED <<pin, account, pinterest, live, deleted, operator, day>>

RefreshFails ==
  /\ At("refresh")
  /\ Raise("TRANSIENT")
  /\ UNCHANGED <<account, pinterest, live, deleted, operator, day>>

\* A crash, or the workflow's timeout.
Die ==
  /\ ~At("off")
  /\ "crash" \in Faults \/ run.age = RUN_TTL
  /\ run' = Off
  /\ day' = [day EXCEPT !.uncounted = @ \/ At("bump")]
  /\ UNCHANGED <<pin, account, pinterest, live, deleted, operator>>

-----------------------------------------------------------------------------
(* The operator (src/pinner/ops.py).  The switch on the pins is one step   *)
(* here; Engine has the steps it is made of.                               *)

MayIssue(name) == name \in Commands /\ operator = "idle"

PauseDoc_NoRewind(doc) ==
  IF PUBLICATION_ROLES[doc.status] \in {"IDLE", "WORKING"}
  THEN [ doc EXCEPT !.status = "PAUSED", !.lease = 0, !.paused_from = doc.status ]
  ELSE doc

PauseDoc_Forward(doc) ==
  IF PUBLICATION_ROLES[doc.status] \in {"IDLE", "WORKING"}
  THEN [ doc EXCEPT !.status = "PAUSED", !.lease = 0,
                    !.paused_from = IF PUBLICATION_ROLES[doc.status] = "WORKING"
                                    THEN (CHOOSE t \in RowsWithKind(doc.status, "ADVANCE") : TRUE).target
                                    ELSE doc.status ]
  ELSE doc

\* pause_all, on one document: a stage in progress will be resumed from its start.
PauseDoc(doc) ==
  IF PUBLICATION_ROLES[doc.status] \in {"IDLE", "WORKING"}
  THEN [ doc EXCEPT !.status = "PAUSED", !.lease = 0,
                    !.paused_from = IF PUBLICATION_ROLES[doc.status] = "WORKING"
                                    THEN SweepTarget(doc.status) ELSE doc.status ]
  ELSE doc

PausePins ==
  /\ MayIssue("pause")
  /\ pin' = [d \in Docs |-> PauseDoc(pin[d])]
  /\ operator' = "pausing"
  /\ UNCHANGED <<account, pinterest, live, deleted, run, day>>

\* resume_all, on one document.
ResumeDoc(doc) ==
  IF doc.status = "PAUSED" /\ doc.paused_from # None
  THEN [doc EXCEPT !.status = doc.paused_from, !.paused_from = None] ELSE doc

ResumePins ==
  /\ MayIssue("resume")
  /\ pin' = [d \in Docs |-> ResumeDoc(pin[d])]
  /\ operator' = "resuming"
  /\ UNCHANGED <<account, pinterest, live, deleted, run, day>>

\* Both commands end by flagging the account; resume makes it ACTIVE.
FlagAccount ==
  /\ operator \in {"pausing", "resuming"}
  /\ account' = [account EXCEPT !.status = IF operator = "pausing" THEN "PAUSED" ELSE "ACTIVE"]
  /\ operator' = "idle"
  /\ UNCHANGED <<pin, pinterest, live, deleted, run, day>>

Requeue ==
  /\ MayIssue("requeue")
  /\ \E d \in Docs :
       /\ pin[d].status = "DEAD"
       /\ pin' = [pin EXCEPT ![d] = [@ EXCEPT !.status = "QUEUED", !.count = 0, !.wait = 0]]
  /\ UNCHANGED <<account, pinterest, live, deleted, run, operator, day>>

\* scripts/wire_domains.py, once: first the account's domain and cache, ...
WireAccount ==
  /\ MayIssue("wire") /\ account.domain = "seeded"
  /\ account' = [account EXCEPT !.domain = "wired", !.boards_cache = {}]
  /\ operator' = "wiring"
  /\ UNCHANGED <<pin, pinterest, live, deleted, run, day>>

\* ... then the documents: back to ENRICHED, for a page on the new domain.
Rewired == { d \in Docs : pin[d].link # None /\ pin[d].status \in {"BRIDGED", "PAUSED"} }

WirePins ==
  /\ operator = "wiring"
  /\ pin' = [ d \in Docs |-> IF d \in Rewired
                             THEN [pin[d] EXCEPT !.status = "ENRICHED", !.link = None]
                             ELSE pin[d] ]
  /\ operator' = "idle"
  /\ UNCHANGED <<account, pinterest, live, deleted, run, day>>

-----------------------------------------------------------------------------
(* The world.                                                              *)

\* The operator deletes a board on Pinterest, its pins with it.
DeleteBoard ==
  /\ "board_deleted" \in Faults
  /\ \E b \in live :
       /\ live' = live \ {b}
       /\ deleted' = deleted \cup {b}
       /\ pinterest' = [d \in Docs |-> [l \in Domain |-> [pinterest[d][l] EXCEPT ![b] = 0]]]
  /\ UNCHANGED <<pin, account, run, operator, day>>

NewDay(time) == [ time |-> time, verified |-> 0, uncounted |-> FALSE, boosted |-> FALSE ]

Older(n) == IF n = 0 THEN 0 ELSE n - 1

\* A run does not outlive its timeout.
Tick ==
  /\ At("off") \/ run.age < RUN_TTL
  /\ LET midnight == day.time = DAY - 1
     IN /\ day' = IF midnight
                  THEN NewDay(0)
                  ELSE [ day EXCEPT !.time = @ + 1 ]
        /\ account' = OlderAccount(account, midnight)
  /\ pin' = [d \in Docs |-> [pin[d] EXCEPT !.wait = Older(@), !.lease = Older(@)]]
  /\ run' = IF At("off") THEN run ELSE [run EXCEPT !.age = @ + 1]
  /\ UNCHANGED <<pinterest, live, deleted, operator>>

-----------------------------------------------------------------------------
Init ==
  /\ pin = [d \in Docs |-> QueuedDoc]
  /\ \E cache \in {{}, Boards} :      \* seeded empty
       account = [ status |-> "WARMUP", age |-> 0, stats |-> NewStats, boards_cache |-> cache,
                   domain |-> "seeded" ]
  /\ pinterest = [d \in Docs |-> [l \in Domain |-> [b \in Boards |-> 0]]]
  /\ live \in {Boards, Boards \ SeoBoards}
  /\ deleted = {}
  /\ run = Off
  /\ operator = "idle"
  /\ \E time \in 0 .. DAY - 1 :
       day = NewDay(time)

RunStep ==
  \/ Start \/ EnsureBoards \/ List \/ OpenAccount \/ GovernorAllows \/ GovernorBlocks \/ ClaimNext
  \/ Enrich \/ Bridge
  \/ Allocate \/ Reconcile \/ ReconcileDeleted
  \/ Create \/ CreateUnanswered \/ CreateRefused \/ CreateSandboxed \/ PinOk
  \/ Verify \/ BumpStats
  \/ CallFails \/ TokenExpires \/ TokenRefreshed \/ RefreshFails

OperatorStep == PausePins \/ ResumePins \/ FlagAccount \/ Requeue \/ WireAccount \/ WirePins

Next == RunStep \/ OperatorStep \/ Die \/ DeleteBoard \/ Tick

Spec == Init /\ [][Next]_vars

\* The workflow starts a run every four hours and a run takes its steps; time
\* passes; the Gemini budget is not used up whenever the governor asks; and from
\* some time on runs no longer crash or time out.
Fairness ==
  /\ WF_vars(RunStep) /\ SF_vars(Tick) /\ SF_vars(GovernorAllows)
  /\ <>[][RunStep \/ OperatorStep \/ DeleteBoard \/ Tick]_vars

FairSpec == Spec /\ Fairness

-----------------------------------------------------------------------------
(* Properties.                                                             *)

\* The type of the state.
TypeOK ==
  /\ pin \in [Docs -> Doc]
  /\ account \in [ status : AccountStatus, age : 0 .. FullAge, stats : Stats,
                   boards_cache : SUBSET Boards, domain : Domain ]
  /\ pinterest \in [Docs -> [Domain -> [Boards -> 0 .. 2]]]
  /\ live \subseteq Boards /\ deleted \subseteq Boards
  /\ run \in Run
  /\ operator \in {"idle", "pausing", "resuming", "wiring"}
  /\ day \in [ time : 0 .. DAY - 1, verified : 0 .. LargestCap + 1, uncounted : BOOLEAN,
               boosted : BOOLEAN ]

\* Where a document stands, or will stand when it is resumed.
Stands(d) == IF pin[d].status = "PAUSED" THEN pin[d].paused_from ELSE pin[d].status

(***************************************************************************)
(* A document recorded as pinned has a real pin: there is one with its     *)
(* link, on the board its content names, whether the run that created it   *)
(* recorded it or a later one found it there, on the board first chosen or *)
(* on another, unless that board has been deleted, whether a run has made  *)
(* it again or not.                                                        *)
(***************************************************************************)
PinIsReal ==
  \A d \in Docs :
    Stands(d) \in {"PINNED", "VERIFYING", "VERIFIED"} =>
      /\ pin[d].pinned_on # None /\ pin[d].pinned_on = pin[d].board
      /\ pin[d].board \notin deleted => pinterest[d][pin[d].link][pin[d].board] > 0

(***************************************************************************)
(* What a stage subscripts without asking is there: the content in         *)
(* _stage_bridge, the bridge in _stage_pin, however often the document was *)
(* swept, failed, paused mid-stage, resumed or requeued on its way.        *)
(***************************************************************************)
StageInputsPresent ==
  \A d \in Docs :
    /\ Stands(d) \in PinState \ {"QUEUED", "ENRICHING", "DEAD"} => pin[d].board # None
    /\ Stands(d) \in {"BRIDGED", "PINNING", "PINNED", "VERIFYING", "VERIFIED"} => pin[d].link # None

(***************************************************************************)
(* A board gets a second pin with one document's link only when a deleted  *)
(* or sandboxed board made the runner fall back on it without looking: a   *)
(* crash, a lost reply, a new token or a requeue never lead to one, for    *)
(* the run that resumes the work reconciles first.                         *)
(***************************************************************************)
ReconciledBeforeCreate ==
  [][ \A d \in Docs, l \in Domain, b \in Boards :
        pinterest'[d][l][b] > pinterest[d][l][b] /\ pinterest[d][l][b] > 0 => run.fallback ]_vars

(***************************************************************************)
(* Each document follows its machine, at every step of every process: it   *)
(* moves along one row of the registry at a time, is claimed when no stage *)
(* has it, and is let go by every other move, whether a stage, a failure,  *)
(* the sweep, a pause or a resume makes it.  A stage's document is moved   *)
(* on by the run that claimed it into that stage, by the sweep once its    *)
(* lease is over, or by a pause, and by nothing else.  Only                *)
(* scripts/wire_domains.py writes a status that no row leads to.           *)
(***************************************************************************)
Promise(d) ==
  INSTANCE Lifecycle WITH
    TRANSITIONS <- PUBLICATION_TRANSITIONS, STATE_ROLES <- PUBLICATION_ROLES,
    Docs <- {d}, Workers <- {"run"}, None <- "none", FirstState <- "QUEUED",
    status <- [e \in {d} |-> pin[e].status],
    holder <- [e \in {d} |-> IF RoleOf(e) = "WORKING" THEN "run" ELSE "none"]

MovesByARow(d) == UNCHANGED Promise(d)!vars \/ Promise(d)!Next

IsWiredAnew(d) == operator = "wiring" /\ pin[d].status = "BRIDGED" /\ pin'[d].status = "ENRICHED"

IsLetGo(d) ==
  RoleOf(d) = "WORKING" /\ pin'[d].status # pin[d].status =>
    \/ run.doc = d /\ run.stage = pin[d].status
    \/ run.pc = "off" /\ run'.pc = "swept" /\ pin[d].lease = 0
    \/ operator = "idle" /\ operator' = "pausing"

FollowsLifecycle ==
  /\ \A d \in Docs : Promise(d)!Init
  /\ [][ \A d \in Docs : (MovesByARow(d) \/ IsWiredAnew(d)) /\ IsLetGo(d) ]_vars

(***************************************************************************)
(* The governor bounds the pins verified in a UTC day by the account's     *)
(* cap, or on the day of a launch wave by the override, across the day's   *)
(* runs, refreshed tokens, graduation and midnight, unless a run died      *)
(* between VERIFY_OK and bump_pin_stats.                                   *)
(***************************************************************************)
VerifiedWithinCap ==
  \/ day.verified <= DailyCap(account)
  \/ day.boosted /\ day.verified <= CAP_OVERRIDE
  \/ day.uncounted

(***************************************************************************)
(* Every run ends by itself: the loop over the account is left whatever    *)
(* fails in it, for a document that failed backs off and a stage is run    *)
(* again after a refreshed token only once.                                *)
(***************************************************************************)
RunEnds == ~At("off") ~> At("off")

(***************************************************************************)
(* Without an operator, every document is published or dead in the end: no *)
(* crash or lost reply leaves one locked for good, and no other document   *)
(* starves it.                                                             *)
(***************************************************************************)
EveryPinSettles == \A d \in Docs : <>[](pin[d].status \in {"VERIFIED", "DEAD"})

-----------------------------------------------------------------------------
(* What a comment, a doc or a test says, and the code does not.            *)

(***************************************************************************)
(* A document's link is pinned once on the account, whatever the board.    *)
(***************************************************************************)
PinnedOnce ==
  \A d \in Docs, l \in Domain : \A b, c \in Boards :
    pinterest[d][l][b] > 0 /\ pinterest[d][l][c] > 0 => b = c

(***************************************************************************)
(* Wiring a domain resets documents that are not published: none whose pin *)
(* leads to the old page gets another one for the new page.                *)
(***************************************************************************)
RewiredUnpublished ==
  \A d \in Docs : \A b, c \in Boards :
    pinterest[d]["seeded"][b] > 0 => pinterest[d]["wired"][c] = 0

(***************************************************************************)
(* Only the operator's resume takes an account out of PAUSED.              *)
(***************************************************************************)
OnlyResumeReactivates ==
  [][ account.status = "PAUSED" /\ account'.status # "PAUSED" => operator = "resuming" ]_vars
=============================================================================
