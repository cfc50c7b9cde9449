------------------------------- MODULE Gemini -------------------------------
(***************************************************************************)
(* The Gemini client with its fallback keys, src/pinner/agents/client.py,  *)
(* and the daily count of calls in src/pinner/runner/main.py, which the    *)
(* governor reads before it lets a document be claimed.                    *)
(*                                                                         *)
(* The key in use is the memory of one process and starts at the primary   *)
(* with every run; the count is in the database and outlives the runs; the *)
(* quotas are Google's.  All three change at times of their own.           *)
(*                                                                         *)
(* Moderation counts a call and does not ask the governor; an enrichment   *)
(* counts and has asked.  A prompt is counted once, before the first of    *)
(* the requests it may take.                                               *)
(*                                                                         *)
(* Abstracted: the prompts and the answers, and the cooldown, a sleep      *)
(* before a request that no decision depends on.  The bound of generate's  *)
(* loop is never what ends it, since _rotate fails at the last key.        *)
(***************************************************************************)
EXTENDS Integers

CONSTANTS N_KEYS,       \* the configured keys: the primary, and its fallbacks
          RPD_BUDGET,   \* DEFAULT_GEMINI_RPD_BUDGET
          MAX_CALLS     \* bound: the calls of one day

ASSUME GeminiAssumption ==
  N_KEYS \in Nat \ {0} /\ RPD_BUDGET \in Nat \ {0} /\ MAX_CALLS \in Nat

VARIABLES client,    \* the process and its client
          counter,   \* the document gemini_calls of the counters collection
          quota,     \* quota[k]: whether Gemini would answer key k now
          day        \* history: since midnight, the enrichments and each key's requests

vars == <<client, counter, quota, day>>

Keys == 1 .. N_KEYS

Outcome == {"none", "answered", "failed", "gave_up"}

\* "allowed": the governor has agreed to a claim.  "sent": a request is under way.
Client == [ pc      : {"off", "idle", "allowed", "ready", "sent"},
            key     : Keys,            \* _key_index
            refused : SUBSET Keys,     \* the keys that refused this prompt
            last    : Outcome ]        \* what became of the prompt before

NewClient == [pc |-> "idle", key |-> 1, refused |-> {}, last |-> "none"]

NewDay == [enriched |-> 0, requests |-> [k \in Keys |-> 0]]

At(pc) == client.pc = pc

Goto(pc) == client' = [client EXCEPT !.pc = pc]

-----------------------------------------------------------------------------
(* The count.                                                              *)

\* _gemini_calls_today
CallsToday == IF counter.today THEN counter.count ELSE 0

\* As in Engine, no specification uses a definition named X_<Bug>.
CountGemini_OnlyIncrements ==
  /\ CallsToday < MAX_CALLS
  /\ counter' = IF counter.today THEN [counter EXCEPT !.count = @ + 1] ELSE counter

CountGemini_Sets ==
  /\ CallsToday < MAX_CALLS
  /\ counter' = [today |-> TRUE, count |-> 1]

\* _count_gemini: increment today's count, or begin it.
CountGemini ==
  /\ CallsToday < MAX_CALLS
  /\ counter' = [today |-> TRUE, count |-> CallsToday + 1]

Moderate ==
  /\ At("idle")
  /\ CountGemini
  /\ Goto("ready")
  /\ UNCHANGED <<quota, day>>

\* decide, of which only the last guard is modelled.
GovernorAllows ==
  /\ At("idle")
  /\ CallsToday < RPD_BUDGET
  /\ Goto("allowed")
  /\ UNCHANGED <<counter, quota, day>>

Enrich ==
  /\ At("allowed")
  /\ CountGemini
  /\ Goto("ready")
  /\ day' = [day EXCEPT !.enriched = @ + 1]
  /\ UNCHANGED quota

\* The claim found another stage's document, or none.
NoEnrich ==
  /\ At("allowed")
  /\ Goto("idle")
  /\ UNCHANGED <<counter, quota, day>>

-----------------------------------------------------------------------------
(* generate.                                                               *)

Send ==
  /\ At("ready")
  /\ Goto("sent")
  /\ day' = [day EXCEPT !.requests[client.key] = @ + 1]
  /\ UNCHANGED <<counter, quota>>

\* The prompt is done with; the key stays the one in use, or is another.
Done(outcome, key) ==
  /\ client' = [pc |-> "idle", key |-> key, refused |-> {}, last |-> outcome]
  /\ UNCHANGED <<counter, quota, day>>

Answered == At("sent") /\ quota[client.key] /\ Done("answered", client.key)

\* Any failure but a quota's, and an answer that is not of the schema.
Failed == At("sent") /\ quota[client.key] /\ Done("failed", client.key)

Refused == At("sent") /\ ~quota[client.key]

Rotate_PastTheLast ==
  /\ Refused
  /\ client' = [client EXCEPT !.pc = "ready", !.key = @ + 1, !.refused = @ \cup {client.key}]
  /\ UNCHANGED <<counter, quota, day>>

\* _rotate, when there is a next key: the same prompt goes to it.
Rotate ==
  /\ Refused
  /\ client.key < N_KEYS
  /\ client' = [client EXCEPT !.pc = "ready", !.key = @ + 1, !.refused = @ \cup {client.key}]
  /\ UNCHANGED <<counter, quota, day>>

GiveUp_KeepsKey == Refused /\ client.key = N_KEYS /\ Done("gave_up", client.key)

\* The last key refuses: back to the primary, and the quota error is raised.
GiveUp == Refused /\ client.key = N_KEYS /\ Done("gave_up", 1)

-----------------------------------------------------------------------------
(* The runs, the keys and the day.                                         *)

StartRun ==
  /\ At("off")
  /\ client' = NewClient
  /\ UNCHANGED <<counter, quota, day>>

\* The run is over, or dies.
EndRun ==
  /\ ~At("off")
  /\ client' = [NewClient EXCEPT !.pc = "off"]
  /\ UNCHANGED <<counter, quota, day>>

\* A quota is used up, also by others (the analyst), or a minute's limit is over.
QuotaChanges ==
  /\ \E k \in Keys : quota' = [quota EXCEPT ![k] = ~@]
  /\ UNCHANGED <<client, counter, day>>

Midnight ==
  /\ counter' = [counter EXCEPT !.today = FALSE]
  /\ quota' = [k \in Keys |-> TRUE]
  /\ day' = NewDay
  /\ UNCHANGED client

Init ==
  /\ client = [NewClient EXCEPT !.pc = "off"]
  /\ counter = [today |-> FALSE, count |-> 0]
  /\ quota \in [Keys -> BOOLEAN]
  /\ day = NewDay

RunStep ==
  \/ StartRun
  \/ Moderate \/ GovernorAllows \/ Enrich \/ NoEnrich
  \/ Send \/ Answered \/ Failed \/ Rotate \/ GiveUp

Next == RunStep \/ EndRun \/ QuotaChanges \/ Midnight

Spec == Init /\ [][Next]_vars

\* A run goes on, days pass, and from some time on no run dies at a prompt.
Fairness ==
  /\ WF_vars(RunStep) /\ WF_vars(Midnight)
  /\ <>[][EndRun => At("idle")]_vars

FairSpec == Spec /\ Fairness

-----------------------------------------------------------------------------
(* Properties.                                                             *)

\* The type of the four variables.
TypeOK ==
  /\ client \in Client
  /\ counter \in [today : BOOLEAN, count : 0 .. MAX_CALLS]
  /\ quota \in [Keys -> BOOLEAN]
  /\ day \in [enriched : Nat, requests : [Keys -> Nat]]

(***************************************************************************)
(* The count covers what each key was asked since midnight, although it    *)
(* counts prompts and a prompt may go to every key, runs die after the     *)
(* count, and midnight passes between the count and the request: that is   *)
(* the one request which yesterday's count has.                            *)
(***************************************************************************)
CountCoversRequests == \A k \in Keys : day.requests[k] <= CallsToday + 1

(***************************************************************************)
(* The governor's budget bounds a day's enrichments, whatever moderation,  *)
(* which does not ask, spends in between.                                  *)
(***************************************************************************)
EnrichedWithinBudget == day.enriched <= RPD_BUDGET

(***************************************************************************)
(* Two prompts of a run that give up one after the other: the second has   *)
(* been refused by every key.  Of the first that is not so, since a run    *)
(* that was answered by a fallback starts there and does not go back.      *)
(***************************************************************************)
SecondGivesUpFairly ==
  [][ (GiveUp /\ client.last = "gave_up")
        => client.refused \cup {client.key} = Keys ]_vars

(***************************************************************************)
(* A key that keeps its quota is found, wherever in the order it is: if    *)
(* prompts are sent again and again, they are answered, or fail for some   *)
(* other reason, again and again.                                          *)
(***************************************************************************)
WorkingKeyIsFound ==
  (\E k \in Keys : <>[]quota[k]) /\ []<>At("ready")
    => []<>(client.last \in {"answered", "failed"})
=============================================================================
