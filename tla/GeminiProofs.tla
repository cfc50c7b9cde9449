---------------------------- MODULE GeminiProofs ----------------------------
(***************************************************************************)
(* Theorems about Gemini, for every number of keys, every budget and every *)
(* bound on the calls of a day.                                            *)
(***************************************************************************)
EXTENDS Gemini, TLAPS

-----------------------------------------------------------------------------
(* The type.                                                               *)

\* Counting keeps the counter's type.
LEMMA CounterType ==
  ASSUME TypeOK, CountGemini
  PROVE  counter' \in [today : BOOLEAN, count : 0 .. MAX_CALLS]
<1>1. counter.count \in 0 .. MAX_CALLS
  BY DEF TypeOK
<1>2. CallsToday + 1 \in 0 .. MAX_CALLS
  BY <1>1, GeminiAssumption DEF CountGemini, CallsToday
<1>3. QED
  BY <1>2 DEF CountGemini

\* Going on to another place keeps the client's type.
LEMMA ClientType ==
  ASSUME TypeOK, NEW pc \in {"off", "idle", "allowed", "ready", "sent"}, Goto(pc)
  PROVE  client' \in Client
BY DEF TypeOK, Client, Goto

\* Types: a process rotates within its keys, and counts within the bound.
THEOREM TypeCorrect == Spec => []TypeOK
<1>1. Init => TypeOK
  BY GeminiAssumption DEF Init, TypeOK, Client, NewClient, NewDay, Keys, Outcome
<1>2. TypeOK /\ [Next]_vars => TypeOK'
  <2> SUFFICES ASSUME TypeOK, [Next]_vars PROVE TypeOK'
    OBVIOUS
  <2>1. CASE StartRun
    BY <2>1, GeminiAssumption DEF StartRun, TypeOK, Client, NewClient, Keys, Outcome
  <2>2. CASE Moderate
    <3>1. client' \in Client
      BY <2>2, ClientType DEF Moderate
    <3>2. QED
      BY <2>2, <3>1, CounterType DEF Moderate, TypeOK
  <2>3. CASE GovernorAllows
    BY <2>3, ClientType DEF GovernorAllows, TypeOK
  <2>4. CASE Enrich
    <3>1. client' \in Client
      BY <2>4, ClientType DEF Enrich
    <3>2. day' \in [enriched : Nat, requests : [Keys -> Nat]]
      BY <2>4 DEF Enrich, TypeOK
    <3>3. QED
      BY <2>4, <3>1, <3>2, CounterType DEF Enrich, TypeOK
  <2>5. CASE NoEnrich
    BY <2>5, ClientType DEF NoEnrich, TypeOK
  <2>6. CASE Send
    <3>1. client' \in Client
      BY <2>6, ClientType DEF Send
    <3>2. client.key \in Keys
      BY DEF TypeOK, Client
    <3>3. day' \in [enriched : Nat, requests : [Keys -> Nat]]
      BY <2>6, <3>2 DEF Send, TypeOK
    <3>4. QED
      BY <2>6, <3>1, <3>3 DEF Send, TypeOK
  <2>7. CASE Answered \/ Failed
    BY <2>7 DEF Answered, Failed, Done, TypeOK, Client, Outcome
  <2>8. CASE Rotate
    <3>1. client.key \in 1 .. N_KEYS /\ client.key < N_KEYS
      BY <2>8 DEF Rotate, TypeOK, Client, Keys
    <3>2. client.key + 1 \in Keys
      BY <3>1, GeminiAssumption DEF Keys
    <3>3. client.refused \cup {client.key} \in SUBSET Keys
      BY <3>1 DEF TypeOK, Client, Keys
    <3>4. client' \in Client
      BY <2>8, <3>2, <3>3 DEF Rotate, TypeOK, Client
    <3>5. QED
      BY <2>8, <3>4 DEF Rotate, TypeOK
  <2>9. CASE GiveUp
    BY <2>9, GeminiAssumption DEF GiveUp, Done, TypeOK, Client, Keys, Outcome
  <2>10. CASE EndRun
    BY <2>10, GeminiAssumption DEF EndRun, TypeOK, Client, NewClient, Keys, Outcome
  <2>11. CASE QuotaChanges
    BY <2>11 DEF QuotaChanges, TypeOK
  <2>12. CASE Midnight
    BY <2>12 DEF Midnight, NewDay, TypeOK
  <2>13. CASE UNCHANGED vars
    BY <2>13 DEF vars, TypeOK
  <2>14. QED
    BY <2>1, <2>2, <2>3, <2>4, <2>5, <2>6, <2>7, <2>8, <2>9, <2>10, <2>11, <2>12,
       <2>13 DEF Next, RunStep
<1>3. QED
  BY <1>1, <1>2, PTL DEF Spec

-----------------------------------------------------------------------------
(* What the count covers.  A prompt is counted before its first request,   *)
(* so a key that a counted prompt has yet to reach has a call to spare.    *)

Spare(k) ==
  \/ At("ready") /\ client.key <= k
  \/ At("sent") /\ client.key < k

\* After a midnight the one request under way is beyond the count, and no other.
Covered == \A k \in Keys :
  day.requests[k] <= CallsToday + (IF Spare(k) THEN 0 ELSE 1)

\* Every step keeps it.
LEMMA CoveredIsInductive ==
  ASSUME TypeOK, Covered, [Next]_vars
  PROVE  Covered'
<1> USE GeminiAssumption DEF TypeOK, Client, Keys, Covered, Spare, CallsToday, At, Goto
<1>1. CASE StartRun
  BY <1>1 DEF StartRun, NewClient
<1>2. CASE Moderate
  BY <1>2 DEF Moderate, CountGemini
<1>3. CASE GovernorAllows
  BY <1>3 DEF GovernorAllows
<1>4. CASE Enrich
  BY <1>4 DEF Enrich, CountGemini
<1>5. CASE NoEnrich
  BY <1>5 DEF NoEnrich
<1>6. CASE Send
  BY <1>6 DEF Send
<1>7. CASE Answered
  BY <1>7 DEF Answered, Done
<1>8. CASE Failed
  BY <1>8 DEF Failed, Done
<1>9. CASE Rotate
  BY <1>9 DEF Rotate, Refused
<1>10. CASE GiveUp
  BY <1>10 DEF GiveUp, Refused, Done
<1>11. CASE EndRun
  BY <1>11 DEF EndRun, NewClient
<1>12. CASE QuotaChanges
  BY <1>12 DEF QuotaChanges
<1>13. CASE Midnight
  BY <1>13 DEF Midnight, NewDay
<1>14. CASE UNCHANGED vars
  BY <1>14 DEF vars
<1>15. QED
  BY <1>1, <1>2, <1>3, <1>4, <1>5, <1>6, <1>7, <1>8, <1>9, <1>10, <1>11, <1>12,
     <1>13, <1>14 DEF Next, RunStep

\* No key is asked more often in a day than the count says, but for the one
\* request that was under way at midnight.
THEOREM CountCorrect == Spec => []CountCoversRequests
<1>1. Init => Covered
  BY DEF Init, NewDay, Covered, CallsToday, Spare, At, NewClient
<1>2. TypeOK /\ Covered /\ [Next]_vars => Covered'
  BY CoveredIsInductive
<1>3. TypeOK /\ Covered => CountCoversRequests
  BY DEF TypeOK, Covered, CountCoversRequests, CallsToday
<1>4. QED
  BY <1>1, <1>2, <1>3, TypeCorrect, PTL DEF Spec

-----------------------------------------------------------------------------
(* What the budget bounds.                                                 *)

\* An enrichment is counted, and one that may still come has found room.
Budgeted ==
  /\ day.enriched <= CallsToday
  /\ day.enriched <= RPD_BUDGET
  /\ At("allowed") => CallsToday < RPD_BUDGET

\* The governor's budget bounds the enrichments of a day.
THEOREM BudgetCorrect == Spec => []EnrichedWithinBudget
<1>1. Init => Budgeted
  BY GeminiAssumption DEF Init, NewDay, Budgeted, CallsToday, At, NewClient
<1>2. TypeOK /\ Budgeted /\ [Next]_vars => Budgeted'
  <2> SUFFICES ASSUME TypeOK, Budgeted, [Next]_vars PROVE Budgeted'
    OBVIOUS
  <2> USE GeminiAssumption DEF TypeOK, Client, Budgeted, CallsToday, At, Goto
  <2>1. CASE Moderate \/ Enrich
    BY <2>1 DEF Moderate, Enrich, CountGemini
  <2>2. CASE StartRun \/ EndRun
    BY <2>2 DEF StartRun, EndRun, NewClient
  <2>3. CASE GovernorAllows \/ NoEnrich \/ Send
    BY <2>3 DEF GovernorAllows, NoEnrich, Send
  <2>4. CASE Answered \/ Failed \/ GiveUp
    BY <2>4 DEF Answered, Failed, GiveUp, Refused, Done
  <2>5. CASE Rotate
    BY <2>5 DEF Rotate, Refused
  <2>6. CASE QuotaChanges
    BY <2>6 DEF QuotaChanges
  <2>7. CASE Midnight
    BY <2>7 DEF Midnight, NewDay
  <2>8. CASE UNCHANGED vars
    BY <2>8 DEF vars
  <2>9. QED
    BY <2>1, <2>2, <2>3, <2>4, <2>5, <2>6, <2>7, <2>8 DEF Next, RunStep
<1>3. Budgeted => EnrichedWithinBudget
  BY DEF Budgeted, EnrichedWithinBudget
<1>4. QED
  BY <1>1, <1>2, <1>3, TypeCorrect, PTL DEF Spec

-----------------------------------------------------------------------------
(* When a prompt gives up.                                                 *)

\* A run that has just given up is at the primary, and a prompt that began
\* there has been refused by every key before the one in use.
FromThePrimary ==
  client.last = "gave_up" =>
    /\ client.pc \in {"idle", "allowed"} => client.key = 1 /\ client.refused = {}
    /\ client.refused = 1 .. client.key - 1

\* The second of two prompts that give up has been refused by every key.
THEOREM GiveUpCorrect == Spec => SecondGivesUpFairly
<1>1. Init => FromThePrimary
  BY DEF Init, NewClient, FromThePrimary
<1>2. TypeOK /\ FromThePrimary /\ [Next]_vars => FromThePrimary'
  <2> SUFFICES ASSUME TypeOK, FromThePrimary, [Next]_vars PROVE FromThePrimary'
    OBVIOUS
  <2> USE GeminiAssumption DEF TypeOK, Client, Keys, FromThePrimary, At, Goto
  <2>1. CASE Moderate \/ GovernorAllows \/ Enrich \/ NoEnrich
    BY <2>1 DEF Moderate, GovernorAllows, Enrich, NoEnrich
  <2>2. CASE StartRun \/ EndRun
    BY <2>2 DEF StartRun, EndRun, NewClient
  <2>3. CASE Send
    BY <2>3 DEF Send
  <2>4. CASE Answered \/ Failed
    BY <2>4 DEF Answered, Failed, Done
  <2>5. CASE GiveUp
    BY <2>5 DEF GiveUp, Done
  <2>6. CASE Rotate
    <3>1. client'.refused = client.refused \cup {client.key} /\ client'.key = client.key + 1
          /\ client'.pc = "ready" /\ client'.last = client.last
      BY <2>6 DEF Rotate, Refused
    <3>2. QED
      BY <3>1
  <2>7. CASE UNCHANGED client
    BY <2>7
  <2>8. QED
    BY <2>1, <2>2, <2>3, <2>4, <2>5, <2>6, <2>7
       DEF Next, RunStep, QuotaChanges, Midnight, vars
<1>3. TypeOK /\ FromThePrimary =>
        (GiveUp /\ client.last = "gave_up" => client.refused \cup {client.key} = Keys)
  BY GeminiAssumption DEF TypeOK, Client, Keys, FromThePrimary, GiveUp, Refused, At
<1>4. QED
  BY <1>1, <1>2, <1>3, TypeCorrect, PTL DEF Spec, SecondGivesUpFairly
=============================================================================
