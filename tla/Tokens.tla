------------------------------- MODULE Tokens -------------------------------
(***************************************************************************)
(* The OAuth tokens of one account: the document in oauth_tokens           *)
(* (src/pinner/runner/tokens.py), what Pinterest takes for valid, and the  *)
(* runs that read the one and are judged by the other.                     *)
(*                                                                         *)
(* A refresh is a read, an exchange at Pinterest and a write, without a    *)
(* lock: two runs (the scheduled one, and one started by hand on another   *)
(* machine) may refresh at once, the operator may store a new pair between *)
(* the read and the write, and a run may die holding the only pair that is *)
(* still valid.                                                            *)
(*                                                                         *)
(* Refresh tokens are numbers; a number that nobody holds any more is used *)
(* again.  Of an access token only its validity matters, and copies of one *)
(* may be found expired at different times.  Abstracted: the encryption,   *)
(* expires_at, which nothing reads, and calls that fail for another reason *)
(* than the token.                                                         *)
(***************************************************************************)
EXTENDS Integers, FiniteSetsExt, TokensPromise

CONSTANT MAX_TOKEN   \* bound: the refresh tokens held at a time, and a new one

\* The document and every run may hold one, and there is always another.
TokensAssumption ==
  /\ IsFiniteSet(Runs)
  /\ MAX_TOKEN \in Nat
  /\ MAX_TOKEN > Cardinality(Runs) + 1

vars == <<stored, pinterest, caller, orphaned>>

Token == 1 .. MAX_TOKEN

Access == {"none", "valid", "expired"}

\* What a run holds: the access token of a call, the refresh token it read or the
\* pair it is about to write.
Caller ==
       [pc : {"off", "expired", "saved", "answered", "failed"}, access : {"none"}, refresh : {NoToken}]
  \cup [pc : {"call", "again"}, access : Access, refresh : {NoToken}]
  \cup [pc : {"exchange"}, access : {"none"}, refresh : Token]
  \cup [pc : {"save"}, access : {"valid"}, refresh : Token]

Set(r, pc, access, refresh) ==
  caller' = [caller EXCEPT ![r] = [pc |-> pc, access |-> access, refresh |-> refresh]]

At(r, pc) == caller[r].pc = pc

\* The refresh tokens somebody holds, and one that nobody does.
Held == {stored.refresh} \cup { caller[r].refresh : r \in Runs }

NewToken == Min(Token \ Held)

\* Pinterest accepts these from now on, and forgets what nobody can present.
Accept(refresh) ==
  pinterest' = [pinterest EXCEPT !.valid = refresh \cap (Held \cup {NewToken})]

-----------------------------------------------------------------------------
(* A call to Pinterest.                                                    *)

\* access_token: the access token, or if there is none the refresh token as the
\* bearer, which Pinterest does not take.
Bearer == stored.access

\* As in Engine, no specification uses a definition named X_<Bug>.
ReadToken_Unstored(r) ==
  /\ \E pc \in {"off", "answered", "failed"} : At(r, pc)
  /\ Set(r, "call", Bearer, NoToken)
  /\ UNCHANGED <<stored, pinterest, orphaned>>

\* access_token raises when nothing is stored, and the account is skipped.
ReadToken(r) ==
  /\ \E pc \in {"off", "answered", "failed"} : At(r, pc)
  /\ stored.refresh # NoToken
  /\ Set(r, "call", Bearer, NoToken)
  /\ UNCHANGED <<stored, pinterest, orphaned>>

Accepted(r) == caller[r].access = "valid"

Answered(r) ==
  /\ At(r, "call") \/ At(r, "again")
  /\ Accepted(r)
  /\ Set(r, "answered", "none", NoToken)
  /\ UNCHANGED <<stored, pinterest, orphaned>>

\* HTTP 401: the first one leads to a refresh, the second one fails the pin.
Unauthorized(r) ==
  /\ ~Accepted(r)
  /\ \/ At(r, "call") /\ Set(r, "expired", "none", NoToken)
     \/ At(r, "again") /\ Set(r, "failed", "none", NoToken)
  /\ UNCHANGED <<stored, pinterest, orphaned>>

-----------------------------------------------------------------------------
(* refresh.                                                                *)

ReadRefresh(r) ==
  /\ At(r, "expired")
  /\ Set(r, "exchange", "none", stored.refresh)
  /\ UNCHANGED <<stored, pinterest, orphaned>>

\* refresh_access_token, accepted: a new access token and, where Pinterest
\* rotates, a new refresh token, which ends the old one.
Exchanged(r) ==
  /\ At(r, "exchange")
  /\ caller[r].refresh \in pinterest.valid
  /\ Accept(IF pinterest.rotates
            THEN (pinterest.valid \ {caller[r].refresh}) \cup {NewToken} ELSE pinterest.valid)

Exchange_KeepsOld(r) ==
  /\ Exchanged(r)
  /\ Set(r, "save", "valid", caller[r].refresh)
  /\ UNCHANGED <<stored, orphaned>>

Exchange(r) ==
  /\ Exchanged(r)
  /\ Set(r, "save", "valid", IF pinterest.rotates THEN NewToken ELSE caller[r].refresh)
  /\ UNCHANGED <<stored, orphaned>>

\* ... but the reply does not reach the run.
ExchangeUnanswered(r) ==
  /\ Exchanged(r)
  /\ Set(r, "failed", "none", NoToken)
  /\ orphaned' = TRUE
  /\ UNCHANGED stored

\* Not accepted: the pin fails with "token refresh failed".
ExchangeRefused(r) ==
  /\ At(r, "exchange")
  /\ caller[r].refresh \notin pinterest.valid
  /\ Set(r, "failed", "none", NoToken)
  /\ UNCHANGED <<stored, pinterest, orphaned>>

Save_RefreshOnly(r) ==
  /\ At(r, "save")
  /\ stored' = [stored EXCEPT !.refresh = caller[r].refresh]
  /\ Set(r, "saved", "none", NoToken)
  /\ UNCHANGED <<pinterest, orphaned>>

\* The pair is written without a look at what is stored by now.
Save(r) ==
  /\ At(r, "save")
  /\ stored' = [access |-> caller[r].access, refresh |-> caller[r].refresh]
  /\ Set(r, "saved", "none", NoToken)
  /\ UNCHANGED <<pinterest, orphaned>>

\* _retry_after_refresh: the stage runs again and reads the token again.
ReadAgain(r) ==
  /\ At(r, "saved")
  /\ Set(r, "again", Bearer, NoToken)
  /\ UNCHANGED <<stored, pinterest, orphaned>>

-----------------------------------------------------------------------------
(* The operator and Pinterest.                                             *)

\* scripts/store_token.py, with a pair fresh from the authorization; without
\* --access-token the old access token stays.
StoreToken ==
  /\ Accept(pinterest.valid \cup {NewToken})
  /\ \E access \in {"valid", stored.access} :
       stored' = [access |-> access, refresh |-> NewToken]
  /\ orphaned' = FALSE
  /\ UNCHANGED caller

\* An access token lasts for weeks, so not for the next call only.
Renewed(r) == caller[r].pc \in {"save", "saved", "again"}

Expired(access) == IF access = "valid" THEN "expired" ELSE access

\* What is stored expires, and with it, sooner or later, what was read of it.
AccessExpires ==
  /\ \A r \in Runs : ~Renewed(r)
  /\ stored' = [stored EXCEPT !.access = Expired(@)]
  /\ \E copies \in SUBSET Runs :
       caller' = [ r \in Runs |-> IF r \in copies
                                 THEN [caller[r] EXCEPT !.access = Expired(@)] ELSE caller[r] ]
  /\ UNCHANGED <<pinterest, orphaned>>

\* A run is over, or dies; one that dies before it saves takes the pair with it.
EndRun(r) ==
  /\ ~At(r, "off")
  /\ Set(r, "off", "none", NoToken)
  /\ orphaned' = (orphaned \/ At(r, "save"))
  /\ UNCHANGED <<stored, pinterest>>

-----------------------------------------------------------------------------
Init ==
  /\ stored = [access |-> "none", refresh |-> NoToken]
  /\ pinterest \in [rotates : BOOLEAN, valid : {{}}]
  /\ caller = [r \in Runs |-> [pc |-> "off", access |-> "none", refresh |-> NoToken]]
  /\ orphaned = FALSE

RunStep(r) ==
  \/ ReadToken(r) \/ Answered(r) \/ Unauthorized(r)
  \/ ReadRefresh(r) \/ Exchange(r) \/ ExchangeRefused(r) \/ Save(r) \/ ReadAgain(r)

RunEnds == \E r \in Runs : EndRun(r)

Unanswered == \E r \in Runs : ExchangeUnanswered(r)

Next ==
  \/ \E r \in Runs : RunStep(r)
  \/ Unanswered \/ RunEnds \/ StoreToken \/ AccessExpires

Spec == Init /\ [][Next]_vars

\* A run that dies in the middle of a call.
DiesInCall ==
  \E r \in Runs : EndRun(r) /\ caller[r].pc \notin {"answered", "failed"}

\* Runs go on, and from some time on none dies before its call has ended and no
\* reply to an exchange is lost.
Fairness ==
  /\ \A r \in Runs : WF_vars(RunStep(r))
  /\ <>[][~DiesInCall /\ ~Unanswered]_vars

FairSpec == Spec /\ Fairness

-----------------------------------------------------------------------------
(* Properties, beside RefreshTokenIsValid.                                 *)

\* The type of the four variables.
TypeOK ==
  /\ stored \in [access : Access, refresh : Token \cup {NoToken}]
  /\ pinterest \in [rotates : BOOLEAN, valid : SUBSET Token]
  /\ caller \in [Runs -> Caller]
  /\ orphaned \in BOOLEAN

(***************************************************************************)
(* An account with tokens stays connected, although its access tokens      *)
(* expire again and again, nothing renews them beforehand, and a late      *)
(* write may replace a younger pair by an older one.                       *)
(***************************************************************************)
StaysConnected ==
  <>[](stored.refresh # NoToken /\ ~orphaned) => []<>(\E r \in Runs : At(r, "answered"))
=============================================================================
