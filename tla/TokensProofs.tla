---------------------------- MODULE TokensProofs ----------------------------
(***************************************************************************)
(* What is proved of Tokens, for any number of runs: its types, and that   *)
(* the refresh token in the document is valid unless a pair was lost.      *)
(***************************************************************************)
EXTENDS Tokens, TLAPS, WellFoundedInduction, FiniteSetTheorems

-----------------------------------------------------------------------------
(* The least number of a set, and the token that nobody holds.             *)

\* A set of natural numbers has a least one.
LEMMA LeastNumber ==
  ASSUME NEW S, S \subseteq Nat, S # {}
  PROVE  Min(S) \in S
<1> DEFINE T == { 1 .. n : n \in S }
<1>1. T \subseteq FiniteSubsetsOf(Nat) /\ T # {}
  <2>1. ASSUME NEW n \in S PROVE 1 .. n \in SUBSET Nat /\ IsFiniteSet(1 .. n)
    BY <2>1, FS_Interval
  <2>2. QED
    BY <2>1 DEF FiniteSubsetsOf
<1>2. PICK X \in T : \A Y \in T : <<Y, X>> \notin StrictSubsetOrdering(Nat)
  BY <1>1, FS_StrictSubsetOrderingWellFounded, WFMin
<1>3. PICK x \in S : X = 1 .. x
  BY <1>2
<1>4. ASSUME NEW y \in S, y < x PROVE FALSE
  <2>1. 1 .. y \subseteq 1 .. x /\ x \in 1 .. x /\ x \notin 1 .. y
    BY <1>4
  <2>2. <<1 .. y, 1 .. x>> \in StrictSubsetOrdering(Nat)
    BY <2>1 DEF StrictSubsetOrdering
  <2>3. QED
    BY <1>2, <1>3, <2>2
<1>5. \A y \in S : x =< y
  BY <1>4
<1> QED BY <1>5 DEF Min

\* There are more tokens than holders, so an exchange has a new one to hand out.
LEMMA NewTokenIsNew ==
  ASSUME TokensAssumption, TypeOK
  PROVE  NewToken \in Token \ Held
<1> DEFINE held == [r \in Runs |-> caller[r].refresh]
           Copies == { caller[r].refresh : r \in Runs }
<1>1. /\ IsFiniteSet(Runs) /\ Cardinality(Runs) \in Nat
      /\ MAX_TOKEN \in Nat /\ MAX_TOKEN > Cardinality(Runs) + 1
  BY FS_CardinalityType DEF TokensAssumption
<1>2. held \in Surjection(Runs, Copies)
  BY DEF Surjection
<1>3. IsFiniteSet(Copies) /\ Cardinality(Copies) <= Cardinality(Runs)
  <2> HIDE DEF held, Copies
  <2> QED BY <1>1, <1>2, FS_Surjection
<1>4. Held = Copies \cup {stored.refresh}
  BY DEF Held
<1> HIDE DEF held, Copies
<1>5. IsFiniteSet(Held) /\ Cardinality(Held) <= Cardinality(Runs) + 1
  <2>1. /\ IsFiniteSet(Held)
        /\ Cardinality(Held) = IF stored.refresh \in Copies THEN Cardinality(Copies)
                                                            ELSE Cardinality(Copies) + 1
    BY <1>3, <1>4, FS_AddElement
  <2>2. Cardinality(Copies) \in Nat
    BY <1>3, FS_CardinalityType
  <2> QED BY <1>1, <1>3, <2>1, <2>2
<1>6. ~(Token \subseteq Held)
  <2>1. SUFFICES ASSUME Token \subseteq Held PROVE FALSE
    OBVIOUS
  <2>2. Cardinality(Token) <= Cardinality(Held)
    BY <1>5, <2>1, FS_Subset
  <2>3. Cardinality(Token) = MAX_TOKEN
    BY <1>1, FS_Interval DEF Token
  <2>4. Cardinality(Held) \in Nat
    BY <1>5, FS_CardinalityType
  <2> QED BY <1>1, <1>5, <2>2, <2>3, <2>4
<1>7. Token \ Held \subseteq Nat /\ Token \ Held # {}
  BY <1>1, <1>6 DEF Token
<1> QED BY <1>7, LeastNumber DEF NewToken

-----------------------------------------------------------------------------
(***************************************************************************)
(* The inductive invariant.  A run can end the life of another's token     *)
(* only by exchanging the same one, so what matters is who holds copies:   *)
(* the pair a run is about to save is valid (SaverIsValid), and where      *)
(* Pinterest rotates nobody else holds it (SaverIsAlone).  A run that is   *)
(* on its way found a stored token (Connected).                            *)
(***************************************************************************)
Connected == \A r \in Runs : ~At(r, "off") => stored.refresh # NoToken

SaverIsValid == \A r \in Runs : At(r, "save") => caller[r].refresh \in pinterest.valid

SaverIsAlone ==
  pinterest.rotates =>
    \A r \in Runs : At(r, "save") =>
      /\ stored.refresh # caller[r].refresh
      /\ \A q \in Runs \ {r} : caller[q].refresh # caller[r].refresh

IInv == TypeOK /\ Connected /\ SaverIsValid /\ SaverIsAlone /\ RefreshTokenIsValid

-----------------------------------------------------------------------------
(* What the actions are made of.                                           *)

\* A run sets what it holds, and only its own.
LEMMA SetStep ==
  ASSUME TypeOK, NEW r \in Runs, NEW pc, NEW access, NEW refresh, Set(r, pc, access, refresh)
  PROVE  /\ caller'[r].pc = pc /\ caller'[r].access = access /\ caller'[r].refresh = refresh
         /\ \A q \in Runs \ {r} : caller'[q] = caller[q]
         /\ [pc |-> pc, access |-> access, refresh |-> refresh] \in Caller =>
              caller' \in [Runs -> Caller]
<1> DEFINE new == [pc |-> pc, access |-> access, refresh |-> refresh]
<1>1. new.pc = pc /\ new.access = access /\ new.refresh = refresh
  OBVIOUS
<1>2. caller' = [caller EXCEPT ![r] = new] /\ caller \in [Runs -> Caller]
  BY DEF Set, TypeOK
<1> HIDE DEF new
<1>3. caller'[r] = new /\ \A q \in Runs \ {r} : caller'[q] = caller[q]
  BY <1>2
<1>4. new \in Caller => caller' \in [Runs -> Caller]
  BY <1>2
<1> QED BY <1>1, <1>3, <1>4 DEF new

\* What a run holds, by where it is.
LEMMA CallerFacts ==
  ASSUME TypeOK, NEW r \in Runs
  PROVE  /\ caller[r].access \in Access
         /\ caller[r].refresh \in Token \cup {NoToken}
         /\ At(r, "exchange") \/ At(r, "save") <=> caller[r].refresh # NoToken
         /\ At(r, "save") => caller[r].access = "valid"
<1>1. caller[r] \in Caller
  BY DEF TypeOK
<1>2. NoToken \notin Token
  BY DEF Token, NoToken
<1> QED BY <1>1, <1>2 DEF Caller, Access, At

\* What Pinterest accepts from now on is what it is given, as far as it is held
\* or new.
LEMMA AcceptStep ==
  ASSUME TypeOK, NEW refresh, Accept(refresh)
  PROVE  /\ pinterest'.rotates = pinterest.rotates
         /\ pinterest'.valid = refresh \cap (Held \cup {NewToken})
         /\ refresh \subseteq Token => pinterest' \in [rotates : BOOLEAN, valid : SUBSET Token]
BY DEF TypeOK, Accept

\* A step of a run that neither touches what is stored or accepted nor has, or
\* had, a pair to save.
LEMMA QuietStep ==
  ASSUME IInv, NEW r \in Runs, NEW pc \in {"off", "expired", "saved", "answered", "failed",
                                           "call", "again", "exchange"},
         NEW access, NEW refresh,
         Set(r, pc, access, refresh), UNCHANGED <<stored, pinterest>>,
         [pc |-> pc, access |-> access, refresh |-> refresh] \in Caller,
         orphaned' \in BOOLEAN, orphaned => orphaned', At(r, "save") => orphaned',
         refresh \in {NoToken, stored.refresh},
         pc # "off" => stored.refresh # NoToken
  PROVE  IInv'
<1>1. /\ caller'[r].pc = pc /\ caller'[r].refresh = refresh
      /\ \A q \in Runs \ {r} : caller'[q] = caller[q]
      /\ caller' \in [Runs -> Caller]
  BY SetStep DEF IInv
<1>2. TypeOK'
  BY <1>1 DEF IInv, TypeOK
<1>3. Connected'
  BY <1>1 DEF IInv, Connected, At
<1>4. SaverIsValid'
  BY <1>1 DEF IInv, SaverIsValid, At
<1>5. SaverIsAlone'
  <2>1. ASSUME NEW q \in Runs, At(q, "save")'
        PROVE  q # r /\ At(q, "save") /\ caller'[q].refresh = caller[q].refresh
               /\ caller[q].refresh # NoToken
    BY <1>1, <2>1, CallerFacts DEF IInv, At
  <2> QED BY <1>1, <2>1 DEF IInv, SaverIsAlone
<1>6. RefreshTokenIsValid'
  <2>1. CASE stored.refresh = NoToken \/ stored.refresh \in pinterest.valid \/ orphaned
    BY <2>1 DEF RefreshTokenIsValid
  <2>2. CASE \E q \in Runs : At(q, "save") /\ caller[q].refresh \in pinterest.valid
    <3>1. PICK q \in Runs : At(q, "save") /\ caller[q].refresh \in pinterest.valid
      BY <2>2
    <3>2. CASE q = r
      BY <3>1, <3>2 DEF RefreshTokenIsValid
    <3>3. CASE q # r
      BY <1>1, <3>1, <3>3 DEF RefreshTokenIsValid, At
    <3> QED BY <3>2, <3>3
  <2> QED BY <2>1, <2>2 DEF IInv, RefreshTokenIsValid, At
<1> QED BY <1>2, <1>3, <1>4, <1>5, <1>6 DEF IInv

-----------------------------------------------------------------------------
(* The steps of a run.                                                     *)

\* The steps of a call, and of a refresh up to the exchange.
LEMMA CallKeeps ==
  ASSUME IInv, NEW r \in Runs,
         ReadToken(r) \/ Answered(r) \/ Unauthorized(r) \/ ReadRefresh(r) \/ ReadAgain(r)
  PROVE  IInv'
<1>1. /\ TypeOK
      /\ stored.access \in Access
      /\ stored.refresh \in Token \cup {NoToken}
      /\ ~At(r, "off") => stored.refresh # NoToken
  BY DEF IInv, TypeOK, Connected
<1>2. CASE ReadToken(r)
  <2>1. [pc |-> "call", access |-> Bearer, refresh |-> NoToken] \in Caller
    BY <1>1 DEF Caller, Bearer
  <2>2. ~At(r, "save")
    BY <1>2 DEF ReadToken, At
  <2> QED BY <1>1, <1>2, <2>1, <2>2, QuietStep DEF ReadToken, IInv, TypeOK
<1>3. CASE Answered(r)
  <2>1. [pc |-> "answered", access |-> "none", refresh |-> NoToken] \in Caller
    BY DEF Caller
  <2>2. ~At(r, "save") /\ ~At(r, "off")
    BY <1>3 DEF Answered, At
  <2> QED BY <1>1, <1>3, <2>1, <2>2, QuietStep DEF Answered, IInv, TypeOK
<1>4. CASE Unauthorized(r)
  <2>1. PICK pc \in {"expired", "failed"} : Set(r, pc, "none", NoToken)
    BY <1>4 DEF Unauthorized
  <2>2. [pc |-> pc, access |-> "none", refresh |-> NoToken] \in Caller
    BY DEF Caller
  <2>3. ~At(r, "save") /\ ~At(r, "off") /\ UNCHANGED <<stored, pinterest, orphaned>>
    BY <1>4 DEF Unauthorized, At
  <2> QED BY <1>1, <2>1, <2>2, <2>3, QuietStep DEF IInv, TypeOK
<1>5. CASE ReadRefresh(r)
  <2>1. ~At(r, "save") /\ ~At(r, "off")
    BY <1>5 DEF ReadRefresh, At
  <2>2. [pc |-> "exchange", access |-> "none", refresh |-> stored.refresh] \in Caller
    BY <1>1, <2>1 DEF Caller
  <2> QED BY <1>1, <1>5, <2>1, <2>2, QuietStep DEF ReadRefresh, IInv, TypeOK
<1>6. CASE ReadAgain(r)
  <2>1. [pc |-> "again", access |-> Bearer, refresh |-> NoToken] \in Caller
    BY <1>1 DEF Caller, Bearer
  <2>2. ~At(r, "save") /\ ~At(r, "off")
    BY <1>6 DEF ReadAgain, At
  <2> QED BY <1>1, <1>6, <2>1, <2>2, QuietStep DEF ReadAgain, IInv, TypeOK
<1> QED BY <1>2, <1>3, <1>4, <1>5, <1>6

\* Pinterest refuses, or the run is over: only a pair in hand is lost.
LEMMA StopKeeps ==
  ASSUME IInv, NEW r \in Runs, ExchangeRefused(r) \/ EndRun(r)
  PROVE  IInv'
<1>1. PICK pc \in {"off", "failed"} : Set(r, pc, "none", NoToken)
  BY DEF ExchangeRefused, EndRun
<1>2. /\ UNCHANGED <<stored, pinterest>>
      /\ orphaned' \in BOOLEAN /\ (orphaned => orphaned')
      /\ At(r, "save") => orphaned'
      /\ ~At(r, "off")
  BY DEF ExchangeRefused, EndRun, At, IInv, TypeOK
<1>3. [pc |-> pc, access |-> "none", refresh |-> NoToken] \in Caller
  BY DEF Caller
<1>4. stored.refresh # NoToken
  BY <1>2 DEF IInv, Connected
<1> QED BY <1>1, <1>2, <1>3, <1>4, QuietStep DEF IInv, TypeOK

\* An exchange leaves valid whatever is still held, but for the copies of the
\* token it presents where Pinterest rotates.
LEMMA ExchangedStep ==
  ASSUME TokensAssumption, TypeOK, NEW r \in Runs, Exchanged(r)
  PROVE  /\ At(r, "exchange")
         /\ caller[r].refresh \in pinterest.valid \cap Held
         /\ NewToken \in Token \ Held
         /\ pinterest'.rotates = pinterest.rotates
         /\ pinterest' \in [rotates : BOOLEAN, valid : SUBSET Token]
         /\ pinterest.rotates => NewToken \in pinterest'.valid
         /\ \A t \in pinterest.valid \cap Held :
              ~pinterest.rotates \/ t # caller[r].refresh => t \in pinterest'.valid
<1> DEFINE refresh == IF pinterest.rotates
                      THEN (pinterest.valid \ {caller[r].refresh}) \cup {NewToken}
                      ELSE pinterest.valid
<1>1. At(r, "exchange") /\ caller[r].refresh \in pinterest.valid /\ Accept(refresh)
  BY DEF Exchanged
<1>2. NewToken \in Token \ Held /\ caller[r].refresh \in Held
  BY NewTokenIsNew DEF Held
<1>3. refresh \subseteq Token
  BY <1>2 DEF TypeOK
<1>4. /\ pinterest.rotates => NewToken \in refresh
      /\ \A t \in pinterest.valid :
           ~pinterest.rotates \/ t # caller[r].refresh => t \in refresh
  OBVIOUS
<1> HIDE DEF refresh
<1> QED BY <1>1, <1>2, <1>3, <1>4, AcceptStep

\* An exchange: the pair in hand is valid, and where Pinterest rotates nobody else has it.
LEMMA ExchangeKeeps ==
  ASSUME TokensAssumption, IInv, NEW r \in Runs, Exchange(r)
  PROVE  IInv'
<1>1. /\ TypeOK
      /\ At(r, "exchange")
      /\ caller[r].refresh \in pinterest.valid \cap Held
      /\ NewToken \in Token \ Held
      /\ pinterest'.rotates = pinterest.rotates
      /\ pinterest' \in [rotates : BOOLEAN, valid : SUBSET Token]
      /\ pinterest.rotates => NewToken \in pinterest'.valid
      /\ \A t \in pinterest.valid \cap Held :
           ~pinterest.rotates \/ t # caller[r].refresh => t \in pinterest'.valid
  BY ExchangedStep DEF Exchange, IInv
<1>2. PICK new : new = IF pinterest.rotates THEN NewToken ELSE caller[r].refresh
  OBVIOUS
<1>3. /\ new \in pinterest'.valid /\ new \in Token
      /\ pinterest.rotates => new \notin Held
  BY <1>1, <1>2 DEF TypeOK
<1>4. Set(r, "save", "valid", new) /\ UNCHANGED <<stored, orphaned>>
  BY <1>2 DEF Exchange
<1>5. [pc |-> "save", access |-> "valid", refresh |-> new] \in Caller
  BY <1>3 DEF Caller
<1>6. /\ caller'[r].pc = "save" /\ caller'[r].refresh = new
      /\ \A q \in Runs \ {r} : caller'[q] = caller[q]
      /\ caller' \in [Runs -> Caller]
  BY <1>1, <1>4, <1>5, SetStep
<1>7. \A q \in Runs : caller[q].refresh \in Held
  BY DEF Held
<1>8. TypeOK'
  BY <1>1, <1>4, <1>6 DEF TypeOK
<1>9. Connected'
  BY <1>1, <1>4, <1>6 DEF IInv, Connected, At
<1>10. SaverIsValid'
  <2>1. ASSUME NEW q \in Runs, At(q, "save")'
        PROVE  caller'[q].refresh \in pinterest'.valid
    <3>1. CASE q = r
      BY <1>3, <1>6, <3>1
    <3>2. CASE q # r
      <4>1. At(q, "save") /\ caller'[q].refresh = caller[q].refresh
        BY <1>6, <2>1, <3>2 DEF At
      <4>2. caller[q].refresh \in pinterest.valid
        BY <4>1 DEF IInv, SaverIsValid
      <4>3. pinterest.rotates => caller[q].refresh # caller[r].refresh
        BY <3>2, <4>1 DEF IInv, SaverIsAlone
      <4> QED BY <1>1, <1>7, <4>1, <4>2, <4>3
    <3> QED BY <3>1, <3>2
  <2> QED BY <2>1 DEF SaverIsValid
<1>11. SaverIsAlone'
  <2>1. SUFFICES ASSUME pinterest.rotates, NEW q \in Runs, At(q, "save")'
                 PROVE  /\ stored.refresh # caller'[q].refresh
                        /\ \A p \in Runs \ {q} : caller'[p].refresh # caller'[q].refresh
    BY <1>1, <1>4 DEF SaverIsAlone
  <2>2. new \notin Held /\ stored.refresh \in Held
    BY <1>3, <2>1 DEF Held
  <2>3. CASE q = r
    BY <1>6, <1>7, <2>2, <2>3
  <2>4. CASE q # r
    <3>1. At(q, "save") /\ caller'[q].refresh = caller[q].refresh
      BY <1>6, <2>1, <2>4 DEF At
    <3> QED BY <1>6, <1>7, <2>1, <2>2, <3>1 DEF IInv, SaverIsAlone
  <2> QED BY <2>3, <2>4
<1>12. RefreshTokenIsValid'
  BY <1>3, <1>6 DEF RefreshTokenIsValid, At
<1> QED BY <1>8, <1>9, <1>10, <1>11, <1>12 DEF IInv

\* The reply to an exchange is lost, and the pair with it.
LEMMA UnansweredKeeps ==
  ASSUME TokensAssumption, IInv, NEW r \in Runs, ExchangeUnanswered(r)
  PROVE  IInv'
<1>1. /\ TypeOK
      /\ At(r, "exchange")
      /\ pinterest'.rotates = pinterest.rotates
      /\ pinterest' \in [rotates : BOOLEAN, valid : SUBSET Token]
      /\ \A t \in pinterest.valid \cap Held :
           ~pinterest.rotates \/ t # caller[r].refresh => t \in pinterest'.valid
  BY ExchangedStep DEF ExchangeUnanswered, IInv
<1>2. Set(r, "failed", "none", NoToken) /\ UNCHANGED stored /\ orphaned'
  BY DEF ExchangeUnanswered
<1>3. [pc |-> "failed", access |-> "none", refresh |-> NoToken] \in Caller
  BY DEF Caller
<1>4. /\ caller'[r].pc = "failed" /\ caller'[r].refresh = NoToken
      /\ \A q \in Runs \ {r} : caller'[q] = caller[q]
      /\ caller' \in [Runs -> Caller]
  BY <1>1, <1>2, <1>3, SetStep
<1>5. \A q \in Runs : caller[q].refresh \in Held
  BY DEF Held
<1>6. TypeOK'
  BY <1>1, <1>2, <1>4 DEF ExchangeUnanswered, TypeOK
<1>7. Connected'
  BY <1>1, <1>2, <1>4 DEF IInv, Connected, At
<1>8. ASSUME NEW q \in Runs, At(q, "save")'
      PROVE  /\ q # r /\ At(q, "save") /\ caller'[q].refresh = caller[q].refresh
             /\ caller[q].refresh # NoToken
  BY <1>1, <1>4, <1>8, CallerFacts DEF At
<1>9. SaverIsValid'
  <2>1. ASSUME NEW q \in Runs, At(q, "save")'
        PROVE  caller'[q].refresh \in pinterest'.valid
    <3>1. caller[q].refresh \in pinterest.valid
      BY <1>8, <2>1 DEF IInv, SaverIsValid
    <3>2. pinterest.rotates => caller[q].refresh # caller[r].refresh
      BY <1>8, <2>1 DEF IInv, SaverIsAlone
    <3> QED BY <1>1, <1>5, <1>8, <2>1, <3>1, <3>2
  <2> QED BY <2>1 DEF SaverIsValid
<1>10. SaverIsAlone'
  <2>1. SUFFICES ASSUME pinterest.rotates, NEW q \in Runs, At(q, "save")'
                 PROVE  /\ stored.refresh # caller'[q].refresh
                        /\ \A p \in Runs \ {q} : caller'[p].refresh # caller'[q].refresh
    BY <1>1, <1>2 DEF SaverIsAlone
  <2> QED BY <1>4, <1>8, <2>1 DEF IInv, SaverIsAlone
<1>11. RefreshTokenIsValid'
  BY <1>2 DEF RefreshTokenIsValid
<1> QED BY <1>6, <1>7, <1>9, <1>10, <1>11 DEF IInv

\* The write, without a look at what is stored by now.
LEMMA SaveKeeps ==
  ASSUME IInv, NEW r \in Runs, Save(r)
  PROVE  IInv'
<1>1. /\ TypeOK /\ At(r, "save")
      /\ stored' = [access |-> caller[r].access, refresh |-> caller[r].refresh]
      /\ Set(r, "saved", "none", NoToken)
      /\ UNCHANGED <<pinterest, orphaned>>
  BY DEF Save, IInv
<1>2. /\ caller[r].access \in Access
      /\ caller[r].refresh \in Token
      /\ caller[r].refresh # NoToken
  BY <1>1, CallerFacts
<1>3. /\ stored' \in [access : Access, refresh : Token \cup {NoToken}]
      /\ stored'.refresh = caller[r].refresh
  BY <1>1, <1>2
<1>4. [pc |-> "saved", access |-> "none", refresh |-> NoToken] \in Caller
  BY DEF Caller
<1>5. /\ caller'[r].pc = "saved" /\ caller'[r].refresh = NoToken
      /\ \A q \in Runs \ {r} : caller'[q] = caller[q]
      /\ caller' \in [Runs -> Caller]
  BY <1>1, <1>4, SetStep
<1>6. TypeOK'
  BY <1>1, <1>3, <1>5 DEF TypeOK
<1>7. Connected'
  BY <1>2, <1>3 DEF Connected
<1>8. SaverIsValid'
  BY <1>1, <1>5 DEF IInv, SaverIsValid, At
<1>9. ASSUME NEW q \in Runs, At(q, "save")'
      PROVE  /\ q # r /\ At(q, "save") /\ caller'[q].refresh = caller[q].refresh
             /\ caller[q].refresh # NoToken
  BY <1>1, <1>5, <1>9, CallerFacts DEF At
<1>10. SaverIsAlone'
  <2>1. SUFFICES ASSUME pinterest.rotates, NEW q \in Runs, At(q, "save")'
                 PROVE  /\ stored'.refresh # caller'[q].refresh
                        /\ \A p \in Runs \ {q} : caller'[p].refresh # caller'[q].refresh
    BY <1>1 DEF SaverIsAlone
  <2> QED BY <1>3, <1>5, <1>9, <2>1 DEF IInv, SaverIsAlone
<1>11. RefreshTokenIsValid'
  <2>1. caller[r].refresh \in pinterest.valid
    BY <1>1 DEF IInv, SaverIsValid
  <2> QED BY <1>1, <1>3, <2>1 DEF RefreshTokenIsValid
<1> QED BY <1>6, <1>7, <1>8, <1>10, <1>11 DEF IInv

-----------------------------------------------------------------------------
(* The operator, and time.                                                 *)

\* The operator's pair is valid and nobody's copy.
LEMMA StoreTokenKeeps ==
  ASSUME TokensAssumption, IInv, StoreToken
  PROVE  IInv'
<1>1. TypeOK /\ NewToken \in Token \ Held
  BY NewTokenIsNew DEF IInv
<1>2. /\ pinterest'.rotates = pinterest.rotates
      /\ pinterest' \in [rotates : BOOLEAN, valid : SUBSET Token]
      /\ NewToken \in pinterest'.valid
      /\ pinterest.valid \cap Held \subseteq pinterest'.valid
  <2>1. Accept(pinterest.valid \cup {NewToken}) /\ pinterest.valid \cup {NewToken} \subseteq Token
    BY <1>1 DEF StoreToken, TypeOK
  <2> QED BY <1>1, <2>1, AcceptStep
<1>3. /\ stored' \in [access : Access, refresh : Token \cup {NoToken}]
      /\ stored'.refresh = NewToken
  BY <1>1 DEF StoreToken, TypeOK, Access
<1>4. UNCHANGED caller /\ orphaned' = FALSE /\ \A q \in Runs : caller[q].refresh \in Held
  BY DEF StoreToken, Held
<1>5. TypeOK'
  BY <1>1, <1>2, <1>3, <1>4 DEF TypeOK
<1>6. Connected'
  BY <1>1, <1>3 DEF Connected, Token, NoToken
<1>7. SaverIsValid'
  BY <1>2, <1>4 DEF IInv, SaverIsValid, At
<1>8. SaverIsAlone'
  BY <1>1, <1>2, <1>3, <1>4 DEF IInv, SaverIsAlone, At
<1>9. RefreshTokenIsValid'
  BY <1>2, <1>3 DEF RefreshTokenIsValid
<1> QED BY <1>5, <1>6, <1>7, <1>8, <1>9 DEF IInv

\* Expiry touches access tokens, and none that is about to be saved.
LEMMA ExpiryKeeps ==
  ASSUME IInv, AccessExpires
  PROVE  IInv'
<1>1. TypeOK /\ UNCHANGED <<pinterest, orphaned>> /\ \A r \in Runs : ~At(r, "save")
  BY DEF IInv, AccessExpires, Renewed, At
<1>2. /\ stored' \in [access : Access, refresh : Token \cup {NoToken}]
      /\ stored'.refresh = stored.refresh
  BY <1>1 DEF AccessExpires, TypeOK, Expired, Access
<1>3. PICK copies \in SUBSET Runs :
        caller' = [ r \in Runs |-> IF r \in copies
                                  THEN [caller[r] EXCEPT !.access = Expired(@)] ELSE caller[r] ]
  BY DEF AccessExpires
<1>4. ASSUME NEW r \in Runs
      PROVE  /\ [caller[r] EXCEPT !.access = Expired(@)] \in Caller
             /\ [caller[r] EXCEPT !.access = Expired(@)].pc = caller[r].pc
             /\ [caller[r] EXCEPT !.access = Expired(@)].refresh = caller[r].refresh
  BY <1>1 DEF TypeOK, Caller, Expired, Access, At
<1>5. /\ caller' \in [Runs -> Caller]
      /\ \A r \in Runs : caller'[r].pc = caller[r].pc /\ caller'[r].refresh = caller[r].refresh
  BY <1>1, <1>3, <1>4 DEF TypeOK
<1>6. TypeOK'
  BY <1>1, <1>2, <1>5 DEF TypeOK
<1>7. Connected' /\ SaverIsValid' /\ SaverIsAlone' /\ RefreshTokenIsValid'
  BY <1>1, <1>2, <1>5
  DEF IInv, Connected, SaverIsValid, SaverIsAlone, RefreshTokenIsValid, At
<1> QED BY <1>6, <1>7 DEF IInv

-----------------------------------------------------------------------------
(* The invariant, and the theorems.                                        *)

\* The invariant holds at first.
LEMMA InvInit ==
  ASSUME TokensAssumption, Init
  PROVE  IInv
<1>1. TypeOK
  BY DEF Init, TypeOK, Access, Caller
<1>2. Connected /\ SaverIsValid /\ SaverIsAlone /\ RefreshTokenIsValid
  BY DEF Init, Connected, SaverIsValid, SaverIsAlone, RefreshTokenIsValid, At
<1> QED BY <1>1, <1>2 DEF IInv

\* Every step keeps the invariant.
LEMMA InvNext ==
  ASSUME TokensAssumption, IInv, [Next]_vars
  PROVE  IInv'
<1>1. ASSUME NEW r \in Runs, RunStep(r) PROVE IInv'
  BY <1>1, CallKeeps, StopKeeps, ExchangeKeeps, SaveKeeps DEF RunStep
<1>2. CASE Unanswered
  BY <1>2, UnansweredKeeps DEF Unanswered
<1>3. CASE RunEnds
  BY <1>3, StopKeeps DEF RunEnds
<1>4. CASE StoreToken
  BY <1>4, StoreTokenKeeps
<1>5. CASE AccessExpires
  BY <1>5, ExpiryKeeps
<1>6. CASE UNCHANGED vars
  BY <1>6 DEF vars, IInv, TypeOK, Connected, SaverIsValid, SaverIsAlone,
              RefreshTokenIsValid, At
<1> QED BY <1>1, <1>2, <1>3, <1>4, <1>5, <1>6 DEF Next

\* The invariant holds of every behaviour.
LEMMA InvHolds == TokensAssumption => (Spec => []IInv)
<1> SUFFICES ASSUME TokensAssumption
             PROVE  Spec => []IInv
  OBVIOUS
<1>1. Init => IInv
  BY InvInit
<1>2. IInv /\ [Next]_vars => IInv'
  BY InvNext
<1> QED BY <1>1, <1>2, PTL DEF Spec

\* Every variable keeps its type: in particular a run never writes an empty
\* refresh token, nor exchanges one.
THEOREM TypeCorrect == TokensAssumption => (Spec => []TypeOK)
<1>1. IInv => TypeOK
  BY DEF IInv
<1> QED BY <1>1, InvHolds, PTL

\* refresh, which takes no lock, does not lock the account out: the document's
\* refresh token is valid, or a valid one is about to be written, or a pair was
\* lost between its exchange and its write; for any number of runs at once.
THEOREM AccountStaysOpen == TokensAssumption => (Spec => []RefreshTokenIsValid)
<1>1. IInv => RefreshTokenIsValid
  BY DEF IInv
<1> QED BY <1>1, InvHolds, PTL

=============================================================================
