------------------------------ MODULE MCParts ------------------------------
(***************************************************************************)
(* Model checking of the parts with a state of their own: Gemini, Tokens,  *)
(* Bridge, Learning and Hello.  They share nothing, so a behaviour of all  *)
(* is one of each, interleaved: here a behaviour is of one part, and the   *)
(* others rest.                                                            *)
(***************************************************************************)
EXTENDS Gemini, TokensPromise, BridgePromise, LearningPromise, HelloPromise

CONSTANTS MAX_TOKEN,
          Contents, SmokeContent, POLLS,
          Processes, TOTAL, Reports, DAYS, Proposals, MAX_NOTES

VARIABLES subject,
          today, snapshots, process,
          clean, walk

T == INSTANCE Tokens
B == INSTANCE Bridge
L == INSTANCE Learning WITH day <- today
H == INSTANCE Hello

ASSUME PartsAssumption == T!TokensAssumption /\ B!BridgeAssumption /\ L!LearningAssumption

\* A title that needs work, a style that does, and every reason to skip an item.
MCProposals ==
  { <<"voice">>, <<"style", "voice">>, <<"hashtags", "style">>, <<"unknown">> }

tokens   == <<stored, pinterest, caller, orphaned>>
bridge   == <<file, site, pin, writer, own, changed>>
learning == <<today, snapshots, niche, process, notes, peak>>
hello    == <<docs, clean, account, walk>>

allvars == <<vars, subject, tokens, bridge, learning, hello>>

OfGemini(step) ==
  /\ subject = "gemini" /\ step
  /\ UNCHANGED <<subject, stored, pinterest, caller, orphaned,
                 file, site, pin, writer, own, changed,
                 today, snapshots, niche, process, notes, peak, docs, clean, account, walk>>

OfTokens(step) ==
  /\ subject = "tokens" /\ step
  /\ UNCHANGED <<subject, client, counter, quota, day,
                 file, site, pin, writer, own, changed,
                 today, snapshots, niche, process, notes, peak, docs, clean, account, walk>>

OfBridge(step) ==
  /\ subject = "bridge" /\ step
  /\ UNCHANGED <<subject, client, counter, quota, day, stored, pinterest, caller, orphaned,
                 today, snapshots, niche, process, notes, peak, docs, clean, account, walk>>

OfLearning(step) ==
  /\ subject = "learning" /\ step
  /\ UNCHANGED <<subject, client, counter, quota, day, stored, pinterest, caller, orphaned,
                 file, site, pin, writer, own, changed, docs, clean, account, walk>>

OfHello(step) ==
  /\ subject = "hello" /\ step
  /\ UNCHANGED <<subject, client, counter, quota, day, stored, pinterest, caller, orphaned,
                 file, site, pin, writer, own, changed,
                 today, snapshots, niche, process, notes, peak>>

\* The parts that rest begin in one state.
MCInit ==
  /\ Init /\ T!Init /\ B!Init /\ L!Init /\ H!Init
  /\ subject \in {"gemini", "tokens", "bridge", "learning", "hello"}
  /\ subject # "gemini" => quota = [k \in Keys |-> TRUE]
  /\ subject # "tokens" => ~pinterest.rotates
  /\ subject # "bridge" => pin.content = CHOOSE c \in Contents : TRUE
  /\ subject # "hello"  => clean

MCNext ==
  \/ OfGemini(Next) \/ OfTokens(T!Next) \/ OfBridge(B!Next)
  \/ OfLearning(L!Next) \/ OfHello(H!Next)

\* The fairness of each.
MCFairness ==
  /\ WF_allvars(OfGemini(RunStep)) /\ WF_allvars(OfGemini(Midnight))
  /\ \A r \in Runs : WF_allvars(OfTokens(T!RunStep(r)))
  /\ SF_allvars(OfHello(H!Start)) /\ WF_allvars(OfHello(H!RunStep)) /\ SF_allvars(OfHello(H!Tick))
  /\ <>[][/\ OfGemini(EndRun) => At("idle")
          /\ ~OfTokens(T!DiesInCall) /\ ~OfTokens(T!Unanswered)
          /\ ~OfHello(H!Crash)]_allvars

MCSpec == MCInit /\ [][MCNext]_allvars /\ MCFairness

\* The types of the other parts' variables.
PartsTypeOK == T!TypeOK /\ B!TypeOK /\ L!TypeOK /\ H!TypeOK

\* An account with tokens goes on being answered (see Tokens).
StaysConnected == subject = "tokens" => T!StaysConnected

\* The walk ends, however often it is killed (see Hello).
WalkCompletes == subject = "hello" => H!WalkCompletes
=============================================================================
