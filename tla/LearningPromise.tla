-------------------------- MODULE LearningPromise ---------------------------
(***************************************************************************)
(* The niches the strategist writes from, and the pins that are measured   *)
(* (see Learning): what is promised of the voices, and of the pivots.      *)
(***************************************************************************)
EXTENDS Integers, Sequences, Functions

CONSTANTS Niches, Pins,
          MIN_IMPRESSIONS  \* MIN_IMPRESSIONS_TO_APPLY

VARIABLES niche,  \* each niche: its voice, whether its style is a pivot's, the pivots recorded
          notes,  \* the number of the last pivot that began to be applied
          peak    \* history: the most Pinterest has reported of each pin

Seed == 0

SumOver(f, S) == FoldFunctionOnSet(+, 0, f, S)

(***************************************************************************)
(* "The tiny-sample rule, enforced deterministically": no pivot is applied *)
(* before the pins have had MIN_IMPRESSIONS between them, although a pin   *)
(* is measured day after day over windows that overlap, and perhaps twice  *)
(* a day when collectors race.                                             *)
(***************************************************************************)
ActsOnEvidence == notes > 0 => SumOver(peak, Pins) >= MIN_IMPRESSIONS

(***************************************************************************)
(* "Full audit history, revertable": a note the strategist reads in a      *)
(* niche's voice is recorded in the strategy_pivots of that niche, whoever *)
(* died, failed or wrote back an old text in between.                      *)
(***************************************************************************)
NothingUnrecorded ==
  \A n \in Niches : \A i \in 1 .. Len(niche[n].voice) :
    niche[n].voice[i] \in {Seed} \cup niche[n].pivots

(***************************************************************************)
(* "The seed voice is never lost": it stays at the head of every voice,    *)
(* whatever was appended, cut off and written back, and it stays alone     *)
(* there: notes follow in the order of their pivots.                       *)
(***************************************************************************)
SeedVoiceKept ==
  \A n \in Niches :
    /\ niche[n].voice # << >> /\ niche[n].voice[1] = Seed
    /\ \A i, j \in 1 .. Len(niche[n].voice) :
         i < j => niche[n].voice[i] < niche[n].voice[j]
=============================================================================
