------------------------------ MODULE Learning ------------------------------
(***************************************************************************)
(* The learning loop: scripts/metrics.py collects what Pinterest reports   *)
(* of the verified pins into pin_metrics (src/pinner/metrics.py), and      *)
(* scripts/analyze.py adds it up, has an analyst propose pivots and        *)
(* applies them to the niches the strategist writes from                   *)
(* (src/pinner/pivots.py).                                                 *)
(*                                                                         *)
(* Nothing locks the niches: the workflow's analyst and one started by     *)
(* hand may both apply, the seeds may be run again (src/pinner/seeds.py),  *)
(* and any process may die, or lose the database, between two writes.  A   *)
(* pivot of the voice is two updates per niche, the second of which writes *)
(* back a text read before the first niche was touched.                    *)
(*                                                                         *)
(* A voice is a sequence: the seed voice, 0, then the notes appended to    *)
(* it, by number.  Abstracted: the lengths of notes (TOTAL counts those    *)
(* there is room for, the last one perhaps in part), every figure but the  *)
(* impressions, the angles, the decision record, which nothing reads, and  *)
(* the ages of pins.                                                       *)
(***************************************************************************)
EXTENDS Integers, Sequences, SequencesExt, LearningPromise

CONSTANTS Processes,
          TOTAL,      \* MAX_GUIDELINES_TOTAL: the seed voice and TOTAL - 1 notes
          Reports,    \* what Pinterest may report: the impressions of a pin in a week
          DAYS,       \* bound: the days
          Proposals,  \* what the analyst may propose: sequences of targets
          MAX_NOTES   \* bound: the pivots

VARIABLES day,       \* today
          snapshots, \* the collection pin_metrics
          process    \* what each process is doing

vars == <<day, snapshots, niche, process, notes, peak>>

SeedNiche(pivots) == [voice |-> <<Seed>>, pivoted |-> FALSE, pivots |-> pivots]

\* ProposalItem.target: "voice" stands for landing_angle and board_strategy,
\* "style" for title_style and description_style.
Target == {"voice", "style", "hashtags", "unknown"}

LearningAssumption ==
  /\ \A items \in Proposals : items \in Seq(Target) /\ items # << >>
  /\ Reports \subseteq Nat
  /\ MIN_IMPRESSIONS \in Nat \ {0} /\ TOTAL \in Nat \ {0}
  /\ IsFiniteSet(Niches) /\ Niches # {} /\ IsFiniteSet(Pins)
  /\ DAYS \in Nat \ {0} /\ MAX_NOTES \in Nat

Idle == [pc |-> "idle"]

At(p, pc) == process[p].pc = pc

Goto(p, record) == process' = [process EXCEPT ![p] = record]

-----------------------------------------------------------------------------
(* collect_account_metrics, one pin: the report, then the upsert.  The     *)
(* server looks, and then updates or inserts; no index makes (pin, day)    *)
(* unique, so two processes may insert.                                    *)

Today(pin) == { s \in snapshots : s.pin = pin /\ s.day = day }

Report(p) ==
  /\ At(p, "idle")
  /\ \E pin \in Pins, n \in Reports :
       /\ Goto(p, [pc |-> "found", pin |-> pin, day |-> day, n |-> n, fresh |-> Today(pin) = {}])
       /\ peak' = [peak EXCEPT ![pin] = IF n > @ THEN n ELSE @]
  /\ UNCHANGED <<day, snapshots, niche, notes>>

Snapshot(p) == [pin |-> process[p].pin, day |-> process[p].day, n |-> process[p].n]

Upsert(p) ==
  /\ At(p, "found")
  /\ \/ process[p].fresh /\ snapshots' = snapshots \cup {Snapshot(p)}
     \/ /\ ~process[p].fresh
        /\ \E s \in snapshots :
             /\ s.pin = process[p].pin /\ s.day = process[p].day
             /\ snapshots' = (snapshots \ {s}) \cup {Snapshot(p)}
  /\ Goto(p, Idle)
  /\ UNCHANGED <<day, niche, notes, peak>>

-----------------------------------------------------------------------------
(* aggregate, and the analyst's proposal.                                  *)

\* As in Engine, no specification uses a definition named X_<Bug>.
Impressions_OfSnapshots(pins) ==
  SumOver([s \in snapshots |-> s.n], { s \in snapshots : s.pin \in pins })

Best(pin) == Max({0} \cup { s.n : s \in { s \in snapshots : s.pin = pin } })

\* The best snapshot of every pin.
Impressions(pins) == SumOver([pin \in Pins |-> Best(pin)], pins)

\* Of one account, here one pin, or of all; nothing measured, nothing proposed.
Review(p) ==
  /\ At(p, "idle")
  /\ \E pins \in {Pins} \cup { {pin} : pin \in Pins }, items \in Proposals :
       /\ \E s \in snapshots : s.pin \in pins
       /\ Goto(p, [pc |-> "item", items |-> items,
                   enough |-> Impressions(pins) >= MIN_IMPRESSIONS])
  /\ UNCHANGED <<day, snapshots, niche, notes, peak>>

-----------------------------------------------------------------------------
(* apply_pivots.                                                           *)

ItemOf(p) == Head(process[p].items)

NextItem(p) ==
  LET rest == Tail(process[p].items)
  IN Goto(p, IF rest = << >> THEN Idle
             ELSE [pc |-> "item", items |-> rest, enough |-> process[p].enough])

\* Below the floor, off the whitelist, or owned by a guardrail.
Refused(p) ==
  \/ ~process[p].enough
  \/ ItemOf(p) \in {"hashtags", "unknown"}

SkipItem(p) ==
  /\ At(p, "item") /\ Refused(p)
  /\ NextItem(p)
  /\ UNCHANGED <<day, snapshots, niche, notes, peak>>

\* All niches are read here, and updated one by one below.
BeginItem(p) ==
  /\ At(p, "item") /\ ~Refused(p)
  /\ notes < MAX_NOTES
  /\ notes' = notes + 1
  /\ process' = [process EXCEPT ![p] =
       [ pc |-> IF ItemOf(p) = "voice" THEN "push" ELSE "style",
         items |-> process[p].items, enough |-> TRUE,
         note |-> notes + 1, todo |-> SetToSeq(Niches),
         read |-> IF ItemOf(p) = "voice" THEN [n \in Niches |-> niche[n].voice] ELSE << >> ] ]
  /\ UNCHANGED <<day, snapshots, niche, peak>>

Here(p) == Head(process[p].todo)

NextNiche(p) ==
  IF Tail(process[p].todo) = << >> THEN NextItem(p)
  ELSE Goto(p, [process[p] EXCEPT !.todo = Tail(@), !.pc = IF @ = "voice" THEN "push" ELSE @])

PushPivot(p) ==
  /\ At(p, "push")
  /\ niche' = [niche EXCEPT ![Here(p)].pivots = @ \cup {process[p].note}]
  /\ Goto(p, [process[p] EXCEPT !.pc = "voice"])
  /\ UNCHANGED <<day, snapshots, notes, peak>>

NewVoice_KeepsTail(p) ==
  LET voice == Append(process[p].read[Here(p)], process[p].note)
  IN IF Len(voice) <= TOTAL THEN voice ELSE Tail(voice)

\* The text read, the note, and the tail cut off.
NewVoice(p) ==
  LET voice == Append(process[p].read[Here(p)], process[p].note)
  IN SubSeq(voice, 1, IF Len(voice) < TOTAL THEN Len(voice) ELSE TOTAL)

SetVoice(p) ==
  /\ At(p, "voice")
  /\ niche' = [niche EXCEPT ![Here(p)].voice = NewVoice(p)]
  /\ NextNiche(p)
  /\ UNCHANGED <<day, snapshots, notes, peak>>

SetStyle(p) ==
  /\ At(p, "style")
  /\ niche' = [niche EXCEPT ![Here(p)].pivoted = TRUE]
  /\ NextNiche(p)
  /\ UNCHANGED <<day, snapshots, notes, peak>>

StorageFails_GoesOn(p) ==
  /\ process[p].pc \in {"push", "voice", "style"}
  /\ IF At(p, "push") THEN Goto(p, [process[p] EXCEPT !.pc = "voice"]) ELSE NextNiche(p)
  /\ UNCHANGED <<day, snapshots, niche, notes, peak>>

\* PyMongoError: this niche is skipped, and the loop goes on.
StorageFails(p) ==
  /\ process[p].pc \in {"push", "voice", "style"}
  /\ NextNiche(p)
  /\ UNCHANGED <<day, snapshots, niche, notes, peak>>

-----------------------------------------------------------------------------
(* The environment.                                                        *)

Crash(p) ==
  /\ ~At(p, "idle")
  /\ Goto(p, Idle)
  /\ UNCHANGED <<day, snapshots, niche, notes, peak>>

\* seed_niches, one niche; the array is none of its fields.
Reseed ==
  /\ \E n \in Niches : niche' = [niche EXCEPT ![n] = SeedNiche(@.pivots)]
  /\ UNCHANGED <<day, snapshots, process, notes, peak>>

NextDay ==
  /\ day < DAYS
  /\ day' = day + 1
  /\ UNCHANGED <<snapshots, niche, process, notes, peak>>

-----------------------------------------------------------------------------
Init ==
  /\ day = 1
  /\ snapshots = {}
  /\ niche = [n \in Niches |-> SeedNiche({})]
  /\ process = [p \in Processes |-> Idle]
  /\ notes = 0
  /\ peak = [pin \in Pins |-> 0]

ProcessStep(p) ==
  \/ Report(p) \/ Upsert(p) \/ Review(p)
  \/ SkipItem(p) \/ BeginItem(p) \/ PushPivot(p) \/ SetVoice(p) \/ SetStyle(p)

Next ==
  \/ \E p \in Processes : ProcessStep(p) \/ StorageFails(p) \/ Crash(p)
  \/ Reseed \/ NextDay

Spec == Init /\ [][Next]_vars

-----------------------------------------------------------------------------
(* Properties, beside NothingUnrecorded, SeedVoiceKept and ActsOnEvidence. *)

\* The type of the variables; what a process holds is typed by its steps.
TypeOK ==
  /\ day \in 1 .. DAYS
  /\ snapshots \subseteq [pin : Pins, day : 1 .. DAYS, n : Reports]
  /\ \A n \in Niches :
       /\ niche[n].voice \in Seq(0 .. MAX_NOTES) /\ Len(niche[n].voice) <= TOTAL
       /\ niche[n].pivoted \in BOOLEAN
       /\ niche[n].pivots \subseteq 1 .. MAX_NOTES
  /\ \A p \in Processes :
       process[p].pc \in {"idle", "found", "item", "push", "voice", "style"}
  /\ notes \in 0 .. MAX_NOTES
  /\ peak \in [Pins -> {0} \cup Reports]

(***************************************************************************)
(* "The strategist prompt naturally carries the last pivots" (the safety   *)
(* contract of pivots.py): when nobody is applying any, the last pivot     *)
(* recorded for a niche is in its voice.  With one analyst, no fault and   *)
(* no reseeding it should hold; it does NOT once the notes fill the voice; *)
(* see the findings.                                                       *)
(***************************************************************************)
CarriesLastPivots ==
  (\A p \in Processes : At(p, "idle")) =>
    \A n \in Niches :
      niche[n].pivots # {} =>
        \E i \in 1 .. Len(niche[n].voice) : niche[n].voice[i] = Max(niche[n].pivots)
=============================================================================
