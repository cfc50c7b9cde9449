--------------------------- MODULE LearningProofs ---------------------------
(***************************************************************************)
(* What is proved of Learning, for any niches, pins, processes and         *)
(* proposals: its types, that a note in a voice is on record, that the     *)
(* seed voice heads every voice, and that a pivot has the evidence for it. *)
(***************************************************************************)
EXTENDS Learning, TLAPS, SequenceTheorems, FiniteSetTheorems, WellFoundedInduction

-----------------------------------------------------------------------------
(***************************************************************************)
(* The inductive invariant.  A text is written back long after it was      *)
(* read, so what holds of the voices must hold of the texts the analysts   *)
(* carry: a good text has the seed voice first, the notes in the order of  *)
(* their numbers, none after the one it is bounded by, and none that the   *)
(* niche has no record of.  Records are never taken back, so a text that   *)
(* was good stays good.                                                    *)
(***************************************************************************)
GoodText(text, pivots, last) ==
  /\ text \in Seq(0 .. MAX_NOTES) /\ text # << >> /\ text[1] = Seed /\ Len(text) <= TOTAL
  /\ \A i \in 1 .. Len(text) : text[i] <= last /\ text[i] \in {Seed} \cup pivots
  /\ \A i, j \in 1 .. Len(text) : i < j => text[i] < text[j]

Voices == \A n \in Niches : GoodText(niche[n].voice, niche[n].pivots, notes)

\* What a process holds: the note of a pivot in progress is younger than the
\* texts that were read for it, and before the voice is set it is recorded.
HoldsGood(held) ==
  held.pc \in {"push", "voice"} =>
    /\ held.note <= notes
    /\ \A n \in Niches : GoodText(held.read[n], niche[n].pivots, held.note - 1)
    /\ held.pc = "voice" => held.note \in niche[Head(held.todo)].pivots

Carried == \A p \in Processes : HoldsGood(process[p])

Items == Seq(Target) \ {<< >>}

Todo == Seq(Niches) \ {<< >>}

Ready == {Idle} \cup [pc : {"item"}, items : Items, enough : BOOLEAN]

Writing(pcs, texts) ==
  [ pc : pcs, items : Items, enough : BOOLEAN, note : 1 .. MAX_NOTES, todo : Todo, read : texts ]

Voicing == Writing({"push", "voice"}, [Niches -> Seq(0 .. MAX_NOTES)])

Styling == Writing({"style"}, {<< >>})

Process ==
  Ready \cup Voicing \cup Styling
  \cup [pc : {"found"}, pin : Pins, day : 1 .. DAYS, n : Reports, fresh : BOOLEAN]

Niche ==
  [voice : Seq(0 .. MAX_NOTES), pivoted : BOOLEAN, pivots : SUBSET (1 .. MAX_NOTES)]

Typed == niche \in [Niches -> Niche] /\ process \in [Processes -> Process]

IInv == TypeOK /\ Typed /\ Voices /\ Carried

-----------------------------------------------------------------------------
(* Texts.                                                                  *)

\* More records and a later bound keep a text good.
LEMMA GoodTextKept ==
  ASSUME NEW text, NEW pivots, NEW more, pivots \subseteq more,
         NEW last \in Int, NEW later \in Int, last <= later, GoodText(text, pivots, last)
  PROVE  GoodText(text, more, later)
<1>1. \A i \in 1 .. Len(text) : text[i] \in Int
  <2>1. text \in Seq(0 .. MAX_NOTES)
    BY DEF GoodText
  <2>2. \A i \in 1 .. Len(text) : text[i] \in 0 .. MAX_NOTES
    BY <2>1, ElementOfSeq
  <2> QED BY <2>2
<1> QED BY <1>1 DEF GoodText

\* A recorded note after a text of older ones makes a good text, cut off or not.
LEMMA AppendedIsGood ==
  ASSUME LearningAssumption, NEW text, NEW pivots, NEW note \in 1 .. MAX_NOTES,
         note \in pivots, GoodText(text, pivots, note - 1),
         NEW cut, cut = LET long == Append(text, note)
                        IN SubSeq(long, 1, IF Len(long) < TOTAL THEN Len(long) ELSE TOTAL)
  PROVE  GoodText(cut, pivots, note)
<1> DEFINE long == Append(text, note)
           len  == IF Len(long) < TOTAL THEN Len(long) ELSE TOTAL
<1>1. /\ text \in Seq(0 .. MAX_NOTES) /\ Len(text) \in Nat \ {0} /\ text[1] = Seed
      /\ note \in 0 .. MAX_NOTES /\ TOTAL \in Nat \ {0}
      /\ \A i \in 1 .. Len(text) : /\ text[i] \in 0 .. MAX_NOTES
                                   /\ text[i] <= note - 1
                                   /\ text[i] \in {Seed} \cup pivots
      /\ \A i, j \in 1 .. Len(text) : i < j => text[i] < text[j]
  BY EmptySeq, ElementOfSeq DEF GoodText, LearningAssumption
<1>2. /\ Len(long) = Len(text) + 1
      /\ \A i \in 1 .. Len(text) : long[i] = text[i]
      /\ long[Len(text) + 1] = note
  BY <1>1, AppendProperties
<1> HIDE DEF long
<1>3. len \in 1 .. Len(text) + 1 /\ len <= TOTAL
  BY <1>1, <1>2
<1>4. \A i \in 1 .. Len(text) + 1 :
        /\ long[i] \in 0 .. MAX_NOTES /\ long[i] <= note /\ long[i] \in {Seed} \cup pivots
        /\ i = Len(text) + 1 => long[i] = note
        /\ i # Len(text) + 1 => long[i] = text[i] /\ long[i] <= note - 1
  BY <1>1, <1>2
<1>5. ASSUME NEW i \in 1 .. Len(text) + 1, NEW j \in 1 .. Len(text) + 1, i < j
      PROVE  long[i] < long[j]
  <2>1. i \in 1 .. Len(text) /\ long[i] = text[i] /\ long[i] \in Int /\ long[i] <= note - 1
    BY <1>1, <1>4, <1>5
  <2>2. CASE j = Len(text) + 1
    BY <1>1, <1>4, <2>1, <2>2
  <2>3. CASE j # Len(text) + 1
    <3>1. j \in 1 .. Len(text) /\ long[j] = text[j]
      BY <1>1, <1>4, <2>3
    <3> QED BY <1>1, <1>5, <2>1, <3>1
  <2> QED BY <2>2, <2>3
<1>6. cut = SubSeq(long, 1, len)
  BY DEF long
<1> HIDE DEF len
<1>7. /\ cut \in Seq(0 .. MAX_NOTES) /\ Len(cut) = len
      /\ \A i \in 1 .. len : cut[i] = long[i]
  <2>1. \A i \in 1 .. len : long[i] \in 0 .. MAX_NOTES
    BY <1>3, <1>4
  <2>2. 1 \in Int /\ len \in Int
    BY <1>1, <1>3
  <2>3. /\ SubSeq(long, 1, len) \in Seq(0 .. MAX_NOTES)
        /\ Len(SubSeq(long, 1, len)) = IF 1 <= len THEN len - 1 + 1 ELSE 0
        /\ \A i \in 1 .. len - 1 + 1 : SubSeq(long, 1, len)[i] = long[1 + i - 1]
    BY <2>1, <2>2, SubSeqProperties
  <2> QED BY <1>1, <1>3, <1>6, <2>3
<1>8. cut # << >>
  BY <1>1, <1>3, <1>7
<1>9. cut[1] = Seed
  BY <1>1, <1>2, <1>3, <1>7
<1>10. \A i, j \in 1 .. Len(cut) : i < j => cut[i] < cut[j]
  BY <1>1, <1>3, <1>5, <1>7
<1>11. \A i \in 1 .. Len(cut) : cut[i] <= note /\ cut[i] \in {Seed} \cup pivots
  BY <1>1, <1>3, <1>4, <1>7
<1> QED BY <1>3, <1>7, <1>8, <1>9, <1>10, <1>11 DEF GoodText

\* The text that the seeds write.
LEMMA SeedText ==
  ASSUME MAX_NOTES \in Nat
  PROVE  /\ <<Seed>> \in Seq(0 .. MAX_NOTES) /\ <<Seed>> # << >>
         /\ Len(<<Seed>>) = 1 /\ <<Seed>>[1] = Seed
<1>1. Seed \in 0 .. MAX_NOTES
  BY DEF Seed
<1> HIDE DEF Seed
<1> QED BY <1>1

\* There are niches, so an item that begins has something to do.
LEMMA NichesInOrder ==
  ASSUME LearningAssumption
  PROVE  SetToSeq(Niches) \in Todo
<1>1. IsFiniteSet(Niches) /\ Niches # {} /\ Cardinality(Niches) \in Nat
  BY FS_CardinalityType DEF LearningAssumption
<1>2. PICK f \in Bijection(1 .. Cardinality(Niches), Niches) : TRUE
  BY <1>1, FS_CardinalityType DEF ExistsBijection
<1>3. f \in [1 .. Cardinality(Niches) -> Niches] /\ IsInjective(f)
  BY <1>2 DEF Bijection, Injection
<1>4. SetToSeq(Niches) \in [1 .. Cardinality(Niches) -> Niches]
  BY <1>3 DEF SetToSeq
<1>5. Cardinality(Niches) # 0
  BY <1>1, FS_EmptySet
<1> HIDE DEF SetToSeq
<1>6. SetToSeq(Niches) \in Seq(Niches)
  BY <1>1, <1>4, SeqDef
<1>7. SetToSeq(Niches) # << >>
  BY <1>1, <1>4, <1>5
<1> QED BY <1>6, <1>7 DEF Todo

-----------------------------------------------------------------------------
(* What the actions are made of.                                           *)

\* A step of one process keeps the invariant if what it holds from now on is
\* typed and good, the voices stay good, and no record is taken back.
LEMMA ProcessStepKeeps ==
  ASSUME IInv, NEW p \in Processes, NEW new \in Process,
         process' = [process EXCEPT ![p] = new],
         niche' \in [Niches -> Niche],
         \A n \in Niches : niche[n].pivots \subseteq niche'[n].pivots,
         notes' \in 0 .. MAX_NOTES, notes <= notes',
         snapshots' \subseteq [pin : Pins, day : 1 .. DAYS, n : Reports],
         peak' \in [Pins -> {0} \cup Reports],
         day' = day,
         Voices', HoldsGood(new)'
  PROVE  IInv'
<1>1. /\ process' \in [Processes -> Process]
      /\ process'[p] = new
      /\ \A q \in Processes \ {p} : process'[q] = process[q]
  BY DEF IInv, Typed
<1>2. Typed'
  BY <1>1 DEF Typed
<1>3. ASSUME NEW q \in Processes PROVE HoldsGood(process[q])'
  <2>1. CASE q = p
    BY <1>1, <2>1 DEF HoldsGood
  <2>2. CASE q # p
    <3>1. SUFFICES ASSUME process[q].pc \in {"push", "voice"}
                   PROVE  /\ process[q].note <= notes'
                          /\ \A n \in Niches :
                               GoodText(process[q].read[n], niche'[n].pivots, process[q].note - 1)
                          /\ process[q].pc = "voice" =>
                               process[q].note \in niche'[Head(process[q].todo)].pivots
      BY <1>1, <2>2, Zenon DEF HoldsGood
    <3>2. /\ process[q].note <= notes
          /\ \A n \in Niches : GoodText(process[q].read[n], niche[n].pivots, process[q].note - 1)
          /\ process[q].pc = "voice" => process[q].note \in niche[Head(process[q].todo)].pivots
      BY <3>1 DEF IInv, Carried, HoldsGood
    <3>3. process[q].note \in 1 .. MAX_NOTES /\ process[q].todo \in Todo
      <4>1. process[q] \in Process
        BY DEF IInv, Typed
      <4> QED BY <3>1, <4>1 DEF Process, Ready, Voicing, Styling, Writing, Idle
    <3>4. notes \in Int /\ Head(process[q].todo) \in Niches
      BY <3>3, HeadTailProperties DEF IInv, TypeOK, Todo
    <3>5. ASSUME NEW n \in Niches
          PROVE  GoodText(process[q].read[n], niche'[n].pivots, process[q].note - 1)
      BY <3>2, <3>3, GoodTextKept
    <3> QED BY <3>2, <3>3, <3>4, <3>5
  <2> QED BY <2>1, <2>2
<1>4. Carried'
  BY <1>3 DEF Carried
<1>5. TypeOK'
  <2>1. \A q \in Processes : process'[q].pc \in {"idle", "found", "item", "push", "voice", "style"}
    <3>1. \A held \in Process : held.pc \in {"idle", "found", "item", "push", "voice", "style"}
      BY DEF Process, Ready, Voicing, Styling, Writing, Idle
    <3> QED BY <1>1, <3>1
  <2>2. \A n \in Niches : niche'[n].voice \in Seq(0 .. MAX_NOTES) /\ Len(niche'[n].voice) <= TOTAL
    BY DEF Voices, GoodText
  <2>3. \A n \in Niches : niche'[n].pivoted \in BOOLEAN /\ niche'[n].pivots \subseteq 1 .. MAX_NOTES
    BY DEF Niche
  <2> QED BY <2>1, <2>2, <2>3 DEF IInv, TypeOK
<1> QED BY <1>2, <1>4, <1>5 DEF IInv

\* The same for a process that goes on to hold no pivot, or one of the style.
LEMMA LightStepKeeps ==
  ASSUME IInv, NEW p \in Processes, NEW new \in Process, new.pc \notin {"push", "voice"},
         process' = [process EXCEPT ![p] = new],
         UNCHANGED <<day, niche, notes>>,
         snapshots' \subseteq [pin : Pins, day : 1 .. DAYS, n : Reports],
         peak' \in [Pins -> {0} \cup Reports]
  PROVE  IInv'
<1>1. Voices'
  BY DEF IInv, Voices
<1>2. HoldsGood(new)'
  BY DEF HoldsGood
<1>3. /\ niche' \in [Niches -> Niche] /\ niche' = niche
      /\ notes' \in 0 .. MAX_NOTES /\ notes <= notes'
  BY DEF IInv, TypeOK, Typed
<1>4. \A n \in Niches : niche[n].pivots \subseteq niche'[n].pivots
  BY <1>3
<1> QED BY <1>1, <1>2, <1>3, <1>4, ProcessStepKeeps

\* After an item comes the next one, or nothing.
LEMMA NextItemStep ==
  ASSUME IInv, NEW p \in Processes, process[p].items \in Items, process[p].enough \in BOOLEAN,
         NextItem(p)
  PROVE  \E new \in Ready : process' = [process EXCEPT ![p] = new]
<1>1. Tail(process[p].items) \in Seq(Target)
  BY HeadTailProperties DEF Items
<1>2. CASE Tail(process[p].items) = << >>
  BY <1>2 DEF NextItem, Goto, Ready
<1>3. CASE Tail(process[p].items) # << >>
  <2>1. [pc |-> "item", items |-> Tail(process[p].items), enough |-> process[p].enough] \in Ready
    BY <1>1, <1>3 DEF Ready, Items
  <2>2. process' = [process EXCEPT ![p] = [pc |-> "item", items |-> Tail(process[p].items),
                                           enough |-> process[p].enough]]
    BY <1>3 DEF NextItem, Goto
  <2> QED BY <2>1, <2>2
<1> QED BY <1>2, <1>3

\* What a process holds while it writes a pivot.
LEMMA WritingFacts ==
  ASSUME IInv, NEW p \in Processes, process[p].pc \in {"push", "voice", "style"}
  PROVE  /\ process[p].items \in Items /\ process[p].enough \in BOOLEAN
         /\ process[p].note \in 1 .. MAX_NOTES
         /\ process[p].todo \in Todo /\ Here(p) \in Niches
         /\ process[p].pc = "style" => process[p] \in Styling
         /\ process[p].pc # "style" => process[p] \in Voicing /\ HoldsGood(process[p])
<1>1. process[p] \in Process
  BY DEF IInv, Typed
<1>2. process[p] \in Voicing \cup Styling
  BY <1>1 DEF Process, Ready, Idle
<1>3. /\ process[p].pc = "style" => process[p] \in Styling
      /\ process[p].pc # "style" => process[p] \in Voicing
  BY <1>2 DEF Voicing, Styling, Writing
<1>4. /\ process[p].items \in Items /\ process[p].enough \in BOOLEAN
      /\ process[p].note \in 1 .. MAX_NOTES
      /\ process[p].todo \in Todo
  BY <1>2 DEF Voicing, Styling, Writing
<1>5. Here(p) \in Niches
  BY <1>4, HeadTailProperties DEF Here, Todo
<1> QED BY <1>3, <1>4, <1>5 DEF IInv, Carried

\* After a niche comes the next one, with the text and the note there were.
LEMMA NextNicheStep ==
  ASSUME IInv, NEW p \in Processes, process[p].pc \in {"push", "voice", "style"}, NextNiche(p)
  PROVE  \E new \in Process :
           /\ process' = [process EXCEPT ![p] = new]
           /\ new.pc # "voice"
           /\ new.pc = "push" => /\ process[p].pc # "style"
                                 /\ new.note = process[p].note
                                 /\ new.read = process[p].read
<1>1. /\ process[p].items \in Items /\ process[p].enough \in BOOLEAN
      /\ process[p].todo \in Todo
      /\ process[p].pc = "style" => process[p] \in Styling
      /\ process[p].pc # "style" => process[p] \in Voicing
  BY WritingFacts
<1>2. CASE Tail(process[p].todo) = << >>
  <2>1. NextItem(p)
    BY <1>2 DEF NextNiche
  <2>2. PICK new \in Ready : process' = [process EXCEPT ![p] = new]
    BY <1>1, <2>1, NextItemStep
  <2>3. new.pc \notin {"push", "voice"} /\ new \in Process
    BY DEF Ready, Idle, Process
  <2> QED BY <2>2, <2>3
<1>3. CASE Tail(process[p].todo) # << >>
  <2>1. Tail(process[p].todo) \in Todo
    BY <1>1, <1>3, HeadTailProperties DEF Todo
  <2>2. process' = [process EXCEPT ![p] =
                     [process[p] EXCEPT !.todo = Tail(@), !.pc = IF @ = "voice" THEN "push" ELSE @]]
    BY <1>3 DEF NextNiche, Goto
  <2>3. CASE process[p].pc = "style"
    <3>1. PICK new : new = [process[p] EXCEPT !.todo = Tail(@),
                                              !.pc = IF @ = "voice" THEN "push" ELSE @]
      OBVIOUS
    <3>2. new \in Styling /\ new.pc = "style"
      BY <1>1, <2>1, <2>3, <3>1 DEF Styling, Writing
    <3> QED BY <2>2, <3>1, <3>2 DEF Process
  <2>4. CASE process[p].pc # "style"
    <3>1. PICK new : new = [process[p] EXCEPT !.todo = Tail(@),
                                              !.pc = IF @ = "voice" THEN "push" ELSE @]
      OBVIOUS
    <3>2. /\ new \in Voicing /\ new.pc = "push"
          /\ new.note = process[p].note /\ new.read = process[p].read
      BY <1>1, <2>1, <2>4, <3>1 DEF Voicing, Writing
    <3> QED BY <2>2, <2>4, <3>1, <3>2 DEF Process
  <2> QED BY <2>3, <2>4
<1> QED BY <1>2, <1>3

-----------------------------------------------------------------------------
(* The collector and the analyst.                                          *)

\* A report that arrives is one of Pinterest's.
LEMMA ReportKeeps ==
  ASSUME IInv, NEW p \in Processes, Report(p)
  PROVE  IInv'
<1>1. PICK pin \in Pins, n \in Reports :
        /\ Goto(p, [pc |-> "found", pin |-> pin, day |-> day, n |-> n, fresh |-> Today(pin) = {}])
        /\ peak' = [peak EXCEPT ![pin] = IF n > @ THEN n ELSE @]
  BY DEF Report
<1>2. PICK fresh \in BOOLEAN : fresh = (Today(pin) = {})
  OBVIOUS
<1>3. day \in 1 .. DAYS /\ UNCHANGED <<day, snapshots, niche, notes>>
  BY DEF Report, IInv, TypeOK
<1>4. PICK new : new = [pc |-> "found", pin |-> pin, day |-> day, n |-> n, fresh |-> fresh]
  OBVIOUS
<1>5. new \in Process /\ new.pc = "found"
  BY <1>3, <1>4 DEF Process
<1>6. process' = [process EXCEPT ![p] = new]
  BY <1>1, <1>2, <1>4 DEF Goto
<1>7. peak' \in [Pins -> {0} \cup Reports]
  BY <1>1 DEF IInv, TypeOK
<1>8. snapshots' \subseteq [pin : Pins, day : 1 .. DAYS, n : Reports]
  BY <1>3 DEF IInv, TypeOK
<1> QED BY <1>3, <1>5, <1>6, <1>7, <1>8, LightStepKeeps

\* A report in hand.
LEMMA FoundFacts ==
  ASSUME IInv, NEW p \in Processes, At(p, "found")
  PROVE  process[p] \in [pc : {"found"}, pin : Pins, day : 1 .. DAYS, n : Reports, fresh : BOOLEAN]
<1>1. process[p] \in Process /\ process[p].pc = "found"
  BY DEF At, IInv, Typed
<1> QED BY <1>1 DEF Process, Ready, Voicing, Styling, Writing, Idle

\* A snapshot is what was reported.
LEMMA UpsertKeeps ==
  ASSUME IInv, NEW p \in Processes, Upsert(p)
  PROVE  IInv'
<1>1. process[p] \in [pc : {"found"}, pin : Pins, day : 1 .. DAYS, n : Reports, fresh : BOOLEAN]
  BY FoundFacts DEF Upsert
<1>2. Snapshot(p) \in [pin : Pins, day : 1 .. DAYS, n : Reports]
  BY <1>1 DEF Snapshot
<1>3. snapshots' \subseteq [pin : Pins, day : 1 .. DAYS, n : Reports]
  BY <1>2 DEF Upsert, IInv, TypeOK
<1>4. /\ process' = [process EXCEPT ![p] = Idle]
      /\ UNCHANGED <<day, niche, notes, peak>>
  BY DEF Upsert, Goto
<1>5. Idle \in Process /\ Idle.pc = "idle"
  BY DEF Process, Ready, Idle
<1>6. peak' \in [Pins -> {0} \cup Reports]
  BY <1>4 DEF IInv, TypeOK
<1> QED BY <1>3, <1>4, <1>5, <1>6, LightStepKeeps

\* A proposal is one of the analyst's.
LEMMA ReviewKeeps ==
  ASSUME LearningAssumption, IInv, NEW p \in Processes, Review(p)
  PROVE  IInv'
<1>1. PICK items \in Proposals, enough \in BOOLEAN :
        Goto(p, [pc |-> "item", items |-> items, enough |-> enough])
  <2>1. PICK pins \in {Pins} \cup { {pin} : pin \in Pins }, items \in Proposals :
          Goto(p, [pc |-> "item", items |-> items, enough |-> Impressions(pins) >= MIN_IMPRESSIONS])
    BY DEF Review
  <2>2. (Impressions(pins) >= MIN_IMPRESSIONS) \in BOOLEAN
    OBVIOUS
  <2> QED BY <2>1, <2>2
<1>2. items \in Items
  BY DEF LearningAssumption, Items
<1>3. PICK new : new = [pc |-> "item", items |-> items, enough |-> enough]
  OBVIOUS
<1>4. new \in Process /\ new.pc = "item"
  BY <1>2, <1>3 DEF Process, Ready
<1>5. process' = [process EXCEPT ![p] = new] /\ UNCHANGED <<day, snapshots, niche, notes, peak>>
  BY <1>1, <1>3 DEF Review, Goto
<1> QED BY <1>4, <1>5, LightStepKeeps DEF IInv, TypeOK

\* An item in hand.
LEMMA ItemFacts ==
  ASSUME IInv, NEW p \in Processes, At(p, "item")
  PROVE  process[p].items \in Items /\ process[p].enough \in BOOLEAN
<1>1. process[p] \in Process /\ process[p].pc = "item"
  BY DEF At, IInv, Typed
<1>2. process[p] \in [pc : {"item"}, items : Items, enough : BOOLEAN]
  BY <1>1 DEF Process, Ready, Voicing, Styling, Writing, Idle
<1> QED BY <1>2

\* An item is passed over.
LEMMA SkipItemKeeps ==
  ASSUME IInv, NEW p \in Processes, SkipItem(p)
  PROVE  IInv'
<1>1. PICK new \in Ready : process' = [process EXCEPT ![p] = new]
  BY ItemFacts, NextItemStep DEF SkipItem
<1>2. new \in Process /\ new.pc \notin {"push", "voice"}
  BY DEF Process, Ready, Idle
<1> QED BY <1>1, <1>2, LightStepKeeps DEF SkipItem, IInv, TypeOK

\* All texts are good when they are read, and their notes older than the new one.
LEMMA BeginItemKeeps ==
  ASSUME LearningAssumption, IInv, NEW p \in Processes, BeginItem(p)
  PROVE  IInv'
<1>1. /\ process[p].items \in Items /\ SetToSeq(Niches) \in Todo
      /\ notes \in 0 .. MAX_NOTES /\ notes < MAX_NOTES /\ notes' = notes + 1
      /\ UNCHANGED <<day, snapshots, niche, peak>>
      /\ MAX_NOTES \in Nat
  BY ItemFacts, NichesInOrder DEF BeginItem, IInv, TypeOK, LearningAssumption
<1>2. /\ niche' \in [Niches -> Niche]
      /\ \A n \in Niches : niche'[n] = niche[n]
      /\ snapshots' \subseteq [pin : Pins, day : 1 .. DAYS, n : Reports]
      /\ peak' \in [Pins -> {0} \cup Reports]
  BY <1>1 DEF IInv, Typed, TypeOK
<1>3. notes' \in 0 .. MAX_NOTES /\ notes <= notes' /\ notes + 1 \in 1 .. MAX_NOTES
  BY <1>1
<1>4. Voices'
  <2>1. ASSUME NEW n \in Niches PROVE GoodText(niche'[n].voice, niche'[n].pivots, notes')
    BY <1>1, <1>2, <1>3, GoodTextKept DEF IInv, Voices
  <2> QED BY <2>1 DEF Voices
<1>5. CASE ItemOf(p) = "voice"
  <2>1. PICK texts : texts = [n \in Niches |-> niche[n].voice]
    OBVIOUS
  <2>2. texts \in [Niches -> Seq(0 .. MAX_NOTES)]
    BY <2>1 DEF IInv, TypeOK
  <2>3. PICK new : new = [ pc |-> "push", items |-> process[p].items, enough |-> TRUE,
                           note |-> notes + 1, todo |-> SetToSeq(Niches), read |-> texts ]
    OBVIOUS
  <2>4. process' = [process EXCEPT ![p] = new]
    BY <1>5, <2>1, <2>3 DEF BeginItem
  <2>5. new \in Process
    BY <1>1, <1>3, <2>2, <2>3 DEF Process, Voicing, Writing
  <2>6. new.pc = "push" /\ new.note = notes + 1 /\ new.read = texts
    BY <2>3
  <2>7. ASSUME NEW n \in Niches
        PROVE  GoodText(new.read[n], niche'[n].pivots, new.note - 1)
    <3>1. new.read[n] = niche[n].voice /\ new.note - 1 = notes
      BY <1>1, <2>1, <2>6
    <3> QED BY <1>2, <3>1 DEF IInv, Voices
  <2>8. HoldsGood(new)'
    BY <1>1, <2>6, <2>7 DEF HoldsGood
  <2>9. \A n \in Niches : niche[n].pivots \subseteq niche'[n].pivots
    BY <1>2
  <2> QED BY <1>1, <1>2, <1>3, <1>4, <2>4, <2>5, <2>8, <2>9, ProcessStepKeeps
<1>6. CASE ItemOf(p) # "voice"
  <2>1. PICK new : new = [ pc |-> "style", items |-> process[p].items, enough |-> TRUE,
                           note |-> notes + 1, todo |-> SetToSeq(Niches), read |-> << >> ]
    OBVIOUS
  <2>2. process' = [process EXCEPT ![p] = new]
    BY <1>6, <2>1 DEF BeginItem
  <2>3. new \in Process /\ new.pc = "style"
    BY <1>1, <1>3, <2>1 DEF Process, Styling, Writing
  <2>4. HoldsGood(new)'
    BY <2>3 DEF HoldsGood
  <2>5. \A n \in Niches : niche[n].pivots \subseteq niche'[n].pivots
    BY <1>2
  <2> QED BY <1>1, <1>2, <1>3, <1>4, <2>2, <2>3, <2>4, <2>5, ProcessStepKeeps
<1> QED BY <1>5, <1>6

\* The pivot is recorded before the voice is set.
LEMMA PushPivotKeeps ==
  ASSUME IInv, NEW p \in Processes, PushPivot(p)
  PROVE  IInv'
<1>1. /\ process[p].pc = "push"
      /\ niche' = [niche EXCEPT ![Here(p)].pivots = @ \cup {process[p].note}]
      /\ Goto(p, [process[p] EXCEPT !.pc = "voice"])
      /\ UNCHANGED <<day, snapshots, notes, peak>>
  BY DEF PushPivot, At
<1>2. /\ process[p].note \in 1 .. MAX_NOTES
      /\ Here(p) \in Niches
      /\ process[p] \in Voicing /\ HoldsGood(process[p])
  BY <1>1, WritingFacts
<1>3. PICK new : new = [process[p] EXCEPT !.pc = "voice"]
  OBVIOUS
<1>4. /\ new \in Process /\ new.pc = "voice"
      /\ new.note = process[p].note /\ new.read = process[p].read
      /\ new.todo = process[p].todo
  BY <1>2, <1>3 DEF Process, Voicing, Writing
<1>5. process' = [process EXCEPT ![p] = new]
  BY <1>1, <1>3 DEF Goto
<1>6. /\ niche' \in [Niches -> Niche]
      /\ \A n \in Niches : /\ niche'[n].voice = niche[n].voice
                           /\ niche[n].pivots \subseteq niche'[n].pivots
      /\ process[p].note \in niche'[Here(p)].pivots
  <2>1. niche \in [Niches -> Niche]
    BY DEF IInv, Typed
  <2>2. PICK old \in Niche : old = niche[Here(p)]
    BY <1>2, <2>1
  <2>3. PICK upd : upd = [old EXCEPT !.pivots = @ \cup {process[p].note}]
    OBVIOUS
  <2>4. /\ upd \in Niche /\ upd.voice = old.voice
        /\ old.pivots \subseteq upd.pivots /\ process[p].note \in upd.pivots
    BY <1>2, <2>3 DEF Niche
  <2>5. niche' = [niche EXCEPT ![Here(p)] = upd]
    BY <1>1, <1>2, <2>1, <2>2, <2>3
  <2> QED BY <1>2, <2>1, <2>2, <2>4, <2>5
<1>7. notes \in 0 .. MAX_NOTES /\ notes' \in 0 .. MAX_NOTES /\ notes <= notes'
  BY <1>1 DEF IInv, TypeOK
<1>8. Voices'
  <2>1. ASSUME NEW n \in Niches PROVE GoodText(niche'[n].voice, niche'[n].pivots, notes')
    BY <1>6, <1>7, GoodTextKept DEF IInv, Voices
  <2> QED BY <2>1 DEF Voices
<1>9. HoldsGood(new)'
  <2>1. process[p].note <= notes
    BY <1>1, <1>2 DEF HoldsGood
  <2>2. ASSUME NEW n \in Niches
        PROVE  GoodText(new.read[n], niche'[n].pivots, new.note - 1)
    <3>1. GoodText(new.read[n], niche[n].pivots, new.note - 1)
      BY <1>1, <1>2, <1>4 DEF HoldsGood
    <3> QED BY <1>2, <1>4, <1>6, <3>1, GoodTextKept
  <2>3. new.note \in niche'[Head(new.todo)].pivots
    BY <1>4, <1>6 DEF Here
  <2> QED BY <1>1, <1>4, <2>1, <2>2, <2>3 DEF HoldsGood
<1> QED
  BY <1>1, <1>4, <1>5, <1>6, <1>7, <1>8, <1>9, ProcessStepKeeps DEF IInv, TypeOK

\* What an analyst goes on to hold after a niche is good, if no record was taken
\* back: the text and the note are those it held.
LEMMA NextIsGood ==
  ASSUME IInv, NEW p \in Processes, process[p].pc \in {"push", "voice", "style"},
         NEW new \in Process, new.pc # "voice",
         new.pc = "push" => /\ process[p].pc # "style"
                            /\ new.note = process[p].note
                            /\ new.read = process[p].read,
         \A n \in Niches : niche[n].pivots \subseteq niche'[n].pivots,
         notes' = notes
  PROVE  HoldsGood(new)'
<1>1. SUFFICES ASSUME new.pc = "push"
               PROVE  /\ new.note <= notes'
                      /\ \A n \in Niches : GoodText(new.read[n], niche'[n].pivots, new.note - 1)
  BY DEF HoldsGood
<1>2. process[p].note \in 1 .. MAX_NOTES /\ HoldsGood(process[p])
  BY <1>1, WritingFacts
<1>3. process[p].pc \in {"push", "voice"}
  BY <1>1
<1>4. /\ new.note <= notes
      /\ \A n \in Niches : GoodText(new.read[n], niche[n].pivots, new.note - 1)
  BY <1>1, <1>2, <1>3 DEF HoldsGood
<1>5. ASSUME NEW n \in Niches PROVE GoodText(new.read[n], niche'[n].pivots, new.note - 1)
  BY <1>1, <1>2, <1>4, GoodTextKept
<1> QED BY <1>4, <1>5

\* The text that is written back was good, and so is the recorded note after it,
\* whatever became of the niche's voice since.
LEMMA SetVoiceKeeps ==
  ASSUME LearningAssumption, IInv, NEW p \in Processes, SetVoice(p)
  PROVE  IInv'
<1>1. /\ process[p].pc = "voice"
      /\ niche' = [niche EXCEPT ![Here(p)].voice = NewVoice(p)]
      /\ NextNiche(p)
      /\ UNCHANGED <<day, snapshots, notes, peak>>
  BY DEF SetVoice, At
<1>2. /\ process[p].note \in 1 .. MAX_NOTES
      /\ Here(p) \in Niches
      /\ HoldsGood(process[p])
  BY <1>1, WritingFacts
<1>3. PICK new \in Process :
        /\ process' = [process EXCEPT ![p] = new]
        /\ new.pc # "voice"
        /\ new.pc = "push" => /\ process[p].pc # "style"
                              /\ new.note = process[p].note
                              /\ new.read = process[p].read
  BY <1>1, NextNicheStep
<1>4. /\ process[p].note <= notes
      /\ process[p].note \in niche[Here(p)].pivots
      /\ GoodText(process[p].read[Here(p)], niche[Here(p)].pivots, process[p].note - 1)
  BY <1>1, <1>2 DEF HoldsGood, Here
<1>5. notes \in 0 .. MAX_NOTES /\ notes' \in 0 .. MAX_NOTES /\ notes <= notes'
  BY <1>1 DEF IInv, TypeOK
<1>6. GoodText(NewVoice(p), niche[Here(p)].pivots, notes)
  <2>1. GoodText(NewVoice(p), niche[Here(p)].pivots, process[p].note)
    <3>1. PICK text, note : text = process[p].read[Here(p)] /\ note = process[p].note
      OBVIOUS
    <3>2. NewVoice(p) = LET long == Append(text, note)
                        IN SubSeq(long, 1, IF Len(long) < TOTAL THEN Len(long) ELSE TOTAL)
      BY <3>1 DEF NewVoice
    <3> QED BY <1>2, <1>4, <3>1, <3>2, AppendedIsGood
  <2> QED BY <1>2, <1>4, <1>5, <2>1, GoodTextKept
<1>7. /\ niche' \in [Niches -> Niche]
      /\ \A n \in Niches : niche'[n].pivots = niche[n].pivots
      /\ \A n \in Niches \ {Here(p)} : niche'[n].voice = niche[n].voice
      /\ niche'[Here(p)].voice = NewVoice(p)
  <2>1. niche \in [Niches -> Niche]
    BY DEF IInv, Typed
  <2>2. PICK old \in Niche : old = niche[Here(p)]
    BY <1>2, <2>1
  <2>3. PICK text \in Seq(0 .. MAX_NOTES) : text = NewVoice(p)
    BY <1>6 DEF GoodText
  <2>4. PICK upd : upd = [old EXCEPT !.voice = text]
    OBVIOUS
  <2>5. upd \in Niche /\ upd.voice = text /\ upd.pivots = old.pivots
    BY <2>4 DEF Niche
  <2>6. niche' = [niche EXCEPT ![Here(p)] = upd]
    BY <1>1, <1>2, <2>1, <2>2, <2>3, <2>4
  <2> QED BY <1>2, <2>1, <2>2, <2>3, <2>5, <2>6
<1>8. Voices'
  <2>1. ASSUME NEW n \in Niches PROVE GoodText(niche'[n].voice, niche'[n].pivots, notes')
    BY <1>1, <1>6, <1>7 DEF IInv, Voices
  <2> QED BY <2>1 DEF Voices
<1>9. HoldsGood(new)'
  BY <1>1, <1>3, <1>7, NextIsGood
<1> QED
  BY <1>1, <1>3, <1>5, <1>7, <1>8, <1>9, ProcessStepKeeps DEF IInv, TypeOK

\* A style leaves the voice and the record alone.
LEMMA SetStyleKeeps ==
  ASSUME IInv, NEW p \in Processes, SetStyle(p)
  PROVE  IInv'
<1>1. /\ process[p].pc = "style"
      /\ niche' = [niche EXCEPT ![Here(p)].pivoted = TRUE]
      /\ NextNiche(p)
      /\ UNCHANGED <<day, snapshots, notes, peak>>
  BY DEF SetStyle, At
<1>2. PICK new \in Process :
        /\ process' = [process EXCEPT ![p] = new]
        /\ new.pc # "voice"
        /\ new.pc = "push" => /\ process[p].pc # "style"
                              /\ new.note = process[p].note
                              /\ new.read = process[p].read
  BY <1>1, NextNicheStep
<1>3. /\ niche' \in [Niches -> Niche]
      /\ \A n \in Niches : niche'[n].pivots = niche[n].pivots /\ niche'[n].voice = niche[n].voice
  <2>1. niche \in [Niches -> Niche] /\ Here(p) \in Niches
    BY <1>1, WritingFacts DEF IInv, Typed
  <2>2. PICK old \in Niche : old = niche[Here(p)]
    BY <2>1
  <2>3. PICK upd : upd = [old EXCEPT !.pivoted = TRUE]
    OBVIOUS
  <2>4. upd \in Niche /\ upd.voice = old.voice /\ upd.pivots = old.pivots
    BY <2>3 DEF Niche
  <2>5. niche' = [niche EXCEPT ![Here(p)] = upd]
    BY <1>1, <2>1, <2>2, <2>3
  <2> QED BY <2>1, <2>2, <2>4, <2>5
<1>4. notes' \in 0 .. MAX_NOTES /\ notes <= notes'
  BY <1>1 DEF IInv, TypeOK
<1>5. Voices'
  BY <1>1, <1>3 DEF IInv, Voices
<1>6. HoldsGood(new)'
  BY <1>1, <1>2, <1>3, NextIsGood
<1> QED
  BY <1>1, <1>2, <1>3, <1>4, <1>5, <1>6, ProcessStepKeeps DEF IInv, TypeOK

\* The database fails between the record and the voice, or before: the niche is
\* left as it is.
LEMMA StorageFailsKeeps ==
  ASSUME IInv, NEW p \in Processes, StorageFails(p)
  PROVE  IInv'
<1>1. /\ process[p].pc \in {"push", "voice", "style"}
      /\ NextNiche(p)
      /\ UNCHANGED <<day, snapshots, niche, notes, peak>>
  BY DEF StorageFails
<1>2. PICK new \in Process :
        /\ process' = [process EXCEPT ![p] = new]
        /\ new.pc # "voice"
        /\ new.pc = "push" => /\ process[p].pc # "style"
                              /\ new.note = process[p].note
                              /\ new.read = process[p].read
  BY <1>1, NextNicheStep
<1>3. /\ niche' \in [Niches -> Niche]
      /\ \A n \in Niches : niche[n].pivots \subseteq niche'[n].pivots
      /\ notes' \in 0 .. MAX_NOTES /\ notes <= notes'
  BY <1>1 DEF IInv, TypeOK, Typed
<1>4. Voices'
  BY <1>1 DEF IInv, Voices
<1>5. HoldsGood(new)'
  BY <1>1, <1>2, <1>3, NextIsGood
<1> QED
  BY <1>1, <1>2, <1>3, <1>4, <1>5, ProcessStepKeeps DEF IInv, TypeOK

\* A process that dies holds nothing.
LEMMA CrashKeeps ==
  ASSUME IInv, NEW p \in Processes, Crash(p)
  PROVE  IInv'
<1>1. /\ process' = [process EXCEPT ![p] = Idle]
      /\ UNCHANGED <<day, snapshots, niche, notes, peak>>
  BY DEF Crash, Goto
<1>2. Idle \in Process /\ Idle.pc = "idle"
  BY DEF Process, Ready, Idle
<1> QED BY <1>1, <1>2, LightStepKeeps DEF IInv, TypeOK

-----------------------------------------------------------------------------
(* The environment.                                                        *)

\* The seeds put the first text back and leave the records, so the texts that
\* analysts carry stay good.
LEMMA ReseedKeeps ==
  ASSUME LearningAssumption, IInv, Reseed
  PROVE  IInv'
<1>1. PICK m \in Niches : niche' = [niche EXCEPT ![m] = SeedNiche(@.pivots)]
  BY DEF Reseed
<1>2. UNCHANGED <<day, snapshots, process, notes, peak>>
  BY DEF Reseed
<1>3. notes \in 0 .. MAX_NOTES /\ TOTAL \in Nat \ {0}
  BY DEF IInv, TypeOK, LearningAssumption
<1>4. PICK text : text = <<Seed>>
  OBVIOUS
<1>5. text \in Seq(0 .. MAX_NOTES) /\ text # << >> /\ Len(text) = 1 /\ text[1] = Seed
  BY <1>4, SeedText DEF LearningAssumption
<1>6. ASSUME NEW pivots PROVE GoodText(text, pivots, notes)
  BY <1>3, <1>5 DEF GoodText, Seed
<1>7. /\ niche' \in [Niches -> Niche]
      /\ \A n \in Niches : niche'[n].pivots = niche[n].pivots
      /\ \A n \in Niches \ {m} : niche'[n].voice = niche[n].voice
      /\ niche'[m].voice = text
  <2>1. niche \in [Niches -> Niche]
    BY DEF IInv, Typed
  <2>2. PICK old \in Niche : old = niche[m]
    BY <2>1
  <2>3. PICK upd : upd = [voice |-> text, pivoted |-> FALSE, pivots |-> old.pivots]
    OBVIOUS
  <2>4. upd \in Niche /\ upd.voice = text /\ upd.pivots = old.pivots
    BY <1>5, <2>3 DEF Niche
  <2>5. niche' = [niche EXCEPT ![m] = upd]
    BY <1>1, <1>4, <2>1, <2>2, <2>3 DEF SeedNiche
  <2> QED BY <2>1, <2>2, <2>4, <2>5
<1>8. Voices'
  <2>1. ASSUME NEW n \in Niches PROVE GoodText(niche'[n].voice, niche'[n].pivots, notes')
    BY <1>2, <1>6, <1>7 DEF IInv, Voices
  <2> QED BY <2>1 DEF Voices
<1>9. Carried'
  <2>1. ASSUME NEW q \in Processes, process[q].pc \in {"push", "voice"}
        PROVE  /\ process[q].note <= notes'
               /\ \A n \in Niches :
                    GoodText(process[q].read[n], niche'[n].pivots, process[q].note - 1)
               /\ process[q].pc = "voice" =>
                    process[q].note \in niche'[Head(process[q].todo)].pivots
    <3>1. HoldsGood(process[q]) /\ Here(q) \in Niches
      BY <2>1, WritingFacts
    <3> QED BY <1>2, <1>7, <2>1, <3>1 DEF HoldsGood, Here
  <2> QED BY <1>2, <2>1 DEF Carried, HoldsGood
<1>10. TypeOK' /\ Typed'
  <2>1. \A n \in Niches : niche'[n].voice \in Seq(0 .. MAX_NOTES) /\ Len(niche'[n].voice) <= TOTAL
    BY <1>8 DEF Voices, GoodText
  <2>2. \A n \in Niches : niche'[n].pivoted \in BOOLEAN /\ niche'[n].pivots \subseteq 1 .. MAX_NOTES
    BY <1>7 DEF Niche
  <2> QED BY <1>2, <1>7, <2>1, <2>2 DEF IInv, TypeOK, Typed
<1> QED BY <1>8, <1>9, <1>10 DEF IInv

\* Nothing depends on the day but its type.
LEMMA NextDayKeeps ==
  ASSUME LearningAssumption, IInv, NextDay
  PROVE  IInv'
<1>1. /\ day' \in 1 .. DAYS
      /\ UNCHANGED <<snapshots, niche, process, notes, peak>>
  BY DEF NextDay, IInv, TypeOK, LearningAssumption
<1> QED BY <1>1 DEF IInv, TypeOK, Typed, Voices, Carried, HoldsGood

-----------------------------------------------------------------------------
(* The invariant, and the theorems.                                        *)

\* The invariant holds at first.
LEMMA InvInit ==
  ASSUME LearningAssumption, Init
  PROVE  IInv
<1>1. /\ DAYS \in Nat \ {0} /\ MAX_NOTES \in Nat /\ TOTAL \in Nat \ {0}
      /\ day = 1 /\ snapshots = {} /\ notes = 0
      /\ niche = [n \in Niches |-> SeedNiche({})]
      /\ process = [p \in Processes |-> Idle]
      /\ peak = [pin \in Pins |-> 0]
  BY DEF Init, LearningAssumption
<1>2. PICK first : first = SeedNiche({})
  OBVIOUS
<1>3. /\ first.voice \in Seq(0 .. MAX_NOTES) /\ first.voice # << >>
      /\ Len(first.voice) = 1 /\ first.voice[1] = Seed
      /\ first \in Niche
  <2>1. first = [voice |-> <<Seed>>, pivoted |-> FALSE, pivots |-> {}]
    BY <1>2 DEF SeedNiche
  <2>2. PICK text : text = <<Seed>>
    OBVIOUS
  <2>3. /\ text \in Seq(0 .. MAX_NOTES) /\ text # << >>
        /\ Len(text) = 1 /\ text[1] = Seed
    BY <1>1, <2>2, SeedText
  <2> QED BY <2>1, <2>2, <2>3 DEF Niche
<1>4. Idle \in Process /\ Idle.pc = "idle"
  BY DEF Process, Ready, Idle
<1>5. niche = [n \in Niches |-> first]
  BY <1>1, <1>2
<1>6. Typed
  BY <1>1, <1>3, <1>4, <1>5 DEF Typed
<1>7. Carried
  BY <1>1, <1>4 DEF Carried, HoldsGood
<1>8. Voices
  <2>1. GoodText(first.voice, first.pivots, 0)
    BY <1>1, <1>3 DEF GoodText, Seed
  <2> QED BY <1>1, <1>5, <2>1 DEF Voices
<1>9. TypeOK
  <2>1. Len(first.voice) <= TOTAL
    BY <1>1, <1>3
  <2>2. \A n \in Niches :
          /\ niche[n].voice \in Seq(0 .. MAX_NOTES) /\ Len(niche[n].voice) <= TOTAL
          /\ niche[n].pivoted \in BOOLEAN
          /\ niche[n].pivots \subseteq 1 .. MAX_NOTES
    BY <1>3, <1>5, <2>1 DEF Niche
  <2>3. \A p \in Processes : process[p].pc = "idle"
    BY <1>1, <1>4
  <2>4. day \in 1 .. DAYS /\ notes \in 0 .. MAX_NOTES /\ peak \in [Pins -> {0} \cup Reports]
    BY <1>1
  <2>5. snapshots \subseteq [pin : Pins, day : 1 .. DAYS, n : Reports]
    BY <1>1
  <2> QED BY <2>2, <2>3, <2>4, <2>5 DEF TypeOK
<1> QED BY <1>6, <1>7, <1>8, <1>9 DEF IInv

\* Every step keeps the invariant.
LEMMA InvNext ==
  ASSUME LearningAssumption, IInv, [Next]_vars
  PROVE  IInv'
<1>1. ASSUME NEW p \in Processes, ProcessStep(p) PROVE IInv'
  BY <1>1, ReportKeeps, UpsertKeeps, ReviewKeeps, SkipItemKeeps, BeginItemKeeps, PushPivotKeeps,
     SetVoiceKeeps, SetStyleKeeps DEF ProcessStep
<1>2. ASSUME NEW p \in Processes, StorageFails(p) \/ Crash(p) PROVE IInv'
  BY <1>2, StorageFailsKeeps, CrashKeeps
<1>3. CASE Reseed
  BY <1>3, ReseedKeeps
<1>4. CASE NextDay
  BY <1>4, NextDayKeeps
<1>5. CASE UNCHANGED vars
  BY <1>5 DEF vars, IInv, TypeOK, Typed, Voices, Carried, HoldsGood
<1> QED BY <1>1, <1>2, <1>3, <1>4, <1>5 DEF Next

\* The invariant holds of every behaviour.
LEMMA InvHolds == LearningAssumption => (Spec => []IInv)
<1> SUFFICES ASSUME LearningAssumption
             PROVE  Spec => []IInv
  OBVIOUS
<1>1. Init => IInv
  BY InvInit
<1>2. IInv /\ [Next]_vars => IInv'
  BY InvNext
<1> QED BY <1>1, <1>2, PTL DEF Spec

\* Every variable keeps its type: in particular no voice outgrows TOTAL.
THEOREM TypeCorrect == LearningAssumption => (Spec => []TypeOK)
<1>1. IInv => TypeOK
  BY DEF IInv
<1> QED BY <1>1, InvHolds, PTL

\* apply_pivots: a note in the voice of a niche is in its strategy_pivots, for
\* any number of analysts, crashes, failures and reseedings.
THEOREM EveryNoteIsRecorded == LearningAssumption => (Spec => []NothingUnrecorded)
<1>1. IInv => NothingUnrecorded
  BY DEF IInv, Voices, GoodText, NothingUnrecorded
<1> QED BY <1>1, InvHolds, PTL

\* apply_pivots and seed_niches: a voice begins with the seed voice, and its notes
\* follow in the order of their pivots, although texts are written back long after
\* they were read.
THEOREM SeedStaysFirst == LearningAssumption => (Spec => []SeedVoiceKept)
<1>1. IInv => SeedVoiceKept
  BY DEF IInv, Voices, GoodText, SeedVoiceKept
<1> QED BY <1>1, InvHolds, PTL

-----------------------------------------------------------------------------
(***************************************************************************)
(* Sums over a finite set.  What the library computes by recursion over    *)
(* the subsets is had without induction, from a least counterexample: of   *)
(* the subsets that violate what is claimed, one contains no other.        *)
(***************************************************************************)
Chosen(s) == CHOOSE x \in s : TRUE

\* The sum of s from the sums of smaller sets.
Adds(g, f, s) == IF s = {} THEN 0 ELSE f[Chosen(s)] + g[s \ {Chosen(s)}]

SumsOf(g, f, S) == g = [s \in SUBSET S |-> Adds(g, f, s)]

\* Of some subsets of a finite set one is least.
LEMMA LeastSet ==
  ASSUME NEW S, IsFiniteSet(S), NEW C, C \subseteq SUBSET S, C # {}
  PROVE  \E s \in C : \A t \in C : t \subseteq s => t = s
<1>1. C \subseteq FiniteSubsetsOf(S)
  BY FS_FiniteSubsetsOfFinite
<1>2. PICK s \in C : \A t \in C : <<t, s>> \notin StrictSubsetOrdering(S)
  BY <1>1, FS_StrictSubsetOrderingWellFounded, WFMin
<1>3. ASSUME NEW t \in C, t \subseteq s, t # s PROVE FALSE
  <2>1. t \in SUBSET S /\ s \in SUBSET S
    OBVIOUS
  <2>2. <<t, s>> \in StrictSubsetOrdering(S)
    BY <1>3, <2>1 DEF StrictSubsetOrdering
  <2> QED BY <1>2, <2>2
<1> QED BY <1>2, <1>3

\* There are such sums: for the sets of a size, from those of the size below.
LEMMA SumsExist ==
  ASSUME NEW S, IsFiniteSet(S), NEW f
  PROVE  \E g : SumsOf(g, f, S)
<1> DEFINE Upto(n, g) == \A s \in SUBSET S : Cardinality(s) <= n => g[s] = Adds(g, f, s)
           More(g) == [s \in SUBSET S |-> Adds(g, f, s)]
           Reached(s) == \E g : Upto(Cardinality(s), g)
           Beyond == { s \in SUBSET S : ~Reached(s) }
<1>1. \A s \in SUBSET S : /\ IsFiniteSet(s) /\ Cardinality(s) \in Nat
                          /\ s = {} <=> Cardinality(s) = 0
  BY FS_Subset, FS_CardinalityType, FS_EmptySet
<1>2. \A s \in SUBSET S : s # {} => /\ Chosen(s) \in s
                                    /\ s \ {Chosen(s)} \in SUBSET S
                                    /\ Cardinality(s \ {Chosen(s)}) = Cardinality(s) - 1
  BY <1>1, FS_RemoveElement DEF Chosen
<1>3. ASSUME NEW n \in Nat, NEW g, Upto(n, g) PROVE Upto(n + 1, More(g))
  <2>1. SUFFICES ASSUME NEW s \in SUBSET S, Cardinality(s) <= n + 1, s # {}
                 PROVE  More(g)[s] = Adds(More(g), f, s)
    <3>1. More(g)[{}] = Adds(More(g), f, {})
      BY DEF Adds
    <3> QED BY <3>1
  <2>2. PICK t \in SUBSET S : t = s \ {Chosen(s)} /\ Cardinality(t) <= n
    <3>1. /\ s \ {Chosen(s)} \in SUBSET S
          /\ Cardinality(s \ {Chosen(s)}) = Cardinality(s) - 1
          /\ Cardinality(s) \in Nat
      BY <1>1, <1>2, <2>1
    <3>2. Cardinality(s \ {Chosen(s)}) <= n
      BY <2>1, <3>1
    <3> QED BY <3>1, <3>2
  <2>3. g[t] = Adds(g, f, t)
    BY <1>3, <2>2
  <2>4. More(g)[t] = g[t]
    BY <2>3
  <2>5. More(g)[s] = f[Chosen(s)] + g[t]
    BY <2>1, <2>2 DEF Adds
  <2>6. Adds(More(g), f, s) = f[Chosen(s)] + More(g)[t]
    BY <2>1, <2>2 DEF Adds
  <2> QED BY <2>4, <2>5, <2>6
<1> HIDE DEF More
<1>4. Beyond = {}
  <2>1. SUFFICES ASSUME Beyond # {} PROVE FALSE
    OBVIOUS
  <2>2. PICK s \in Beyond : \A t \in Beyond : t \subseteq s => t = s
    <3>1. Beyond \subseteq SUBSET S
      OBVIOUS
    <3> HIDE DEF Beyond
    <3> QED BY <2>1, <3>1, LeastSet
  <2>3. CASE s = {}
    <3>1. Upto(0, [t \in SUBSET S |-> 0])
      BY <1>1 DEF Adds
    <3> QED BY <1>1, <2>2, <2>3, <3>1
  <2>4. CASE s # {}
    <3>1. PICK t \in SUBSET S : t = s \ {Chosen(s)} /\ Cardinality(t) = Cardinality(s) - 1
      BY <1>2, <2>2, <2>4
    <3>2. t \subseteq s /\ t # s
      BY <1>2, <2>2, <2>4, <3>1
    <3>3. PICK g : Upto(Cardinality(t), g)
      BY <2>2, <3>1, <3>2
    <3>31. Cardinality(t) \in Nat
      BY <1>1, <3>1
    <3> HIDE DEF Upto
    <3>4. Upto(Cardinality(t) + 1, More(g))
      BY <1>3, <3>3, <3>31
    <3>5. Cardinality(t) + 1 = Cardinality(s)
      BY <1>1, <2>2, <3>1
    <3> QED BY <2>2, <3>4, <3>5
  <2> QED BY <2>3, <2>4
<1>5. PICK g : Upto(Cardinality(S), g)
  BY <1>4
<1>6. \A s \in SUBSET S : Cardinality(s) <= Cardinality(S)
  BY FS_Subset
<1>7. \A s \in SUBSET S : g[s] = Adds(g, f, s)
  BY <1>5, <1>6
<1>8. \A s \in SUBSET S : Adds(More(g), f, s) = Adds(g, f, s)
  BY <1>2, <1>7 DEF Adds, More
<1>9. SumsOf(More(g), f, S)
  BY <1>8 DEF SumsOf, More
<1> QED BY <1>9

\* SumOver is computed by such sums.
LEMMA SumIsComputed ==
  ASSUME NEW S, IsFiniteSet(S), NEW f
  PROVE  \E g : SumsOf(g, f, S) /\ SumOver(f, S) = g[S]
<1>1. SumOver(f, S) = (CHOOSE g : SumsOf(g, f, S))[S]
  BY DEF SumOver, FoldFunctionOnSet, MapThenFoldSet, SumsOf, Adds, Chosen
<1>2. SumsOf(CHOOSE g : SumsOf(g, f, S), f, S)
  BY SumsExist
<1> QED BY <1>1, <1>2

\* Any element may be added last, and sums of natural numbers are natural.
LEMMA AnyLast ==
  ASSUME NEW S, IsFiniteSet(S), NEW f, \A x \in S : f[x] \in Nat,
         NEW g, SumsOf(g, f, S)
  PROVE  \A s \in SUBSET S : /\ g[s] \in Nat
                             /\ s = {} => g[s] = 0
                             /\ \A x \in s : g[s] = f[x] + g[s \ {x}]
<1> DEFINE Fine(s) == g[s] \in Nat /\ \A x \in s : g[s] = f[x] + g[s \ {x}]
           Odd == { s \in SUBSET S : ~Fine(s) }
<1>1. \A s \in SUBSET S : g[s] = Adds(g, f, s)
  BY DEF SumsOf
<1>2. g[{}] = 0
  BY <1>1 DEF Adds
<1>3. Odd = {}
  <2>1. SUFFICES ASSUME Odd # {} PROVE FALSE
    OBVIOUS
  <2>2. PICK s \in Odd : \A t \in Odd : t \subseteq s => t = s
    <3>1. Odd \subseteq SUBSET S
      OBVIOUS
    <3> HIDE DEF Odd
    <3> QED BY <2>1, <3>1, LeastSet
  <2>3. s # {} /\ s \in SUBSET S
    <3>1. Fine({})
      BY <1>2
    <3> QED BY <2>2, <3>1
  <2>4. PICK c \in s : c = Chosen(s)
    BY <2>3 DEF Chosen
  <2>5. g[s] = f[c] + g[s \ {c}] /\ f[c] \in Nat
    BY <1>1, <2>3, <2>4 DEF Adds
  <2>6. \A x \in s : Fine(s \ {x})
    BY <2>2, <2>3
  <2>7. g[s] \in Nat
    <3>1. g[s \ {c}] \in Nat
      BY <2>6
    <3> HIDE DEF Fine
    <3> QED BY <2>5, <3>1
  <2>8. ASSUME NEW x \in s, x # c PROVE g[s] = f[x] + g[s \ {x}]
    <3>1. g[s \ {c}] = f[x] + g[(s \ {c}) \ {x}]
      BY <2>6, <2>8
    <3>2. g[s \ {x}] = f[c] + g[(s \ {x}) \ {c}]
      BY <2>4, <2>6, <2>8
    <3>3. (s \ {c}) \ {x} = (s \ {x}) \ {c}
      OBVIOUS
    <3>4. PICK rest \in Nat : rest = g[(s \ {x}) \ {c}]
      <4>1. (s \ {x}) \ {c} \notin Odd
        BY <2>2, <2>3, <2>4
      <4> QED BY <2>3, <4>1
    <3>5. f[x] \in Nat /\ f[c] \in Nat
      BY <2>3
    <3>6. g[s \ {c}] = f[x] + rest /\ g[s \ {x}] = f[c] + rest
      BY <3>1, <3>2, <3>3, <3>4
    <3> QED BY <2>5, <3>5, <3>6
  <2> QED BY <2>2, <2>5, <2>7, <2>8
<1> QED BY <1>2, <1>3

\* What is at most as much, of at most as many, sums up to at most as much.
LEMMA SumMonotone ==
  ASSUME NEW T, IsFiniteSet(T), NEW S \in SUBSET T, NEW f, NEW k,
         \A x \in S : f[x] \in Nat /\ f[x] <= k[x],
         \A x \in T : k[x] \in Nat
  PROVE  SumOver(f, S) \in Nat /\ SumOver(k, T) \in Nat /\ SumOver(f, S) <= SumOver(k, T)
<1>1. IsFiniteSet(S)
  BY FS_Subset
<1>2. PICK g : SumsOf(g, f, S) /\ SumOver(f, S) = g[S]
  BY <1>1, SumIsComputed
<1>3. PICK h : SumsOf(h, k, T) /\ SumOver(k, T) = h[T]
  BY SumIsComputed
<1>4. \A s \in SUBSET S : g[s] \in Nat /\ (s = {} => g[s] = 0) /\ \A x \in s : g[s] = f[x] + g[s \ {x}]
  BY <1>1, <1>2, AnyLast
<1>5. \A s \in SUBSET T : h[s] \in Nat /\ (s = {} => h[s] = 0) /\ \A x \in s : h[s] = k[x] + h[s \ {x}]
  BY <1>3, AnyLast
<1> DEFINE Odd == { s \in SUBSET T : ~ g[s \cap S] <= h[s] }
<1>6. Odd = {}
  <2>1. SUFFICES ASSUME Odd # {} PROVE FALSE
    OBVIOUS
  <2>2. PICK s \in Odd : \A t \in Odd : t \subseteq s => t = s
    <3>1. Odd \subseteq SUBSET T
      OBVIOUS
    <3> HIDE DEF Odd
    <3> QED BY <2>1, <3>1, LeastSet
  <2>3. s # {}
    <3>1. {} \cap S = {} /\ {} \in SUBSET S /\ {} \in SUBSET T
      OBVIOUS
    <3> QED BY <1>4, <1>5, <2>2, <3>1
  <2>4. PICK x \in s : TRUE
    BY <2>3
  <2>5. PICK t \in SUBSET T : t = s \ {x} /\ g[t \cap S] <= h[t]
    <3>1. s \ {x} \in SUBSET T /\ s \ {x} \notin Odd
      BY <2>2, <2>4
    <3>2. g[(s \ {x}) \cap S] <= h[s \ {x}]
      BY <3>1
    <3> QED BY <3>1, <3>2
  <2>6. h[s] = k[x] + h[t] /\ h[t] \in Nat /\ k[x] \in Nat
    BY <1>5, <2>2, <2>4, <2>5
  <2>7. g[t \cap S] \in Nat
    BY <1>4
  <2>8. CASE x \in S
    <3>1. t \cap S = (s \cap S) \ {x}
      BY <2>5
    <3>2. g[s \cap S] = f[x] + g[t \cap S] /\ f[x] \in Nat /\ f[x] <= k[x]
      <4>1. s \cap S \in SUBSET S /\ x \in s \cap S
        BY <2>4, <2>8
      <4> QED BY <1>4, <2>8, <3>1, <4>1
    <3>3. g[s \cap S] <= h[s]
      BY <2>5, <2>6, <2>7, <3>2
    <3> QED BY <2>2, <3>3
  <2>9. CASE x \notin S
    <3>1. t \cap S = s \cap S
      BY <2>5, <2>9
    <3>2. PICK sum \in Nat : sum = g[t \cap S] /\ sum = g[s \cap S]
      BY <2>7, <3>1
    <3>3. sum <= h[s]
      BY <2>5, <2>6, <3>2
    <3> QED BY <2>2, <3>2, <3>3
  <2> QED BY <2>8, <2>9
<1>7. T \notin Odd /\ T \cap S = S /\ S \in SUBSET S /\ T \in SUBSET T
  BY <1>6
<1> QED BY <1>2, <1>3, <1>4, <1>5, <1>7

-----------------------------------------------------------------------------
(***************************************************************************)
(* The evidence for a pivot.  What a process is about to store, and what   *)
(* is stored, is no more than what Pinterest has reported of the pin at    *)
(* some time, so the best snapshots add up to no more than the peaks do;   *)
(* and peaks only grow, so evidence that was there once is there still     *)
(* when the pivot is applied.                                              *)
(***************************************************************************)
Measured == SumOver(peak, Pins) >= MIN_IMPRESSIONS

Relies(held) == held.pc \notin {"idle", "found"} /\ held.enough

Supported ==
  /\ \A s \in snapshots : s.n <= peak[s.pin]
  /\ \A p \in Processes : /\ At(p, "found") => process[p].n <= peak[process[p].pin]
                          /\ Relies(process[p]) => Measured
  /\ notes > 0 => Measured

PeakGrows == \A pin \in Pins : peak[pin] <= peak'[pin]

\* The greatest of some natural numbers is one of them, if they have a bound.
LEMMA MaxIsOne ==
  ASSUME NEW S \in SUBSET Nat, S # {}, NEW bound \in Nat, \A n \in S : n <= bound
  PROVE  Max(S) \in S
<1> DEFINE Bounds == { b \in Nat : \A n \in S : n <= b }
<1>1. PICK b \in Bounds : \A c \in Bounds : <<c, b>> \notin OpToRel(<, Nat)
  <2>1. Bounds \subseteq Nat /\ Bounds # {}
    OBVIOUS
  <2> HIDE DEF Bounds
  <2> QED BY <2>1, NatLessThanWellFounded, WFMin
<1>2. \A c \in Bounds : ~(c < b)
  BY <1>1 DEF OpToRel
<1>3. b \in S
  <2>1. SUFFICES ASSUME b \notin S PROVE FALSE
    OBVIOUS
  <2>2. PICK n \in S : TRUE
    OBVIOUS
  <2>3. b - 1 \in Nat
    BY <2>1, <2>2
  <2>4. \A m \in S : m <= b - 1
    BY <2>1
  <2> QED BY <1>2, <2>3, <2>4
<1>4. \E x \in S : \A y \in S : x >= y
  BY <1>3
<1> QED BY <1>4 DEF Max

\* The types the sums are taken at.
LEMMA PeakType ==
  ASSUME LearningAssumption, IInv
  PROVE  /\ IsFiniteSet(Pins) /\ MIN_IMPRESSIONS \in Nat /\ Reports \subseteq Nat
         /\ peak \in [Pins -> Nat]
         /\ \A s \in snapshots : s.pin \in Pins /\ s.n \in Nat
<1>1. IsFiniteSet(Pins) /\ MIN_IMPRESSIONS \in Nat /\ Reports \subseteq Nat
  BY DEF LearningAssumption
<1>2. /\ peak \in [Pins -> {0} \cup Reports]
      /\ snapshots \subseteq [pin : Pins, day : 1 .. DAYS, n : Reports]
  BY DEF IInv, TypeOK
<1>3. peak \in [Pins -> Nat]
  <2>1. {0} \cup Reports \subseteq Nat
    BY <1>1
  <2> QED BY <1>2, <2>1
<1>4. \A s \in snapshots : s.pin \in Pins /\ s.n \in Nat
  BY <1>1, <1>2
<1> QED BY <1>1, <1>3, <1>4

\* The same after a step.
LEMMA PeakTypeNext ==
  ASSUME LearningAssumption, IInv'
  PROVE  peak' \in [Pins -> Nat]
<1>1. Reports \subseteq Nat
  BY DEF LearningAssumption
<1>2. peak' \in [Pins -> {0} \cup Reports]
  BY DEF IInv, TypeOK
<1>3. {0} \cup Reports \subseteq Nat
  BY <1>1
<1> QED BY <1>2, <1>3

\* The best snapshot of a pin is none better than its peak.
LEMMA BestBelowPeak ==
  ASSUME LearningAssumption, IInv, Supported, NEW pin \in Pins
  PROVE  Best(pin) \in Nat /\ Best(pin) <= peak[pin]
<1> DEFINE S == {0} \cup { s.n : s \in { s \in snapshots : s.pin = pin } }
<1>1. peak[pin] \in Nat
  BY PeakType
<1>2. \A s \in snapshots : s.n \in Nat /\ (s.pin = pin => s.n <= peak[pin])
  BY DEF LearningAssumption, IInv, TypeOK, Supported
<1>3. S \in SUBSET Nat /\ S # {} /\ \A n \in S : n <= peak[pin]
  BY <1>1, <1>2
<1>4. Best(pin) = Max(S)
  BY DEF Best
<1> HIDE DEF S
<1>5. Max(S) \in S
  BY <1>1, <1>3, MaxIsOne
<1> QED BY <1>3, <1>4, <1>5

\* What the analyst adds up is no more than what was reported.
LEMMA ImpressionsAreReported ==
  ASSUME LearningAssumption, IInv, Supported, NEW pins \in SUBSET Pins,
         Impressions(pins) >= MIN_IMPRESSIONS
  PROVE  Measured
<1> DEFINE best == [pin \in Pins |-> Best(pin)]
<1>1. \A pin \in pins : best[pin] \in Nat /\ best[pin] <= peak[pin]
  BY BestBelowPeak
<1>2. Impressions(pins) = SumOver(best, pins)
  BY DEF Impressions
<1> HIDE DEF best
<1>3. /\ SumOver(best, pins) \in Nat /\ SumOver(peak, Pins) \in Nat
      /\ SumOver(best, pins) <= SumOver(peak, Pins)
  BY <1>1, PeakType, SumMonotone
<1> QED BY <1>2, <1>3, PeakType DEF Measured

\* Evidence stays.
LEMMA MeasuredStays ==
  ASSUME LearningAssumption, IInv, IInv', PeakGrows, Measured
  PROVE  Measured'
<1>1. /\ IsFiniteSet(Pins) /\ MIN_IMPRESSIONS \in Nat
      /\ \A pin \in Pins : peak[pin] \in Nat /\ peak'[pin] \in Nat /\ peak[pin] <= peak'[pin]
  BY PeakType, PeakTypeNext DEF PeakGrows
<1>2. PICK later : later = peak'
  OBVIOUS
<1>3. /\ SumOver(peak, Pins) \in Nat /\ SumOver(later, Pins) \in Nat
      /\ SumOver(peak, Pins) <= SumOver(later, Pins)
  BY <1>1, <1>2, SumMonotone
<1>4. SumOver(later, Pins) >= MIN_IMPRESSIONS
  BY <1>1, <1>3 DEF Measured
<1>5. Measured' = (SumOver(later, Pins) >= MIN_IMPRESSIONS)
  BY <1>2 DEF Measured
<1> QED BY <1>4, <1>5

\* A step of one process is supported if what it stores was reported, and what
\* it holds and applies from now on has the evidence.
LEMMA SupportedStep ==
  ASSUME LearningAssumption, IInv, IInv', Supported, PeakGrows,
         NEW p \in Processes, NEW new, process' = [process EXCEPT ![p] = new],
         \A s \in snapshots' \ snapshots : s.n <= peak'[s.pin],
         new.pc = "found" => new.n <= peak'[new.pin],
         Relies(new) => Measured,
         notes' > 0 => Measured
  PROVE  Supported'
<1>1. Measured => Measured'
  BY MeasuredStays
<1>2. /\ \A pin \in Pins : peak[pin] \in Nat /\ peak'[pin] \in Nat /\ peak[pin] <= peak'[pin]
      /\ Reports \subseteq Nat
      /\ \A s \in snapshots : s.pin \in Pins /\ s.n \in Nat
  BY PeakType, PeakTypeNext DEF PeakGrows
<1>3. ASSUME NEW s \in snapshots' PROVE s.n <= peak'[s.pin]
  <2>1. CASE s \in snapshots
    BY <1>2, <2>1 DEF Supported
  <2> QED BY <2>1
<1>4. ASSUME NEW q \in Processes
      PROVE  /\ process'[q].pc = "found" => process'[q].n <= peak'[process'[q].pin]
             /\ Relies(process'[q]) => Measured'
  <2>1. CASE q = p
    <3>1. process'[q] = new
      BY <2>1 DEF IInv, Typed
    <3> QED BY <1>1, <3>1 DEF Relies
  <2>2. CASE q # p
    <3>1. process'[q] = process[q]
      BY <2>2 DEF IInv, Typed
    <3>2. ASSUME process[q].pc = "found" PROVE process[q].n <= peak'[process[q].pin]
      <4>1. process[q].pin \in Pins /\ process[q].n \in Reports
        <5>1. At(q, "found")
          BY <3>2 DEF At
        <5>2. process[q] \in [pc : {"found"}, pin : Pins, day : 1 .. DAYS, n : Reports, fresh : BOOLEAN]
          BY <5>1, FoundFacts
        <5> QED BY <5>2
      <4>2. process[q].n <= peak[process[q].pin]
        BY <3>2 DEF Supported, At
      <4>3. /\ peak[process[q].pin] \in Nat /\ peak'[process[q].pin] \in Nat
            /\ peak[process[q].pin] <= peak'[process[q].pin]
            /\ process[q].n \in Nat
        BY <1>2, <4>1
      <4> QED BY <4>2, <4>3
    <3>3. Relies(process[q]) => Measured'
      BY <1>1 DEF Supported
    <3> QED BY <3>1, <3>2, <3>3 DEF Relies
  <2> QED BY <2>1, <2>2
<1>5. \A q \in Processes : At(q, "found")' =>
        process'[q].n <= peak'[process'[q].pin]
  BY <1>4 DEF At
<1>6. \A q \in Processes : Relies(process[q])' => Measured'
  BY <1>4 DEF Relies
<1> QED BY <1>1, <1>3, <1>5, <1>6 DEF Supported

\* Going on to the next item or niche keeps the answer to whether there is enough.
LEMMA GoingOnKeepsEnough ==
  ASSUME IInv, NEW p \in Processes, process[p].pc \in {"item", "push", "voice", "style"},
         NextItem(p) \/ (process[p].pc # "item" /\ NextNiche(p))
  PROVE  \E new : /\ process' = [process EXCEPT ![p] = new]
                  /\ new.pc # "found"
                  /\ Relies(new) => Relies(process[p])
<1>1. CASE NextItem(p)
  <2>1. CASE Tail(process[p].items) = << >>
    <3>1. process' = [process EXCEPT ![p] = Idle]
      BY <1>1, <2>1 DEF NextItem, Goto
    <3>2. Idle.pc = "idle"
      BY DEF Idle
    <3> QED BY <3>1, <3>2 DEF Relies
  <2>2. CASE Tail(process[p].items) # << >>
    <3>1. PICK new : new = [pc |-> "item", items |-> Tail(process[p].items),
                            enough |-> process[p].enough]
      OBVIOUS
    <3>2. process' = [process EXCEPT ![p] = new]
      BY <1>1, <2>2, <3>1 DEF NextItem, Goto
    <3>3. new.pc # "found" /\ (Relies(new) => Relies(process[p]))
      BY <3>1 DEF Relies
    <3> QED BY <3>2, <3>3
  <2> QED BY <2>1, <2>2
<1>2. CASE process[p].pc # "item" /\ NextNiche(p) /\ ~NextItem(p)
  <2>1. PICK new : new = [process[p] EXCEPT !.todo = Tail(@),
                                            !.pc = IF @ = "voice" THEN "push" ELSE @]
    OBVIOUS
  <2>2. process' = [process EXCEPT ![p] = new]
    BY <1>2, <2>1 DEF NextNiche, Goto
  <2>3. process[p] \in Voicing \cup Styling
    BY <1>2, WritingFacts
  <2>4. new.pc # "found" /\ new.enough = process[p].enough
    BY <2>1, <2>3 DEF Voicing, Styling, Writing
  <2>5. Relies(new) => Relies(process[p])
    BY <1>2, <2>4 DEF Relies
  <2> QED BY <2>2, <2>4, <2>5
<1> QED BY <1>1, <1>2

\* Every step of a process is supported.
LEMMA ProcessIsSupported ==
  ASSUME LearningAssumption, IInv, IInv', Supported, NEW p \in Processes,
         ProcessStep(p) \/ StorageFails(p) \/ Crash(p)
  PROVE  Supported'
<1>1. CASE Report(p)
  <2>1. PICK pin \in Pins, n \in Reports :
          /\ Goto(p, [pc |-> "found", pin |-> pin, day |-> day, n |-> n, fresh |-> Today(pin) = {}])
          /\ peak' = [peak EXCEPT ![pin] = IF n > @ THEN n ELSE @]
          /\ UNCHANGED <<snapshots, notes>>
    BY <1>1 DEF Report
  <2>2. PICK new : new = [pc |-> "found", pin |-> pin, day |-> day, n |-> n, fresh |-> Today(pin) = {}]
    OBVIOUS
  <2>3. n \in Nat /\ peak \in [Pins -> Nat]
    BY PeakType
  <2>4. PeakGrows /\ n <= peak'[pin]
    BY <2>1, <2>3 DEF PeakGrows
  <2>5. process' = [process EXCEPT ![p] = new]
    BY <2>1, <2>2 DEF Goto
  <2>6. new.pc = "found" /\ new.n = n /\ new.pin = pin
    BY <2>2
  <2> QED BY <2>1, <2>4, <2>5, <2>6, SupportedStep DEF Relies, Supported
<1>2. ASSUME UNCHANGED peak PROVE PeakGrows
  <2>1. peak \in [Pins -> Nat]
    BY PeakType
  <2> QED BY <1>2, <2>1 DEF PeakGrows
<1>3. CASE Upsert(p)
  <2>1. \A s \in snapshots' \ snapshots : s = Snapshot(p)
    BY <1>3 DEF Upsert
  <2>2. Snapshot(p).n <= peak[Snapshot(p).pin]
    BY <1>3 DEF Snapshot, Upsert, Supported
  <2>3. process' = [process EXCEPT ![p] = Idle] /\ UNCHANGED <<peak, notes>>
    BY <1>3 DEF Upsert, Goto
  <2>4. \A s \in snapshots' \ snapshots : s.n <= peak'[s.pin]
    BY <2>1, <2>2, <2>3
  <2> QED BY <1>2, <2>3, <2>4, SupportedStep DEF Relies, Idle, Supported
<1>4. CASE Review(p)
  <2>1. PICK items, pins :
          /\ pins \in SUBSET Pins
          /\ Goto(p, [pc |-> "item", items |-> items, enough |-> Impressions(pins) >= MIN_IMPRESSIONS])
    BY <1>4 DEF Review
  <2>2. PICK new : new = [pc |-> "item", items |-> items,
                          enough |-> Impressions(pins) >= MIN_IMPRESSIONS]
    OBVIOUS
  <2>3. new.pc = "item" /\ (Relies(new) => Measured)
    BY <2>1, <2>2, ImpressionsAreReported DEF Relies
  <2>4. process' = [process EXCEPT ![p] = new]
    BY <2>1, <2>2 DEF Goto
  <2>5. UNCHANGED <<snapshots, notes, peak>>
    BY <1>4 DEF Review
  <2> QED BY <1>2, <2>3, <2>4, <2>5, SupportedStep DEF Supported
<1>5. CASE BeginItem(p)
  <2>1. Measured
    BY <1>5 DEF BeginItem, Refused, At, Supported, Relies
  <2>2. PICK new :
          /\ process' = [process EXCEPT ![p] = new]
          /\ new.pc \in {"push", "style"}
    <3>1. PICK new : new =
            [ pc |-> IF ItemOf(p) = "voice" THEN "push" ELSE "style",
              items |-> process[p].items, enough |-> TRUE,
              note |-> notes + 1, todo |-> SetToSeq(Niches),
              read |-> IF ItemOf(p) = "voice" THEN [n \in Niches |-> niche[n].voice] ELSE << >> ]
      OBVIOUS
    <3>2. new.pc \in {"push", "style"}
      BY <3>1
    <3> QED BY <1>5, <3>1, <3>2 DEF BeginItem
  <2>3. UNCHANGED <<snapshots, peak>>
    BY <1>5 DEF BeginItem
  <2> QED BY <1>2, <2>1, <2>2, <2>3, SupportedStep
<1>6. ASSUME /\ process[p].pc \in {"item", "push", "voice", "style"}
             /\ NextItem(p) \/ (process[p].pc # "item" /\ NextNiche(p))
             /\ UNCHANGED <<snapshots, notes, peak>>
      PROVE  Supported'
  <2>1. PICK new : /\ process' = [process EXCEPT ![p] = new]
                   /\ new.pc # "found"
                   /\ Relies(new) => Relies(process[p])
    BY <1>6, GoingOnKeepsEnough
  <2> QED BY <1>2, <1>6, <2>1, SupportedStep DEF Supported
<1>7. CASE SkipItem(p)
  BY <1>6, <1>7 DEF SkipItem, At
<1>8. CASE SetVoice(p) \/ SetStyle(p) \/ StorageFails(p)
  BY <1>6, <1>8 DEF SetVoice, SetStyle, StorageFails, At
<1>9. CASE PushPivot(p)
  <2>1. PICK new : new = [process[p] EXCEPT !.pc = "voice"]
    OBVIOUS
  <2>2. process' = [process EXCEPT ![p] = new] /\ UNCHANGED <<snapshots, notes, peak>>
    BY <1>9, <2>1 DEF PushPivot, Goto
  <2>3. process[p] \in Voicing
    BY <1>9, WritingFacts DEF PushPivot, At
  <2>4. new.pc = "voice" /\ new.enough = process[p].enough /\ process[p].pc \in {"push", "voice"}
    BY <2>1, <2>3 DEF Voicing, Writing
  <2> QED BY <1>2, <2>2, <2>4, SupportedStep DEF Relies, Supported
<1>10. CASE Crash(p)
  BY <1>2, <1>10, SupportedStep DEF Crash, Goto, Relies, Idle, Supported
<1> QED BY <1>1, <1>3, <1>4, <1>5, <1>7, <1>8, <1>9, <1>10 DEF ProcessStep

\* Every step is.
LEMMA SupportedNext ==
  ASSUME LearningAssumption, IInv, IInv', Supported, [Next]_vars
  PROVE  Supported'
<1>1. CASE \E p \in Processes : ProcessStep(p) \/ StorageFails(p) \/ Crash(p)
  BY <1>1, ProcessIsSupported
<1>2. CASE UNCHANGED <<snapshots, process, notes, peak>>
  BY <1>2 DEF Supported, Relies, Measured, At
<1> QED BY <1>1, <1>2 DEF Next, Reseed, NextDay, vars

\* apply_pivots: the floor under the evidence holds of every pivot, for any pins,
\* reports and collectors, although a pin has many snapshots.
THEOREM PivotsHaveEvidence == LearningAssumption => (Spec => []ActsOnEvidence)
<1> SUFFICES ASSUME LearningAssumption
             PROVE  Spec => []ActsOnEvidence
  OBVIOUS
<1>1. Init => Supported
  BY DEF Init, Supported, At, Relies, Idle
<1>2. IInv /\ IInv' /\ Supported /\ [Next]_vars => Supported'
  BY SupportedNext
<1>3. Supported => ActsOnEvidence
  BY DEF Supported, Measured, ActsOnEvidence
<1> QED BY <1>1, <1>2, <1>3, InvHolds, PTL DEF Spec
=============================================================================
