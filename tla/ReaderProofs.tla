--------------------------- MODULE ReaderProofs -----------------------------
(***************************************************************************)
(* Theorems about the ways of going through a sheet that MCReader puts     *)
(* side by side, for any sheets, buffers and charts.                       *)
(***************************************************************************)
EXTENDS Screen, Live, Glide, Follow, SequenceTheorems, FiniteSetTheorems, TLAPS

-----------------------------------------------------------------------------
(***************************************************************************)
(* Screen: hearing, following and scrolling, and what is heard, however    *)
(* the reader turns the controls.                                          *)
(***************************************************************************)

\* The tunings of one instrument are told apart by their strings.
LEMMA TuningsDiffer ==
  ASSUME NEW t \in TUNINGS, NEW u \in TUNINGS,
         t.instrument = u.instrument, t.strings = u.strings
  PROVE  t.id = u.id
  BY DEF TUNINGS, Tuned, STANDARD_STRINGS, UKULELE_STRINGS, BASS_STRINGS

LEMMA TuningShifts == \A t \in TUNINGS : t.shift \in Int /\ t.instrument # "piano"
  BY DEF TUNINGS, Tuned

\* getTuning finds a tuning of the kind's instrument.
LEMMA GetTuningFinds ==
  ASSUME NEW id, NEW kind
  PROVE  /\ getTuning(id, kind) \in TUNINGS
         /\ instrumentOf(kind) # "piano" => getTuning(id, kind).instrument = instrumentOf(kind)
  <1> DEFINE on == IF instrumentOf(kind) = "piano" THEN "guitar" ELSE instrumentOf(kind)
             named == IF id \in Offered(kind) THEN id ELSE "standard"
  <1>1. on \in {"guitar", "ukulele", "bass"}
    BY DEF instrumentOf, Instruments
  <1>2. \E t \in TUNINGS : t.instrument = on /\ t.id = named
    <2>1. CASE id \in Offered(kind)
      <3>1. PICK t \in tuningsFor(kind) : t.id = id
        BY <2>1 DEF Offered
      <3>2. t \in TUNINGS /\ t.instrument = instrumentOf(kind)
        BY <3>1 DEF tuningsFor
      <3> QED
        BY <2>1, <3>1, <3>2, TuningShifts
    <2>2. CASE id \notin Offered(kind)
      <3>1. /\ Tuned("guitar", "standard", STANDARD_STRINGS, 0) \in TUNINGS
            /\ Tuned("ukulele", "standard", UKULELE_STRINGS, 0) \in TUNINGS
            /\ Tuned("bass", "standard", BASS_STRINGS, 0) \in TUNINGS
        BY DEF TUNINGS
      <3> QED
        BY <2>2, <3>1, <1>1 DEF Tuned
    <2> QED
      BY <2>1, <2>2
  <1>3. getTuning(id, kind) = CHOOSE t \in TUNINGS : t.instrument = on /\ t.id = named
    BY DEF getTuning
  <1> HIDE DEF on, named
  <1>4. getTuning(id, kind) \in TUNINGS /\ getTuning(id, kind).instrument = on
    BY <1>2, <1>3
  <1> QED
    BY <1>4 DEF on

\* The capo that nobody can set: a piano's own sheet brings it.
Own == IF written = "piano" THEN sheet.capo ELSE 0

\* The fields and numbers of the knobs that what is heard is made of.
KnobsOK(k) ==
    /\ k = [transpose |-> k.transpose, capo |-> k.capo, readAs |-> k.readAs,
            tuningId |-> k.tuningId, simplify |-> k.simplify, tempo |-> k.tempo,
            bpmPref |-> k.bpmPref, picks |-> k.picks]
    /\ k.transpose \in Int /\ k.capo \in Int
    /\ k.readAs \in Instruments \cup {None}
    /\ ~strung(k) => k.capo = Own

SheetOK == sheet \in Sheets /\ sheet.kind \in Kinds /\ sheet.capo \in Int /\ sheet.chords \in Nat

\* A player has its fields, and its queue goes on from the chord heard; a
\* chord is marked without one only by a timer that was left.
PlayerOK ==
    /\ hearing \in Nat \cup {None} /\ stray \in BOOLEAN /\ late \in Seq(Nat)
    /\ player.on => hearing # None
    /\ hearing # None /\ ~player.on => stray
    /\ player.on =>
        /\ player = [on |-> TRUE, uses |-> player.uses, bpm |-> player.bpm,
                     next |-> player.next, due |-> player.due]
        /\ player.next \in Nat /\ player.due \in Seq(Nat)
        /\ player.uses = Uses(knobs) /\ player.bpm = bpm(knobs)
    /\ QueuedInOrder

\* Following that failed may still get ready, so it counts.
OneOn ==
    /\ hearing # None /\ (following # "off" \/ scrolling) => stray
    /\ ~(following # "off" /\ scrolling)

ScreenInv == SheetOK /\ KnobsOK(knobs) /\ PlayerOK /\ OneOn

LEMMA NoneIsNoNumber == None \notin Nat /\ None \notin Instruments
  BY ScreenAssumption

LEMMA SheetsOK ==
  ASSUME NEW s \in Sheets
  PROVE  s.kind \in Kinds /\ s.capo \in Int /\ s.chords \in Nat
  BY ScreenAssumption

\* Who reads for the instrument that the sheet is written for reads for one.
LEMMA InstrumentsRead ==
  ASSUME sheet.kind \in Kinds, NEW k, k.readAs \in Instruments \cup {None}
  PROVE  /\ written \in Instruments /\ instrument(k) \in Instruments
         /\ written = "piano" <=> sheet.kind = "piano"
  BY DEF written, instrument, instrumentOf, Instruments, Kinds

\* The tuning is one of the instrument's that is read for.
LEMMA TuningRead ==
  ASSUME sheet.kind \in Kinds, NEW k, k.readAs \in Instruments \cup {None}
  PROVE  /\ tuning(k) \in TUNINGS /\ tuning(k).shift \in Int
         /\ strung(k) => tuning(k).instrument = instrument(k)
         /\ sheetTuning \in TUNINGS /\ sheetShift \in Int
  <1>1. /\ tuning(k) \in TUNINGS /\ sheetTuning \in TUNINGS
        /\ instrumentOf(tuningKind(k)) # "piano" => tuning(k).instrument = instrumentOf(tuningKind(k))
    BY GetTuningFinds DEF tuning, sheetTuning
  <1>2. instrumentOf(tuningKind(k)) = instrument(k)
    BY InstrumentsRead DEF tuningKind, written, instrumentOf
  <1> QED
    BY <1>1, <1>2, TuningShifts DEF strung, sheetShift

\* A change that the effect sees no difference in makes none: `own`, which
\* `heard` leaves out, is settled by the strings.
LEMMA HeardIsAllUsed ==
  ASSUME sheet.kind \in Kinds, NEW j, NEW k,
         j.readAs \in Instruments \cup {None}, k.readAs \in Instruments \cup {None},
         heard(j) = heard(k)
  PROVE  Uses(j) = Uses(k)
  <1>1. /\ instrument(j) = instrument(k) /\ shift(j) = shift(k) /\ j.capo = k.capo
        /\ j.simplify = k.simplify /\ j.picks = k.picks
        /\ Uses(j).strings = Uses(k).strings /\ Uses(j).sound = Uses(k).sound
    BY DEF heard
  <1>2. strung(j) <=> strung(k)
    BY <1>1 DEF strung
  <1>3. asWritten(j) <=> asWritten(k)
    <2>1. CASE ~strung(j)
      BY <2>1, <1>2 DEF asWritten
    <2>2. CASE strung(j)
      <3>1. tuning(j).strings = tuning(k).strings
        BY <2>2, <1>1, <1>2 DEF Uses
      <3>2. tuning(j).id = tuning(k).id
        BY <2>2, <3>1, <1>1, <1>2, TuningRead, TuningsDiffer
      <3> QED
        BY <3>2, <1>1, <1>2 DEF asWritten
    <2> QED
      BY <2>1, <2>2
  <1> QED
    BY <1>1, <1>3 DEF Uses

\* A player that starts with a chord has it, or nothing, queued.
LEMMA HearStarts ==
  ASSUME NEW k, NEW from \in Nat, sheet.chords \in Nat, hear(k, from)
  PROVE  /\ hearing' = from /\ hearing' # None /\ stray' = stray
         /\ player' = [on |-> TRUE, uses |-> Uses(k), bpm |-> bpm(k),
                       next |-> player'.next, due |-> player'.due]
         /\ player'.next \in Nat /\ player'.due \in Seq(Nat)
         /\ QueuedInOrder'
  <1>1. CASE from < sheet.chords
    <2>1. player' = [on |-> TRUE, uses |-> Uses(k), bpm |-> bpm(k), next |-> from + 1, due |-> <<from>>]
      BY <1>1 DEF hear
    <2> QED
      BY <2>1, NoneIsNoNumber DEF hear, QueuedInOrder
  <1>2. CASE ~(from < sheet.chords)
    <2>1. player' = [on |-> TRUE, uses |-> Uses(k), bpm |-> bpm(k), next |-> from + 0, due |-> <<>>]
      BY <1>2 DEF hear
    <2> QED
      BY <2>1, NoneIsNoNumber DEF hear, QueuedInOrder
  <1> QED
    BY <1>1, <1>2

\* The controls that only set knobs keep all that is known.
LEMMA SetKeeps ==
  ASSUME ScreenInv, NEW k, KnobsOK(k), bpm(k) = bpm(knobs), Set(k)
  PROVE  ScreenInv'
  <1> USE DEF ScreenInv
  <1>1. /\ sheet' = sheet /\ knobs' = k /\ late' = late
        /\ following' = following /\ scrolling' = scrolling
    BY DEF Set
  <1>2. SheetOK' /\ KnobsOK(knobs)'
    BY <1>1 DEF SheetOK, KnobsOK, strung, instrument, written, Own
  <1>3. Uses(knobs)' = Uses(k) /\ bpm(knobs)' = bpm(k)
    BY <1>1 DEF Uses, bpm, instrument, written, shift, sheetShift, sheetTuning, strung,
                tuning, tuningKind, asWritten
  <1>4. CASE hearing # None /\ heard(k) # heard(knobs)
    <2>1. hear(k, hearing)
      BY <1>4 DEF Set
    <2>2. hearing \in Nat /\ sheet.chords \in Nat
      BY <1>4 DEF PlayerOK, SheetOK
    <2>3. PlayerOK'
      BY <2>1, <2>2, <1>1, <1>3, HearStarts DEF PlayerOK
    <2>4. OneOn'
      BY <2>1, <1>1, <1>4 DEF OneOn, hear
    <2> QED
      BY <1>2, <2>3, <2>4
  <1>5. CASE ~(hearing # None /\ heard(k) # heard(knobs))
    <2>1. hearing' = hearing /\ stray' = stray /\ player' = player
      BY <1>5 DEF Set, mark
    <2>2. player.on => Uses(k) = Uses(knobs)
      BY <1>5, HeardIsAllUsed DEF PlayerOK, SheetOK, KnobsOK
    <2>3. QueuedInOrder'
      BY <2>1 DEF PlayerOK, QueuedInOrder
    <2>4. PlayerOK'
      BY <2>1, <2>2, <2>3, <1>1, <1>3 DEF PlayerOK
    <2>5. OneOn'
      BY <2>1, <1>1 DEF OneOn
    <2> QED
      BY <1>2, <2>4, <2>5
  <1> QED
    BY <1>4, <1>5

\* A sheet opens with its own capo or, read for another instrument, with none.
LEMMA FreshOK ==
  ASSUME NEW s \in Sheets, NEW k, k.readAs \in Instruments \cup {None}
  PROVE  /\ sheet = s => KnobsOK(Fresh(s, k))
         /\ sheet' = s => \A j : j = Fresh(s, k) /\ knobs' = j => KnobsOK(knobs)'
  <1>1. s.capo \in Int /\ s.kind \in Kinds
    BY SheetsOK
  <1>2. instrumentOf(s.kind) \in Instruments
    BY <1>1 DEF instrumentOf, Instruments, Kinds
  <1> QED
    BY <1>1, <1>2, NoneIsNoNumber DEF KnobsOK, Fresh, strung, instrument, written, Own

LEMMA ScreenStarts == ScreenInit => ScreenInv
  <1> SUFFICES ASSUME ScreenInit PROVE ScreenInv
    OBVIOUS
  <1>1. SheetOK
    BY SheetsOK DEF ScreenInit, SheetOK
  <1>2. PICK readAs \in Instruments \cup {None} :
          knobs = Fresh(sheet, [readAs |-> readAs, bpmPref |-> 90, picks |-> FALSE])
    BY DEF ScreenInit
  <1>3. KnobsOK(knobs)
    BY <1>1, <1>2, FreshOK DEF SheetOK
  <1>4. hearing = None /\ ~player.on /\ stray = FALSE /\ late \in Seq(Nat)
    BY DEF ScreenInit, Off
  <1>5. PlayerOK /\ OneOn
    BY <1>4 DEF ScreenInit, PlayerOK, QueuedInOrder, OneOn
  <1> QED
    BY <1>1, <1>3, <1>5 DEF ScreenInv

\* The knobs, the sheet and what runs, as far as a step leaves them alone.
LEMMA SameKnobs ==
  ASSUME sheet' = sheet, knobs' = knobs
  PROVE  /\ SheetOK' <=> SheetOK
         /\ KnobsOK(knobs)' <=> KnobsOK(knobs)
         /\ Uses(knobs)' = Uses(knobs) /\ bpm(knobs)' = bpm(knobs)
  BY DEF SheetOK, KnobsOK, Own, Uses, bpm, instrument, written, shift, sheetShift, sheetTuning,
         strung, tuning, tuningKind, asWritten

\* A player that a step starts, on the knobs there are or those it sets.
LEMMA HearKeeps ==
  ASSUME ScreenInv, NEW from \in Nat, sheet' = sheet, KnobsOK(knobs)',
         hear(knobs', from), late' = late,
         following' # "off" \/ scrolling' => stray, ~(following' # "off" /\ scrolling')
  PROVE  ScreenInv'
  <1>1. SheetOK'
    BY DEF ScreenInv, SheetOK
  <1>2. Uses(knobs)' = Uses(knobs') /\ bpm(knobs)' = bpm(knobs')
    BY DEF Uses, bpm, instrument, written, shift, sheetShift, sheetTuning, strung, tuning,
           tuningKind, asWritten
  <1>3. PlayerOK'
    BY <1>2, HearStarts DEF ScreenInv, SheetOK, PlayerOK
  <1>4. OneOn'
    BY DEF OneOn, hear
  <1> QED
    BY <1>1, <1>3, <1>4 DEF ScreenInv

\* A step that silences, and one that leaves the player alone.
LEMMA SilenceKeeps ==
  ASSUME ScreenInv, SheetOK', KnobsOK(knobs)', silence, late' \in Seq(Nat),
         ~(following' # "off" /\ scrolling')
  PROVE  ScreenInv'
  BY DEF ScreenInv, silence, Off, PlayerOK, QueuedInOrder, OneOn

LEMMA PlayingOn ==
  ASSUME ScreenInv, sheet' = sheet, knobs' = knobs, UNCHANGED <<mark, player, late>>,
         following' # "off" => following # "off", scrolling' => scrolling
  PROVE  ScreenInv'
  <1>0. hearing' = hearing /\ stray' = stray /\ player' = player /\ late' = late
    BY DEF mark
  <1>1. SheetOK' /\ KnobsOK(knobs)' /\ Uses(knobs)' = Uses(knobs) /\ bpm(knobs)' = bpm(knobs)
    BY SameKnobs DEF ScreenInv
  <1>2. QueuedInOrder'
    BY <1>0 DEF ScreenInv, PlayerOK, QueuedInOrder
  <1>3. PlayerOK'
    BY <1>0, <1>1, <1>2 DEF ScreenInv, PlayerOK
  <1>4. OneOn'
    BY <1>0 DEF ScreenInv, OneOn
  <1> QED
    BY <1>1, <1>3, <1>4 DEF ScreenInv

\* What an interval, a timer or the end of the chart does.
LEMMA PlayerKeeps ==
  ASSUME ScreenInv, Tick \/ ChordStarts \/ ChartEnds
  PROVE  ScreenInv'
  <1>0. /\ sheet' = sheet /\ knobs' = knobs /\ following' = following /\ scrolling' = scrolling
        /\ player.on
        /\ player = [on |-> TRUE, uses |-> player.uses, bpm |-> player.bpm,
                     next |-> player.next, due |-> player.due]
        /\ player.next \in Nat /\ player.due \in Seq(Nat)
    BY DEF ScreenInv, PlayerOK, Tick, ChordStarts, ChartEnds
  <1>1. SheetOK' /\ KnobsOK(knobs)' /\ Uses(knobs)' = Uses(knobs) /\ bpm(knobs)' = bpm(knobs)
    BY <1>0, SameKnobs DEF ScreenInv
  <1>2. CASE Tick
    <2>1. /\ hearing' = hearing /\ stray' = stray /\ late' = late
          /\ player' = [on |-> TRUE, uses |-> player.uses, bpm |-> player.bpm,
                        next |-> player.next + 1, due |-> Append(player.due, player.next)]
      BY <1>0, <1>2 DEF Tick, mark
    <2>2. /\ Len(Append(player.due, player.next)) = Len(player.due) + 1
          /\ Append(player.due, player.next) \in Seq(Nat)
          /\ \A i \in 1..(Len(player.due) + 1) : Append(player.due, player.next)[i] =
               IF i <= Len(player.due) THEN player.due[i] ELSE player.next
      BY <1>0
    <2>3. QueuedInOrder'
      BY <1>0, <2>1, <2>2 DEF ScreenInv, PlayerOK, QueuedInOrder
    <2>4. PlayerOK'
      BY <1>0, <1>1, <2>1, <2>2, <2>3 DEF ScreenInv, PlayerOK
    <2> QED
      BY <1>0, <1>1, <2>1, <2>4 DEF ScreenInv, OneOn
  <1>3. CASE ChordStarts
    <2>1. /\ hearing' = Head(player.due) /\ player.due # <<>>
          /\ stray' = stray /\ late' = late
          /\ player' = [on |-> TRUE, uses |-> player.uses, bpm |-> player.bpm,
                        next |-> player.next, due |-> Tail(player.due)]
      BY <1>0, <1>3 DEF ChordStarts
    <2>2. /\ Len(Tail(player.due)) = Len(player.due) - 1 /\ Tail(player.due) \in Seq(Nat)
          /\ Len(player.due) \in Nat \ {0} /\ Head(player.due) = player.due[1]
          /\ Head(player.due) \in Nat
          /\ \A i \in 1..(Len(player.due) - 1) : Tail(player.due)[i] = player.due[i + 1]
      BY <1>0, <2>1
    <2>3. QueuedInOrder'
      <3> DEFINE first == player.next - Len(player.due)
      <3>1. \A i \in 1..Len(player.due) : player.due[i] = first + i - 1
        BY <1>0 DEF ScreenInv, PlayerOK, QueuedInOrder
      <3>2. hearing' = first
        <4>1. 1 \in 1..Len(player.due) /\ first \in Int
          BY <1>0, <2>2
        <4>2. player.due[1] = first + 1 - 1
          BY <4>1, <3>1
        <4> QED
          BY <4>1, <4>2, <2>1, <2>2
      <3>2a. first \in Int
        BY <1>0, <2>2
      <3>3. player'.next - Len(player'.due) = first + 1
        BY <1>0, <2>1, <2>2
      <3>4. \A i \in DOMAIN player'.due : player'.due[i] = (first + 1) + i - 1
        <4>1. player'.due = Tail(player.due) /\ DOMAIN Tail(player.due) = 1..(Len(player.due) - 1)
          BY <2>1, <2>2
        <4> SUFFICES ASSUME NEW i \in 1..(Len(player.due) - 1)
                     PROVE  Tail(player.due)[i] = (first + 1) + i - 1
          BY <4>1
        <4>2. i + 1 \in 1..Len(player.due) /\ Tail(player.due)[i] = player.due[i + 1]
          BY <2>2
        <4> QED
          BY <4>2, <3>1, <1>0, <2>2
      <3> QED
        BY <3>2, <3>3, <3>4, <3>2a DEF QueuedInOrder
    <2>4. PlayerOK'
      BY <1>0, <1>1, <2>1, <2>2, <2>3, NoneIsNoNumber DEF ScreenInv, PlayerOK
    <2>5. hearing # None
      BY <1>0 DEF ScreenInv, PlayerOK
    <2> QED
      BY <1>0, <1>1, <2>1, <2>4, <2>5 DEF ScreenInv, OneOn
  <1>4. CASE ChartEnds
    <2>1. late' = late \o player.due /\ late \in Seq(Nat) /\ silence
      BY <1>4 DEF ChartEnds, ScreenInv, PlayerOK
    <2>2. late' \in Seq(Nat)
      BY <1>0, <2>1
    <2> QED
      BY <1>0, <1>1, <2>1, <2>2, SilenceKeeps DEF ScreenInv, OneOn
  <1> QED
    BY <1>2, <1>3, <1>4

\* What the timer of a player that has ended does.
LEMMA StrayKeeps ==
  ASSUME ScreenInv, LateStarts
  PROVE  ScreenInv'
  <1>1. /\ sheet' = sheet /\ knobs' = knobs /\ player' = player
        /\ following' = following /\ scrolling' = scrolling
        /\ hearing' = Head(late) /\ late' = Tail(late) /\ stray' = TRUE
        /\ late # <<>> /\ late \in Seq(Nat)
    BY DEF LateStarts, ScreenInv, PlayerOK
  <1>2. hearing' \in Nat /\ late' \in Seq(Nat)
    BY <1>1
  <1>3. SheetOK' /\ KnobsOK(knobs)' /\ Uses(knobs)' = Uses(knobs) /\ bpm(knobs)' = bpm(knobs)
    BY <1>1, SameKnobs DEF ScreenInv
  <1>4. QueuedInOrder'
    BY <1>1 DEF ScreenInv, PlayerOK, QueuedInOrder
  <1>5. PlayerOK'
    BY <1>1, <1>2, <1>3, <1>4, NoneIsNoNumber DEF ScreenInv, PlayerOK
  <1>6. OneOn'
    BY <1>1 DEF ScreenInv, OneOn
  <1> QED
    BY <1>3, <1>5, <1>6 DEF ScreenInv

\* A control that sets one of the knobs.
LEMMA KnobSet ==
  ASSUME ScreenInv, NEW k, Set(k),
         k = [transpose |-> k.transpose, capo |-> k.capo, readAs |-> k.readAs,
              tuningId |-> k.tuningId, simplify |-> k.simplify, tempo |-> k.tempo,
              bpmPref |-> k.bpmPref, picks |-> k.picks],
         k.transpose \in Int, k.capo \in Int, k.readAs \in Instruments \cup {None},
         ~strung(k) => k.capo = Own, k.tempo = knobs.tempo, k.bpmPref = knobs.bpmPref
  PROVE  ScreenInv'
  <1>1. KnobsOK(k) /\ bpm(k) = bpm(knobs)
    BY DEF KnobsOK, bpm
  <1> QED
    BY <1>1, SetKeeps

\* Each of the controls that turn a knob.
LEMMA KnobsKeep ==
  ASSUME ScreenInv,
         \/ \E d \in {-1, 1} : stepTranspose(d) \/ stepCapo(d)
         \/ \E i \in Instruments : setInstrument(i)
         \/ \E id \in TuningIds : setTuning(id)
         \/ ResetTranspose \/ toggleSimplify \/ pick
  PROVE  ScreenInv'
  <1>0. KnobsOK(knobs) /\ SheetOK
    BY DEF ScreenInv
  <1> USE DEF KnobsOK, strung, instrument
  <1>1. ASSUME NEW d \in {-1, 1}, stepTranspose(d) PROVE ScreenInv'
    BY <1>0, <1>1, KnobSet DEF stepTranspose
  <1>2. ASSUME NEW d \in {-1, 1}, stepCapo(d) PROVE ScreenInv'
    BY <1>0, <1>2, KnobSet DEF stepCapo, capoable
  <1>3. ASSUME NEW i \in Instruments, setInstrument(i) PROVE ScreenInv'
    <2> DEFINE as == IF i = written THEN None ELSE i
               on == IF i = written THEN sheet.capo ELSE 0
               j == [knobs EXCEPT !.readAs = as]
               l == [j EXCEPT !.capo = on]
               k == [l EXCEPT !.tuningId = None]
    <2>1a. j = [transpose |-> knobs.transpose, capo |-> knobs.capo, readAs |-> as,
                tuningId |-> knobs.tuningId, simplify |-> knobs.simplify,
                tempo |-> knobs.tempo, bpmPref |-> knobs.bpmPref, picks |-> knobs.picks]
      BY <1>0
    <2> HIDE DEF j
    <2>1b. l = [transpose |-> knobs.transpose, capo |-> on, readAs |-> as,
                tuningId |-> knobs.tuningId, simplify |-> knobs.simplify,
                tempo |-> knobs.tempo, bpmPref |-> knobs.bpmPref, picks |-> knobs.picks]
      BY <2>1a
    <2> HIDE DEF l
    <2>2. k = [transpose |-> knobs.transpose, capo |-> on, readAs |-> as,
               tuningId |-> None, simplify |-> knobs.simplify,
               tempo |-> knobs.tempo, bpmPref |-> knobs.bpmPref, picks |-> knobs.picks]
      BY <2>1b
    <2>3. Set(k)
      BY <1>3 DEF setInstrument, j, l
    <2> HIDE DEF k
    <2>4. ~strung(k) => k.capo = Own
      BY <2>2, NoneIsNoNumber DEF Own
    <2> QED
      BY <1>0, <2>2, <2>3, <2>4, KnobSet DEF SheetOK
  <1>4. ASSUME NEW id \in TuningIds, setTuning(id) PROVE ScreenInv'
    BY <1>0, <1>4, KnobSet DEF setTuning
  <1>5. CASE ResetTranspose
    BY <1>0, <1>5, KnobSet DEF ResetTranspose
  <1>6. CASE toggleSimplify
    BY <1>0, <1>6, KnobSet DEF toggleSimplify
  <1>7. CASE pick
    BY <1>0, <1>7, KnobSet DEF pick
  <1> QED
    BY <1>1, <1>2, <1>3, <1>4, <1>5, <1>6, <1>7

\* The tempo and the chord to play from, which start a player again.
LEMMA RestartsKeep ==
  ASSUME ScreenInv,
         (\E d \in {-1, 1} : stepBpm(d)) \/ (\E i \in 0..(sheet.chords - 1) : playFrom(i))
  PROVE  ScreenInv'
  <1>0. /\ KnobsOK(knobs) /\ SheetOK
        /\ hearing # None => hearing \in Nat /\ (following # "off" \/ scrolling => stray)
        /\ ~(following # "off" /\ scrolling)
    BY DEF ScreenInv, PlayerOK, OneOn
  <1>1. ASSUME NEW d \in {-1, 1}, stepBpm(d) PROVE ScreenInv'
    <2>0. sheet' = sheet /\ late' = late /\ following' = following /\ scrolling' = scrolling
      BY <1>1 DEF stepBpm
    <2>1. KnobsOK(knobs)'
      <3>1. PICK n : knobs' = [knobs EXCEPT !.tempo = n] \/ knobs' = [knobs EXCEPT !.bpmPref = n]
        BY <1>1 DEF stepBpm
      <3>2. CASE knobs' = [knobs EXCEPT !.tempo = n]
        BY <1>0, <2>0, <3>2 DEF KnobsOK, strung, instrument, written, Own
      <3>3. CASE knobs' = [knobs EXCEPT !.bpmPref = n]
        BY <1>0, <2>0, <3>3 DEF KnobsOK, strung, instrument, written, Own
      <3> QED
        BY <3>1, <3>2, <3>3
    <2>2. CASE hearing # None
      <3>1. hear(knobs', hearing)
        BY <1>1, <2>2 DEF stepBpm
      <3> QED
        BY <1>0, <2>0, <2>1, <2>2, <3>1, HearKeeps
    <2>3. CASE hearing = None
      <3>1. hearing' = hearing /\ stray' = stray /\ player' = player
        BY <1>1, <2>3 DEF stepBpm, mark
      <3>2. SheetOK' /\ PlayerOK'
        BY <2>0, <2>3, <3>1 DEF ScreenInv, SheetOK, PlayerOK, QueuedInOrder
      <3> QED
        BY <2>0, <2>1, <3>1, <3>2 DEF ScreenInv, OneOn
    <2> QED
      BY <2>2, <2>3
  <1>2. ASSUME NEW i \in 0..(sheet.chords - 1), playFrom(i) PROVE ScreenInv'
    <2>1. /\ sheet' = sheet /\ knobs' = knobs /\ following' = following /\ scrolling' = scrolling
          /\ hear(knobs', i) /\ hearing # None /\ i \in Nat /\ late' = late
      BY <1>0, <1>2 DEF playFrom, SheetOK
    <2>2. KnobsOK(knobs)'
      BY <1>0, <2>1, SameKnobs
    <2> QED
      BY <1>0, <2>1, <2>2, HearKeeps
  <1> QED
    BY <1>1, <1>2

\* The three that take over from one another.
LEMMA TogglesKeep ==
  ASSUME ScreenInv, toggleHearing \/ togglePlayAlong \/ toggleScrolling
  PROVE  ScreenInv'
  <1>0. sheet' = sheet /\ knobs' = knobs /\ late' = late /\ late \in Seq(Nat)
    BY DEF toggleHearing, togglePlayAlong, toggleScrolling, ScreenInv, PlayerOK
  <1>1. SheetOK' /\ KnobsOK(knobs)'
    BY <1>0, SameKnobs DEF ScreenInv
  <1>2. CASE toggleHearing
    <2>1. CASE hearing # None
      BY <1>0, <1>1, <1>2, <2>1, SilenceKeeps DEF toggleHearing, ScreenInv, OneOn
    <2>2. CASE hearing = None
      <3>1. hear(knobs', 0) /\ following' = "off" /\ scrolling' = FALSE
        BY <1>0, <1>2, <2>2 DEF toggleHearing
      <3> QED
        BY <1>0, <1>1, <3>1, HearKeeps
    <2> QED
      BY <2>1, <2>2
  <1>3. CASE togglePlayAlong
    <2>1. CASE active
      BY <1>0, <1>3, <2>1, PlayingOn DEF togglePlayAlong
    <2>2. CASE ~active
      BY <1>0, <1>1, <1>3, <2>2, SilenceKeeps DEF togglePlayAlong
    <2> QED
      BY <2>1, <2>2
  <1>4. CASE toggleScrolling
    <2>1. CASE scrolling
      BY <1>0, <1>4, <2>1, PlayingOn DEF toggleScrolling
    <2>2. CASE ~scrolling
      BY <1>0, <1>1, <1>4, <2>2, SilenceKeeps DEF toggleScrolling
    <2> QED
      BY <2>1, <2>2
  <1> QED
    BY <1>2, <1>3, <1>4

\* What else happens to the page leaves a player alone or ends it.
LEMMA PageKeeps ==
  ASSUME ScreenInv,
         \/ Listening \/ ListeningFails \/ Dismiss \/ ScrollEnds
         \/ SetStage \/ ExitStage \/ SetMore \/ Resize
         \/ \E s \in Sheets : OpenSheet(s)
  PROVE  ScreenInv'
  <1>1. CASE Listening
    BY <1>1, PlayingOn DEF Listening
  <1>2. CASE ListeningFails
    BY <1>2, PlayingOn DEF ListeningFails, active
  <1>3. CASE Dismiss
    BY <1>3, PlayingOn DEF Dismiss
  <1>4. CASE ScrollEnds
    BY <1>4, PlayingOn DEF ScrollEnds
  <1>5. CASE SetStage \/ ExitStage \/ SetMore \/ Resize
    BY <1>5, PlayingOn DEF SetStage, ExitStage, SetMore, Resize, Reach, goingOn
  <1>6. ASSUME NEW s \in Sheets, OpenSheet(s) PROVE ScreenInv'
    <2>1. /\ sheet' = s /\ knobs' = Fresh(s, knobs) /\ silence /\ late' = <<>>
          /\ following' = "off" /\ scrolling' = FALSE
      BY <1>6 DEF OpenSheet
    <2>2. SheetOK'
      BY <2>1, SheetsOK DEF SheetOK
    <2>3. KnobsOK(knobs)'
      BY <2>1, FreshOK DEF ScreenInv, KnobsOK
    <2> QED
      BY <2>1, <2>2, <2>3, SilenceKeeps
  <1> QED
    BY <1>1, <1>2, <1>3, <1>4, <1>5, <1>6

LEMMA ScreenKeeps == ScreenInv /\ [ScreenNext]_screenVars => ScreenInv'
  <1> SUFFICES ASSUME ScreenInv, [ScreenNext]_screenVars PROVE ScreenInv'
    OBVIOUS
  <1>1. CASE UNCHANGED screenVars
    BY <1>1, PlayingOn DEF screenVars, goingOn
  <1>2. CASE ScreenNext
    BY <1>2, PlayerKeeps, StrayKeeps, KnobsKeep, RestartsKeep, TogglesKeep, PageKeeps DEF ScreenNext
  <1> QED
    BY <1>1, <1>2

THEOREM ScreenInvariant == ScreenSpec => []ScreenInv
  BY ScreenStarts, ScreenKeeps, PTL DEF ScreenSpec

\* Hearing, following and scrolling take over from one another, whatever is
\* pressed, fails or ends (toggleHearing, togglePlayAlong, toggleScrolling),
\* but for a mark that the timer of an ended chart has made.
THEOREM OneStaysAtATime == ScreenSpec => []OneAtATime
  <1>1. ScreenInv => OneAtATime
    BY DEF ScreenInv, OneOn, OneAtATime, active
  <1> QED
    BY <1>1, ScreenInvariant, PTL

\* The chart that plays is the one on the screen, for the instrument, key,
\* capo, tuning, spelling, shapes and tempo that are set (hear and the effect).
THEOREM HeardStaysAsShown == ScreenSpec => []HeardAsShown
  <1>1. ScreenInv => HeardAsShown
    BY DEF ScreenInv, PlayerOK, HeardAsShown
  <1> QED
    BY <1>1, ScreenInvariant, PTL

\* Whatever the chords are read for, they sound in the key shown (shift and
\* soundingKey), for any sheet, a capo on a piano's included, save that sheet
\* on the piano itself: no control leaves another instrument's capo on.
THEOREM SoundStaysTheSame == ScreenSpec => []SoundsTheSame
  <1>1. ScreenInv => SoundsTheSame
    <2> SUFFICES ASSUME ScreenInv, ~(written = "piano" /\ sheet.capo # 0 /\ ~strung(knobs))
                 PROVE  Sounding(knobs) = soundingOffset(knobs)
      BY DEF SoundsTheSame
    <2>1. /\ sheet.kind \in Kinds /\ sheet.capo \in Int /\ knobs.transpose \in Int
          /\ knobs.capo \in Int /\ (~strung(knobs) => knobs.capo = 0)
          /\ tuning(knobs).shift \in Int /\ sheetShift \in Int
      BY TuningRead DEF ScreenInv, SheetOK, KnobsOK, Own
    <2>2. shift(knobs) - (IF strung(knobs) THEN tuning(knobs).shift - knobs.capo ELSE 0)
            = sheet.capo - sheetShift + knobs.transpose
      BY <2>1 DEF shift
    <2> QED
      BY <2>2 DEF Sounding, soundingOffset
  <1> QED
    BY <1>1, ScreenInvariant, PTL

-----------------------------------------------------------------------------
(***************************************************************************)
(* Live: chord frames come out as the microphone put them in, for any      *)
(* buffer, window, context and length of recording.                        *)
(***************************************************************************)

\* The greater and the lesser of two numbers.
LEMMA MaxOfTwo ==
  ASSUME NEW a \in Int, NEW b \in Int
  PROVE  Max({a, b}) = IF a >= b THEN a ELSE b
  <1> DEFINE m == IF a >= b THEN a ELSE b
  <1>1. m \in {a, b} /\ \A y \in {a, b} : m >= y
    OBVIOUS
  <1>2. \A x \in {a, b} : (\A y \in {a, b} : x >= y) => x = m
    OBVIOUS
  <1> QED
    BY <1>1, <1>2 DEF Max

LEMMA MinOfTwo ==
  ASSUME NEW a \in Int, NEW b \in Int
  PROVE  Min({a, b}) = IF a <= b THEN a ELSE b
  <1> DEFINE m == IF a <= b THEN a ELSE b
  <1>1. m \in {a, b} /\ \A y \in {a, b} : m <= y
    OBVIOUS
  <1>2. \A x \in {a, b} : (\A y \in {a, b} : x <= y) => x = m
    OBVIOUS
  <1> QED
    BY <1>1, <1>2 DEF Min

\* The sizes are positive, a frame's reach is within what is kept, and context
\* and the frames between two runs are within a window.
LEMMA Sizes ==
  /\ KEEP \in Nat /\ REACH \in Nat /\ TIMESTEP \in Nat /\ LAG \in Nat /\ EVERY \in Nat
  /\ REACH > 0 /\ LAG > 0 /\ EVERY > 0 /\ REACH < KEEP /\ LAG + EVERY < TIMESTEP
  BY LiveAssumption

\* Positions and frames are counted, and a run has its window.
LiveTypeOK ==
    /\ offset \in Nat /\ length \in Nat /\ feats \in Nat /\ sinceRun \in Nat
    /\ window = <<>> \/ window \in Nat \X Nat
    /\ reported \in Nat /\ emitted \in Seq(Nat)

\* A run is over frames that are there, as many of the newest as a window
\* takes, and what was reported had its context.
WindowInv ==
    /\ reported = 0 \/ reported + LAG <= feats
    /\ window # <<>> =>
        /\ window[2] <= feats
        /\ window[1] = IF window[2] >= TIMESTEP THEN window[2] - TIMESTEP ELSE 0

\* What was emitted is in order and behind what has been reported.
OrderInv ==
    /\ \A i \in 1..(Len(emitted) - 1) : emitted[i] < emitted[i + 1]
    /\ \A i \in DOMAIN emitted : emitted[i] < reported

LiveInv == LiveTypeOK /\ SamplesThere /\ WindowInv /\ OrderInv

LEMMA LiveStarts == LiveInit => LiveInv
  BY Sizes DEF LiveInit, LiveInv, LiveTypeOK, SamplesThere, WindowInv, OrderInv

\* A chunk keeps the samples of the next frame: what is dropped lies more than
\* a frame's reach behind.
LEMMA PushKeeps ==
  ASSUME LiveInv, NEW chunk \in 0..2, push(chunk)
  PROVE  LiveInv'
  <1> DEFINE total == offset + length + chunk
             computed == IF feats >= total - REACH + 1 THEN feats ELSE total - REACH + 1
             since == sinceRun + computed - feats
  <1> USE Sizes DEF LiveInv, LiveTypeOK
  <1>0. feats \in Int /\ total - REACH + 1 \in Int /\ total \in Nat
    OBVIOUS
  <1>1. /\ Max({feats, total - REACH + 1}) = computed
        /\ computed \in Nat /\ computed >= feats /\ computed >= total - REACH + 1
        /\ since \in Nat
    <2>1. Max({feats, total - REACH + 1}) = computed
      BY <1>0, MaxOfTwo, Zenon
    <2> QED
      BY <2>1, <1>0
  <1>2. /\ Drop(chunk) \in Nat
        /\ length + chunk > 2 * KEEP => Drop(chunk) = length - KEEP
        /\ length + chunk <= 2 * KEEP => Drop(chunk) = 0
    BY DEF Drop, SamplesThere
  <1>3. /\ offset' = offset + Drop(chunk)
        /\ length' = length - Drop(chunk) + chunk
        /\ feats' = computed
        /\ reported' = reported /\ emitted' = emitted
    BY <1>1 DEF push
  <1>4. \/ window' = window /\ sinceRun' = since
        \/ window' = <<Max({0, computed - TIMESTEP}), computed>> /\ sinceRun' = 0
    BY <1>1 DEF push
  <1>5. Max({0, computed - TIMESTEP}) = IF computed >= TIMESTEP THEN computed - TIMESTEP ELSE 0
    <2>1. 0 \in Int /\ computed - TIMESTEP \in Int
      BY <1>1
    <2>2. Max({0, computed - TIMESTEP}) = IF 0 >= computed - TIMESTEP THEN 0 ELSE computed - TIMESTEP
      BY <2>1, MaxOfTwo, Zenon
    <2> QED
      BY <2>2, <1>1
  <1> HIDE DEF computed, since
  <1>6. LiveTypeOK'
    <2>1. window' = <<>> \/ window' \in Nat \X Nat
      <3>1. CASE window' = window
        BY <3>1
      <3>2. CASE window' = <<Max({0, computed - TIMESTEP}), computed>>
        <4>1. Max({0, computed - TIMESTEP}) \in Nat
          BY <1>1, <1>5
        <4> QED
          BY <3>2, <4>1, <1>1
      <3> QED
        BY <1>4, <3>1, <3>2
    <2>2. sinceRun' \in Nat
      BY <1>1, <1>4
    <2>3. offset' \in Nat /\ length' \in Nat
      BY <1>2, <1>3 DEF SamplesThere
    <2> QED
      BY <2>1, <2>2, <2>3, <1>1, <1>3
  <1>7. SamplesThere'
    BY <1>1, <1>2, <1>3 DEF SamplesThere
  <1>8. WindowInv'
    <2>1. CASE window' = window
      BY <2>1, <1>1, <1>3 DEF WindowInv
    <2>2. CASE window' = <<Max({0, computed - TIMESTEP}), computed>>
      BY <2>2, <1>1, <1>3, <1>5 DEF WindowInv
    <2> QED
      BY <1>4, <2>1, <2>2
  <1>9. OrderInv'
    BY <1>3 DEF OrderInv
  <1> QED
    BY <1>6, <1>7, <1>8, <1>9

\* What a run reports and emits: the frames from one that is no older than
\* its window up to the newest with context.
LEMMA RunReports ==
  ASSUME LiveInv, RunEnds
  PROVE  \E to \in Nat, from \in Nat :
            /\ reported <= from /\ from <= to
            /\ to = reported \/ to + LAG <= feats
            /\ from = reported \/ feats - reported > TIMESTEP
            /\ reported' = to
            /\ emitted' = emitted \o [i \in 1..(to - from) |-> from + i - 1]
            /\ window' = <<>>
            /\ UNCHANGED <<offset, length, feats, sinceRun>>
  <1> DEFINE to == IF reported >= window[2] - LAG THEN reported ELSE window[2] - LAG
             first == IF reported >= window[1] THEN reported ELSE window[1]
             from == IF to <= first THEN to ELSE first
  <1> USE Sizes DEF LiveInv, LiveTypeOK
  <1>0. window \in Nat \X Nat /\ window[1] \in Nat /\ window[2] \in Nat /\ window # <<>>
    BY DEF RunEnds, busy
  <1>1. /\ Max({reported, window[2] - LAG}) = to
        /\ Max({reported, window[1]}) = first
        /\ to \in Nat /\ first \in Nat /\ from \in Nat
    <2>1. reported \in Int /\ window[1] \in Int /\ window[2] - LAG \in Int
      BY <1>0
    <2>2. Max({reported, window[2] - LAG}) = to
      BY <2>1, MaxOfTwo, Zenon
    <2>3. Max({reported, window[1]}) = first
      BY <2>1, MaxOfTwo, Zenon
    <2> QED
      BY <2>2, <2>3, <1>0
  <1>2. Min({to, Max({reported, window[1]})}) = from
    <2>1. to \in Int /\ first \in Int
      BY <1>1
    <2>2. Min({to, first}) = from
      BY <2>1, MinOfTwo, Zenon
    <2> QED
      BY <2>2, <1>1
  <1>3. reported <= from /\ from <= to
    BY <1>0
  <1>4. to = reported \/ to + LAG <= feats
    BY <1>0 DEF WindowInv
  <1>5. from = reported \/ feats - reported > TIMESTEP
    BY <1>0 DEF WindowInv
  <1>6. /\ reported' = to
        /\ emitted' = emitted \o [i \in 1..(to - from) |-> from + i - 1]
        /\ window' = <<>>
        /\ UNCHANGED <<offset, length, feats, sinceRun>>
    BY <1>1, <1>2 DEF RunEnds
  <1> HIDE DEF to, from
  <1> QED
    BY <1>1, <1>3, <1>4, <1>5, <1>6

\* Consecutive frames after all that was emitted are emitted in order.
LEMMA OrderGoesOn ==
  ASSUME NEW s \in Seq(Nat), NEW from \in Nat, NEW to \in Nat, from <= to,
         NEW last \in Nat, last <= from,
         \A i \in 1..(Len(s) - 1) : s[i] < s[i + 1],
         \A i \in DOMAIN s : s[i] < last
  PROVE  LET t == s \o [i \in 1..(to - from) |-> from + i - 1]
         IN /\ t \in Seq(Nat) /\ Len(t) = Len(s) + (to - from)
            /\ \A i \in 1..(Len(t) - 1) : t[i] < t[i + 1]
            /\ \A i \in DOMAIN t : t[i] < to \/ t[i] < last
  <1> DEFINE new == [i \in 1..(to - from) |-> from + i - 1]
             t == s \o new
  <1>1. new \in Seq(Nat) /\ Len(new) = to - from /\ \A i \in 1..(to - from) : new[i] = from + i - 1
    OBVIOUS
  <1> HIDE DEF new
  <1>2. /\ t \in Seq(Nat) /\ Len(t) = Len(s) + (to - from)
        /\ \A i \in 1..(Len(s) + (to - from)) : t[i] = IF i <= Len(s) THEN s[i] ELSE new[i - Len(s)]
    <2>1. /\ t \in Seq(Nat) /\ Len(t) = Len(s) + Len(new)
          /\ \A i \in 1..(Len(s) + Len(new)) : t[i] = IF i <= Len(s) THEN s[i] ELSE new[i - Len(s)]
      BY <1>1, ConcatProperties, Zenon
    <2> QED
      BY <2>1, <1>1, Zenon
  <1> HIDE DEF t
  <1>3. \A i \in 1..Len(s) : t[i] = s[i] /\ s[i] < last /\ s[i] \in Nat
    <2> SUFFICES ASSUME NEW i \in 1..Len(s) PROVE t[i] = s[i] /\ s[i] < last /\ s[i] \in Nat
      OBVIOUS
    <2>1. i <= Len(s) /\ i \in 1..(Len(s) + (to - from))
      OBVIOUS
    <2> QED
      BY <2>1, <1>2
  <1>4. \A i \in 1..(Len(s) + (to - from)) : i > Len(s) => t[i] = from + (i - Len(s)) - 1
    BY <1>1, <1>2
  <1>5. \A i \in 1..(Len(t) - 1) : t[i] < t[i + 1]
    <2> SUFFICES ASSUME NEW i \in 1..(Len(t) - 1) PROVE t[i] < t[i + 1]
      OBVIOUS
    <2>0. i \in 1..(Len(s) + (to - from)) /\ i + 1 \in 1..(Len(s) + (to - from)) /\ Len(s) \in Nat
      BY <1>2
    <2>1. CASE i + 1 <= Len(s)
      <3>1. i \in 1..(Len(s) - 1) /\ i \in 1..Len(s) /\ i + 1 \in 1..Len(s)
        BY <2>0, <2>1
      <3> QED
        BY <3>1, <1>3
    <2>2. CASE i = Len(s)
      <3>1. t[i] < last /\ t[i] \in Nat
        BY <2>0, <2>2, <1>3
      <3>2. t[i + 1] = from
        BY <2>0, <2>2, <1>4
      <3> QED
        BY <3>1, <3>2
    <2>3. CASE i > Len(s)
      <3>1. t[i] = from + (i - Len(s)) - 1 /\ t[i + 1] = from + (i + 1 - Len(s)) - 1
        BY <2>0, <2>3, <1>4
      <3> QED
        BY <3>1, <2>0
    <2> QED
      BY <2>0, <2>1, <2>2, <2>3
  <1>6. \A i \in DOMAIN t : t[i] < to \/ t[i] < last
    <2> SUFFICES ASSUME NEW i \in 1..(Len(s) + (to - from)) PROVE t[i] < to \/ t[i] < last
      BY <1>2
    <2>1. CASE i <= Len(s)
      BY <2>1, <1>3
    <2>2. CASE i > Len(s)
      BY <2>2, <1>4
    <2> QED
      BY <2>1, <2>2
  <1> QED
    BY <1>2, <1>5, <1>6 DEF t, new

LEMMA LiveKeeps == LiveInv /\ [LiveNext]_liveVars => LiveInv'
  <1> SUFFICES ASSUME LiveInv, [LiveNext]_liveVars PROVE LiveInv'
    OBVIOUS
  <1>1. ASSUME NEW chunk \in 0..2, push(chunk) PROVE LiveInv'
    BY <1>1, PushKeeps
  <1>2. CASE RunEnds
    <2> USE Sizes DEF LiveInv, LiveTypeOK
    <2>1. PICK to \in Nat, from \in Nat :
            /\ reported <= from /\ from <= to
            /\ to = reported \/ to + LAG <= feats
            /\ reported' = to
            /\ emitted' = emitted \o [i \in 1..(to - from) |-> from + i - 1]
            /\ window' = <<>>
            /\ UNCHANGED <<offset, length, feats, sinceRun>>
      BY <1>2, RunReports
    <2>2. /\ emitted' \in Seq(Nat)
          /\ \A i \in 1..(Len(emitted') - 1) : emitted'[i] < emitted'[i + 1]
          /\ \A i \in DOMAIN emitted' : emitted'[i] < to \/ emitted'[i] < reported
      BY <2>1, OrderGoesOn DEF OrderInv
    <2>3. \A i \in DOMAIN emitted' : emitted'[i] \in Nat
      BY <2>2
    <2>4. \A i \in DOMAIN emitted' : emitted'[i] < reported'
      <3> SUFFICES ASSUME NEW i \in DOMAIN emitted' PROVE emitted'[i] < to
        BY <2>1
      <3>1. emitted'[i] \in Nat /\ (emitted'[i] < to \/ emitted'[i] < reported)
        BY <2>2, <2>3
      <3> QED
        BY <3>1, <2>1
    <2>5. LiveTypeOK' /\ SamplesThere' /\ WindowInv'
      BY <2>1, <2>2 DEF SamplesThere, WindowInv
    <2> QED
      BY <2>2, <2>4, <2>5 DEF OrderInv
  <1>3. CASE RunFails
    BY <1>3 DEF RunFails, LiveInv, LiveTypeOK, SamplesThere, WindowInv, OrderInv
  <1>4. CASE UNCHANGED liveVars
    BY <1>4 DEF liveVars, LiveInv, LiveTypeOK, SamplesThere, WindowInv, OrderInv
  <1> QED
    BY <1>1, <1>2, <1>3, <1>4 DEF LiveNext

\* What is reported in a step that loses frames is lost to a late run.
LEMMA OnlyTheLateLose ==
  LiveInv /\ [LiveNext]_liveVars =>
    [reported' > reported /\ Len(emitted') - Len(emitted) < reported' - reported
       => feats - reported > TIMESTEP]_liveVars
  <1> SUFFICES ASSUME LiveInv, LiveNext, reported' > reported,
                      Len(emitted') - Len(emitted) < reported' - reported
               PROVE  feats - reported > TIMESTEP
    OBVIOUS
  <1> USE Sizes DEF LiveInv, LiveTypeOK
  <1>1. RunEnds
    BY DEF LiveNext, push, RunFails
  <1>2. PICK to \in Nat, from \in Nat :
          /\ reported <= from /\ from <= to
          /\ from = reported \/ feats - reported > TIMESTEP
          /\ reported' = to
          /\ emitted' = emitted \o [i \in 1..(to - from) |-> from + i - 1]
    BY <1>1, RunReports
  <1>3. Len(emitted') = Len(emitted) + (to - from)
    BY <1>2, OrderGoesOn DEF OrderInv
  <1> QED
    BY <1>2, <1>3

\* The next frame's samples are always in the buffer, frames come out at most
\* once, in order and with their context, and only a run that took longer than
\* the window passes any over (LiveChords.push and run).
THEOREM FramesStayInOrder == LiveSpec => FramesInOrder
  <1>1. LiveInv => SamplesThere /\ ReportedOnce
    BY Sizes DEF LiveInv, LiveTypeOK, WindowInv, OrderInv, ReportedOnce
  <1> QED
    BY LiveStarts, LiveKeeps, OnlyTheLateLose, <1>1, PTL
       DEF LiveSpec, FramesInOrder, OnlyLateAreLost

-----------------------------------------------------------------------------
(***************************************************************************)
(* Follow: the marker moves when a run has earned it, for any chart, paces *)
(* and hysteresis, and whatever the belief answers.                        *)
(***************************************************************************)

\* The runs that start up to chord i.
Rank(i) == Cardinality({j \in Starts : j <= i})

LEMMA StartsFinite ==
    /\ Starts \subseteq 1..Len(Chart) /\ 1 \in Starts /\ Len(Chart) \in Nat \ {0}
    /\ IsFiniteSet(Starts) /\ Cardinality(Starts) \in Nat \ {0}
  <1>1. Len(Chart) \in Nat \ {0} /\ DOMAIN Chart = 1..Len(Chart)
    BY FollowAssumption
  <1>2. Starts \subseteq 1..Len(Chart) /\ 1 \in Starts
    BY <1>1 DEF Starts
  <1>3. IsFiniteSet(Starts)
    <2>1. IsFiniteSet(1..Len(Chart))
      BY <1>1, FS_Interval
    <2>2. QED
      BY <1>2, <2>1, FS_Subset
  <1>4. QED
    BY <1>1, <1>2, <1>3, FS_CardinalityType, FS_EmptySet

LEMMA RankType ==
    ASSUME NEW i \in Starts
    PROVE  Rank(i) \in Runs
  <1> DEFINE upTo == {j \in Starts : j <= i}
  <1>1. upTo \in SUBSET Starts /\ i \in upTo
    BY StartsFinite
  <1>2. IsFiniteSet(upTo) /\ Cardinality(upTo) <= Cardinality(Starts)
    BY <1>1, StartsFinite, FS_Subset
  <1>3. Cardinality(upTo) \in Nat \ {0}
    BY <1>1, <1>2, FS_CardinalityType, FS_EmptySet
  <1>4. QED
    BY <1>2, <1>3, StartsFinite DEF Rank, Runs

\* A later start has a higher rank.
LEMMA RankGrows ==
    ASSUME NEW i \in Starts, NEW k \in Starts, i < k
    PROVE  Rank(i) < Rank(k)
  <1> DEFINE upTo(m) == {j \in Starts : j <= m}
  <1>1. i \in Nat /\ k \in Nat /\ \A j \in Starts : j \in Nat
    BY StartsFinite
  <1>2. upTo(i) \in SUBSET upTo(k) /\ k \in upTo(k) /\ k \notin upTo(i)
    <2>1. \A j \in Starts : j <= i => j <= k
      BY <1>1
    <2>2. ~ (k <= i) /\ k <= k
      BY <1>1
    <2>3. QED
      BY <2>1, <2>2
  <1>3. upTo(k) \in SUBSET Starts
    OBVIOUS
  <1>4. IsFiniteSet(upTo(k)) /\ IsFiniteSet(upTo(i))
    BY <1>2, <1>3, StartsFinite, FS_Subset
  <1>5. Cardinality(upTo(i)) <= Cardinality(upTo(k)) /\ Cardinality(upTo(k)) # Cardinality(upTo(i))
    BY <1>2, <1>4, FS_Subset
  <1>6. QED
    BY <1>4, <1>5, FS_CardinalityType DEF Rank

\* startOf finds the first chord of each run, and there is just one.
LEMMA StartOfRun ==
    ASSUME NEW r \in Runs
    PROVE  startOf(r) \in Starts /\ Rank(startOf(r)) = r
  <1> DEFINE rank == [i \in Starts |-> Rank(i)]
  <1>1. rank \in Injection(Starts, Runs)
    <2>1. rank \in [Starts -> Runs]
      BY RankType
    <2>2. ASSUME NEW i \in Starts, NEW k \in Starts, rank[i] = rank[k]
          PROVE  i = k
      <3>1. Rank(i) = Rank(k) /\ Rank(i) \in Nat /\ i \in Nat /\ k \in Nat
        BY <2>2, RankType, StartsFinite DEF Runs
      <3>2. QED
        BY <3>1, RankGrows
    <2>3. QED
      BY <2>1, <2>2 DEF Injection, IsInjective
  <1>2. IsFiniteSet(Runs) /\ Cardinality(Runs) = Cardinality(Starts)
    BY StartsFinite, FS_Interval DEF Runs
  <1>3. rank \in Surjection(Starts, Runs)
    BY <1>1, <1>2, FS_Injection
  <1>4. \E i \in Starts : Rank(i) = r
    BY <1>3 DEF Surjection
  <1>5. QED
    BY <1>4 DEF startOf, Rank

\* The runs begin with the chart and follow one another, and none is empty.
LEMMA RunsFollow ==
    /\ startOf(1) = 1
    /\ \A r \in Runs : startOf(r) \in Nat \ {0} /\ lengthOf(r) \in Nat \ {0}
  <1>1. 1 \in Runs
    BY StartsFinite DEF Runs
  <1>2. startOf(1) = 1
    <2>1. {j \in Starts : j <= 1} = {1}
      <3>1. 1 \in Starts /\ \A j \in Starts : j \in Nat /\ 1 <= j
        BY StartsFinite
      <3>2. QED
        BY <3>1
    <2>2. Rank(1) = 1
      BY <2>1, FS_Singleton DEF Rank
    <2>3. startOf(1) \in Starts /\ Rank(startOf(1)) = 1 /\ startOf(1) \in 1..Len(Chart)
      BY <1>1, StartOfRun, StartsFinite
    <2>4. ~ (1 < startOf(1))
      BY <2>2, <2>3, RankGrows, StartsFinite
    <2>5. QED
      BY <2>3, <2>4, StartsFinite
  <1>3. ASSUME NEW r \in Runs
        PROVE  startOf(r) \in Nat \ {0} /\ lengthOf(r) \in Nat \ {0}
    <2>1. startOf(r) \in Starts /\ Rank(startOf(r)) = r /\ startOf(r) \in 1..Len(Chart)
      BY StartOfRun, StartsFinite
    <2>2. CASE r + 1 \in Runs
      <3>1. startOf(r + 1) \in Starts /\ Rank(startOf(r + 1)) = r + 1
            /\ startOf(r + 1) \in 1..Len(Chart)
        BY <2>2, StartOfRun, StartsFinite
      <3>2. r \in Nat
        BY DEF Runs
      <3>3. startOf(r) < startOf(r + 1)
        <4>1. ~ (startOf(r + 1) < startOf(r)) /\ startOf(r + 1) # startOf(r)
          BY <2>1, <3>1, <3>2, RankGrows
        <4>2. QED
          BY <2>1, <3>1, <4>1
      <3>4. QED
        BY <2>1, <2>2, <3>1, <3>3 DEF lengthOf
    <2>3. CASE r + 1 \notin Runs
      BY <2>1, <2>3, StartsFinite DEF lengthOf
    <2>4. QED
      BY <2>2, <2>3
  <1>4. QED
    BY <1>2, <1>3

\* More frames come to no earlier chord of a run, and never past its last.
LEMMA DivGrows ==
    ASSUME NEW a \in Nat, NEW b \in Nat, a <= b, NEW p \in Nat \ {0}
    PROVE  a \div p \in Nat /\ b \div p \in Nat /\ a \div p <= b \div p
  OBVIOUS

LEMMA IndexInRun ==
    ASSUME NEW r \in Runs, NEW frames \in Nat, NEW p \in Nat \ {0}
    PROVE  /\ indexOf(r, frames, p) \in Nat
           /\ indexOf(r, frames, p) + 1 \in startOf(r)..(startOf(r) + lengthOf(r) - 1)
           /\ \A later \in Nat : frames <= later => indexOf(r, frames, p) <= indexOf(r, later, p)
  <1>1. startOf(r) \in Nat \ {0} /\ lengthOf(r) \in Nat \ {0}
    BY RunsFollow
  <1> DEFINE part(n) == Min({lengthOf(r) - 1, n \div p})
  <1>2. ASSUME NEW n \in Nat
        PROVE  /\ n \div p \in Nat
               /\ part(n) = IF lengthOf(r) - 1 <= n \div p THEN lengthOf(r) - 1 ELSE n \div p
    <2>1. n \div p \in Nat /\ lengthOf(r) - 1 \in Int
      BY <1>1
    <2>2. QED
      BY <2>1, MinOfTwo
  <1>3. \A n \in Nat : indexOf(r, n, p) = startOf(r) - 1 + part(n)
    BY DEF indexOf
  <1> HIDE DEF part
  <1>4. \A n \in Nat : part(n) \in 0..(lengthOf(r) - 1)
    BY <1>1, <1>2
  <1>5. ASSUME NEW later \in Nat, frames <= later PROVE part(frames) <= part(later)
    <2>1. frames \div p \in Nat /\ later \div p \in Nat /\ frames \div p <= later \div p
      BY <1>5, DivGrows
    <2>2. QED
      BY <1>1, <1>2, <2>1
  <1>6. QED
    BY <1>1, <1>3, <1>4, <1>5

\* The marker's state: its index is what its run, frames and pace come to,
\* and a run that is pending is the likeliest, and has led as long as counted.
FollowInv ==
    /\ FollowTypeOK
    /\ index = indexOf(shown, inRun, pace)
    /\ pending # NoLead => pending = best /\ led >= pendingFrames

LEMMA FollowInvInit == FollowInit => FollowInv
  <1> SUFFICES ASSUME FollowInit PROVE FollowInv
    OBVIOUS
  <1> USE DEF FollowInit
  <1>1. 1 \in Runs /\ 0 \notin Runs /\ MinPace \in Nat \ {0} /\ pace \in Nat \ {0}
        /\ pace \in MinPace..MaxPace
    BY FollowAssumption, StartsFinite DEF Runs
  <1>2. index = indexOf(shown, inRun, pace)
    <2>1. lengthOf(1) - 1 \in Nat /\ startOf(1) = 1
      BY <1>1, RunsFollow
    <2>2. 0 \div pace = 0
      BY <1>1
    <2>3. Min({lengthOf(1) - 1, 0}) = 0
      BY <2>1, MinOfTwo
    <2>4. indexOf(1, 0, pace) = startOf(1) - 1 + Min({lengthOf(1) - 1, 0 \div pace})
      BY DEF indexOf
    <2>5. indexOf(1, 0, pace) = startOf(1) - 1 + 0
      BY <2>2, <2>3, <2>4, Zenon
    <2>6. indexOf(1, 0, pace) = 0
      BY <2>1, <2>5
    <2>7. QED
      BY <2>6
  <1>3. index + 1 \in startOf(shown)..(startOf(shown) + lengthOf(shown) - 1)
    BY <1>1, <1>2, IndexInRun
  <1>4. QED
    BY <1>1, <1>2, <1>3, FollowAssumption DEF FollowInv, FollowTypeOK, NoLead, Sureness

\* The pace that is learned stays within its limits.
LEMMA LearnedInLimits ==
    ASSUME FollowInv, NEW b \in Runs, NEW frames \in Nat
    PROVE  learned(b, frames) \in MinPace..MaxPace
  <1> DEFINE mixed == (7 * pace + 3 * (frames \div lengthOf(shown))) \div 10
             lower == Min({MaxPace, mixed})
  <1>1. pace \in MinPace..MaxPace /\ MinPace \in Nat /\ MaxPace \in Nat /\ MinPace <= MaxPace
    BY FollowAssumption DEF FollowInv, FollowTypeOK
  <1>2. mixed \in Int
    <2>1. lengthOf(shown) \in Nat \ {0}
      BY RunsFollow DEF FollowInv, FollowTypeOK
    <2>2. frames \div lengthOf(shown) \in Int
      BY <2>1
    <2>3. 7 * pace + 3 * (frames \div lengthOf(shown)) \in Int
      BY <1>1, <2>2
    <2>4. QED
      BY <2>3
  <1>3. learned(b, frames) = pace \/ learned(b, frames) = Max({MinPace, lower})
    BY DEF learned
  <1> HIDE DEF mixed
  <1>4. lower = IF MaxPace <= mixed THEN MaxPace ELSE mixed
    BY <1>1, <1>2, MinOfTwo
  <1> HIDE DEF lower
  <1>5. lower \in Int /\ lower <= MaxPace
    BY <1>1, <1>2, <1>4
  <1>6. Max({MinPace, lower}) = IF MinPace >= lower THEN MinPace ELSE lower
    BY <1>1, <1>5, MaxOfTwo
  <1>7. QED
    BY <1>1, <1>3, <1>5, <1>6

\* How long b has led, as far as it matters, by the history and by the code.
LEMMA LeadIsReal ==
    ASSUME FollowInv, NEW b \in Runs, NEW s, NEW frames, Follows(b, s, frames)
    PROVE  /\ leading(b) \in 1..JUMP_FRAMES /\ led' \in 1..JUMP_FRAMES
           /\ b # shown => led' >= leading(b)
  <1>1. /\ JUMP_FRAMES \in Nat \ {0, 1} /\ pendingFrames \in 0..JUMP_FRAMES
        /\ led \in 0..JUMP_FRAMES /\ b # NoLead
    BY FollowAssumption DEF FollowInv, FollowTypeOK, Runs, NoLead
  <1>2. \A n \in 0..JUMP_FRAMES :
            Min({JUMP_FRAMES, n + 1}) = IF JUMP_FRAMES <= n + 1 THEN JUMP_FRAMES ELSE n + 1
    BY <1>1, MinOfTwo
  <1>3. leading(b) = IF b = pending THEN Min({JUMP_FRAMES, pendingFrames + 1}) ELSE 1
    BY DEF leading
  <1>4. led' = IF b = best THEN Min({JUMP_FRAMES, led + 1}) ELSE 1
    BY DEF Follows
  <1>5. b = pending => b = best /\ led >= pendingFrames
    BY <1>1 DEF FollowInv
  <1>6. QED
    BY <1>1, <1>2, <1>3, <1>4, <1>5

\* What a frame earns.
Earned ==
    /\ index' + 1 \in startOf(shown')..(startOf(shown') + lengthOf(shown') - 1)
    /\ IF shown' = shown THEN index' >= index
       ELSE /\ shown' = best'
            /\ IF far(shown', shown) THEN led' >= JUMP_FRAMES /\ sure' # "less"
               ELSE led' >= 2 \/ sure' = "most"

LEMMA FollowsKeeps ==
    ASSUME FollowInv, NEW b \in Runs, NEW s \in Sureness, NEW frames \in inRun..MaxInRun,
           Follows(b, s, frames), silent' \in BOOLEAN
    PROVE  FollowInv' /\ Earned
  <1> DEFINE moved == b # shown /\ moves(b, s, leading(b))
  <1>1. /\ best' = b /\ sure' = s
        /\ shown' = IF moved THEN b ELSE shown
        /\ pending' = IF b = shown \/ moved THEN NoLead ELSE b
        /\ pendingFrames' = IF b = shown THEN pendingFrames ELSE leading(b)
        /\ inRun' = IF moved THEN 0 ELSE frames
        /\ pace' = IF moved THEN learned(b, frames) ELSE pace
        /\ index' = indexOf(shown', inRun', pace')
    BY DEF Follows
  <1>2. moved => b # shown /\ IF far(b, shown) THEN leading(b) >= JUMP_FRAMES /\ s # "less"
                              ELSE leading(b) >= 2 \/ s = "most"
    BY DEF moves
  <1> HIDE DEF moved
  <1>3. /\ best \in Runs /\ shown \in Runs /\ b # NoLead /\ inRun \in Nat /\ MaxInRun \in Nat
        /\ pace \in MinPace..MaxPace /\ MinPace \in Nat \ {0} /\ MaxPace \in Nat
        /\ JUMP_FRAMES \in Nat /\ pendingFrames \in 0..JUMP_FRAMES
        /\ index = indexOf(shown, inRun, pace)
    BY FollowAssumption DEF FollowInv, FollowTypeOK, Runs, NoLead
  <1>4. frames \in Nat /\ inRun <= frames /\ frames <= MaxInRun
    BY <1>3
  <1>5. /\ leading(b) \in 1..JUMP_FRAMES /\ led' \in 1..JUMP_FRAMES
        /\ b # shown => led' >= leading(b)
    BY LeadIsReal
  <1>6. shown' \in Runs /\ inRun' \in 0..MaxInRun /\ inRun' \in Nat
    BY <1>1, <1>3, <1>4
  <1>7. pace' \in MinPace..MaxPace /\ pace' \in Nat \ {0}
    <2>1. learned(b, frames) \in MinPace..MaxPace
      BY <1>4, LearnedInLimits
    <2>2. QED
      BY <1>1, <1>3, <2>1
  <1>8. index' + 1 \in startOf(shown')..(startOf(shown') + lengthOf(shown') - 1)
    BY <1>1, <1>6, <1>7, IndexInRun
  <1>9. FollowTypeOK'
    <2>1. best' \in Runs /\ sure' \in Sureness /\ led' \in 0..JUMP_FRAMES
      BY <1>1, <1>3, <1>5
    <2>2. pending' \in Runs \cup {NoLead} /\ pending' # shown'
      BY <1>1, <1>3, <1>6 DEF Runs, NoLead
    <2>3. pendingFrames' \in 0..JUMP_FRAMES
      BY <1>1, <1>3, <1>5
    <2>4. QED
      BY <1>6, <1>7, <1>8, <2>1, <2>2, <2>3 DEF FollowTypeOK
  <1>10. pending' # NoLead => pending' = best' /\ led' >= pendingFrames'
    BY <1>1, <1>5
  <1>11. Earned
    <2>1. CASE moved
      <3>1. shown' = b /\ shown' # shown /\ led' >= leading(b)
        BY <1>1, <1>2, <1>5, <2>1
      <3>2. led' \in Nat /\ leading(b) \in Nat
        BY <1>5
      <3>3. QED
        BY <1>1, <1>2, <1>3, <1>8, <2>1, <3>1, <3>2 DEF Earned
    <2>2. CASE ~moved
      <3>1. shown' = shown /\ inRun' = frames /\ pace' = pace
        BY <1>1, <2>2
      <3>2. index' = indexOf(shown, frames, pace) /\ pace \in Nat \ {0}
        BY <1>1, <1>7, <3>1
      <3>3. index' \in Nat /\ index \in Nat /\ index <= index'
        BY <1>3, <1>4, <3>2, IndexInRun
      <3>4. QED
        BY <1>8, <3>1, <3>3 DEF Earned
    <2>3. QED
      BY <2>1, <2>2
  <1>12. QED
    BY <1>1, <1>9, <1>10, <1>11 DEF FollowInv

LEMMA FollowStep == FollowInv /\ [FollowNext]_followVars => FollowInv' /\ (Earned \/ UNCHANGED followVars)
  <1> SUFFICES ASSUME FollowInv, [FollowNext]_followVars
               PROVE  FollowInv' /\ (Earned \/ UNCHANGED followVars)
    OBVIOUS
  <1>0. inRun \in 0..MaxInRun /\ MaxInRun \in Nat
    BY FollowAssumption DEF FollowInv, FollowTypeOK
  <1>1. CASE Sounds
    <2>1. PICK b \in Runs, s \in Sureness : Follows(b, s, Min({MaxInRun, inRun + 1}))
      BY <1>1 DEF Sounds
    <2>2. Min({MaxInRun, inRun + 1}) = IF MaxInRun <= inRun + 1 THEN MaxInRun ELSE inRun + 1
      BY <1>0, MinOfTwo
    <2>3. Min({MaxInRun, inRun + 1}) \in inRun..MaxInRun
      BY <1>0, <2>2
    <2>4. QED
      BY <1>1, <2>1, <2>3, FollowsKeeps DEF Sounds
  <1>2. CASE Silence
    <2>1. best \in Runs /\ sure \in Sureness /\ inRun \in inRun..MaxInRun
      BY <1>0 DEF FollowInv, FollowTypeOK
    <2>2. QED
      BY <1>2, <2>1, FollowsKeeps DEF Silence
  <1>3. CASE UNCHANGED followVars
    BY <1>3 DEF followVars, FollowInv, FollowTypeOK
  <1>4. QED
    BY <1>1, <1>2, <1>3 DEF FollowNext

\* For any chart, hysteresis and paces, the marker never jumps before the
\* belief has earned it, and stays in the run it shows, going forward
\* (follow.ts:6-9), whatever the belief answers frame after frame.
THEOREM MarkerEarnsItsMoves == FollowSpec => MovesAreEarned
  <1>1. FollowInit => FollowInv
    BY FollowInvInit
  <1>2. FollowInv /\ [FollowNext]_followVars => FollowInv' /\ [Earned]_followVars
    BY FollowStep
  <1>3. QED
    BY <1>1, <1>2, PTL DEF FollowSpec, MovesAreEarned, Earned

-----------------------------------------------------------------------------
(***************************************************************************)
(* Glide: autoscroll leaves the page where its reader sees it, for any     *)
(* length of page and under any number of fingers.                         *)
(***************************************************************************)

\* An animation that does not slide the page past its bottom.
Slid == {a \in Anim : a.from + a.gone <= End}

\* A page has an animation just when `anim` is it, which started from the
\* scroll position, unless one was disturbed; only a phone that scrolls has
\* `anim` or waits to go on.
GlideInv ==
    /\ {phone, running, anim, resume, disturbed} \subseteq BOOLEAN
    /\ scroll \in Positions /\ fingers \in Nat /\ pos \in Nat /\ wrote \in Nat
    /\ anims \in Seq(Slid) /\ (anim => anims # <<>>)
    /\ anim /\ ~disturbed => \E g \in Nat : scroll + g <= End /\ anims = <<[from |-> scroll, gone |-> g]>>
    /\ ~anim /\ ~disturbed => anims = <<>>
    /\ anim \/ resume => phone /\ running
    /\ disturbed => phone
    /\ ~phone => fingers = 0 /\ (running => pos = wrote)

LEMMA FrontType ==
    ASSUME NEW S, NEW q \in Seq(S), q # <<>>
    PROVE  Front(q) \in Seq(S) /\ Last(q) \in S
  <1>1. Len(q) \in Nat \ {0} /\ \A i \in 1..Len(q) : q[i] \in S
    OBVIOUS
  <1>2. SubSeq(q, 1, Len(q) - 1) \in Seq(S)
    BY <1>1, SubSeqProperties
  <1>3. QED
    BY <1>1, <1>2 DEF Front, Last

\* Settling leaves animations that keep their type, and shows an undisturbed
\* page where it was seen to be.
LEMMA SettledPlace ==
    ASSUME GlideInv
    PROVE  /\ Settled.scroll \in Positions /\ Settled.anims \in Seq(Slid)
           /\ ~disturbed => /\ Settled.scroll = Seen /\ Settled.anims = <<>>
                            /\ ~anim => Seen = scroll
  <1>1. scroll \in Nat /\ End \in Nat /\ scroll <= End
    BY GlideAssumption DEF GlideInv, Positions
  <1>2. CASE anim /\ disturbed
    <2>1. Front(anims) \in Seq(Slid) /\ Last(anims) \in Slid
      BY <1>2, FrontType DEF GlideInv
    <2>2. Last(anims).from + Last(anims).gone \in Positions
      BY <1>1, <2>1 DEF Slid, Anim, Positions
    <2>3. QED
      BY <1>2, <2>1, <2>2 DEF Settled
  <1>3. CASE anim /\ ~disturbed
    <2>1. PICK g \in Nat : scroll + g <= End /\ anims = <<[from |-> scroll, gone |-> g]>>
      BY <1>3 DEF GlideInv
    <2>2. /\ Last(anims) = [from |-> scroll, gone |-> g]
          /\ Front(anims) = <<>> /\ anims # <<>>
      BY <2>1 DEF Last, Front
    <2>3. Settled.scroll = scroll + g /\ Settled.anims = <<>> /\ Seen = scroll + g
      BY <1>3, <2>2 DEF Settled, Seen
    <2>4. scroll + g \in Positions
      BY <1>1, <2>1 DEF Positions
    <2>5. QED
      BY <1>3, <2>3, <2>4
  <1>4. CASE ~anim
    BY <1>1, <1>4 DEF GlideInv, Settled, Seen, Positions
  <1>5. QED
    BY <1>2, <1>3, <1>4 DEF GlideInv

\* Starting keeps what is known of the page, whatever slides it, and shows it
\* where it is started if nothing does.
LEMMA StartsThere ==
    ASSUME NEW y \in Positions, NEW as \in Seq(Slid), start(y, as), phone, phone' = TRUE,
           fingers' \in Nat, pos' \in Nat, wrote' \in Nat
    PROVE  GlideInv' /\ (as = <<>> => Seen' = y /\ ~disturbed') /\ (as # <<>> => disturbed')
  <1>1. /\ y \in Nat /\ End \in Nat /\ y <= End /\ y + 0 = y /\ resume' = FALSE /\ scroll' = y
        /\ disturbed' = (as # <<>>)
    BY GlideAssumption DEF Positions, start
  <1>2. scroll' \in Positions /\ disturbed' \in BOOLEAN
    BY <1>1
  <1>3. CASE y < End
    <2>1. anims' = Append(as, [from |-> y, gone |-> 0]) /\ anim' = TRUE /\ running' = TRUE
      BY <1>3 DEF start
    <2>2. [from |-> y, gone |-> 0] \in Slid
      BY <1>1 DEF Slid, Anim, Positions
    <2>3. anims' \in Seq(Slid) /\ anims' # <<>>
      <3>1. /\ Append(as, [from |-> y, gone |-> 0]) \in Seq(Slid)
            /\ Append(as, [from |-> y, gone |-> 0]) # <<>>
        BY <2>2, AppendProperties
      <3>2. QED
        BY <2>1, <3>1
    <2>4. CASE as = <<>>
      <3>1. anims' = <<[from |-> y, gone |-> 0]>>
        BY <2>1, <2>4
      <3>2. Last(anims') = [from |-> y, gone |-> 0] /\ anims' # <<>>
        BY <3>1 DEF Last
      <3>3. Seen' = y
        BY <1>1, <3>2 DEF Seen
      <3>4. 0 \in Nat /\ scroll' + 0 <= End /\ anims' = <<[from |-> scroll', gone |-> 0]>>
        BY <1>1, <3>1
      <3>5. {phone', running', anim', resume', disturbed'} \subseteq BOOLEAN
        BY <1>1, <1>2, <2>1
      <3>6. anim' /\ running' /\ phone'
        BY <2>1
      <3>7. GlideInv'
        BY <1>2, <2>3, <3>4, <3>5, <3>6, Zenon DEF GlideInv
      <3>8. QED
        BY <1>1, <2>4, <3>3, <3>7
    <2>5. CASE as # <<>>
      <3>1. {phone', running', anim', resume', disturbed'} \subseteq BOOLEAN
        BY <1>1, <1>2, <2>1
      <3>2. anim' /\ running' /\ phone' /\ disturbed'
        BY <1>1, <2>1, <2>5
      <3>3. GlideInv'
        BY <1>2, <2>3, <3>1, <3>2, Zenon DEF GlideInv
      <3>4. QED
        BY <2>5, <3>2, <3>3
    <2>6. QED
      BY <2>4, <2>5
  <1>4. CASE ~(y < End)
    <2>1. anims' = as /\ anim' = FALSE /\ running' = FALSE
      BY <1>4 DEF start
    <2>2. {phone', running', anim', resume', disturbed'} \subseteq BOOLEAN
      BY <1>1, <1>2, <2>1
    <2>3. ~anim' /\ ~running' /\ phone' /\ ~resume' /\ anims' \in Seq(Slid)
      BY <1>1, <2>1
    <2>4. ~disturbed' => anims' = <<>>
      BY <1>1, <2>1
    <2>5. GlideInv'
      BY <1>2, <2>2, <2>3, <2>4, Zenon DEF GlideInv
    <2>6. as = <<>> => Seen' = y
      BY <1>1, <2>1 DEF Seen
    <2>7. QED
      BY <1>1, <2>5, <2>6
  <1>5. QED
    BY <1>3, <1>4

\* Settling with nothing to go on from keeps what is known of the page.
LEMMA SettlesThere ==
    ASSUME GlideInv, settle, resume' = FALSE, running' \in BOOLEAN, phone' = phone,
           ~phone => fingers' = 0 /\ (running' => running),
           fingers' \in Nat, pos' = pos, wrote' = wrote
    PROVE  GlideInv' /\ (~disturbed => Seen' = Seen)
  <1>1. /\ scroll' = Settled.scroll /\ anims' = Settled.anims /\ anim' = FALSE
        /\ disturbed' = (disturbed /\ Settled.anims # <<>>)
    BY DEF settle
  <1>2. scroll' \in Positions /\ anims' \in Seq(Slid)
        /\ (~disturbed => scroll' = Seen /\ anims' = <<>>)
    BY <1>1, SettledPlace
  <1>3. {phone', running', anim', resume', disturbed'} \subseteq BOOLEAN
    BY <1>1 DEF GlideInv
  <1>4. /\ disturbed' => phone' /\ disturbed
        /\ ~disturbed' => anims' = <<>>
    BY <1>1, <1>2 DEF GlideInv
  <1>5. pos' \in Nat /\ wrote' \in Nat /\ (~phone' => fingers' = 0 /\ (running' => pos' = wrote'))
    BY DEF GlideInv
  <1>6. GlideInv'
    BY <1>1, <1>2, <1>3, <1>4, <1>5, Zenon DEF GlideInv
  <1>7. QED
    BY <1>2, <1>6 DEF Seen

\* What only time and a hand may do, and what they may not.
Stays ==
    Seen' # Seen =>
         \/ \E i \in DOMAIN anims : i \in DOMAIN anims' /\ anims'[i].gone > anims[i].gone
         \/ anims = <<>> /\ anims' = <<>> /\ UNCHANGED <<running, fingers, resume>>
         \/ disturbed \/ disturbed' \/ ~phone
GoesOn ==
    ~phone /\ running /\ wrote' # wrote =>
         scroll' <= scroll + 1 + Nudge /\ scroll <= scroll' + Nudge

LEMMA GlideStep ==
    ASSUME GlideInv, GlideNext
    PROVE  GlideInv' /\ Stays /\ GoesOn
  <1>0. /\ scroll \in Nat /\ scroll <= End /\ End \in Nat \ {0} /\ Nudge \in Nat
        /\ fingers \in Nat /\ {phone, running, anim, resume, disturbed} \subseteq BOOLEAN
        /\ pos \in Nat /\ wrote \in Nat /\ Fingers \in Nat
    BY GlideAssumption DEF GlideInv, Positions
  <1>1. CASE Run \/ Resumes
    <2>1. CASE phone
      <3>1. /\ start(scroll, anims) /\ phone' = TRUE /\ fingers' = fingers
            /\ pos' = pos /\ wrote' = wrote
        BY <1>0, <1>1, <2>1 DEF Run, Resumes
      <3>2. scroll \in Positions /\ anims \in Seq(Slid) /\ pos' \in Nat /\ wrote' \in Nat
        BY <1>0, <3>1 DEF GlideInv
      <3>3. GlideInv' /\ (anims = <<>> => Seen' = scroll) /\ (anims # <<>> => disturbed')
        BY <1>0, <2>1, <3>1, <3>2, StartsThere
      <3>4. QED
        BY <2>1, <3>3 DEF Seen, Stays, GoesOn
    <2>2. CASE ~phone
      <3>1. /\ UNCHANGED <<phone, fingers, scroll, anims, anim, resume, disturbed>>
            /\ running' = TRUE /\ pos' = scroll /\ wrote' = scroll /\ ~running
        BY <1>1, <2>2 DEF Run, Resumes, GlideInv
      <3>2. GlideInv'
        BY <1>0, <2>2, <3>1 DEF GlideInv
      <3>3. QED
        BY <2>2, <3>1, <3>2 DEF Stays, GoesOn
    <2>3. QED
      BY <2>1, <2>2
  <1>2. CASE Stop \/ Finishes
    <2>1. /\ settle /\ running' = FALSE /\ resume' = FALSE
          /\ UNCHANGED <<phone, fingers, pos, wrote>>
      BY <1>2 DEF Stop, Finishes
    <2>2. GlideInv' /\ (~disturbed => Seen' = Seen)
      BY <1>0, <2>1, SettlesThere DEF GlideInv
    <2>3. QED
      BY <2>1, <2>2 DEF Stays, GoesOn
  <1>3. CASE SetSpeed
    <2>1. CASE phone
      <3>1. /\ start(Settled.scroll, Settled.anims) /\ phone' = TRUE /\ fingers' = fingers
            /\ pos' = pos /\ wrote' = wrote
        BY <1>0, <1>3, <2>1 DEF SetSpeed
      <3>2. /\ Settled.scroll \in Positions /\ Settled.anims \in Seq(Slid)
            /\ ~disturbed => Settled.scroll = Seen /\ Settled.anims = <<>>
            /\ pos' \in Nat /\ wrote' \in Nat
        BY <1>0, <3>1, SettledPlace
      <3>3. GlideInv' /\ (Settled.anims = <<>> => Seen' = Settled.scroll)
        BY <1>0, <2>1, <3>1, <3>2, StartsThere
      <3>4. ~disturbed => Seen' = Seen
        BY <3>2, <3>3
      <3>5. QED
        BY <2>1, <3>3, <3>4 DEF Stays, GoesOn
    <2>2. CASE ~phone
      <3>1. /\ UNCHANGED <<phone, fingers, running, scroll, anims, anim, resume, disturbed>>
            /\ pos' = scroll /\ wrote' = scroll
        BY <1>3, <2>2 DEF SetSpeed
      <3>2. GlideInv'
        BY <1>0, <2>2, <3>1 DEF GlideInv
      <3>3. QED
        BY <1>0, <2>2, <3>1, <3>2 DEF Stays, GoesOn
    <2>3. QED
      BY <2>1, <2>2
  <1>4. CASE Grab
    <2>1. phone /\ UNCHANGED <<phone, running, pos, wrote>> /\ fingers' = fingers + 1
      BY <1>4 DEF Grab
    <2>2. CASE running
      <3>1. settle /\ resume' = FALSE
        BY <1>4, <2>2 DEF Grab
      <3>2. running' \in BOOLEAN /\ fingers' \in Nat
        BY <1>0, <2>1, <2>2
      <3>3. GlideInv' /\ (~disturbed => Seen' = Seen)
        BY <2>1, <3>1, <3>2, SettlesThere
      <3>4. QED
        BY <2>1, <3>3 DEF Stays, GoesOn
    <2>3. CASE ~running
      <3>1. UNCHANGED <<scroll, anims, anim, resume, disturbed>>
        BY <1>4, <2>3 DEF Grab
      <3>2. GlideInv'
        BY <1>0, <2>1, <3>1 DEF GlideInv
      <3>3. QED
        BY <2>1, <3>1, <3>2 DEF Stays, GoesOn, Seen
    <2>4. QED
      BY <2>2, <2>3
  <1>5. CASE Release
    <2>1. /\ phone /\ resume' = running /\ fingers' \in Nat
          /\ UNCHANGED <<phone, running, scroll, anims, anim, disturbed, pos, wrote>>
      BY <1>0, <1>5 DEF Release, GlideInv
    <2>2. GlideInv'
      BY <1>0, <2>1 DEF GlideInv
    <2>3. QED
      BY <2>1, <2>2 DEF Stays, GoesOn, Seen
  <1>7. CASE Glides
    <2>1. /\ anims' = [i \in DOMAIN anims |->
                         IF anims[i].from + anims[i].gone < End
                         THEN [anims[i] EXCEPT !.gone = @ + 1] ELSE anims[i]]
          /\ UNCHANGED <<phone, running, scroll, anim, resume, fingers, disturbed, pos, wrote>>
      BY <1>7 DEF Glides
    <2>2. anims \in Seq(Slid) /\ Len(anims) \in Nat /\ DOMAIN anims = 1..Len(anims)
      BY DEF GlideInv
    <2>3. ASSUME NEW i \in DOMAIN anims
          PROVE  anims'[i] \in Slid /\ (anims[i].from + anims[i].gone < End => anims'[i].gone > anims[i].gone)
      <3>1. anims[i] \in Slid
        BY <2>2
      <3>2. anims[i].from \in Nat /\ anims[i].gone \in Nat /\ anims[i] \in Anim
        BY <3>1 DEF Slid, Anim, Positions
      <3>3. CASE anims[i].from + anims[i].gone < End
        <4>1. anims'[i] = [from |-> anims[i].from, gone |-> anims[i].gone + 1]
          BY <2>1, <3>2, <3>3 DEF Anim
        <4>2. QED
          BY <1>0, <3>1, <3>2, <3>3, <4>1 DEF Slid, Anim, Positions
      <3>4. CASE ~(anims[i].from + anims[i].gone < End)
        BY <2>1, <3>1, <3>4
      <3>5. QED
        BY <3>3, <3>4
    <2>4. anims' \in Seq(Slid) /\ DOMAIN anims' = DOMAIN anims
      <3>1. anims' = [i \in 1..Len(anims) |-> anims'[i]]
        BY <2>1, <2>2
      <3>2. \A i \in 1..Len(anims) : anims'[i] \in Slid
        BY <2>2, <2>3
      <3>3. QED
        BY <2>2, <3>1, <3>2, SeqDef
    <2>5. anims # <<>> /\ anims' # <<>>
      BY <1>7, <2>2, <2>4 DEF Glides
    <2>6. ASSUME anim, ~disturbed
          PROVE  \E g \in Nat : scroll + g <= End /\ anims' = <<[from |-> scroll, gone |-> g]>>
      <3>1. PICK g \in Nat : scroll + g <= End /\ anims = <<[from |-> scroll, gone |-> g]>>
        BY <2>6 DEF GlideInv
      <3>2. DOMAIN anims = {1} /\ anims[1].from = scroll /\ anims[1].gone = g
        BY <3>1
      <3>3. scroll + g < End
        BY <1>7, <3>2 DEF Glides
      <3>4. anims' = [i \in {1} |-> [from |-> scroll, gone |-> g + 1]]
        BY <2>1, <3>1, <3>2, <3>3
      <3>5. anims' = <<[from |-> scroll, gone |-> g + 1]>>
        BY <3>4
      <3>6. g + 1 \in Nat /\ scroll + (g + 1) <= End
        BY <1>0, <3>3
      <3>7. QED
        BY <3>5, <3>6
    <2>7. anim \/ disturbed
      BY <2>5 DEF GlideInv
    <2>8. GlideInv'
      BY <1>0, <2>1, <2>4, <2>5, <2>6, <2>7 DEF GlideInv
    <2>9. Stays
      <3>1. PICK i \in DOMAIN anims : anims[i].from + anims[i].gone < End
        BY <1>7 DEF Glides
      <3>2. i \in DOMAIN anims' /\ anims'[i].gone > anims[i].gone
        BY <2>3, <2>4, <3>1
      <3>3. QED
        BY <3>2 DEF Stays
    <2>10. QED
      BY <2>1, <2>8, <2>9 DEF GoesOn
  <1>8. CASE Frame
    <2>1. ~phone /\ running /\ ~anim /\ anims = <<>> /\ ~resume /\ fingers = 0 /\ pos = wrote
          /\ ~disturbed
      BY <1>8, <1>0 DEF Frame, GlideInv
    <2>2. /\ pos' = 1 + IF scroll > wrote + Nudge \/ wrote > scroll + Nudge THEN scroll ELSE pos
          /\ scroll' = IF pos' < End THEN pos' ELSE End
          /\ wrote' = pos' /\ running' = (scroll' < End)
          /\ UNCHANGED <<phone, anims, anim, resume, fingers, disturbed>>
      BY <1>8 DEF Frame
    <2>3. pos' \in Nat /\ scroll' \in Positions /\ scroll' \in Nat
      BY <1>0, <2>2 DEF Positions
    <2>4. running' \in BOOLEAN
      BY <2>2
    <2>5. GlideInv'
      BY <1>0, <2>1, <2>2, <2>3, <2>4 DEF GlideInv
    <2>6. GoesOn
      <3>1. CASE scroll > wrote + Nudge \/ wrote > scroll + Nudge
        <4>1. pos' = 1 + scroll
          BY <2>2, <3>1
        <4>2. QED
          BY <1>0, <2>2, <4>1 DEF GoesOn
      <3>2. CASE ~(scroll > wrote + Nudge \/ wrote > scroll + Nudge)
        <4>1. pos' = 1 + wrote
          BY <2>1, <2>2, <3>2
        <4>2. QED
          BY <1>0, <2>2, <3>2, <4>1 DEF GoesOn
      <3>3. QED
        BY <3>1, <3>2
    <2>7. QED
      BY <2>1, <2>5, <2>6 DEF Stays
  <1>9. ASSUME NEW y \in Positions, Scrolls(y) PROVE GlideInv' /\ Stays /\ GoesOn
    <2>1. /\ scroll' = y /\ disturbed' = (anims # <<>>)
          /\ UNCHANGED <<phone, running, anims, anim, resume, fingers, pos, wrote>>
      BY <1>9 DEF Scrolls
    <2>2. anims # <<>> => phone
      BY DEF GlideInv
    <2>3. anim => anims # <<>>
      BY DEF GlideInv
    <2>4. {phone', running', anim', resume', disturbed'} \subseteq BOOLEAN
      BY <1>0, <2>1
    <2>5. GlideInv'
      BY <1>0, <2>1, <2>2, <2>3, <2>4 DEF GlideInv
    <2>6. QED
      BY <2>1, <2>5 DEF Stays, GoesOn
  <1>10. QED
    BY <1>1, <1>2, <1>3, <1>4, <1>5, <1>7, <1>8, <1>9 DEF GlideNext

LEMMA GlideInvInit == GlideInit => GlideInv
  <1> SUFFICES ASSUME GlideInit PROVE GlideInv
    OBVIOUS
  <1>1. {phone, running, anim, resume, disturbed} \subseteq BOOLEAN
    BY DEF GlideInit
  <1>2. scroll \in Positions /\ fingers \in Nat /\ pos \in Nat /\ wrote \in Nat
    BY GlideAssumption DEF GlideInit
  <1>3. ~anim /\ ~resume /\ anims = <<>> /\ ~running /\ ~disturbed /\ (~phone => fingers = 0)
    BY DEF GlideInit
  <1>4. anims \in Seq(Slid)
    BY <1>3
  <1>5. QED
    BY <1>1, <1>2, <1>3, <1>4 DEF GlideInv

LEMMA GlideStutters ==
    ASSUME GlideInv, UNCHANGED glideVars
    PROVE  GlideInv'
  BY DEF glideVars, GlideInv

\* For any length of page, any fingers on it and any use of the speed: as long
\* as no animation was started over another nor the page scrolled under one,
\* only time and a hand move what is seen and nothing slides a page whose
\* scrolling is off, and so again once all are settled; off a phone a frame
\* goes on from where the page was left (useAutoScroll, glide).
THEOREM PageKeepsItsPlace == GlideSpec => KeepsItsPlace
  <1>1. GlideInv /\ [GlideNext]_glideVars => GlideInv' /\ [Stays]_glideVars /\ [GoesOn]_glideVars
    BY GlideStep, GlideStutters
  <1>2. GlideInv => (~running => ~resume /\ (anims = <<>> \/ disturbed))
    BY DEF GlideInv
  <1>3. QED
    BY <1>1, <1>2, GlideInvInit, PTL
       DEF GlideSpec, KeepsItsPlace, NoJump, SettledWhenOff, CarriesOn, Stays, GoesOn

=============================================================================
