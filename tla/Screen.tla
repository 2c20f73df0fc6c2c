------------------------------- MODULE Screen -------------------------------
(***************************************************************************)
(* Reading a sheet (ui/src/pages/SheetPage.tsx): the controls, which name  *)
(* the chords for an instrument, a tuning, a capo and a key, and the three *)
(* ways of going through the sheet, of which one runs at a time: hearing   *)
(* the chart played (lib/pluck.ts), following the microphone and           *)
(* scrolling.  A turn is something the reader does.                        *)
(***************************************************************************)
EXTENDS Instruments

CONSTANTS
    Sheets,         \* the sheets there are to read
    Ahead,          \* bound on the chords queued that have not started: those of
                    \* half a second, and those whose timers are late
    MaxTurns,       \* bound on what the reader does
    None            \* null

ASSUME ScreenAssumption ==
    /\ Sheets \subseteq [kind : Kinds, tuning : TuningIds, capo : 0..12,
                         tempo : (40..240) \cup {None}, chords : Nat]
    /\ Ahead \in Nat \ {0} /\ MaxTurns \in Nat
    /\ None \notin Instruments \cup TuningIds \cup Int

VARIABLES
    sheet,          \* the sheet on the screen
    knobs,          \* what the controls have set
    hearing,        \* the chord being heard, or None
    player,         \* playThrough, while it runs
    late,           \* the chords whose timers players left behind when they ended
    stray,          \* one of those timers has marked a chord since the mark was
                    \* last taken away
    following,      \* the status of play-along
    scrolling, stage, more, wide,
    turns

mark == <<hearing, stray>>
goingOn == <<mark, player, late, following, scrolling>>
display == <<stage, more, wide>>
screenVars == <<sheet, knobs, goingOn, display, turns>>

Knobs == [transpose : -5..6, capo : 0..12, readAs : Instruments \cup {None},
          tuningId : TuningIds \cup {None}, simplify : BOOLEAN,
          tempo : (40..240) \cup {None}, bpmPref : 40..240, picks : BOOLEAN]

-----------------------------------------------------------------------------
(* What the controls come to. *)

written == instrumentOf(sheet.kind)
instrument(k) == IF k.readAs = None THEN written ELSE k.readAs
capoable(k) == instrument(k) \in {"guitar", "ukulele"}

\* KIND_OF an instrument is one whose tunings are that instrument's.
tuningKind(k) == IF instrument(k) = written THEN sheet.kind ELSE instrument(k)
sheetTuning == getTuning(sheet.tuning, sheet.kind)
sheetShift == IF written = "piano" THEN 0 ELSE sheetTuning.shift
tuning(k) ==
    getTuning(IF k.tuningId # None THEN k.tuningId
              ELSE IF instrument(k) = written THEN sheet.tuning ELSE "standard",
              tuningKind(k))
strung(k) == instrument(k) # "piano"
asWritten(k) == strung(k) /\ instrument(k) = written /\ tuning(k).id = sheetTuning.id

\* The song sounds at the sheet's shapes plus its capo, less its tuning's
\* drop; the reader's shapes are that, less their capo, plus their own drop.
shift(k) ==
    k.transpose + sheet.capo - sheetShift - k.capo + (IF strung(k) THEN tuning(k).shift ELSE 0)

bpm(k) == IF k.tempo # None THEN k.tempo ELSE k.bpmPref

\* What hear reads: the chords' names, the shapes and strings that resolve
\* them to frets, and the strings and capo that those sound on.
Uses(k) ==
    [instrument |-> instrument(k), shift |-> shift(k), simplify |-> k.simplify,
     own |-> shift(k) = 0 /\ asWritten(k), picks |-> k.picks,
     strings |-> IF strung(k) THEN shapeStrings(tuning(k)) ELSE <<>>,
     sound |-> IF strung(k) THEN tuning(k).strings ELSE <<>>,
     capo |-> k.capo]

\* (Slip: the capo is left out of the effect's dependencies.)
heardButCapo(k) ==
    <<instrument(k), k.transpose, k.simplify, Uses(k).strings, Uses(k).sound, k.picks>>

\* The dependencies of the effect that has a change taken over.
heard(k) ==
    <<instrument(k), shift(k), k.capo, k.simplify, Uses(k).strings, Uses(k).sound, k.picks>>

\* The pitch that a chord written on C sounds at, from where chordPitches (or
\* the piano) plays it.
Sounding(k) ==
    mod12(shift(k) - (IF strung(k) THEN tuning(k).shift - k.capo ELSE 0))

\* Where play-along and the key shown say that it does.
soundingOffset(k) == mod12(sheet.capo - sheetShift + k.transpose)

\* The controls of the sidebar, of the bottom bar and what it has more of, and
\* of stage mode, which lies over either.
SidebarControls ==
    {"key", "capo", "instrument", "tuning", "spelling", "tempo", "scroll", "follow", "hear",
     "stage", "box"}
BottomBar == {"key", "capo", "scroll", "follow", "more"}
MoreControls == {"instrument", "tuning", "spelling", "tempo", "hear", "stage"}
StageControls == {"scroll", "follow", "hear", "exit"}

controls ==
    IF stage THEN StageControls ELSE IF wide THEN SidebarControls
    ELSE BottomBar \cup {"box"} \cup IF more THEN MoreControls ELSE {}

-----------------------------------------------------------------------------
(* Hearing the chart. *)

\* No player.
Off == [on |-> FALSE]

\* hear stops the player there is, clears its timers and starts one, which
\* queues the chord that it starts with at once.
hear(k, from) ==
    LET due == IF from < sheet.chords THEN <<from>> ELSE <<>>
    IN /\ player' = [on |-> TRUE, uses |-> Uses(k), bpm |-> bpm(k), next |-> from + Len(due), due |-> due]
       /\ hearing' = from /\ UNCHANGED stray

\* The mark goes, and the player with it.
silence == hearing' = None /\ stray' = FALSE /\ player' = Off

\* (Slip: the last chord of the chart is not queued.)
TickShort ==
    /\ player.on /\ player.next < sheet.chords - 1 /\ Len(player.due) < Ahead
    /\ player' = [player EXCEPT !.next = @ + 1, !.due = Append(@, player.next)]
    /\ UNCHANGED <<sheet, knobs, mark, late, following, scrolling, display, turns>>

\* tick: the next chord is near enough to queue.
Tick ==
    /\ player.on /\ player.next < sheet.chords /\ Len(player.due) < Ahead
    /\ player' = [player EXCEPT !.next = @ + 1, !.due = Append(@, player.next)]
    /\ UNCHANGED <<sheet, knobs, mark, late, following, scrolling, display, turns>>

\* onChord, when the chord that is due starts to sound.
ChordStarts ==
    /\ player.on /\ player.due # <<>>
    /\ hearing' = Head(player.due)
    /\ player' = [player EXCEPT !.due = Tail(@)]
    /\ UNCHANGED <<sheet, knobs, stray, late, following, scrolling, display, turns>>

\* onEnd: everything is queued and the audio clock is past the end.  That is
\* all tick asks: where the page was held up, timers of chords are still to
\* come, and neither onEnd nor a later stop clears them.
ChartEnds ==
    /\ player.on /\ player.next >= sheet.chords
    /\ late' = late \o player.due
    /\ silence
    /\ UNCHANGED <<sheet, knobs, following, scrolling, display, turns>>

\* onChord from a timer of a player that has ended.
LateStarts ==
    /\ late # <<>>
    /\ hearing' = Head(late) /\ late' = Tail(late) /\ stray' = TRUE
    /\ UNCHANGED <<sheet, knobs, player, following, scrolling, display, turns>>

-----------------------------------------------------------------------------
(* The controls. *)

Turn == turns < MaxTurns /\ turns' = turns + 1

\* The knobs are set, and the effect has what is playing taken over.
Set(k) ==
    /\ Turn /\ knobs' = k
    /\ IF hearing # None /\ heard(k) # heard(knobs)
       THEN hear(k, hearing) ELSE UNCHANGED <<mark, player>>
    /\ UNCHANGED <<sheet, late, following, scrolling, display>>

stepTranspose(d) ==
    "key" \in controls /\ Set([knobs EXCEPT !.transpose = ((@ + d + 17) % 12) - 5])

ResetTranspose == wide /\ knobs.transpose # 0 /\ Set([knobs EXCEPT !.transpose = 0])

stepCapo(d) ==
    /\ "capo" \in controls /\ capoable(knobs)
    /\ Set([knobs EXCEPT !.capo = IF @ + d \in 0..12 THEN @ + d ELSE @])

\* (Slip: the capo of the instrument that was read stays on.)
setInstrumentOnly(i) ==
    /\ "instrument" \in controls
    /\ Set([knobs EXCEPT !.readAs = IF i = written THEN None ELSE i, !.tuningId = None])

setInstrument(i) ==
    /\ "instrument" \in controls
    /\ Set([knobs EXCEPT !.readAs = IF i = written THEN None ELSE i,
                         !.capo = IF i = written THEN sheet.capo ELSE 0,
                         !.tuningId = None])

setTuning(id) ==
    /\ "tuning" \in controls /\ strung(knobs) /\ id \in Offered(tuningKind(knobs))
    /\ Set([knobs EXCEPT !.tuningId = id])

toggleSimplify == "spelling" \in controls /\ Set([knobs EXCEPT !.simplify = ~@])

\* A chord box steps to another of its shapes.
pick == "box" \in controls /\ Set([knobs EXCEPT !.picks = ~@])

stepBpm(d) ==
    LET next == IF bpm(knobs) + d * 5 > 200 THEN 200
                ELSE IF bpm(knobs) + d * 5 < 40 THEN 40 ELSE bpm(knobs) + d * 5
        k == IF knobs.tempo # None THEN [knobs EXCEPT !.tempo = next]
                                   ELSE [knobs EXCEPT !.bpmPref = next]
    IN /\ "tempo" \in controls /\ Turn /\ knobs' = k
       /\ IF hearing # None THEN hear(k, hearing) ELSE UNCHANGED <<mark, player>>
       /\ UNCHANGED <<sheet, late, following, scrolling, display>>

playFrom(i) ==
    /\ hearing # None
    /\ Turn /\ hear(knobs, i)
    /\ UNCHANGED <<sheet, knobs, late, following, scrolling, display>>

toggleHearing ==
    /\ "hear" \in controls /\ Turn
    /\ IF hearing # None THEN silence /\ UNCHANGED <<following, scrolling>>
       ELSE hear(knobs, 0) /\ following' = "off" /\ scrolling' = FALSE
    /\ UNCHANGED <<sheet, knobs, late, display>>

active == following \in {"loading", "listening"}

togglePlayAlong ==
    /\ "follow" \in controls /\ Turn
    /\ IF active THEN following' = "off" /\ UNCHANGED <<mark, player, scrolling>>
       ELSE following' = "loading" /\ silence /\ scrolling' = FALSE
    /\ UNCHANGED <<sheet, knobs, late, display>>

\* (Slip: what is playing goes on under the scrolling.)
toggleScrollingOnly ==
    /\ "scroll" \in controls /\ Turn
    /\ scrolling' = ~scrolling
    /\ UNCHANGED <<sheet, knobs, mark, player, late, following, display>>

toggleScrolling ==
    /\ "scroll" \in controls /\ Turn
    /\ scrolling' = ~scrolling
    /\ IF scrolling THEN UNCHANGED <<mark, player, following>>
       ELSE silence /\ following' = "off"
    /\ UNCHANGED <<sheet, knobs, late, display>>

\* usePlayAlong gets ready, after an error too, or fails while it does or
\* later; its error is dismissed.
Listening ==
    /\ following \in {"loading", "error"} /\ following' = "listening"
    /\ UNCHANGED <<sheet, knobs, mark, player, late, scrolling, display, turns>>

ListeningFails ==
    /\ active /\ following' = "error"
    /\ UNCHANGED <<sheet, knobs, mark, player, late, scrolling, display, turns>>

Dismiss ==
    /\ following = "error" /\ ~stage /\ ~wide /\ ~more
    /\ Turn /\ following' = "off"
    /\ UNCHANGED <<sheet, knobs, mark, player, late, scrolling, display>>

\* useAutoScroll has come to the end of the sheet.
ScrollEnds ==
    /\ scrolling /\ scrolling' = FALSE
    /\ UNCHANGED <<sheet, knobs, mark, player, late, following, display, turns>>

Reach(s, m, w) ==
    /\ stage' = s /\ more' = m /\ wide' = w
    /\ UNCHANGED <<sheet, knobs, goingOn>>

SetStage == "stage" \in controls /\ Turn /\ Reach(TRUE, FALSE, wide)
ExitStage == stage /\ Turn /\ Reach(FALSE, more, wide)
SetMore == "more" \in controls /\ Turn /\ Reach(stage, ~more, wide)
Resize == Turn /\ Reach(stage, more, ~wide)

Fresh(s, k) ==
    [transpose |-> 0, readAs |-> k.readAs, tuningId |-> None, simplify |-> FALSE,
     capo |-> IF k.readAs \in {None, instrumentOf(s.kind)} THEN s.capo ELSE 0,
     tempo |-> s.tempo, bpmPref |-> k.bpmPref, picks |-> k.picks]

\* Another sheet, or another version of this one: the screen's cleanup stops
\* what runs, what a timer that is left sets is gone, and only preferences stay.
OpenSheet(s) ==
    /\ Turn
    /\ sheet' = s /\ knobs' = Fresh(s, knobs)
    /\ silence /\ late' = <<>> /\ following' = "off" /\ scrolling' = FALSE
    /\ stage' = FALSE /\ more' = FALSE /\ wide' = wide

ScreenInit ==
    /\ sheet \in Sheets
    /\ \E readAs \in Instruments \cup {None} :
        knobs = Fresh(sheet, [readAs |-> readAs, bpmPref |-> 90, picks |-> FALSE])
    /\ hearing = None /\ stray = FALSE /\ player = Off /\ late = <<>> /\ following = "off"
    /\ scrolling = FALSE /\ stage = FALSE /\ more = FALSE /\ wide \in BOOLEAN
    /\ turns = 0

ScreenNext ==
    \/ Tick \/ ChordStarts \/ ChartEnds \/ LateStarts
    \/ \E d \in {-1, 1} : stepTranspose(d) \/ stepCapo(d) \/ stepBpm(d)
    \/ \E i \in Instruments : setInstrument(i)
    \/ \E id \in TuningIds : setTuning(id)
    \/ ResetTranspose \/ toggleSimplify \/ pick
    \/ \E i \in 0..(sheet.chords - 1) : playFrom(i)
    \/ toggleHearing \/ togglePlayAlong \/ toggleScrolling
    \/ Listening \/ ListeningFails \/ Dismiss \/ ScrollEnds
    \/ SetStage \/ ExitStage \/ SetMore \/ Resize
    \/ \E s \in Sheets : OpenSheet(s)

\* The interval and the timers of a player keep coming.
ScreenFairness ==
    /\ WF_screenVars(Tick) /\ WF_screenVars(ChordStarts)
    /\ WF_screenVars(ChartEnds) /\ WF_screenVars(LateStarts)

ScreenSpec == ScreenInit /\ [][ScreenNext]_screenVars /\ ScreenFairness

-----------------------------------------------------------------------------

\* The knobs stay in their ranges and the player within the chart.
ScreenTypeOK ==
    /\ sheet \in Sheets /\ knobs \in Knobs /\ turns \in 0..MaxTurns
    /\ following \in {"off", "loading", "listening", "error"}
    /\ {scrolling, stage, more, wide} \subseteq BOOLEAN
    /\ hearing \in Nat \cup {None}
    /\ player.on => player.next \in 0..sheet.chords /\ player.due \in Seq(Nat)

\* Hearing, following and scrolling take over from one another, whatever
\* starts, fails, ends or is clicked on the way (toggleHearing,
\* togglePlayAlong, toggleScrolling, playFrom and the effect on `heard`),
\* unless the timer of a chart that has ended marked a chord, which the effect
\* takes for one that is playing.
OneAtATime ==
    /\ hearing # None /\ (active \/ scrolling) => stray
    /\ ~(active /\ scrolling)

\* The chords that a player has queued are those that follow the one heard,
\* in order: a player that was replaced leaves no chord behind to jump to (one
\* that has ended may, and the mark strays).
QueuedInOrder ==
    player.on =>
        LET first == player.next - Len(player.due)
        IN /\ \A i \in DOMAIN player.due : player.due[i] = first + i - 1
           /\ stray \/ hearing \in {first - 1, first}

\* The chart that plays is the one on the screen: it has a chord marked as
\* heard, and plays with the instrument, key, capo, tuning, spelling, shapes,
\* picks and tempo that are set now (SheetPage.tsx:193, "takes over from the
\* chord that's playing"), going on from the chord heard; and a chord is
\* marked with no chart playing only by a timer that outlived its chart.
HeardAsShown ==
    /\ player.on => /\ hearing # None
                    /\ player.uses = Uses(knobs) /\ player.bpm = bpm(knobs)
    /\ hearing # None /\ ~player.on => stray
    /\ QueuedInOrder

\* pluck.ts 245: "`onChord` fires as each chord starts sounding and `onEnd`
\* after the last": the mark moves only while a chart plays.
NoChordAfterTheEnd == [][hearing' \notin {hearing, None} => player'.on]_screenVars

\* "Chords and shapes follow it, so they still sound like the song": whatever
\* the reader reads the chords for, they sound where the key shown and the
\* prior given to play-along say that the song does.  The one exception is a
\* piano sheet that comes with a capo, as other clients may write it, on the
\* piano: its chords sound without the capo that the key is shown with.
SoundsTheSame ==
    \/ Sounding(knobs) = soundingOffset(knobs)
    \/ written = "piano" /\ sheet.capo # 0 /\ ~strung(knobs)

\* A chart that is being heard comes to its end (or is stopped, or has
\* something else start): its timers are never left without a next.  A mark
\* that strayed is not a chart.
HearingEnds == hearing # None ~> hearing = None \/ stray
=============================================================================
