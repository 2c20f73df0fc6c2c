------------------------------ MODULE Voicings ------------------------------
(***************************************************************************)
(* A chord's box (ui/src/components/Voicings.tsx and ChordDiagram.tsx):    *)
(* the shapes it steps through, the one it shows, the reader's picks that  *)
(* localStorage keeps, the sheet's own shape while the chord is shown as   *)
(* written, and the editor's boxes, which set that shape instead.          *)
(***************************************************************************)
EXTENDS Shapes

CONSTANTS
    Boxes,          \* the chords shown, each for strings: none for a piano
    Typed,          \* shapes typed into the editor
    None

ASSUME BoxesAssumption ==
    /\ Boxes \subseteq [chord : Chord, strings : Seq(Nat)]
    /\ \A frets \in Typed : frets \in Seq(0..24 \cup {x})

VARIABLES
    box,            \* the chord
    generated,      \* the shapes we know for it
    edit,           \* it is the editor's
    sheetOwn,       \* the frets of the sheet's own shape for it, or None
    moved,          \* it is not shown as written, so that shape is not used
    picks           \* the reader's pick: for this sheet's own chord, for all

boxVars == <<box, generated, edit, sheetOwn, moved, picks>>

Scopes == {"sheet", "all"}
piano == box.strings = <<>>

\* A shape's key: its frets, or the notes of a piano voicing.
keyOf(v) == IF piano THEN v ELSE v.frets

Known(b) == IF b.strings = <<>> THEN pianoVoicings(b.chord)
                                ELSE shapesFor(b.chord, b.strings)

own == IF moved THEN None ELSE sheetOwn

IndexOf(shapes, key) == Min({Len(shapes) + 1} \cup
                            {i \in DOMAIN shapes : keyOf(shapes[i]) = key})

\* The shapes we know, after the sheet's own if that is not one of them.
shapesList ==
    IF own = None \/ IndexOf(generated, own) <= Len(generated) THEN generated
    ELSE <<voicingFromFrets(own)>> \o generated

defaultIndex == IF own = None THEN 1 ELSE IndexOf(shapesList, own)

scope == IF own # None THEN "sheet" ELSE "all"

\* useVoicing and usePianoVoicing: the pick, where it still is a shape.
index ==
    LET picked == IF edit THEN Len(shapesList) + 1 ELSE IndexOf(shapesList, picks[scope])
    IN IF picked <= Len(shapesList) THEN picked ELSE defaultIndex

Shown == keyOf(shapesList[index])

\* find: the first of the shapes that were picked, or the default.
Found(picked) == IF picked = {} THEN shapesList[defaultIndex] ELSE shapesList[Min(picked)]

\* (Slip: the picks of all sheets are looked up for the sheet's own chords.)
resolveAnywhere ==
    Found({i \in DOMAIN shapesList : ~edit /\ keyOf(shapesList[i]) = picks["all"]})

\* resolveVoicing and resolvePiano, for playing the whole chart.
resolveVoicing ==
    Found({i \in DOMAIN shapesList : ~edit /\ keyOf(shapesList[i]) = picks[scope]})

BoxInit ==
    /\ box \in Boxes /\ generated = Known(box)
    /\ edit \in BOOLEAN
    /\ sheetOwn \in {None} \cup
            IF piano THEN {} ELSE {frets \in Typed : Len(frets) = Len(box.strings)}
                                  \cup {keyOf(v) : v \in {generated[1], generated[Len(generated)]}}
    /\ edit => sheetOwn = None
    /\ piano => ~edit
    /\ moved = FALSE
    /\ picks = [s \in Scopes |-> None]

Next(d) == shapesList[1 + ((index - 1 + d + Len(shapesList)) % Len(shapesList))]

\* (Slip: the default is stored as any other shape, and the editor's first
\* is what would show anyway.)
stepStoring(d) ==
    /\ Len(shapesList) >= 2
    /\ IF edit
       THEN sheetOwn' = (IF Next(d) = shapesList[1] THEN None ELSE keyOf(Next(d)))
            /\ UNCHANGED picks
       ELSE picks' = [picks EXCEPT !["all"] = keyOf(Next(d))] /\ UNCHANGED sheetOwn
    /\ UNCHANGED <<box, generated, edit, moved>>

\* An arrow: back at what would show anyway, there is nothing to store.
step(d) ==
    /\ Len(shapesList) >= 2
    /\ IF edit
       THEN /\ sheetOwn' = IF keyOf(Next(d)) = keyOf(generated[1])
                           THEN None ELSE keyOf(Next(d))
            /\ UNCHANGED picks
       ELSE /\ picks' = [picks EXCEPT ![scope] = IF Next(d) = shapesList[defaultIndex]
                                                 THEN None ELSE keyOf(Next(d))]
            /\ UNCHANGED sheetOwn
    /\ UNCHANGED <<box, generated, edit, moved>>

\* ShapeField: frets are typed in the editor's list, or cleared there.
TypeFrets(frets) ==
    /\ edit /\ (frets # None => Len(frets) = Len(box.strings))
    /\ sheetOwn' = frets
    /\ UNCHANGED <<box, generated, edit, moved, picks>>

\* Another key, capo or tuning, and back (SheetPage's `shapes`).
MoveChords ==
    /\ ~edit
    /\ moved' = ~moved
    /\ UNCHANGED <<box, generated, edit, sheetOwn, picks>>

BoxNext ==
    \/ \E d \in {-1, 1} : step(d)
    \/ \E frets \in Typed \cup {None} : TypeFrets(frets)
    \/ MoveChords

BoxSpec == BoxInit /\ [][BoxNext]_boxVars

-----------------------------------------------------------------------------
(* What the box draws. *)

FRETS == 5

\* The fret its first row is.
base(v) == IF highestFret(v) > FRETS THEN lowestFret(v) ELSE 1

\* The C its two octaves start from.
from(v) == v[2] - (v[2] % 12)

\* The row of each dot, or of each key from the left.
Rows(v) == IF piano THEN {v[i] - from(v) : i \in 2..Len(v)}
           ELSE {f - base(v) : f \in FrettedAt(v.frets)}

-----------------------------------------------------------------------------

\* The picks are shapes there are or were, one for a sheet's own chord and
\* one for the others.
BoxTypeOK ==
    /\ box \in Boxes /\ {edit, moved} \subseteq BOOLEAN
    /\ picks \in [Scopes -> {None} \cup {keyOf(generated[i]) : i \in DOMAIN generated}
                            \cup {sheetOwn}]
    /\ index \in DOMAIN shapesList

\* "The same answer as useVoicing" (Voicings.tsx:108-110): the chart plays
\* the shape that the chord's box shows, after any steps and moves.
ResolveAgrees == keyOf(resolveVoicing) = Shown

\* An arrow shows the next shape of those counted (n/m), in the sheet and in
\* the editor, though picking the default stores nothing and the editor's
\* list changes with what is stored.  "Picks for chords a sheet defines are
\* kept per sheet" (Voicings.tsx:22): stepping through its shapes leaves the
\* pick for all other sheets alone.
StepShowsNext ==
    [][/\ \A d \in {-1, 1} : step(d) => Shown' = keyOf(Next(d))
       /\ own # None => UNCHANGED picks["all"]]_boxVars

\* The box has just been drawn: what holds of its chord's shapes is looked
\* at once.
Fresh == ~piano /\ ~edit /\ ~moved /\ sheetOwn = None /\ \A s \in Scopes : picks[s] = None

\* Every shape offered is its chord: it sounds only the chord's tones and a
\* slash chord's bass, and all of them but the fifth of a longer chord (a bass
\* plays root and fifth), with the root or the bass lowest (a ukulele apart).
ShapesSound ==
    LET c == box.chord
        strings == box.strings
        kind == instrumentFor(strings)
        slash == isSlash(c) /\ kind # "ukulele"
        low == IF slash THEN c.bass ELSE c.root
        sounds(v) == {pitchClass(v.frets, strings, s) : s \in Sounding(v.frets)}
    IN Fresh => \A v \in Range(generated) :
        /\ sounds(v) \subseteq Range(chordTones(c)) \cup {low}
                               \cup IF kind = "bass" THEN {mod12(c.root + 7)} ELSE {}
        /\ kind # "bass" => required(c) \subseteq sounds(v)
        /\ kind # "ukulele" /\ (slash => low \in sounds(v)) =>
                pitchClass(v.frets, strings, Min(Sounding(v.frets)))
                    \in {low} \cup IF low \in sounds(v) THEN {} ELSE {c.root}

\* A standard guitar's chord that no shape was checked by hand for.
Unchecked ==
    /\ box.strings = STANDARD_STRINGS /\ ~isSlash(box.chord)
    /\ box.chord.quality \notin DOMAIN E_SHAPES \cup DOMAIN A_SHAPES

\* guitar.ts:192: "Voicings to cycle through for a chord, at most eight".
AtMostEight == Len(generated) <= MAX_SHAPES

\* The arrows offer different shapes, and the box has room to draw each; a
\* hand holds what the search found, with at most four fingers.
ShapesFit ==
    /\ Rows(shapesList[index]) \subseteq IF piano THEN 0..23 ELSE 0..(FRETS - 1)
    /\ Fresh => Unchecked \/ AtMostEight
    /\ Fresh => \A i, j \in DOMAIN generated : i # j => keyOf(generated[i]) # keyOf(generated[j])
    /\ Fresh => \A v \in Range(generated) :
        /\ box.strings # STANDARD_STRINGS => Grip(v.frets).fingers <= 4

\* A shape written out and typed in again is the same shape, wherever on the
\* neck it is.
TextsComeBack ==
    Fresh => \A v \in Range(shapesList) : parseFrets(fretsText(v.frets), Len(v.frets)) = v.frets

\* The shapes of a chord's box are worth cycling through: they are that chord,
\* differ, can be drawn, and keep through the editor's text.
ShapesServe == BoxTypeOK /\ ShapesSound /\ ShapesFit /\ TextsComeBack

\* guitar.ts:92: "Barre across every played string sitting at the root fret":
\* no string under a barre is played behind it.
BarresHold ==
    ~piano => \A v \in Range(generated) : v.barre # NoBarre =>
        \A s \in v.barre[2]..v.barre[3] : v.frets[s] = x \/ v.frets[s] >= v.barre[1]
=============================================================================
