---------------------------- MODULE Instruments ----------------------------
(***************************************************************************)
(* What the browser knows of pitch and of instruments: chords and keys     *)
(* (ui/src/lib/music.ts), tunings (lib/tunings.ts) and piano voicings      *)
(* (lib/piano.ts).  A pitch class is 0..11 with C at 0, a pitch a MIDI     *)
(* number; how they are spelled is left out.                               *)
(***************************************************************************)
EXTENDS Integers, Sequences, FiniteSets, FiniteSetsExt, SequencesExt

mod12(n) == n % 12
PitchClass == 0..11
NoBass == -1

\* Intervals above the root, as guitar.ts lists them (TONES).
Tones ==
    [maj |-> <<0, 4, 7>>, min |-> <<0, 3, 7>>, dim |-> <<0, 3, 6>>,
     aug |-> <<0, 4, 8>>, min6 |-> <<0, 3, 7, 9>>, maj6 |-> <<0, 4, 7, 9>>,
     min7 |-> <<0, 3, 7, 10>>, minmaj7 |-> <<0, 3, 7, 11>>,
     maj7 |-> <<0, 4, 7, 11>>, dom7 |-> <<0, 4, 7, 10>>,
     dim7 |-> <<0, 3, 6, 9>>, hdim7 |-> <<0, 3, 6, 10>>,
     sus2 |-> <<0, 2, 7>>, sus4 |-> <<0, 5, 7>>, pow5 |-> <<0, 7>>,
     add9 |-> <<0, 4, 7, 2>>, dom9 |-> <<0, 4, 7, 10, 2>>,
     min9 |-> <<0, 3, 7, 10, 2>>, maj9 |-> <<0, 4, 7, 11, 2>>,
     dom7sus4 |-> <<0, 5, 7, 10>>]
Quality == DOMAIN Tones

Chord == [root : PitchClass, quality : Quality, bass : PitchClass \cup {NoBass}]

chordTones(c) == [i \in DOMAIN Tones[c.quality] |-> mod12(c.root + Tones[c.quality][i])]

\* A slash chord whose bass is not its root.
isSlash(c) == c.bass \notin {NoBass, c.root}

Plain(c) == [c EXCEPT !.bass = NoBass]

transposeSymbol(c, n) ==
    [c EXCEPT !.root = mod12(c.root + n),
              !.bass = IF c.bass = NoBass THEN NoBass ELSE mod12(c.bass + n)]

\* SIMPLE: the triad a beginner would strum.
simplifyQuality(q) ==
    CASE q \in {"maj6", "maj7", "dom7", "add9", "dom9", "maj9"} -> "maj"
      [] q \in {"min6", "min7", "minmaj7", "min9"} -> "min"
      [] q \in {"dim7", "hdim7"} -> "dim"
      [] q = "dom7sus4" -> "sus4"
      [] OTHER -> q

Simplified(c) == [c EXCEPT !.quality = simplifyQuality(c.quality)]

keyUsesFlats(k) ==
    k.tonic \in (IF k.minor THEN {2, 7, 0, 5, 10, 3} ELSE {5, 10, 3, 8, 1})

-----------------------------------------------------------------------------
(* Tunings. *)

Kinds == {"chords", "tab", "ukulele", "bass", "piano"}
Instruments == {"guitar", "ukulele", "bass", "piano"}

instrumentOf(kind) == IF kind \in Instruments THEN kind ELSE "guitar"

Tuned(instrument, id, strings, shift) ==
    [instrument |-> instrument, id |-> id, strings |-> strings, shift |-> shift]

STANDARD_STRINGS == <<40, 45, 50, 55, 59, 64>>
UKULELE_STRINGS == <<67, 60, 64, 69>>
BASS_STRINGS == <<28, 33, 38, 43>>

TUNINGS ==
    LET guitar(id, strings, shift) == Tuned("guitar", id, strings, shift)
        ukulele(id, strings) == Tuned("ukulele", id, strings, 0)
        bass(id, strings, shift) == Tuned("bass", id, strings, shift)
    IN {guitar("standard", STANDARD_STRINGS, 0),
        guitar("eb-standard", <<39, 44, 49, 54, 58, 63>>, 1),
        guitar("d-standard", <<38, 43, 48, 53, 57, 62>>, 2),
        guitar("drop-d", <<38, 45, 50, 55, 59, 64>>, 0),
        guitar("drop-c", <<36, 43, 48, 53, 57, 62>>, 0),
        guitar("dadgad", <<38, 45, 50, 55, 57, 62>>, 0),
        guitar("open-d", <<38, 45, 50, 54, 57, 62>>, 0),
        guitar("open-g", <<38, 43, 50, 55, 59, 62>>, 0),
        guitar("open-e", <<40, 47, 52, 56, 59, 64>>, 0),
        guitar("open-c", <<36, 43, 48, 55, 60, 64>>, 0),
        ukulele("standard", UKULELE_STRINGS),
        ukulele("low-g", <<55, 60, 64, 69>>),
        ukulele("baritone", <<50, 55, 59, 64>>),
        bass("standard", BASS_STRINGS, 0),
        bass("eb-standard", <<27, 32, 37, 42>>, 1),
        bass("d-standard", <<26, 31, 36, 41>>, 2),
        bass("drop-d", <<26, 33, 38, 43>>, 0),
        bass("five-string", <<23, 28, 33, 38, 43>>, 0)}

TuningIds == {t.id : t \in TUNINGS}

tuningsFor(kind) == {t \in TUNINGS : t.instrument = instrumentOf(kind)}

Offered(kind) == {t.id : t \in tuningsFor(kind)}

\* The instrument's standard stands in for a tuning it does not have, and
\* guitar standard, the first of them all, for piano's.
getTuning(id, kind) ==
    LET instrument == IF instrumentOf(kind) = "piano" THEN "guitar" ELSE instrumentOf(kind)
    IN CHOOSE t \in TUNINGS :
        t.instrument = instrument /\ t.id = IF id \in Offered(kind) THEN id ELSE "standard"

shapeStrings(t) == [s \in DOMAIN t.strings |-> t.strings[s] + t.shift]

instrumentFor(strings) ==
    IF \A s \in DOMAIN strings : strings[s] < 48 THEN "bass"
    ELSE IF Len(strings) = 4 THEN "ukulele" ELSE "guitar"

-----------------------------------------------------------------------------
(* Piano. *)

LH_LOW == 36
RH_LOW == 55

\* The lowest pitch of class pc that is at least low.
AtLeast(low, pc) == low + mod12(pc - low)

\* The right hand's tones: five-note chords leave the fifth out, and all go in
\* pitch order from the root.
RightHand(c) ==
    LET tones == chordTones(c)
        kept == IF Len(tones) > 4 THEN RemoveAt(tones, 3) ELSE tones
    IN SortSeq(kept, LAMBDA a, b : mod12(a - c.root) < mod12(b - c.root))

\* One voicing for each inversion: the left hand's note, then the right's.
pianoVoicings(c) ==
    LET tones == RightHand(c)
        bass == IF c.bass = NoBass THEN c.root ELSE c.bass
        order(k) == SubSeq(tones, k, Len(tones)) \o SubSeq(tones, 1, k - 1)
        climb[k \in DOMAIN tones, i \in DOMAIN tones] ==
            IF i = 1 THEN AtLeast(RH_LOW, order(k)[1])
                     ELSE AtLeast(climb[k, i - 1] + 1, order(k)[i])
    IN [k \in DOMAIN tones |->
           <<AtLeast(LH_LOW, bass)>> \o [i \in DOMAIN tones |-> climb[k, i]]]
=============================================================================
