------------------------------- MODULE Shapes -------------------------------
(***************************************************************************)
(* The shapes of chords on the fretboard (ui/src/lib/guitar.ts): those     *)
(* checked by hand for a guitar in standard tuning, those a bass player    *)
(* wants, and for everything else a search of the neck.  searchCache only  *)
(* saves time and is left out: each of its keys holds all that its entry   *)
(* is computed from.  A shape's frets go from the lowest string up.        *)
(***************************************************************************)
EXTENDS Instruments

x == -99            \* null: the string is not played
NoBarre == <<>>

Voicing(frets, barre, open) == [frets |-> frets, barre |-> barre, open |-> open]

\* For each root, the open-position shapes of its qualities.
OPEN ==
    [r \in PitchClass |->
        CASE r = 0 -> [maj |-> <<x, 3, 2, 0, 1, 0>>, maj7 |-> <<x, 3, 2, 0, 0, 0>>,
                       dom7 |-> <<x, 3, 2, 3, 1, 0>>, maj6 |-> <<x, 3, 2, 2, 1, 0>>,
                       sus2 |-> <<x, 3, 0, 0, 1, 3>>, sus4 |-> <<x, 3, 3, 0, 1, 1>>]
          [] r = 2 -> [maj |-> <<x, x, 0, 2, 3, 2>>, min |-> <<x, x, 0, 2, 3, 1>>,
                       dom7 |-> <<x, x, 0, 2, 1, 2>>, maj7 |-> <<x, x, 0, 2, 2, 2>>,
                       min7 |-> <<x, x, 0, 2, 1, 1>>, maj6 |-> <<x, x, 0, 2, 0, 2>>,
                       min6 |-> <<x, x, 0, 2, 0, 1>>, sus2 |-> <<x, x, 0, 2, 3, 0>>,
                       sus4 |-> <<x, x, 0, 2, 3, 3>>, dim |-> <<x, x, 0, 1, 3, 1>>,
                       dim7 |-> <<x, x, 0, 1, 0, 1>>, hdim7 |-> <<x, x, 0, 1, 1, 1>>]
          [] r = 5 -> [maj7 |-> <<x, x, 3, 2, 1, 0>>]
          [] r = 7 -> [maj |-> <<3, 2, 0, 0, 0, 3>>, dom7 |-> <<3, 2, 0, 0, 0, 1>>,
                       maj7 |-> <<3, 2, 0, 0, 0, 2>>, maj6 |-> <<3, 2, 0, 0, 0, 0>>,
                       sus4 |-> <<3, x, 0, 0, 1, 3>>, sus2 |-> <<3, 0, 0, 2, 3, 3>>]
          [] r = 11 -> [dom7 |-> <<x, 2, 1, 2, 0, 2>>, min7 |-> <<x, 2, 0, 2, 0, 2>>]
          [] OTHER -> <<>>]

\* Movable shapes, as offsets from the fret of their root.
E_SHAPES ==
    [maj |-> <<0, 2, 2, 1, 0, 0>>, min |-> <<0, 2, 2, 0, 0, 0>>,
     dom7 |-> <<0, 2, 0, 1, 0, 0>>, min7 |-> <<0, 2, 0, 0, 0, 0>>,
     maj7 |-> <<0, x, 1, 1, 0, x>>, maj6 |-> <<0, 2, 2, 1, 2, 0>>,
     min6 |-> <<0, 2, 2, 0, 2, 0>>, minmaj7 |-> <<0, 2, 1, 0, 0, 0>>,
     sus4 |-> <<0, 2, 2, 2, 0, 0>>, aug |-> <<0, 3, 2, 1, 1, 0>>,
     dim |-> <<0, 1, 2, 0, x, x>>, dim7 |-> <<0, x, -1, 0, -1, 0>>,
     hdim7 |-> <<0, x, 0, 0, -1, x>>, pow5 |-> <<0, 2, 2, x, x, x>>]

A_SHAPES ==
    [maj |-> <<x, 0, 2, 2, 2, 0>>, min |-> <<x, 0, 2, 2, 1, 0>>,
     dom7 |-> <<x, 0, 2, 0, 2, 0>>, min7 |-> <<x, 0, 2, 0, 1, 0>>,
     maj7 |-> <<x, 0, 2, 1, 2, 0>>, maj6 |-> <<x, 0, 2, 2, 2, 2>>,
     min6 |-> <<x, 0, 2, 2, 1, 2>>, minmaj7 |-> <<x, 0, 2, 1, 1, 0>>,
     sus2 |-> <<x, 0, 2, 2, 0, 0>>, sus4 |-> <<x, 0, 2, 2, 3, 0>>,
     aug |-> <<x, 0, 3, 2, 2, 1>>, dim |-> <<x, 0, 1, 2, 1, x>>,
     dim7 |-> <<x, 0, 1, 2, 1, 2>>, hdim7 |-> <<x, 0, 1, 0, 1, x>>,
     pow5 |-> <<x, 0, 2, 2, x, x>>]

Of(shapes, q) == IF q \in DOMAIN shapes THEN <<shapes[q]>> ELSE <<>>

Sounding(frets) == {s \in DOMAIN frets : frets[s] # x}
Fretted(frets) == {s \in Sounding(frets) : frets[s] > 0}
FrettedAt(frets) == {frets[s] : s \in Fretted(frets)}
lowestFret(v) == IF Fretted(v.frets) = {} THEN 0 ELSE Min(FrettedAt(v.frets))
highestFret(v) == IF Fretted(v.frets) = {} THEN 0 ELSE Max(FrettedAt(v.frets))
pitchClass(frets, strings, s) == mod12(strings[s] + frets[s])

-----------------------------------------------------------------------------
(* The search. *)

SEARCH_WINDOW == 4
MAX_FRET == 12

required(c) ==
    LET tones == Tones[c.quality]
    IN {mod12(c.root + tones[i]) :
            i \in {i \in DOMAIN tones : ~(tones[i] = 7 /\ Len(tones) >= 4)}}

\* judge: the fingers a shape takes, a barre over the lowest of its frets
\* counting as one; Len(barre) = 1 says that it cannot be held.
Grip(frets) ==
    LET lowest == Min(FrettedAt(frets))
        atMin == {s \in Fretted(frets) : frets[s] = lowest}
        from == Min(atMin)
        above == {s \in Fretted(frets) : frets[s] > lowest}
    IN IF Cardinality(Fretted(frets)) <= 4
       THEN [fingers |-> Cardinality(Fretted(frets)), barre |-> NoBarre]
       ELSE [fingers |-> 1 + Cardinality(above),
             barre |-> IF Cardinality(atMin) < 2 \/ Cardinality(above) > 3
                          \/ \E s \in Sounding(frets) : s >= from /\ frets[s] = 0
                       THEN <<"none">> ELSE <<lowest, from, Max(Sounding(frets))>>]

judge(frets, strings, root, needs, ukulele) ==
    LET sounding == Sounding(frets)
    IN /\ Cardinality(sounding) >= IF ukulele THEN Len(strings) ELSE 4
       /\ Max(sounding) - Min(sounding) + 1 = Cardinality(sounding)
       /\ ukulele \/ pitchClass(frets, strings, Min(sounding)) = root
       /\ needs \subseteq {pitchClass(frets, strings, s) : s \in sounding}
       /\ Len(Grip(frets).barre) # 1

\* Tenths of a point.
score(frets) ==
    LET lowest == IF Fretted(frets) = {} THEN 0 ELSE Min(FrettedAt(frets))
        opens == Cardinality(Sounding(frets)) - Cardinality(Fretted(frets))
    IN 6 * lowest + 5 * Grip(frets).fingers + (IF Grip(frets).barre = NoBarre THEN 0 ELSE 15)
       - 3 * opens - 6 * Cardinality(Sounding(frets))

Open(v) ==
    [v EXCEPT !.open = /\ v.barre = NoBarre /\ highestFret(v) <= 4
                       /\ highestFret(v) - lowestFret(v) <= 2]
Judges(shapes) == [i \in DOMAIN shapes |-> Open(Voicing(shapes[i], Grip(shapes[i]).barre, FALSE))]

\* The shapes walked with the hand at fret lo, but for those that judge
\* refuses whatever the strings above hold: a ukulele's with a muted string,
\* another's with a lowest note that is not the root, or with a gap.
Walked(strings, tones, root, ukulele, lo) ==
    LET options(s) == {f \in {0} \cup lo..(lo + SEARCH_WINDOW - 1) :
                            mod12(strings[s] + f) \in tones}
        on(frets) ==
            LET s == Len(frets) + 1
                silent == Sounding(frets) = {}
                muted == ~ukulele /\ (silent \/ Cardinality(Sounding(frets)) >= 4)
            IN {Append(frets, f) : f \in
                    (IF muted THEN {x} ELSE {})
                    \cup (IF ~silent /\ frets[s - 1] = x THEN {}
                          ELSE {f \in options(s) :
                                silent /\ ~ukulele => mod12(strings[s] + f) = root})}
    IN FoldLeft(LAMBDA found, s : UNION {on(frets) : frets \in found}, {<<>>}, strings)

\* Equal scores keep the order of the walk: windows up the neck, and in each
\* a muted string before an open one before the frets.
Before(a, b) ==
    LET window(frets) == IF FrettedAt(frets) = {} THEN 1
                         ELSE Max({1, Max(FrettedAt(frets)) - SEARCH_WINDOW + 1})
        first == Min({s \in DOMAIN a : a[s] # b[s]})
    IN \/ score(a) < score(b)
       \/ /\ score(a) = score(b)
          /\ \/ window(a) < window(b)
             \/ window(a) = window(b) /\ a[first] < b[first]

searchVoicings(c, strings) ==
    LET ukulele == instrumentFor(strings) = "ukulele"
        lowest == IF isSlash(c) /\ ~ukulele THEN c.bass ELSE c.root
        needs == required(c) \cup {lowest}
        tones == Range(chordTones(c)) \cup {lowest}
        found == UNION {{frets \in Walked(strings, tones, lowest, ukulele, lo) :
                            judge(frets, strings, lowest, needs, ukulele)} :
                        lo \in 1..(MAX_FRET - SEARCH_WINDOW + 1)}
    IN Judges(SortSeq(FoldSet(LAMBDA frets, seq : Append(seq, frets), <<>>, found), Before))

-----------------------------------------------------------------------------
(* The other shapes. *)

\* What is found, or else what there is otherwise.
Else(found, otherwise) == IF found # <<>> THEN found ELSE otherwise

\* A movable shape at rootFret of rootString, if that is on the neck, with a
\* barre up to the last string played at the root fret.
Placed(frets, rootFret, rootString) ==
    LET to == Max({rootString} \cup {s \in DOMAIN frets : frets[s] = rootFret})
    IN IF \E s \in Sounding(frets) : frets[s] < 0 THEN <<>>
       ELSE <<Voicing(frets, IF rootFret > 0 /\ to > rootString
                             THEN <<rootFret, rootString, to>> ELSE NoBarre, rootFret = 0)>>

place(shape, rootFret, rootString) ==
    Placed([s \in DOMAIN shape |-> IF shape[s] = x THEN x ELSE shape[s] + rootFret],
           rootFret, rootString)

\* Open shapes first, then up the neck.
Easier(e, a) ==
    LET first(u, v) == \/ u.open /\ ~v.open
                       \/ u.open = v.open /\ lowestFret(u) < lowestFret(v)
    IN IF e # <<>> /\ a # <<>> /\ first(a[1], e[1]) THEN a \o e ELSE e \o a

standardVoicings(c) ==
    LET opens == Of(OPEN[c.root], c.quality)
        moved(shapes, fret, string) ==
            IF c.quality \notin DOMAIN shapes THEN <<>>
            ELSE Else(place(shapes[c.quality], fret, string),
                      place(shapes[c.quality], fret + 12, string))
    IN Else([i \in DOMAIN opens |-> Voicing(opens[i], NoBarre, TRUE)]
                \o Easier(moved(E_SHAPES, mod12(c.root - 4), 1), moved(A_SHAPES, mod12(c.root - 9), 2)),
            searchVoicings(c, STANDARD_STRINGS))

UpTheNeck(shapes) ==
    LET order == SortSeq([i \in DOMAIN shapes |-> i], LAMBDA i, j :
                    \/ lowestFret(shapes[i]) < lowestFret(shapes[j])
                    \/ lowestFret(shapes[i]) = lowestFret(shapes[j]) /\ i < j)
    IN [k \in DOMAIN shapes |-> shapes[order[k]]]

\* Root, fifth and octave on three strings, or a slash chord's bass and its
\* octave.
bassVoicings(c, strings) ==
    LET fifths == SelectSeq(Tones[c.quality], LAMBDA i : i \in {6, 7, 8})
        fifth == Head(Append(fifths, 7))
        low == IF isSlash(c) THEN c.bass ELSE c.root
        at(s, r) == [t \in DOMAIN strings |->
                        CASE t = s -> r
                          [] t = s + 1 /\ ~isSlash(c) -> strings[s] + r + fifth - strings[t]
                          [] t = s + 2 -> strings[s] + r + 12 - strings[t]
                          [] OTHER -> x]
        fits(s, r) ==
            /\ mod12(strings[s] + r) = low
            /\ \A t \in Sounding(at(s, r)) \ {s} : at(s, r)[t] \in 0..15
            /\ LET v == Voicing(at(s, r), NoBarre, FALSE)
               IN highestFret(v) - lowestFret(v) <= 3
        low4(v) == [v EXCEPT !.open = highestFret(v) <= 4]
        played(places) ==
            [i \in DOMAIN places |-> low4(Voicing(at(places[i][1], places[i][2]), NoBarre, FALSE))]
    IN UpTheNeck(played(SelectSeq([i \in 1..(13 * (Len(strings) - 2)) |->
                                        <<1 + (i - 1) \div 13, (i - 1) % 13>>],
                                  LAMBDA p : fits(p[1], p[2]))))

\* What charts print for a ukulele in standard tuning, where the search has
\* something else first.
UKULELE_CHART(c) ==
    IF c.root = 4 /\ c.quality = "min" THEN <<<<0, 4, 3, 2>>>>
    ELSE IF c.root = 4 /\ c.quality = "maj" THEN <<<<4, 4, 4, 2>>>>
    ELSE IF c.root = 11 /\ c.quality = "min" THEN <<<<4, 2, 2, 2>>>>
    ELSE IF c.root = 11 /\ c.quality = "maj" THEN <<<<4, 3, 2, 2>>>>
    ELSE IF c.root = 2 /\ c.quality = "dom7" THEN <<<<2, 2, 2, 3>>>> ELSE <<>>

\* A shape from frets alone: one that takes more than four fingers has a
\* barre, if it can.
voicingFromFrets(frets) ==
    LET lowest == Min(FrettedAt(frets))
        atMin == {s \in DOMAIN frets : frets[s] = lowest}
        last == Max(Sounding(frets))
        barre == IF /\ Cardinality(Fretted(frets)) > 4 /\ Cardinality(atMin) >= 2
                    /\ \A s \in Min(atMin)..last : frets[s] # 0
                 THEN <<lowest, Min(atMin), last>> ELSE NoBarre
        v == Voicing(frets, barre, FALSE)
    IN [v EXCEPT !.open = barre = NoBarre /\ highestFret(v) <= 4]

plainVoicings(c, strings) ==
    LET charts == IF strings = UKULELE_STRINGS THEN UKULELE_CHART(c) ELSE <<>>
    IN IF strings = STANDARD_STRINGS THEN standardVoicings(c)
       ELSE [i \in DOMAIN charts |-> voicingFromFrets(charts[i])]
            \o SelectSeq(IF instrumentFor(strings) = "bass" THEN bassVoicings(c, strings)
                         ELSE searchVoicings(c, strings),
                         LAMBDA v : v.frets \notin Range(charts))

\* A ukulele has no low note to put under a chord; a guitar plays the plain
\* chord where nothing has the bass note lowest.
voicings(c, strings) ==
    LET slash == isSlash(c) /\ instrumentFor(strings) # "bass"
    IN Else(IF slash /\ instrumentFor(strings) = "guitar" THEN searchVoicings(c, strings) ELSE <<>>,
            plainVoicings(IF slash THEN Plain(c) ELSE c, strings))

MAX_SHAPES == 8

\* A hand within four frets; in standard tuning the top strings ring, and
\* open strings are for first position (or drones, in another tuning).
sensible(v, standard) ==
    LET n == Len(v.frets) hi == highestFret(v)
    IN \/ Fretted(v.frets) = {}
       \/ /\ hi - lowestFret(v) <= 3
          /\ standard => v.frets[n] # x \/ v.frets[n - 1] # x
          /\ \/ hi < 5
             \/ \A s \in DOMAIN v.frets :
                    v.frets[s] = 0 => ~standard /\ s = Min(Sounding(v.frets))

\* (Slip: any shape of the pool will do.)
WorthAny(v, chosen, standard) == sensible(v, standard)

\* Whether a shape of the pool adds to those chosen: not one of them with
\* strings left out, nor a third around one spot of the neck.
Worth(v, chosen, standard) ==
    /\ sensible(v, standard)
    /\ \A u \in Range(chosen) : \E s \in Sounding(v.frets) : v.frets[s] # u.frets[s]
    /\ Cardinality({i \in DOMAIN chosen :
            lowestFret(chosen[i]) - lowestFret(v) \in -1..1}) < 2

\* The extras of a list that starts with head.
Extras(head, shapes) == SubSeq(shapes, Len(head) + 1, Len(shapes))

\* The best of the pool after head, up the neck.
Chosen(head, pool, standard) ==
    head \o UpTheNeck(Extras(head,
        FoldLeft(LAMBDA done, v : IF Len(done) < MAX_SHAPES /\ Worth(v, done, standard)
                                  THEN Append(done, v) ELSE done, head, pool)))

UpTo(n, shapes) == SubSeq(shapes, 1, Min({n, Len(shapes)}))

\* shapesFor: the one that voicings has first, the rest of those checked by
\* hand, and the best of the search, these up the neck.
shapesFor(c0, strings) ==
    LET kind == instrumentFor(strings)
        c == IF kind = "ukulele" THEN Plain(c0) ELSE c0
        standard == strings = STANDARD_STRINGS
        offer(all) ==
            IF kind = "bass" THEN UpTo(MAX_SHAPES, all)
            ELSE IF standard /\ ~isSlash(c)
            THEN Chosen(all, searchVoicings(c, STANDARD_STRINGS), standard)
            ELSE Chosen(UpTo(1, all), all, standard)
    IN offer(voicings(c, strings))

-----------------------------------------------------------------------------
(* Frets as players write them, in one word or, past fret 9, spaced. *)

Digits(n) == IF n < 10 THEN <<n>> ELSE <<n \div 10, n % 10>>

fretsText(frets) ==
    IF \E s \in DOMAIN frets : frets[s] > 9
    THEN [spaced |-> TRUE, parts |-> frets]
    ELSE [spaced |-> FALSE,
          parts |-> FlattenSeq([s \in DOMAIN frets |->
                        IF frets[s] = x THEN <<x>> ELSE Digits(frets[s])])]

\* The frets of a text for so many strings, or none.
parseFrets(text, strings) ==
    IF /\ Len(text.parts) = strings
       /\ \A s \in DOMAIN text.parts : text.parts[s] = x \/ text.parts[s] \in 0..24
       /\ \E s \in DOMAIN text.parts : text.parts[s] # x
    THEN text.parts ELSE <<>>
=============================================================================
