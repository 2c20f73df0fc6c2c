------------------------------ MODULE MCMusic -------------------------------
(***************************************************************************)
(* A sheet's music in the browser, one part at a time: a chord's box of    *)
(* shapes ("boxes"), the chart that is read ("charts") and the file that a *)
(* sheet goes out in and comes back from ("files").                        *)
(***************************************************************************)
EXTENDS Voicings, Charts, Files

VARIABLE part

music == <<part, boxVars, chartVars, fileVars>>

\* Chords by their names and their tunings.
Ask(roots, qualities, basses, tunings) ==
    [chord : [root : roots, quality : qualities, bass : basses], strings : tunings]
OPEN_D == <<38, 45, 50, 54, 57, 62>>
FIVE_STRING == <<23, 28, 33, 38, 43>>
PIANO == <<>>
MCBoxes ==
    Ask({4, 10}, DOMAIN E_SHAPES \cup DOMAIN A_SHAPES, {NoBass}, {STANDARD_STRINGS})
    \cup Ask({0, 4, 11}, {"maj", "dom7"}, {NoBass}, {UKULELE_STRINGS, BASS_STRINGS})
    \cup Ask({0, 7}, {"min", "dom9"}, {NoBass}, {PIANO})
    \cup Ask({9}, {"dom7"}, {7}, {STANDARD_STRINGS, UKULELE_STRINGS, BASS_STRINGS, PIANO})
    \cup Ask({2}, {"min7"}, {NoBass}, {OPEN_D, FIVE_STRING})
MCTyped == {<<x, 3, 2, 0, 1, 0>>, <<10, 12, 12, 11, 10, 10>>, <<2, 2, 2, 3>>}

MCBars == [p1 |-> <<2, 3>>, p2 |-> <<4>>]

Texts == BoundedSeq({L(k) : k \in {"inline", "spaced", "over", "paren", "words", "tab", "sot",
                                   "eot", "section", "header", "blank", "tagged",
                                   "newsong"}}, 3)
Sheet(artist, kind, capo, tuning, notes, content) ==
    [title |-> "t", artist |-> artist, album |-> Unset, key |-> Unset, capo |-> capo,
     kind |-> kind, tuning |-> tuning, notes |-> notes, content |-> content]
MCOriginals ==
    {Sheet("a", "chords", 0, "standard", 0, content) : content \in Texts}
    \cup {Sheet(s[1], s[2], s[3], s[4], s[5], s[6]) : s \in
            {"a", Unset} \X Kinds \X {0, 3} \X {"standard", "drop-d", "low-g"} \X {0, 2}
            \X {<<L("inline")>>, <<L("hash"), L("words")>>, <<Field("artist", "b"), Field("capo", 5), L("words")>>,
                <<L("hash"), L("over"), L("words"), Field("tuning", "dadgad")>>,
                <<L("tagged"), L("blank"), L("blank"), L("words")>>}}

\* A part that is left out starts in one way only.
OneBox == [chord |-> [root |-> 0, quality |-> "min", bass |-> NoBass], strings |-> PIANO]
OneSheet == Sheet("a", "chords", 0, "standard", 0, <<>>)

MusicInit ==
    /\ part \in {"boxes", "charts", "files"}
    /\ box \in IF part = "boxes" THEN Boxes ELSE {OneBox}
    /\ original \in IF part = "files" THEN Originals ELSE {OneSheet}
    /\ BoxInit /\ ChartInit /\ FileInit

MusicNext ==
    \/ part = "boxes" /\ BoxNext /\ UNCHANGED <<part, chartVars, fileVars>>
    \/ part = "charts" /\ ChartNext /\ UNCHANGED <<part, boxVars, fileVars>>
    \/ part = "files" /\ FileNext /\ UNCHANGED <<part, boxVars, chartVars>>

MusicSpec == MusicInit /\ [][MusicNext]_music
=============================================================================
