------------------------------- MODULE Files -------------------------------
(***************************************************************************)
(* Sheets as ChordPro files (ui/src/lib/chordproFile.ts), out and in, and  *)
(* the conversion of chords written above the lyrics that a file, a pasted *)
(* text or an imported tab may need (lib/convert.ts, lib/tabImport.ts).  A *)
(* line is its kind and how many chords it has; a line of ChordPro starts  *)
(* with its first chord, a "tagged" line is one of chords in tags, and     *)
(* "newsong" is a {new_song}.                                              *)
(***************************************************************************)
EXTENDS Instruments

CONSTANTS
    Originals,      \* the sheets that are exported
    Unset            \* an empty field

ChordKinds == {"inline", "spaced", "over", "paren", "tagged"}
LineKinds == ChordKinds \cup {"words", "tab", "sot", "eot", "section", "header", "hash", "notes",
                              "credit", "field", "blank", "newsong"}
L(is) == [is |-> is, chords |-> IF is \in ChordKinds THEN 2 ELSE 0]
Field(name, value) == [is |-> "field", name |-> name, value |-> value, chords |-> 0]
FieldNames == {"title", "artist", "album", "key", "capo", "instrument", "tuning"}

\* What a sheet's content may have: any lines but the notes and the credit
\* that a file says of the sheet.
IsContent(lines) ==
    /\ lines \in Seq(Range(lines))
    /\ \A l \in Range(lines) :
        /\ {"is", "chords"} \subseteq DOMAIN l
        /\ l.is \in LineKinds \ {"notes", "credit"} /\ l.chords \in Nat
        /\ l.is \notin ChordKinds => l.chords = 0

ASSUME FilesAssumption ==
    /\ Unset \notin Kinds
    /\ \A s \in Originals :
        /\ DOMAIN s = {"title", "artist", "album", "key", "capo", "kind", "tuning", "notes",
                       "content"}
        /\ s.kind \in Kinds /\ s.tuning \in TuningIds
        /\ s.capo \in 0..12 /\ s.notes \in Nat /\ IsContent(s.content)

VARIABLES
    original,       \* the sheet there was at first
    record,         \* the sheet there is
    file,           \* its file, or <<>>
    trips           \* how often it has been through a file

fileVars == <<original, record, file, trips>>

-----------------------------------------------------------------------------
(* Chords above lyrics. *)

isChordLine(line) == line.is \in {"over", "paren"}

\* (Slip: a chord line at the end of a section takes the header below it.)
pairsAny(next) == next.is # "blank"

\* Whether a chord line goes into the line below it.
pairs(next) == next.is \in {"words", "hash", "notes", "credit"}

\* The ChordPro line of chords above a line of words, or of none.
inline(line, words) ==
    [line EXCEPT !.is = IF @ = "paren" THEN "unread" ELSE IF words THEN "inline" ELSE "spaced"]

\* What line i becomes: nothing where it went into the chords above it, and
\* otherwise a line, with the edges of a tab that are before it or, for the
\* last line, after it.
converted(src, i) ==
    LET line == src[i]
        isTab == line.is = "tab"
        wasTab == i > 1 /\ src[i - 1].is = "tab"
        before == IF isTab = wasTab THEN <<>> ELSE <<L(IF isTab THEN "sot" ELSE "eot")>>
        become == CASE line.is = "section" -> L("header")
                    [] isChordLine(line) -> inline(line, i < Len(src) /\ pairs(src[i + 1]))
                    [] OTHER -> line
        after == IF isTab /\ i = Len(src) THEN <<L("eot")>> ELSE <<>>
    IN IF i > 1 /\ isChordLine(src[i - 1]) /\ pairs(line) THEN <<>>
       ELSE before \o <<become>> \o after

chordsOverLyricsToChordPro(src) == FlattenSeq([i \in DOMAIN src |-> converted(src, i)])

looksLikeChordsOverLyrics(src) ==
    /\ \A i \in DOMAIN src : src[i].is # "inline"
    /\ \E i \in DOMAIN src : isChordLine(src[i])

-----------------------------------------------------------------------------
(* Chords in tags. *)

Trim(lines) ==
    LET kept == {i \in DOMAIN lines : lines[i].is # "blank"}
    IN IF kept = {} THEN <<>> ELSE SubSeq(lines, Min(kept), Max(kept))

\* The lines that are left when some are gone.
Without(lines, gone) ==
    [i \in 1..(Len(lines) - Cardinality(gone)) |->
        lines[CHOOSE n \in DOMAIN lines \ gone : Cardinality((1..n) \ gone) = i]]

looksLikeTagMarkup(src) == \E i \in DOMAIN src : src[i].is = "tagged"

\* Without its tags, a line of tagged chords is one of chords.
untagged(src) ==
    [i \in 1..Len(src) |-> IF src[i].is = "tagged" THEN [src[i] EXCEPT !.is = "over"] ELSE src[i]]

\* The blank lines after a blank one.
moreBlanks(src) ==
    {i \in DOMAIN src : i > 1 /\ src[i].is = "blank" /\ src[i - 1].is = "blank"}

tagMarkupToChordPro(src) ==
    LET plain == chordsOverLyricsToChordPro(untagged(src)) IN Trim(Without(plain, moreBlanks(plain)))

\* A text that comes from elsewhere, and what it is as ChordPro.
pasted(src) == looksLikeTagMarkup(src) \/ looksLikeChordsOverLyrics(src)
asChordPro(src) ==
    IF looksLikeTagMarkup(src) THEN tagMarkupToChordPro(src) ELSE chordsOverLyricsToChordPro(src)

-----------------------------------------------------------------------------
(* Out and in. *)

INSTRUMENT_KINDS == {"ukulele", "bass", "piano"}

\* (Slip: the content keeps its own header directives.)
bodyAsItIs(s) == Trim(s.content)

\* The content without the fields that the header says.
body(s) == Trim(Without(s.content, {i \in DOMAIN s.content : s.content[i].is = "field"}))

toChordProFile(s) ==
    LET tuning == getTuning(s.tuning, s.kind).id
        says(name, value, nothing) == IF value = nothing THEN <<>> ELSE <<Field(name, value)>>
    IN <<Field("title", s.title)>>
       \o says("artist", s.artist, Unset) \o says("album", s.album, Unset)
       \o says("key", s.key, Unset) \o says("capo", s.capo, 0)
       \o (IF s.kind \in INSTRUMENT_KINDS THEN <<Field("instrument", s.kind)>> ELSE <<>>)
       \o (IF s.kind = "piano" THEN <<>> ELSE says("tuning", tuning, "standard"))
       \o <<L("credit")>>
       \o (IF s.notes = 0 THEN <<>> ELSE <<L("notes")>> \o [i \in 1..s.notes |-> L("hash")])
       \o <<L("blank")>> \o body(s)

\* The lines before a {new_song}.
untilNewSong(lines) ==
    LET at == {i \in DOMAIN lines : lines[i].is = "newsong"}
    IN IF at = {} THEN lines ELSE SubSeq(lines, 1, Min(at) - 1)

\* The first song of a file that says anything, from its first line that does.
firstSong(lines) ==
    LET says == {i \in DOMAIN lines : lines[i].is \notin {"blank", "newsong"}}
    IN IF says = {} THEN <<>> ELSE untilNewSong(SubSeq(lines, Min(says), Len(lines)))

\* What a file says of a field, the last time it does, or otherwise nothing.
Says(lines, name, nothing) ==
    LET at == {i \in DOMAIN lines : lines[i].is = "field" /\ lines[i].name = name}
    IN IF at = {} THEN nothing ELSE lines[Max(at)].value

\* The lines that are in no field, credit or note.
Remaining(lines) ==
    LET ofNotes == {i \in DOMAIN lines : \E k \in 1..i :
                        lines[k].is = "notes" /\ \A j \in (k + 1)..i : lines[j].is = "hash"}
        gone == ofNotes \cup {i \in DOMAIN lines : lines[i].is \in {"field", "credit"}}
    IN [lines |-> Without(lines, gone),
        notes |-> Cardinality({i \in ofNotes : lines[i].is = "hash"})]

\* fromChordProFile, over the fields of a new sheet.
fromChordProFile(lines) ==
    LET song == firstSong(lines)
        kind == IF Says(song, "instrument", Unset) \in INSTRUMENT_KINDS
                THEN Says(song, "instrument", Unset) ELSE "chords"
        tuning == Says(song, "tuning", "standard")
        content == Trim(Remaining(song).lines)
    IN [title |-> Says(song, "title", Unset), artist |-> Says(song, "artist", Unset),
        album |-> Says(song, "album", Unset), key |-> Says(song, "key", Unset),
        capo |-> Says(song, "capo", 0), kind |-> kind,
        tuning |-> IF tuning \in Offered(kind) THEN tuning ELSE "standard",
        notes |-> Remaining(song).notes,
        content |-> IF pasted(content) THEN Trim(asChordPro(content)) ELSE content]

-----------------------------------------------------------------------------

FileInit ==
    /\ original \in Originals
    /\ record = original /\ file = <<>> /\ trips = 0

Export ==
    /\ file = <<>> /\ trips < 2
    /\ file' = toChordProFile(record)
    /\ UNCHANGED <<original, record, trips>>

\* The editor of a new sheet opens it (SheetForm.openFile), if a sheet is in it.
Import ==
    /\ file # <<>> /\ fromChordProFile(file).content # <<>>
    /\ record' = fromChordProFile(file)
    /\ file' = <<>> /\ trips' = trips + 1
    /\ UNCHANGED original

\* "Convert to inline chords", which the editor offers for such a text.
Convert ==
    /\ file = <<>> /\ trips = 0 /\ pasted(record.content)
    /\ record' = [record EXCEPT !.content = asChordPro(@)]
    /\ UNCHANGED <<original, file, trips>>

FileNext == Export \/ Import \/ Convert
FileSpec == FileInit /\ [][FileNext]_fileVars

-----------------------------------------------------------------------------

\* "A sheet's fields as the standard header directives" (chordproFile.ts:1):
\* a sheet that went out comes in with its fields, a tab as chords, and its
\* tuning the one of its instrument that it is played in.
FieldsComeBack ==
    trips > 0 =>
        /\ \A f \in {"title", "artist", "album", "key", "capo", "notes"} :
                record[f] = original[f]
        /\ record.kind = IF original.kind = "tab" THEN "chords" ELSE original.kind
        /\ record.kind # "piano" =>
                getTuning(record.tuning, record.kind) = getTuning(original.tuning, original.kind)

\* "the content as it is" (chordproFile.ts:2), without the fields it repeats,
\* and of several songs the first: unless it looks like chords in tags or above
\* lyrics, all of it or the first song.
ContentComesBack ==
    LET first == Trim(untilNewSong(body(original)))
    IN trips > 0 /\ ~pasted(original.content) /\ ~pasted(first) => record.content = first

\* What has been through a file is through: another trip changes nothing.
SecondTripSame == [][trips = 1 /\ trips' = 2 => record' = record]_fileVars

\* Downloaded as a .chordpro file and opened again, a sheet is what it was,
\* but for the songs after a {new_song}.
FilesComeBack == [](FieldsComeBack /\ ContentComesBack) /\ SecondTripSame

\* The lines of a content that are in a tab.
InTabs(lines) ==
    {i \in DOMAIN lines : \E k \in 1..(i - 1) :
        lines[k].is = "sot" /\ \A j \in k..(i - 1) : lines[j].is # "eot"}

\* How many chords a text has, but for those in a tab and those unread.
ChordsOf(lines) ==
    LET upTo[n \in 0..Len(lines)] ==
            IF n = 0 THEN 0
            ELSE upTo[n - 1] + IF n \in InTabs(lines) \/ lines[n].is = "unread"
                               THEN 0 ELSE lines[n].chords
    IN upTo[Len(lines)]

\* Every chord in tags or above the lyrics is a chord of the chart afterwards,
\* the lines of a tab are in a tab, and no tab is left open or opens in another;
\* but for chords in parentheses, several songs in one, and text that has tabs
\* or inline chords already.
ConvertKeeps ==
    LET plain == \A i \in DOMAIN original.content :
                    original.content[i].is \notin {"paren", "sot", "eot", "newsong"}
        c == record.content
    IN plain =>
        /\ ChordsOf(c) = ChordsOf(original.content)
        /\ pasted(original.content) /\ record # original =>
            /\ \A i \in DOMAIN c : c[i].is = "tab" <=> i \in InTabs(c) /\ c[i].is # "eot"
            /\ \A i \in DOMAIN c : c[i].is = "sot" => i \notin InTabs(c)
            /\ ~pasted(c)

\* isChordLine takes "(G)" for a chord, so it should be one afterwards.
ParensKept == ChordsOf(record.content) = ChordsOf(original.content)

\* "the content as it is": all of it, whatever the songs.
NothingLost == trips > 0 /\ ~pasted(original.content) => record.content = body(original)
=============================================================================
