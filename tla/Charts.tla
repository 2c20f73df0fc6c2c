------------------------------- MODULE Charts -------------------------------
(***************************************************************************)
(* A sheet's chart, read line by line from its ChordPro text               *)
(* (ui/src/lib/chordpro.ts), and its strumming: which pattern is in use at *)
(* which chord (lib/strum.ts), what the page shows of it, and the bars     *)
(* that hearing the chart plays (pages/SheetPage.tsx).  A line is what     *)
(* its first words make of it; its words are left out.                     *)
(***************************************************************************)
EXTENDS Integers, Sequences, FiniteSets, FiniteSetsExt, SequencesExt

CONSTANTS
    Labels,         \* section names; "Chorus" and "Bridge" are told apart
    Names,          \* names of strumming patterns
    Patterns,       \* strumming patterns
    Bars,           \* how many strokes each bar of a pattern has
    MaxLines,       \* bound on a sheet's lines
    MaxChords,      \* bound on a line's chords
    Null            \* null

ASSUME ChartsAssumption ==
    /\ MaxLines \in Nat /\ MaxChords \in Nat
    /\ Bars \in [Patterns -> Seq(Nat \ {0})] /\ \A p \in Patterns : Bars[p] # <<>>
    /\ Null \notin Labels \cup Names \cup Patterns \cup {"Chorus"}
    /\ Null \notin [name : Names \cup {Null}, pattern : Patterns, once : BOOLEAN,
                    line : 1..MaxLines]

VARIABLES
    source,         \* the lines read
    blocks, cur,    \* the blocks that are done and the one being read
    inEnv,          \* within {start_of_...}
    named,          \* the patterns that have names
    strum,          \* the change in use from the start, or Null
    strums,         \* the patterns in the sheet, for the list above it
    started,        \* past the header
    pending         \* a change waiting for what it applies to, or Null

chartVars == <<source, blocks, cur, inEnv, named, strum, strums, started, pending>>

EnvKinds == {"chorus", "verse", "bridge", "tab", "section"}
Block(kind, label) == [kind |-> kind, label |-> label, lines |-> <<>>, strum |-> Null]
BLANK == [is |-> "blank"]
Item(is, n) == [is |-> is, line |-> Len(source) + 1, chords |-> n]
StrumItem(change) == [is |-> "strum", change |-> change]

\* The lines of a block but for the blank ones at its edges.
Trimmed(lines) ==
    LET kept == {i \in DOMAIN lines : lines[i] # BLANK}
    IN IF kept = {} THEN <<>> ELSE SubSeq(lines, Min(kept), Max(kept))

\* flush: a block that has something to show is kept.
Flushed ==
    LET b == [cur EXCEPT !.lines = Trimmed(@)]
    IN IF b.lines # <<>> \/ b.label # Null THEN Append(blocks, b) ELSE blocks

\* parseChordPro's answer, if the text ends here.
Doc == Flushed

Read(line) == Len(source) < MaxLines /\ source' = Append(source, line)

inTab == cur.kind = "tab"

\* A change just before a section belongs to the section.
open(kind, label) ==
    LET takes == pending # Null /\ (label # Null \/ kind \in {"chorus", "bridge"})
    IN /\ blocks' = Flushed
       /\ cur' = [Block(kind, label) EXCEPT !.strum = IF takes THEN pending ELSE Null]
       /\ pending' = IF takes THEN Null ELSE pending
       /\ started' = TRUE

\* flushStrum and a push: a change goes to the line that comes next.
push(item) ==
    /\ cur' = [cur EXCEPT !.lines =
                 @ \o (IF pending = Null THEN <<>> ELSE <<StrumItem(pending)>>) \o <<item>>]
    /\ pending' = Null
    /\ started' = TRUE

-----------------------------------------------------------------------------

ChartInit ==
    /\ source = <<>> /\ blocks = <<>> /\ cur = Block("plain", Null)
    /\ inEnv = FALSE
    /\ named = [n \in Names |-> Null]
    /\ strum = Null /\ strums = <<>>
    /\ started = FALSE /\ pending = Null

\* {x_strum: ...} with a pattern, a name (of one read before) or both.
XStrum(once, name, pattern) ==
    LET p == IF pattern = Null THEN named[name] ELSE pattern
        change == [name |-> name, pattern |-> p, once |-> once, line |-> Len(source) + 1]
        noted == \E i \in DOMAIN strums : IF name # Null THEN strums[i][1] = name
                                          ELSE strums[i] = <<Null, p>>
        first == ~once /\ (strum = Null \/ pattern = Null \/ name = Null)
    IN /\ Read([is |-> "strum", once |-> once, name |-> name, pattern |-> pattern])
       /\ IF p = Null THEN UNCHANGED <<named, strums, strum, pending>>
          ELSE /\ named' = IF name # Null THEN [named EXCEPT ![name] = p] ELSE named
               /\ strums' = IF once \/ noted THEN strums ELSE Append(strums, <<name, p>>)
               /\ pending' = IF started THEN change ELSE pending
               /\ strum' = IF ~started /\ first THEN change ELSE strum
       /\ UNCHANGED <<blocks, cur, inEnv, started>>

\* {start_of_...}: another environment's own name is its label.
StartOf(kind, label) ==
    /\ Read([is |-> "start", kind |-> kind])
    /\ open(kind, label) /\ inEnv' = TRUE
    /\ kind = "section" => label # Null
    /\ UNCHANGED <<named, strum, strums>>

EndOf ==
    /\ Read([is |-> "end"])
    /\ open("plain", Null) /\ inEnv' = FALSE
    /\ UNCHANGED <<named, strum, strums>>

\* {comment: ...} shows in a tab as one of its lines.
Comment ==
    /\ Read([is |-> "comment"])
    /\ push(Item("comment", 0))
    /\ UNCHANGED <<blocks, inEnv, named, strum, strums>>

\* {chorus}: "play the chorus again" is a block of its own, with no lines.
ChorusRef ==
    /\ Read([is |-> "chorus_ref"])
    /\ LET b == [Block("chorus", "Chorus") EXCEPT !.strum = pending]
       IN blocks' = Append(Flushed, b)
    /\ cur' = Block("plain", Null) /\ pending' = Null /\ started' = TRUE
    /\ UNCHANGED <<inEnv, named, strum, strums>>

\* {meta...} fields, and # comments outside a tab.
Skipped ==
    /\ Read([is |-> "skipped"])
    /\ UNCHANGED <<blocks, cur, inEnv, named, strum, strums, started, pending>>

\* Any other line of a tab is kept as it is.
TabLine ==
    /\ inTab /\ Read([is |-> "tab"])
    /\ cur' = [cur EXCEPT !.lines = Append(@, Item("tab", 0))]
    /\ started' = TRUE
    /\ UNCHANGED <<blocks, inEnv, named, strum, strums, pending>>

\* [Verse 1]: a section, or a line of the environment it is in.
Header(label) ==
    LET kind == IF label = "Chorus" THEN "chorus"
                ELSE IF label = "Bridge" THEN "bridge" ELSE "section"
    IN /\ ~inTab /\ Read([is |-> "header"])
       /\ IF inEnv
          THEN /\ cur' = [cur EXCEPT !.lines = Append(@, Item("comment", 0))]
               /\ UNCHANGED <<blocks, pending, started>>
          ELSE open(kind, label)
       /\ UNCHANGED <<inEnv, named, strum, strums>>

Blank ==
    /\ ~inTab /\ Read(BLANK)
    /\ cur' = [cur EXCEPT !.lines = Append(@, BLANK)]
    /\ UNCHANGED <<blocks, inEnv, named, strum, strums, started, pending>>

\* A line of lyrics, with so many chords among them.
Lyrics(n) ==
    /\ ~inTab /\ Read([is |-> "lyrics", chords |-> n])
    /\ push(Item("lyrics", n))
    /\ UNCHANGED <<blocks, inEnv, named, strum, strums>>

ChartNext ==
    \/ \E once \in BOOLEAN, name \in Names \cup {Null}, pattern \in Patterns \cup {Null} :
            (name # Null \/ pattern # Null) /\ XStrum(once, name, pattern)
    \/ \E kind \in EnvKinds, label \in Labels \cup {Null} : StartOf(kind, label)
    \/ EndOf \/ Comment \/ ChorusRef \/ Skipped \/ TabLine \/ Blank
    \/ \E label \in Labels : Header(label)
    \/ \E n \in 0..MaxChords : Lyrics(n)

ChartSpec == ChartInit /\ [][ChartNext]_chartVars

-----------------------------------------------------------------------------
(* What the page makes of the chart. *)

\* A block's lines after the change that came with it.
ItemsOf(b) == (IF b.strum = Null THEN <<>> ELSE <<StrumItem(b.strum)>>) \o b.lines

LinesOf(doc) == FlattenSeq([i \in DOMAIN doc |-> ItemsOf(doc[i])])

Segments(line) ==
    IF line.is # "lyrics" THEN <<>> ELSE [i \in 1..line.chords |-> <<line.line, i>>]

\* playAlongChords: the chords to play.
segmentsIn(doc) == FlattenSeq([i \in DOMAIN LinesOf(doc) |-> Segments(LinesOf(doc)[i])])

\* (Slip: a "once" lasts until the next change.)
AfterHeld(at, line) == IF line.is = "strum" THEN [at EXCEPT !.current = line.change] ELSE at

\* The change in use after a line, and the "once" that waits for a chord:
\* take, and the chords that a line has.
After(at, line) ==
    CASE line.is = "strum" /\ line.change.once -> [at EXCEPT !.once = line.change]
      [] line.is = "strum" /\ ~line.change.once -> [current |-> line.change, once |-> Null]
      [] Segments(line) # <<>> -> [at EXCEPT !.once = Null]
      [] OTHER -> at

\* strumsByChord: for each chord in order, the change in use, a "once" for
\* one chord only.
strumsByChord(doc) ==
    LET lines == LinesOf(doc)
        at[i \in 0..Len(lines)] == IF i = 0 THEN [current |-> strum, once |-> Null]
                                   ELSE After(at[i - 1], lines[i])
        use(i, j) == IF j = 1 /\ at[i - 1].once # Null THEN at[i - 1].once ELSE at[i - 1].current
    IN FlattenSeq([i \in DOMAIN lines |-> [j \in DOMAIN Segments(lines[i]) |-> use(i, j)]])

\* strumNext: a different pattern coming up within a few chords.
strumNext(uses, at) ==
    LET ahead == {i \in (at + 1)..Min({Len(uses), at + 4}) :
                    uses[i] # Null /\ uses[i] # uses[at]}
    IN IF ahead = {} THEN Null ELSE uses[Min(ahead)]

\* hear: a pattern's bars take turns across the chords it covers.
barOf(uses) ==
    LET runs[i \in DOMAIN uses] ==
            IF i > 1 /\ uses[i] = uses[i - 1] THEN 1 + runs[i - 1] ELSE 0
    IN [i \in DOMAIN uses |-> IF uses[i] = Null THEN 0
                              ELSE 1 + (runs[i] % Len(Bars[uses[i].pattern]))]

\* The strokes lit while a chord sounds, numbered across the pattern's bars.
strokesOf(pattern, bar) ==
    LET offset[b \in 1..Len(Bars[pattern])] ==
            IF b = 1 THEN 0 ELSE offset[b - 1] + Bars[pattern][b - 1]
    IN offset[bar]..(offset[bar] + Bars[pattern][bar] - 1)

-----------------------------------------------------------------------------

\* The parser's state keeps to its types.
ChartTypeOK ==
    /\ Len(source) <= MaxLines /\ {inEnv, started} \subseteq BOOLEAN
    /\ cur.kind \in EnvKinds \cup {"plain"} /\ cur.label \in Labels \cup {Null, "Chorus"}
    /\ named \in [Names -> Patterns \cup {Null}]
    /\ \A c \in {strum, pending} \ {Null} : c.pattern \in Patterns /\ c.line <= Len(source)
    /\ ~started => pending = Null /\ blocks = <<>>

\* Whatever the sections and environments, everything written is shown once
\* and in its order: the lyrics, the comments, a tab's lines, and a blank
\* line between others of its section.
ShowsAll ==
    LET shown == LinesOf(Doc)
        isShown(i) == shown[i].is \notin {"blank", "strum"}
    IN /\ \A i, j \in DOMAIN shown :
            i < j /\ isShown(i) /\ isShown(j) => shown[i].line < shown[j].line
       /\ \A i \in DOMAIN source : source[i].is \in {"lyrics", "comment", "tab"} =>
            \E j \in DOMAIN shown : isShown(j) /\ shown[j].line = i
       /\ \A i \in 2..(Len(source) - 1) :
            source[i] = BLANK /\ source[i - 1].is = "lyrics" /\ source[i + 1].is = "lyrics"
                => \E j \in DOMAIN shown : /\ j > 1 /\ shown[j] = BLANK
                                          /\ isShown(j - 1) /\ shown[j - 1].line = i - 1

\* The line at which the song has started.
StartedBy(i) == \E k \in 1..(i - 1) : source[k].is \notin {"strum", "skipped", "blank"}

\* The pattern that a directive stands for: what it says, or what its name
\* last meant.
Meant(i) ==
    LET means == {k \in 1..i : /\ source[k].is = "strum" /\ source[k].pattern # Null
                               /\ source[k].name = source[i].name}
    IN IF source[i].pattern # Null THEN source[i].pattern
       ELSE IF means = {} THEN Null ELSE source[Max(means)].pattern

Directives == {i \in DOMAIN source : source[i].is = "strum" /\ Meant(i) # Null}

\* The header's: a switch or a pattern without a name, or the first named.
HeaderStrum ==
    LET of == {i \in Directives : ~StartedBy(i) /\ ~source[i].once}
        says == {i \in of : source[i].name = Null \/ source[i].pattern = Null}
    IN IF of = {} THEN 0 ELSE IF says = {} THEN Min(of) ELSE Max(says)

\* The directive in use at a chord, read from the text (strum.ts:4-8): a
\* "once" since the chord before, or else the last that is none.
Directed(seg) ==
    LET chorded == {i \in 1..(seg[1] - 1) : source[i].is = "lyrics" /\ source[i].chords > 0}
        before == {i \in Directives : i < seg[1] /\ StartedBy(i)}
        lasting == Max({HeaderStrum} \cup {i \in before : ~source[i].once})
        onces == {i \in before : /\ source[i].once /\ i > lasting
                                 /\ \A k \in chorded : k < i}
    IN IF seg[2] = 1 /\ onces # {} THEN Max(onces) ELSE lasting

\* "switches to it, from here on", "one bar of this, then back" (strum.ts:7,
\* 8): at every chord the pattern in use is the one the text directs.
AsDirected ==
    LET uses == strumsByChord(Doc)
        segs == segmentsIn(Doc)
    IN \A i \in DOMAIN segs :
        LET d == Directed(segs[i])
        IN IF d = 0 THEN uses[i] = Null
           ELSE uses[i] # Null /\ uses[i].line = d /\ uses[i].pattern = Meant(d)

\* No directive stands with another one, or with a section that shows
\* nothing, between it and the line it is for.
Apart ==
    \A i \in Directives : StartedBy(i) =>
        \E k \in i..Len(source) :
            /\ source[k].is \in {"lyrics", "comment"} \/ k = Len(source)
            /\ \A j \in (i + 1)..(k - 1) : source[j].is # "strum"
            /\ Cardinality({j \in (i + 1)..(k - 1) :
                               source[j].is \in {"start", "end", "header", "chorus_ref"}}) <= 1

DirectedApart == Apart => AsDirected

\* While the pattern stays the same, its bars take turns from the first, no
\* stroke is lit by two of them, and a change is announced one chord ahead.
BarsTakeTurns ==
    LET uses == strumsByChord(Doc)
        bars == barOf(uses)
    IN \A i \in DOMAIN uses : uses[i] # Null =>
        LET p == uses[i].pattern
        IN IF i > 1 /\ uses[i - 1] = uses[i]
           THEN /\ bars[i] = 1 + (bars[i - 1] % Len(Bars[p]))
                /\ bars[i] # bars[i - 1] =>
                     strokesOf(p, bars[i]) \cap strokesOf(p, bars[i - 1]) = {}
           ELSE bars[i] = 1 /\ (i > 1 => strumNext(uses, i - 1) = uses[i])

\* A chart is read as it is written: all of its lines show, and the strum
\* pattern at each chord is the one its text directs, bar by bar.
ChartAsWritten == ChartTypeOK /\ ShowsAll /\ DirectedApart /\ BarsTakeTurns
=============================================================================
