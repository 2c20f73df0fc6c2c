------------------------------ MODULE MCPages -------------------------------
(***************************************************************************)
(* What a page waits for and loses, one part at a time: the drafts of a    *)
(* sheet edited in two of the author's tabs ("tabs"), of sheets edited,    *)
(* forked and new, with tags, in one tab ("drafts"), the fields of the     *)
(* editor's form, with files on their way ("form"), and the microphone and *)
(* worker of play-along ("microphone").                                    *)
(***************************************************************************)
EXTENDS Editor, SheetForm, PlayAlong, TLC

VARIABLE part

pages == <<part, editorVars, formVars, playVars>>
Sym == Permutations(Tabs)

\* The sheets opened: one that is new, one whose shapes are for other strings,
\* an import's bass with a capo, and other clients' that fit no instrument.
Opened ==
    LET blank(kind, tuning, capo) ==
            [EMPTY EXCEPT !.kind = kind, !.tuning = tuning, !.capo = capo]
    IN {EMPTY,
        [EMPTY EXCEPT !.kind = "ukulele", !.chords = Chords, !.shapes = [c \in Chords |-> 6]],
        blank("bass", "drop-d", 3), blank("ukulele", "drop-d", 3), blank("piano", "low-g", 3)}

\* Chords and shapes, which limit neither tuning nor capo, are left to forms
\* that no file was chosen for.
Bare == files > 0 => fields.chords = {} /\ fields.shapes = EMPTY.shapes

\* A part that is left out starts in one way only.
PagesInit ==
    /\ part \in {"tabs", "drafts", "form", "microphone"}
    /\ EditorInit /\ FormInit /\ Init
    /\ part \in {"tabs", "drafts"} \/ viewer
    /\ part = "drafts" \/ \A m \in Modes : stored[m] = Nothing
    /\ fields \in IF part = "form" THEN Opened ELSE {EMPTY}

Idle(t) == shows[t] = "away" /\ cache[t] = Nothing /\ sent[t] = Nothing
EditOnly == \A t \in Tabs : shows[t] \in {"away", "page", "edit"} /\ tagText[t] = "none"
OneTab == texts < MaxTexts /\ \A t, u \in Tabs : t = u \/ Idle(t) \/ Idle(u)

PagesNext ==
    /\ \/ part = "tabs" /\ EditorNext /\ EditOnly' /\ UNCHANGED <<formVars, playVars>>
       \/ part = "drafts" /\ EditorNext /\ OneTab' /\ UNCHANGED <<formVars, playVars>>
       \/ part = "form" /\ FormNext /\ Bare' /\ UNCHANGED <<editorVars, playVars>>
       \/ part = "microphone" /\ PlayNext /\ UNCHANGED <<editorVars, formVars>>
    /\ UNCHANGED part

PagesSpec == PagesInit /\ [][PagesNext]_pages
=============================================================================
