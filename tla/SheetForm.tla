----------------------------- MODULE SheetForm -----------------------------
(***************************************************************************)
(* The editor's form (ui/src/pages/EditorPage.tsx): the fields that depend *)
(* on one another.  The instrument decides which tunings and capos there   *)
(* are, the content which chord shapes are the sheet's; files, imports and *)
(* sheets bring all of them at once.                                       *)
(***************************************************************************)
EXTENDS Instruments

CONSTANTS
    Chords,         \* the chords a sheet may hold
    Capos,          \* the capos typed and brought
    Picks,          \* the tunings sheets have and the reader picks
    MaxFiles,       \* bound on the files opened
    None            \* no file is being read, none was opened, nothing was sent

ASSUME FormAssumption ==
    /\ Capos \subseteq 0..12 /\ 0 \in Capos
    /\ "standard" \in Picks /\ Picks \subseteq TuningIds
    /\ MaxFiles \in Nat

NoShape == 0

\* shapes: how many strings the shape stored for each chord is for.
Fields == [kind : Kinds, tuning : Picks, capo : Capos,
           chords : SUBSET Chords, shapes : [Chords -> {NoShape} \cup {4, 5, 6}]]

VARIABLES
    fields,     \* the form
    given,      \* initial(): the sheet or import that the editor opened with
    reading,    \* the form as it was when each file still read was chosen
    undo,       \* opened.prev
    files       \* how many files were chosen

formVars == <<fields, given, reading, undo, files>>

Strings(f) == Len(getTuning(f.tuning, f.kind).strings)
Fretted(f) == f.kind # "piano"
Capoless(kind) == kind \in {"piano", "bass"}
HasTuning(f) == f.tuning \in Offered(f.kind) \cup {"standard"}

EMPTY == [kind |-> "chords", tuning |-> "standard", capo |-> 0, chords |-> {},
          shapes |-> [c \in Chords |-> NoShape]]

\* sheetInput takes a record as it is, whoever wrote it: a sheet, and a fork of
\* one, may name a tuning or a capo that its instrument does not have, and
\* shapes for any number of strings.  (A draft that comes back counts as what
\* the editor opened with; Editor says which do.)
FormInit ==
    /\ fields \in Fields /\ given = fields
    /\ reading = [n \in 1..MaxFiles |-> None] /\ undo = None /\ files = 0

\* (Slip: the capo stays when the instrument has none.)
PickKindOnly(kind) ==
    /\ fields' = [fields EXCEPT !.kind = kind,
                    !.tuning = IF @ \in Offered(kind) THEN @ ELSE "standard"]
    /\ UNCHANGED <<given, reading, undo, files>>

\* The Type buttons.
PickKind(kind) ==
    /\ fields' = [fields EXCEPT !.kind = kind,
                    !.tuning = IF @ \in Offered(kind) THEN @ ELSE "standard",
                    !.capo = IF Capoless(kind) THEN 0 ELSE @]
    /\ UNCHANGED <<given, reading, undo, files>>

PickTuning(id) ==
    /\ Fretted(fields) /\ id \in Offered(fields.kind)
    /\ fields' = [fields EXCEPT !.tuning = id]
    /\ UNCHANGED <<given, reading, undo, files>>

TypeCapo(capo) ==
    /\ ~Capoless(fields.kind)
    /\ fields' = [fields EXCEPT !.capo = capo]
    /\ UNCHANGED <<given, reading, undo, files>>

TypeContent(chords) ==
    /\ fields' = [fields EXCEPT !.chords = chords]
    /\ UNCHANGED <<given, reading, undo, files>>

\* discard: the banner of an opened file, and its Undo, stay.
DiscardForm == fields' = given /\ UNCHANGED <<given, reading, undo, files>>

\* shapes.edit, from the arrows and from the frets typed: the sheet's shape
\* for a chord in it, or none.
EditShape(c, own) ==
    /\ Fretted(fields) /\ c \in fields.chords
    /\ fields' = [fields EXCEPT !.shapes[c] = IF own THEN Strings(fields) ELSE NoShape]
    /\ UNCHANGED <<given, reading, undo, files>>

\* openFile waits for the file with the form of the render it started in; a
\* second file can be chosen while one is read, and they come in any order.
ChooseFile ==
    /\ files < MaxFiles
    /\ files' = files + 1 /\ reading' = [reading EXCEPT ![files'] = fields]
    /\ UNCHANGED <<fields, given, undo>>

\* A tuning or capo the instrument cannot have goes, as when picking one; the
\* shapes stay.  `file` is what is left of the form's where it names nothing.
FileComes(n, file) ==
    /\ reading[n] # None
    /\ fields' = [fields EXCEPT !.kind = file.kind,
                    !.tuning = IF file.tuning \in Offered(file.kind)
                               THEN file.tuning ELSE "standard",
                    !.capo = IF Capoless(file.kind) THEN 0 ELSE file.capo,
                    !.chords = file.chords]
    /\ undo' = reading[n] /\ reading' = [reading EXCEPT ![n] = None]
    /\ UNCHANGED <<given, files>>

\* It is too big or has no sheet in it, which the banner says in place of the
\* last file's; or it cannot be read, which nothing says.
FileFails(n) ==
    /\ reading[n] # None
    /\ reading' = [reading EXCEPT ![n] = None] /\ undo' \in {undo, None}
    /\ UNCHANGED <<fields, given, files>>

Undo ==
    /\ undo # None
    /\ fields' = undo /\ undo' = None
    /\ UNCHANGED <<given, reading, files>>

Dismiss ==
    /\ undo # None /\ undo' = None
    /\ UNCHANGED <<fields, given, reading, files>>

\* liveVoicings: one shape for each chord still in the sheet.
liveVoicings(f) == [c \in Chords |-> IF c \in f.chords THEN f.shapes[c] ELSE NoShape]

\* What publish sends.
SentForm(f) == [f EXCEPT !.shapes = liveVoicings(f)]

\* The fields a file may name: any of the form's stand for those it leaves out.
FileFields ==
    [kind : {fields.kind, "ukulele", "bass", "piano"},
     tuning : {fields.tuning} \cup Picks, capo : {fields.capo} \cup Capos, chords : SUBSET Chords]

FormNext ==
    \/ ChooseFile \/ Undo \/ Dismiss \/ DiscardForm
    \/ \E kind \in Kinds : PickKind(kind)
    \/ \E id \in Picks : PickTuning(id)
    \/ \E capo \in Capos : TypeCapo(capo)
    \/ \E chords \in SUBSET Chords : TypeContent(chords)
    \/ \E c \in Chords, own \in BOOLEAN : EditShape(c, own)
    \/ \E n \in 1..MaxFiles : FileFails(n) \/ \E file \in FileFields : FileComes(n, file)

FormSpec == FormInit /\ [][FormNext]_formVars

-----------------------------------------------------------------------------

\* The form's fields are of their kinds, in whatever order they were brought,
\* and a file chosen is read, or can be undone, once.
FormTypeOK ==
    /\ {fields, given} \subseteq Fields /\ files \in 0..MaxFiles
    /\ reading \in [1..MaxFiles -> Fields \cup {None}] /\ undo \in Fields \cup {None}
    /\ \A n \in 1..MaxFiles : reading[n] # None => n <= files
    /\ undo # None => \E n \in 1..files : reading[n] = None

\* What the form has that its instrument cannot have, the sheet came with.
FitsOrCameSo(f) ==
    /\ HasTuning(f) \/ (f.kind = given.kind /\ f.tuning = given.tuning)
    /\ Capoless(f.kind) /\ f.capo # 0 => f.kind = given.kind /\ f.capo = given.capo

\* EditorPage.tsx:245: "A tuning or capo the instrument can't have goes".
\* Whatever the reader picks, types, discards and undoes while files come in
\* any order: a tuning that the instrument does not have, or a capo with no
\* box to take it off, is never of the editor's making.  Only the one that the
\* sheet itself came with can be in the form, and only with its own instrument.
FormFits == FitsOrCameSo(fields)

\* api.ts:55: a voicing has "a fret per string, lowest first, in the sheet's
\* tuning"; so has every one that is sent, for the chords of its sheet.
SentShapesFit ==
    Fretted(fields) => \A c \in Chords :
        SentForm(fields).shapes[c] \in {NoShape, Strings(fields)}
=============================================================================
