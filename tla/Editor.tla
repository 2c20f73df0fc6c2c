------------------------------- MODULE Editor -------------------------------
(***************************************************************************)
(* Editing a sheet (ui/src/pages/EditorPage.tsx): the form a tab shows,    *)
(* the draft of it that the browser keeps in localStorage, the copy of the *)
(* sheet that react-query caches and refetches behind the form, and the    *)
(* sheet on the server, which other devices edit too.  There is one sheet, *)
(* opened by its author to edit it or to fork it, and one blank editor.    *)
(* A text stands for everything typed but the tags, which have a box and a *)
(* state of their own.                                                     *)
(***************************************************************************)
EXTENDS Naturals

CONSTANTS
    Tabs,           \* the browser's tabs
    Modes,          \* how editors are opened: "edit", "fork", "new"
    Tags,           \* what the tag box may hold
    MaxTexts,       \* bound on the texts typed, here or elsewhere
    MaxVersions,    \* bound on the versions of the sheet
    Gone,           \* the sheet once it is deleted
    Nothing         \* null: no copy, no draft, no write under way

Blank == 0                              \* EMPTY's text
Texts == 0..MaxTexts
Versions == 1..MaxVersions
\* form's `seen` is history: the versions of the sheet its work was made from.
Form == [text : Texts, tags : Tags, seen : SUBSET Versions]
Sheet == [cid : Versions, text : Texts, tags : Tags, draft : BOOLEAN]
NoBase == 0                             \* base === null
Base == {NoBase} \cup Versions
Draft == [base : Base, form : Form]
Input == [mode : Modes \cup {"banner"}, form : Form, draft : BOOLEAN,
          reply : {"waiting", "ok", "failed"}]

ASSUME EditorAssumption ==
    /\ "none" \in Tags
    /\ Modes \subseteq {"edit", "fork", "new"}
    /\ MaxTexts \in Nat \ {0} /\ MaxVersions \in Nat \ {0}
    /\ Gone \notin Sheet /\ Nothing \notin Sheet \cup Draft \cup Input

VARIABLES
    server,     \* the sheet, or Gone
    shows,      \* what each tab shows: "away", "page" or a mode
    cache,      \* each tab's cached sheet, or Nothing
    form,       \* the form of each tab's editor
    tagText,    \* and its tag box
    sent,       \* the write each tab waits for, or Nothing
    stored,     \* the drafts in localStorage
    viewer,     \* somebody is signed in
    texts,      \* how many texts there are
    wrote,      \* history: the tab that last wrote or dropped each draft
    left        \* history: what the last editor of each kind showed when it went
                \* away, and its base, until an editor saves or drops the draft

editing == <<shows, form, tagText>>
editorVars == <<server, editing, cache, sent, stored, viewer, texts, wrote, left>>

Editing(t) == shows[t] \in Modes
BaseOf(t, mode, sheet) == IF mode = "edit" THEN sheet.cid ELSE NoBase

\* initial: the sheet's fields, or a blank form.
Initial(mode, sheet) ==
    IF mode = "new" THEN [text |-> Blank, tags |-> "none", seen |-> {}]
    ELSE [text |-> sheet.text, tags |-> sheet.tags, seen |-> {sheet.cid}]

\* A draft saved before drafts recorded their base comes back where base is
\* null, like one whose base is.
Restores(t, mode, sheet) ==
    stored[mode] # Nothing /\ stored[mode].base = BaseOf(t, mode, sheet)

EditorInit ==
    /\ server = [cid |-> 1, text |-> 1, tags |-> "none", draft |-> FALSE]
    /\ shows = [t \in Tabs |-> "away"]
    /\ cache = [t \in Tabs |-> Nothing]
    /\ form = [t \in Tabs |-> Initial("new", Nothing)]
    /\ tagText = [t \in Tabs |-> "none"]
    /\ sent = [t \in Tabs |-> Nothing]
    /\ \E old \in {Nothing, [base |-> NoBase, form |-> Initial("new", Nothing)]} :
          stored = [m \in Modes |-> old]
    /\ viewer \in BOOLEAN
    /\ texts = 1
    /\ wrote = [m \in Modes |-> Nothing]
    /\ left = [m \in Modes |-> Nothing]

\* The effect that follows a change of base or form saves both.
Saves(t, mode, sheet, f) ==
    /\ stored' = [stored EXCEPT ![mode] =
                    [base |-> BaseOf(t, mode, sheet), form |-> f]]
    /\ wrote' = [wrote EXCEPT ![mode] = t]
    /\ left' = [left EXCEPT ![mode] = Nothing]

Drops(t, mode) ==
    /\ stored' = [stored EXCEPT ![mode] = Nothing]
    /\ wrote' = [wrote EXCEPT ![mode] = t]

\* `left` once the tab's editor is gone: its work, if the draft is its own.
Leaving(t) ==
    IF Editing(t) /\ wrote[shows[t]] = t
    THEN [left EXCEPT ![shows[t]] = [base |-> BaseOf(t, shows[t], cache[t]), form |-> form[t]]]
    ELSE left

\* The component goes, and its state with it.
Unmounts(t, place) ==
    /\ shows' = [shows EXCEPT ![t] = place]
    /\ form' = [form EXCEPT ![t] = Initial("new", Nothing)]
    /\ tagText' = [tagText EXCEPT ![t] = "none"]

-----------------------------------------------------------------------------
(* Reading, opening and leaving. *)

\* useQuery fetches the sheet, first or again (the window takes the focus,
\* a write invalidates it).  An open editor keeps its form, whatever comes.
Fetch(t) ==
    /\ server # Gone /\ cache[t] # server
    /\ cache' = [cache EXCEPT ![t] = server]
    /\ IF shows[t] = "edit" /\ cache[t].cid # server.cid
       THEN Saves(t, "edit", server, form[t])
       ELSE UNCHANGED <<stored, wrote, left>>
    /\ UNCHANGED <<server, editing, sent, viewer, texts>>

OpenPage(t) ==
    /\ shows[t] = "away" /\ cache[t] # Nothing
    /\ Unmounts(t, "page")
    /\ UNCHANGED <<server, cache, sent, stored, viewer, texts, wrote, left>>

\* (Slip: a draft of another version is taken up too.)
OpenAnyDraft(t, mode) ==
    /\ shows[t] \in {"away", "page"}
    /\ mode = "new" \/ cache[t] # Nothing
    /\ LET f == IF stored[mode] # Nothing
                THEN stored[mode].form ELSE Initial(mode, cache[t])
       IN /\ form' = [form EXCEPT ![t] = f]
          /\ tagText' = [tagText EXCEPT ![t] = f.tags]
          /\ Saves(t, mode, cache[t], f)
    /\ shows' = [shows EXCEPT ![t] = mode]
    /\ UNCHANGED <<server, cache, sent, viewer, texts>>

OpenEditor(t, mode) ==
    /\ shows[t] \in {"away", "page"}
    /\ mode = "new" \/ cache[t] # Nothing
    /\ LET f == IF Restores(t, mode, cache[t])
                THEN stored[mode].form ELSE Initial(mode, cache[t])
       IN /\ form' = [form EXCEPT ![t] = f]
          /\ tagText' = [tagText EXCEPT ![t] = f.tags]
          /\ Saves(t, mode, cache[t], f)
    /\ shows' = [shows EXCEPT ![t] = mode]
    /\ UNCHANGED <<server, cache, sent, viewer, texts>>

\* A link to another page; a write under way goes on.
Leave(t) ==
    /\ shows[t] # "away"
    /\ Unmounts(t, "away") /\ left' = Leaving(t)
    /\ UNCHANGED <<server, cache, sent, stored, viewer, texts, wrote>>

\* The tab is closed or reloaded: nobody waits for its write any more.
CloseTab(t) ==
    /\ shows[t] # "away" \/ cache[t] # Nothing \/ sent[t] # Nothing
    /\ Unmounts(t, "away") /\ left' = Leaving(t)
    /\ cache' = [cache EXCEPT ![t] = Nothing]
    /\ sent' = [sent EXCEPT ![t] = Nothing]
    /\ UNCHANGED <<server, stored, viewer, texts, wrote>>

\* openLogin, and the redirect to the account's server and back.
SignIn(t) ==
    /\ ~viewer
    /\ viewer' = TRUE
    /\ Unmounts(t, "away") /\ left' = Leaving(t)
    /\ cache' = [cache EXCEPT ![t] = Nothing]
    /\ sent' = [sent EXCEPT ![t] = Nothing]
    /\ UNCHANGED <<server, stored, texts, wrote>>

-----------------------------------------------------------------------------
(* The form. *)

Type(t) ==
    /\ Editing(t) /\ texts < MaxTexts
    /\ texts' = texts + 1
    /\ form' = [form EXCEPT ![t].text = texts']
    /\ Saves(t, shows[t], cache[t], form'[t])
    /\ UNCHANGED <<server, shows, tagText, cache, sent, viewer>>

\* setTagText: the form is not told.
TypeTags(t) ==
    /\ Editing(t)
    /\ \E tags \in Tags \ {tagText[t]} : tagText' = [tagText EXCEPT ![t] = tags]
    /\ UNCHANGED <<server, shows, form, cache, sent, stored, viewer, texts, wrote, left>>

\* discard: the draft goes, and the effect saves the fresh form in its place.
Discard(t) ==
    /\ Editing(t)
    /\ LET fresh == Initial(shows[t], cache[t])
       IN /\ form' = [form EXCEPT ![t] = fresh]
          /\ tagText' = [tagText EXCEPT ![t] = fresh.tags]
          /\ Saves(t, shows[t], cache[t], fresh)
    /\ UNCHANGED <<server, shows, cache, sent, viewer, texts>>

-----------------------------------------------------------------------------
(* Writing. *)

Sends(t, input) == sent' = [sent EXCEPT ![t] = input]

\* (Slip: the draft goes as soon as the write is sent.)
PublishForgetting(t, draft) ==
    /\ Editing(t) /\ viewer /\ sent[t] = Nothing /\ form[t].text # Blank
    /\ Sends(t, [mode |-> shows[t], form |-> [form[t] EXCEPT !.tags = tagText[t]],
                 draft |-> draft, reply |-> "waiting"])
    /\ Drops(t, shows[t])
    /\ UNCHANGED <<server, editing, cache, viewer, texts, left>>

\* publish: the buttons are disabled while it waits, the form is not.  (One
\* write at a time is a bound: an editor that is left and opened again while
\* its write is under way has buttons of its own.)
Publish(t, draft) ==
    /\ Editing(t) /\ viewer /\ sent[t] = Nothing /\ form[t].text # Blank
    /\ Sends(t, [mode |-> shows[t], form |-> [form[t] EXCEPT !.tags = tagText[t]],
                 draft |-> draft, reply |-> "waiting"])
    /\ UNCHANGED <<server, editing, cache, stored, viewer, texts, wrote, left>>

\* The banner on a draft's page publishes the copy the page shows.
PublishDraft(t) ==
    /\ shows[t] = "page" /\ viewer /\ sent[t] = Nothing
    /\ cache[t].draft
    /\ Sends(t, [mode |-> "banner", form |-> Initial("edit", cache[t]),
                 draft |-> FALSE, reply |-> "waiting"])
    /\ UNCHANGED <<server, editing, cache, stored, viewer, texts, wrote, left>>

\* handleUpdateSheet and handleCreateSheet: an update needs the sheet to be
\* there and replaces whatever version that is; the answer may be lost.
ServerWrites(t) ==
    /\ sent[t] # Nothing /\ sent[t].reply = "waiting"
    /\ LET f == sent[t].form
           updates == sent[t].mode \in {"edit", "banner"}
       IN IF updates /\ server = Gone
          THEN UNCHANGED server /\ Sends(t, [sent[t] EXCEPT !.reply = "failed"])
          ELSE /\ updates => server.cid < MaxVersions
               /\ server' = IF updates
                            THEN [cid |-> server.cid + 1, text |-> f.text,
                                  tags |-> f.tags, draft |-> sent[t].draft]
                            ELSE server
               /\ \E reply \in {"ok", "failed"} :
                     Sends(t, [sent[t] EXCEPT !.reply = reply])
    /\ UNCHANGED <<editing, cache, stored, viewer, texts, wrote, left>>

ServerRefuses(t) ==
    /\ sent[t] # Nothing /\ sent[t].reply = "waiting"
    /\ Sends(t, [sent[t] EXCEPT !.reply = "failed"])
    /\ UNCHANGED <<server, editing, cache, stored, viewer, texts, wrote, left>>

\* The rest of publish, in the tab that sent it, whatever it shows by now.
Answered(t) ==
    /\ sent[t] # Nothing /\ sent[t].reply = "ok"
    /\ Sends(t, Nothing)
    /\ IF sent[t].mode = "banner"
       THEN UNCHANGED <<editing, stored, wrote, left>>
       ELSE Drops(t, sent[t].mode)
            /\ Unmounts(t, IF cache[t] # Nothing THEN "page" ELSE "away")
            /\ left' = [Leaving(t) EXCEPT ![sent[t].mode] = Nothing]
    /\ UNCHANGED <<server, cache, viewer, texts>>

\* The error is shown and everything stays.
Failed(t) ==
    /\ sent[t] # Nothing /\ sent[t].reply = "failed"
    /\ Sends(t, Nothing)
    /\ UNCHANGED <<server, editing, cache, stored, viewer, texts, wrote, left>>

\* remove, answered.
remove(t) ==
    /\ shows[t] = "edit" /\ viewer /\ server # Gone
    /\ server' = Gone
    /\ Drops(t, "edit")
    /\ Unmounts(t, "away") /\ left' = [left EXCEPT !["edit"] = Nothing]
    /\ UNCHANGED <<cache, sent, viewer, texts>>

\* The author publishes from another device.
ElsewherePublishes ==
    /\ server # Gone /\ server.cid < MaxVersions /\ texts < MaxTexts
    /\ texts' = texts + 1
    /\ server' = [server EXCEPT !.cid = @ + 1, !.text = texts']
    /\ UNCHANGED <<editing, cache, sent, stored, viewer, wrote, left>>

EditorNext ==
    \/ ElsewherePublishes
    \/ \E t \in Tabs :
        \/ Fetch(t) \/ OpenPage(t) \/ Leave(t) \/ CloseTab(t) \/ SignIn(t)
        \/ Type(t) \/ TypeTags(t) \/ Discard(t)
        \/ PublishDraft(t) \/ remove(t)
        \/ ServerWrites(t) \/ ServerRefuses(t) \/ Answered(t) \/ Failed(t)
        \/ \E mode \in Modes : OpenEditor(t, mode)
        \/ \E draft \in BOOLEAN : Publish(t, draft)

EditorSpec == EditorInit /\ [][EditorNext]_editorVars

-----------------------------------------------------------------------------

\* Texts and versions stay within their bounds, a tab shows a page of the
\* sheet only with a copy of it, and only its own editor saved its draft.
EditorTypeOK ==
    /\ server \in Sheet \cup {Gone}
    /\ shows \in [Tabs -> {"away", "page"} \cup Modes]
    /\ cache \in [Tabs -> Sheet \cup {Nothing}]
    /\ form \in [Tabs -> Form] /\ tagText \in [Tabs -> Tags]
    /\ sent \in [Tabs -> Input \cup {Nothing}]
    /\ stored \in [Modes -> Draft \cup {Nothing}]
    /\ viewer \in BOOLEAN /\ texts \in Texts
    /\ \A t \in Tabs : shows[t] \in {"page", "edit", "fork"} => cache[t] # Nothing

\* Nothing typed is lost with the editor it was typed in (EditorPage.tsx
\* 115-118: drafts are kept "so signing in ... or a closed tab doesn't lose
\* work"): when an editor goes away, by a link, a closed tab, a sign-in or a
\* finished write, its text is in the draft or the server has taken it.  Two
\* exceptions the code makes: another tab's editor has replaced the draft
\* since, or the text was typed while a write was under way.
LeavingKeepsWork ==
    [][\A t \in Tabs :
          LET mode == shows[t] text == form[t].text
          IN Editing(t) /\ shows'[t] # mode /\ server' # Gone =>
             \/ stored'[mode] # Nothing /\ stored'[mode].form.text = text
             \/ sent[t] # Nothing /\ sent[t].form.text = text /\ sent[t].reply = "ok"
             \/ wrote[mode] # t
             \/ sent[t] # Nothing /\ sent[t].form.text # text
      ]_editorVars

\* What was typed comes back, and never on another version.  However an editor
\* went away with its work in the draft, in whatever tab, and whatever was
\* fetched, sent, refused and opened since: the next editor of its kind shows
\* that very text if the work was made from the version (or the blank form) it
\* opens on, and the sheet's own text, with nothing of the work, if its base
\* was another version (EditorPage.tsx 115-118).
WorkComesBack ==
    [][\A t \in Tabs, mode \in Modes :
          shows[t] # mode /\ shows'[t] = mode /\ left[mode] # Nothing =>
             LET work == left[mode] base == BaseOf(t, mode, cache[t])
             IN /\ work.base = base /\ (mode = "edit" => base \in work.form.seen) =>
                      form'[t].text = work.form.text
                /\ work.base # base => form'[t].text = Initial(mode, cache[t]).text
      ]_editorVars

\* EditorPage.tsx:117: "An edit draft remembers the version it started from",
\* so what it would replace is a version its writer has seen.
DraftKnowsItsVersion ==
    "edit" \in Modes /\ stored["edit"] # Nothing /\ stored["edit"].base # NoBase =>
        stored["edit"].base \in stored["edit"].form.seen

\* EditorPage.tsx:115: "Drafts live in localStorage so signing in (a
\* full-page OAuth redirect) or a closed tab doesn't lose work": the tags
\* that the box shows are in the draft.
DraftHoldsTags ==
    \A t \in Tabs :
        Editing(t) /\ wrote[shows[t]] = t /\ stored[shows[t]] # Nothing =>
            stored[shows[t]].form.tags = tagText[t]
=============================================================================
