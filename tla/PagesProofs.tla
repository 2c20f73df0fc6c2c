---------------------------- MODULE PagesProofs -----------------------------
(***************************************************************************)
(* Theorems about what a page waits for and loses, the parts that MCPages  *)
(* puts side by side.                                                      *)
(***************************************************************************)
EXTENDS Editor, SheetForm, PlayAlong, TLAPS

-----------------------------------------------------------------------------
(***************************************************************************)
(* Editor: work outlives its editor and comes back in the next, for any    *)
(* tabs, tags, texts and versions.                                         *)
(***************************************************************************)

\* What editors open with and save has its type.
LEMMA InitialType ==
    ASSUME NEW mode, NEW sheet, mode = "new" \/ sheet \in Sheet
    PROVE  Initial(mode, sheet) \in Form
  <1>1. CASE mode = "new"
    BY <1>1, EditorAssumption DEF Initial, Form, Texts, Blank
  <1>2. CASE mode # "new" /\ sheet \in Sheet
    BY <1>2 DEF Initial, Form, Sheet
  <1>3. QED
    BY <1>1, <1>2

LEMMA SavesType ==
    ASSUME stored \in [Modes -> Draft \cup {Nothing}], NEW t, NEW mode \in Modes, NEW sheet,
           mode = "edit" => sheet \in Sheet, NEW f \in Form, Saves(t, mode, sheet, f)
    PROVE  stored' \in [Modes -> Draft \cup {Nothing}]
  <1>1. [base |-> BaseOf(t, mode, sheet), form |-> f] \in Draft
    BY DEF Draft, BaseOf, Base, NoBase, Sheet
  <1>2. QED
    BY <1>1 DEF Saves

\* What the tabs hold: all of EditorTypeOK but server, viewer and texts.
TabsOK ==
    /\ shows \in [Tabs -> {"away", "page"} \cup Modes]
    /\ cache \in [Tabs -> Sheet \cup {Nothing}]
    /\ form \in [Tabs -> Form] /\ tagText \in [Tabs -> Tags]
    /\ sent \in [Tabs -> Input \cup {Nothing}]
    /\ stored \in [Modes -> Draft \cup {Nothing}]
    /\ \A t \in Tabs : shows[t] \in {"page", "edit", "fork"} => cache[t] # Nothing

LEMMA UnmountsType ==
    ASSUME EditorTypeOK, NEW t \in Tabs, NEW place \in {"away", "page"}, Unmounts(t, place),
           place = "page" => cache'[t] # Nothing, \A u \in Tabs \ {t} : cache'[u] = cache[u],
           cache' \in [Tabs -> Sheet \cup {Nothing}], sent' \in [Tabs -> Input \cup {Nothing}],
           stored' \in [Modes -> Draft \cup {Nothing}]
    PROVE  TabsOK'
  <1>1. Initial("new", Nothing) \in Form
    BY InitialType
  <1>2. QED
    BY <1>1, EditorAssumption DEF EditorTypeOK, TabsOK, Unmounts

LEMMA EditorTypeStep == EditorTypeOK /\ [EditorNext]_editorVars => EditorTypeOK'
  <1> SUFFICES ASSUME EditorTypeOK, [EditorNext]_editorVars PROVE EditorTypeOK'
    OBVIOUS
  <1> USE DEF EditorTypeOK
  <1>0. TabsOK /\ (TabsOK' /\ server' \in Sheet \cup {Gone} /\ viewer' \in BOOLEAN
                   /\ texts' \in Texts => EditorTypeOK')
    BY DEF TabsOK
  <1>1. CASE UNCHANGED editorVars
    BY <1>1 DEF editorVars, editing
  <1>2. CASE ElsewherePublishes
    <2>1. texts' \in Texts
      BY <1>2, EditorAssumption DEF ElsewherePublishes, Texts
    <2>2. server' \in Sheet
      <3>1. server.cid + 1 \in Versions /\ server \in Sheet
        BY <1>2, EditorAssumption DEF ElsewherePublishes, Sheet, Versions
      <3>2. server' = [server EXCEPT !.cid = server.cid + 1, !.text = texts']
        BY <1>2 DEF ElsewherePublishes
      <3>3. QED
        BY <2>1, <3>1, <3>2 DEF Sheet
    <2>3. TabsOK'
      BY <1>0, <1>2 DEF ElsewherePublishes, editing, TabsOK
    <2>4. QED
      BY <1>0, <1>2, <2>1, <2>2, <2>3 DEF ElsewherePublishes
  <1> SUFFICES ASSUME NEW t \in Tabs,
          \/ Fetch(t) \/ OpenPage(t) \/ Leave(t) \/ CloseTab(t) \/ SignIn(t)
          \/ Type(t) \/ TypeTags(t) \/ Discard(t)
          \/ PublishDraft(t) \/ remove(t)
          \/ ServerWrites(t) \/ ServerRefuses(t) \/ Answered(t) \/ Failed(t)
          \/ \E mode \in Modes : OpenEditor(t, mode)
          \/ \E draft \in BOOLEAN : Publish(t, draft)
        PROVE EditorTypeOK'
    BY <1>1, <1>2 DEF EditorNext
  <1>3. CASE Fetch(t)
    <2>1. cache' \in [Tabs -> Sheet \cup {Nothing}] /\ server \in Sheet
      BY <1>3 DEF Fetch
    <2>2. stored' \in [Modes -> Draft \cup {Nothing}]
      <3>1. CASE UNCHANGED stored
        BY <3>1
      <3>2. CASE shows[t] = "edit" /\ Saves(t, "edit", server, form[t])
        <4>1. "edit" \in Modes /\ form[t] \in Form
          BY <3>2
        <4>2. QED
          BY <2>1, <3>2, <4>1, SavesType
      <3>3. QED
        BY <1>3, <3>1, <3>2 DEF Fetch
    <2>3. \A u \in Tabs : cache[u] # Nothing => cache'[u] # Nothing
      BY <1>3, <2>1, EditorAssumption DEF Fetch
    <2>4. TabsOK'
      BY <1>0, <1>3, <2>1, <2>2, <2>3 DEF Fetch, editing, TabsOK
    <2>5. QED
      BY <1>0, <1>3, <2>4 DEF Fetch
  <1>4. CASE OpenPage(t) \/ Leave(t) \/ CloseTab(t) \/ SignIn(t)
    <2>1. TabsOK'
      <3>1. CASE OpenPage(t)
        BY <3>1, UnmountsType DEF OpenPage
      <3>2. CASE Leave(t)
        BY <3>2, UnmountsType DEF Leave
      <3>3. CASE CloseTab(t)
        BY <3>3, UnmountsType DEF CloseTab
      <3>4. CASE SignIn(t)
        BY <3>4, UnmountsType DEF SignIn
      <3>5. QED
        BY <1>4, <3>1, <3>2, <3>3, <3>4
    <2>2. QED
      BY <1>0, <1>4, <2>1 DEF OpenPage, Leave, CloseTab, SignIn
  <1>5. CASE Type(t)
    <2>1. texts' \in Texts
      BY <1>5, EditorAssumption DEF Type, Texts
    <2>2. form' \in [Tabs -> Form] /\ form'[t] \in Form
      BY <1>5, <2>1 DEF Type, Form
    <2>3. shows[t] \in Modes /\ (shows[t] = "edit" => cache[t] \in Sheet)
      BY <1>5 DEF Type, Editing
    <2>4. stored' \in [Modes -> Draft \cup {Nothing}]
      BY <1>5, <2>2, <2>3, SavesType DEF Type
    <2>5. TabsOK'
      BY <1>0, <1>5, <2>2, <2>4 DEF Type, TabsOK
    <2>6. QED
      BY <1>0, <1>5, <2>1, <2>5 DEF Type
  <1>6. CASE TypeTags(t)
    <2>1. TabsOK'
      BY <1>0, <1>6 DEF TypeTags, TabsOK
    <2>2. QED
      BY <1>0, <1>6, <2>1 DEF TypeTags
  <1>7. CASE Discard(t)
    <2> DEFINE fresh == Initial(shows[t], cache[t])
    <2>1. shows[t] \in Modes /\ (shows[t] # "new" => cache[t] \in Sheet)
      BY <1>7, EditorAssumption DEF Discard, Editing
    <2>2. fresh \in Form
      BY <2>1, InitialType
    <2>3. /\ form' = [form EXCEPT ![t] = fresh]
          /\ tagText' = [tagText EXCEPT ![t] = fresh.tags]
          /\ Saves(t, shows[t], cache[t], fresh)
      BY <1>7 DEF Discard
    <2> HIDE DEF fresh
    <2>4. stored' \in [Modes -> Draft \cup {Nothing}]
      BY <2>1, <2>2, <2>3, SavesType
    <2>5. TabsOK'
      BY <1>0, <1>7, <2>2, <2>3, <2>4 DEF Discard, TabsOK, Form
    <2>6. QED
      BY <1>0, <1>7, <2>5 DEF Discard
  <1>8. ASSUME NEW mode \in Modes, OpenEditor(t, mode) PROVE EditorTypeOK'
    <2> DEFINE f == IF Restores(t, mode, cache[t]) THEN stored[mode].form
                    ELSE Initial(mode, cache[t])
    <2>1. mode # "new" => cache[t] \in Sheet
      BY <1>8 DEF OpenEditor
    <2>2. f \in Form
      <3>1. CASE Restores(t, mode, cache[t])
        BY <3>1 DEF Restores, Draft
      <3>2. CASE ~Restores(t, mode, cache[t])
        BY <2>1, <3>2, InitialType
      <3>3. QED
        BY <3>1, <3>2
    <2>3. /\ form' = [form EXCEPT ![t] = f]
          /\ tagText' = [tagText EXCEPT ![t] = f.tags]
          /\ Saves(t, mode, cache[t], f)
          /\ shows' = [shows EXCEPT ![t] = mode]
      BY <1>8 DEF OpenEditor
    <2> HIDE DEF f
    <2>4. stored' \in [Modes -> Draft \cup {Nothing}]
      BY <2>1, <2>2, <2>3, SavesType
    <2>5. TabsOK'
      BY <1>0, <1>8, <2>1, <2>2, <2>3, <2>4, EditorAssumption DEF OpenEditor, TabsOK, Form
    <2>6. QED
      BY <1>0, <1>8, <2>5 DEF OpenEditor
  <1>9. ASSUME NEW draft \in BOOLEAN, Publish(t, draft) PROVE EditorTypeOK'
    <2>1. [mode |-> shows[t], form |-> [form[t] EXCEPT !.tags = tagText[t]],
           draft |-> draft, reply |-> "waiting"] \in Input
      BY <1>9 DEF Publish, Editing, Input, Form
    <2>2. TabsOK'
      BY <1>0, <1>9, <2>1 DEF Publish, Sends, editing, TabsOK
    <2>3. QED
      BY <1>0, <1>9, <2>2 DEF Publish, editing
  <1>10. CASE PublishDraft(t)
    <2>1. Initial("edit", cache[t]) \in Form
      BY <1>10, InitialType DEF PublishDraft
    <2>2. [mode |-> "banner", form |-> Initial("edit", cache[t]),
           draft |-> FALSE, reply |-> "waiting"] \in Input
      BY <2>1 DEF Input
    <2>3. TabsOK'
      BY <1>0, <1>10, <2>2 DEF PublishDraft, Sends, editing, TabsOK
    <2>4. QED
      BY <1>0, <1>10, <2>3 DEF PublishDraft, editing
  <1>11. CASE remove(t)
    <2>1. stored' \in [Modes -> Draft \cup {Nothing}]
      BY <1>11 DEF remove, Drops
    <2>2. TabsOK'
      BY <1>11, <2>1, UnmountsType DEF remove
    <2>3. QED
      BY <1>0, <1>11, <2>2 DEF remove
  <1>12. CASE ServerWrites(t) \/ ServerRefuses(t)
    <2>1. sent[t] \in Input
      BY <1>12 DEF ServerWrites, ServerRefuses
    <2>2. \A reply \in {"ok", "failed"} : [sent[t] EXCEPT !.reply = reply] \in Input
      BY <2>1 DEF Input
    <2>3. sent' \in [Tabs -> Input \cup {Nothing}]
      BY <1>12, <2>2 DEF ServerWrites, ServerRefuses, Sends
    <2>4. server' \in Sheet \cup {Gone}
      <3>1. CASE server' = server
        BY <3>1
      <3>2. CASE server' # server
        <4>1. /\ server # Gone /\ server.cid < MaxVersions
              /\ server' = [cid |-> server.cid + 1, text |-> sent[t].form.text,
                            tags |-> sent[t].form.tags, draft |-> sent[t].draft]
          BY <1>12, <3>2 DEF ServerWrites, ServerRefuses
        <4>2. sent[t].form \in Form /\ sent[t].draft \in BOOLEAN
          BY <2>1 DEF Input
        <4>3. QED
          BY <4>1, <4>2, EditorAssumption DEF Sheet, Form, Versions
      <3>3. QED
        BY <3>1, <3>2
    <2>5. TabsOK'
      BY <1>0, <1>12, <2>3 DEF ServerWrites, ServerRefuses, editing, TabsOK
    <2>6. QED
      BY <1>0, <1>12, <2>4, <2>5 DEF ServerWrites, ServerRefuses, editing
  <1>13. CASE Answered(t)
    <2>1. sent' \in [Tabs -> Input \cup {Nothing}]
      BY <1>13 DEF Answered, Sends
    <2>2. stored' \in [Modes -> Draft \cup {Nothing}]
      BY <1>13 DEF Answered, Drops
    <2>3. TabsOK'
      <3>1. CASE sent[t].mode = "banner"
        BY <1>0, <1>13, <2>1, <2>2, <3>1 DEF Answered, editing, TabsOK
      <3>2. CASE sent[t].mode # "banner"
        <4>1. Unmounts(t, IF cache[t] # Nothing THEN "page" ELSE "away") /\ cache' = cache
          BY <1>13, <3>2 DEF Answered
        <4>2. CASE cache[t] # Nothing
          BY <2>1, <2>2, <4>1, <4>2, UnmountsType
        <4>3. CASE cache[t] = Nothing
          BY <2>1, <2>2, <4>1, <4>3, UnmountsType
        <4>4. QED
          BY <4>2, <4>3
      <3>3. QED
        BY <3>1, <3>2
    <2>4. QED
      BY <1>0, <1>13, <2>3 DEF Answered
  <1>14. CASE Failed(t)
    <2>1. TabsOK'
      BY <1>0, <1>14 DEF Failed, Sends, editing, TabsOK
    <2>2. QED
      BY <1>0, <1>14, <2>1 DEF Failed, editing
  <1>15. QED
    BY <1>3, <1>4, <1>5, <1>6, <1>7, <1>8, <1>9, <1>10, <1>11, <1>12, <1>13, <1>14

\* What an editor's save puts in the draft.
Work(t) == [base |-> BaseOf(t, shows[t], cache[t]), form |-> form[t]]

\* An open editor whose tab was the last to save or drop the draft of its
\* kind has its form in it, on the version it shows; and what the last editor
\* showed when it went away is the draft still.
WorkSaved ==
    /\ DOMAIN wrote = Modes /\ DOMAIN left = Modes
    /\ \A t \in Tabs :
          Editing(t) /\ wrote[shows[t]] = t =>
             stored[shows[t]] # Nothing /\ stored[shows[t]] = Work(t)
    /\ \A m \in Modes : left[m] # Nothing => stored[m] = left[m]

EditorInv == EditorTypeOK /\ WorkSaved

LEMMA EditorInvInit == EditorInit => EditorInv
  <1> SUFFICES ASSUME EditorInit PROVE EditorInv
    OBVIOUS
  <1>1. Initial("new", Nothing) \in Form
    BY InitialType
  <1>2. server \in Sheet
    BY EditorAssumption DEF EditorInit, Sheet, Versions, Texts
  <1>3. texts \in Texts
    BY EditorAssumption DEF EditorInit, Texts
  <1>4. [base |-> NoBase, form |-> Initial("new", Nothing)] \in Draft
    BY <1>1 DEF Draft, Base
  <1>5. EditorTypeOK
    BY <1>1, <1>2, <1>3, <1>4, EditorAssumption DEF EditorInit, EditorTypeOK
  <1>6. WorkSaved
    BY EditorAssumption DEF EditorInit, WorkSaved, Editing
  <1>7. QED
    BY <1>5, <1>6 DEF EditorInv

\* What one tab saves or drops is its own: the drafts that others saved
\* last stay as they were.
LEMMA OwnDraft ==
    ASSUME EditorInv, NEW t \in Tabs, NEW mode \in Modes,
           \/ \E sheet, f : Saves(t, mode, sheet, f)
           \/ Drops(t, mode)
    PROVE  /\ DOMAIN wrote' = Modes /\ wrote'[mode] = t
           /\ \A m \in Modes \ {mode} : stored'[m] = stored[m] /\ wrote'[m] = wrote[m]
  BY DEF EditorInv, EditorTypeOK, WorkSaved, Saves, Drops

\* A step that saves an open editor's form keeps everybody's work.
LEMMA SavingKeepsWork ==
    ASSUME EditorInv, NEW t \in Tabs, NEW mode \in Modes, NEW sheet, NEW f \in Form,
           mode = "edit" => sheet \in Sheet /\ cache'[t] = sheet,
           Saves(t, mode, sheet, f), shows'[t] = mode, form'[t] = f,
           \A u \in Tabs \ {t} :
              shows'[u] = shows[u] /\ form'[u] = form[u] /\ cache'[u] = cache[u]
    PROVE  WorkSaved'
  <1>1. stored'[mode] = [base |-> BaseOf(t, mode, sheet), form |-> f]
    BY DEF Saves, EditorInv, EditorTypeOK
  <1>2. stored'[mode] # Nothing /\ stored'[mode] = Work(t)'
    <2>1. [base |-> BaseOf(t, mode, sheet), form |-> f] \in Draft
      BY DEF Draft, BaseOf, Base, NoBase, Sheet
    <2>2. stored'[mode] # Nothing
      BY <1>1, <2>1, EditorAssumption
    <2>3. QED
      BY <1>1, <2>2 DEF Work, BaseOf
  <1>3. /\ DOMAIN wrote' = Modes /\ wrote'[mode] = t
        /\ \A m \in Modes \ {mode} : stored'[m] = stored[m] /\ wrote'[m] = wrote[m]
    BY OwnDraft
  <1>4. ASSUME NEW u \in Tabs, Editing(u)', wrote'[shows'[u]] = u
        PROVE  stored'[shows'[u]] # Nothing /\ stored'[shows'[u]] = Work(u)'
    <2>1. CASE u = t
      BY <1>2, <2>1
    <2>2. CASE u # t
      <3>1. Editing(u) /\ shows[u] # mode /\ wrote[shows[u]] = u
        BY <1>3, <1>4, <2>2 DEF Editing
      <3>2. stored[shows[u]] # Nothing /\ stored[shows[u]] = Work(u) /\ Work(u)' = Work(u)
        BY <2>2, <3>1 DEF EditorInv, WorkSaved, Work, BaseOf
      <3>3. QED
        BY <1>3, <2>2, <3>1, <3>2 DEF Editing
    <2>3. QED
      BY <2>1, <2>2
  <1>5. /\ DOMAIN left' = Modes
        /\ \A m \in Modes : left'[m] # Nothing => stored'[m] = left'[m]
    BY <1>3 DEF Saves, EditorInv, WorkSaved
  <1>6. QED
    BY <1>3, <1>4, <1>5 DEF WorkSaved

\* `left` after an editor has gone, or none was open, still is the draft.
LEMMA LeavingTakesWork ==
    ASSUME EditorInv, NEW t \in Tabs
    PROVE  /\ DOMAIN Leaving(t) = Modes
           /\ \A m \in Modes : Leaving(t)[m] # Nothing => stored[m] = Leaving(t)[m]
  BY DEF EditorInv, WorkSaved, Leaving, Work, Editing

\* A step that closes an editor, and at most drops a draft, keeps the others' work.
LEMMA ClosingKeepsWork ==
    ASSUME EditorInv, NEW t \in Tabs, NEW place \in {"away", "page"}, Unmounts(t, place),
           \A u \in Tabs \ {t} : cache'[u] = cache[u],
           \/ UNCHANGED <<stored, wrote>> /\ left' \in {left, Leaving(t)}
           \/ \E mode \in Modes :
                 /\ Drops(t, mode)
                 /\ left' \in {[left EXCEPT ![mode] = Nothing],
                               [Leaving(t) EXCEPT ![mode] = Nothing]}
    PROVE  WorkSaved'
  <1>1. /\ ~Editing(t)'
        /\ \A u \in Tabs \ {t} : shows'[u] = shows[u] /\ form'[u] = form[u]
    BY EditorAssumption DEF EditorInv, EditorTypeOK, Unmounts, Editing
  <1>2. \A u \in Tabs \ {t} : Work(u)' = Work(u)
    BY <1>1 DEF Work, BaseOf
  <1>3. CASE UNCHANGED <<stored, wrote>> /\ left' \in {left, Leaving(t)}
    <2>1. /\ DOMAIN left' = Modes
          /\ \A m \in Modes : left'[m] # Nothing => stored'[m] = left'[m]
      BY <1>3, LeavingTakesWork DEF EditorInv, WorkSaved
    <2>2. QED
      BY <1>1, <1>2, <1>3, <2>1 DEF EditorInv, WorkSaved, Editing
  <1>4. ASSUME NEW mode \in Modes, Drops(t, mode),
               left' \in {[left EXCEPT ![mode] = Nothing],
                          [Leaving(t) EXCEPT ![mode] = Nothing]}
        PROVE  WorkSaved'
    <2>1. /\ DOMAIN wrote' = Modes /\ wrote'[mode] = t
          /\ \A m \in Modes \ {mode} : stored'[m] = stored[m] /\ wrote'[m] = wrote[m]
      BY <1>4, OwnDraft
    <2>2. /\ DOMAIN left' = Modes
          /\ \A m \in Modes : left'[m] # Nothing => stored'[m] = left'[m]
      BY <1>4, <2>1, LeavingTakesWork DEF EditorInv, WorkSaved
    <2>3. ASSUME NEW u \in Tabs, Editing(u)', wrote'[shows'[u]] = u
          PROVE  stored'[shows'[u]] # Nothing /\ stored'[shows'[u]] = Work(u)'
      <3>1. u # t /\ shows'[u] # mode
        BY <1>1, <2>1, <2>3
      <3>2. Editing(u) /\ wrote[shows[u]] = u /\ shows'[u] = shows[u]
        BY <1>1, <2>1, <2>3, <3>1 DEF Editing
      <3>3. stored[shows[u]] # Nothing /\ stored[shows[u]] = Work(u)
        BY <3>2 DEF EditorInv, WorkSaved
      <3>4. QED
        BY <1>2, <2>1, <3>1, <3>2, <3>3 DEF Editing
    <2>4. QED
      BY <2>1, <2>2, <2>3 DEF WorkSaved
  <1>5. QED
    BY <1>3, <1>4

LEMMA WorkStep == EditorInv /\ [EditorNext]_editorVars => WorkSaved'
  <1> SUFFICES ASSUME EditorInv, [EditorNext]_editorVars PROVE WorkSaved'
    OBVIOUS
  <1>0. CASE UNCHANGED <<editing, cache, stored, wrote, left>>
    BY <1>0 DEF editing, EditorInv, WorkSaved, Editing, Work, BaseOf
  <1>1. CASE UNCHANGED editorVars \/ ElsewherePublishes
    BY <1>0, <1>1 DEF editorVars, ElsewherePublishes
  <1> SUFFICES ASSUME NEW t \in Tabs,
          \/ Fetch(t) \/ OpenPage(t) \/ Leave(t) \/ CloseTab(t) \/ SignIn(t)
          \/ Type(t) \/ TypeTags(t) \/ Discard(t)
          \/ PublishDraft(t) \/ remove(t)
          \/ ServerWrites(t) \/ ServerRefuses(t) \/ Answered(t) \/ Failed(t)
          \/ \E mode \in Modes : OpenEditor(t, mode)
          \/ \E draft \in BOOLEAN : Publish(t, draft)
        PROVE WorkSaved'
    BY <1>1 DEF EditorNext
  <1>2. CASE Fetch(t)
    <2>1. CASE shows[t] = "edit" /\ Saves(t, "edit", server, form[t])
      <3>1. "edit" \in Modes /\ form[t] \in Form /\ server \in Sheet
        BY <1>2, <2>1 DEF Fetch, EditorInv, EditorTypeOK
      <3>2. /\ UNCHANGED <<shows, form>> /\ cache'[t] = server
            /\ \A u \in Tabs \ {t} : cache'[u] = cache[u]
        BY <1>2 DEF Fetch, editing, EditorInv, EditorTypeOK
      <3>3. QED
        BY <2>1, <3>1, <3>2, SavingKeepsWork
    <2>2. CASE /\ UNCHANGED <<stored, wrote, left>>
               /\ shows[t] = "edit" => cache[t].cid = server.cid
      <3>1. UNCHANGED <<shows, form>> /\ cache' = [cache EXCEPT ![t] = server]
        BY <1>2 DEF Fetch, editing
      <3>2. \A u \in Tabs : Work(u)' = Work(u)
        BY <2>2, <3>1 DEF Work, BaseOf, EditorInv, EditorTypeOK
      <3>3. QED
        BY <2>2, <3>1, <3>2 DEF EditorInv, WorkSaved, Editing
    <2>3. QED
      BY <1>2, <2>1, <2>2 DEF Fetch
  <1>3. CASE OpenPage(t) \/ Leave(t) \/ CloseTab(t) \/ SignIn(t)
    <2>1. \A u \in Tabs \ {t} : cache'[u] = cache[u]
      BY <1>3 DEF OpenPage, Leave, CloseTab, SignIn, EditorInv, EditorTypeOK
    <2>2. /\ UNCHANGED <<stored, wrote>> /\ left' \in {left, Leaving(t)}
          /\ Unmounts(t, "away") \/ Unmounts(t, "page")
      BY <1>3 DEF OpenPage, Leave, CloseTab, SignIn
    <2>3. QED
      BY <2>1, <2>2, ClosingKeepsWork
  <1>4. CASE Type(t)
    <2>1. EditorTypeOK'
      BY EditorTypeStep DEF EditorInv
    <2>2. form'[t] \in Form /\ shows[t] \in Modes /\ (shows[t] = "edit" => cache[t] \in Sheet)
      BY <1>4, <2>1 DEF Type, Editing, EditorInv, EditorTypeOK
    <2>3. \A u \in Tabs \ {t} : shows'[u] = shows[u] /\ form'[u] = form[u]
      BY <1>4 DEF Type, EditorInv, EditorTypeOK
    <2>4. Saves(t, shows[t], cache[t], form'[t]) /\ shows'[t] = shows[t] /\ UNCHANGED cache
      BY <1>4 DEF Type
    <2>5. QED
      BY <2>2, <2>3, <2>4, SavingKeepsWork
  <1>5. CASE TypeTags(t)
    BY <1>5 DEF TypeTags, EditorInv, WorkSaved, Editing, Work, BaseOf
  <1>6. CASE Discard(t)
    <2> DEFINE fresh == Initial(shows[t], cache[t])
    <2>1. shows[t] \in Modes /\ (shows[t] # "new" => cache[t] \in Sheet)
      BY <1>6, EditorAssumption DEF Discard, Editing, EditorInv, EditorTypeOK
    <2>2. fresh \in Form
      BY <2>1, InitialType
    <2>3. /\ form' = [form EXCEPT ![t] = fresh]
          /\ Saves(t, shows[t], cache[t], fresh)
          /\ UNCHANGED <<shows, cache>>
      BY <1>6 DEF Discard
    <2> HIDE DEF fresh
    <2>4. form'[t] = fresh /\ \A u \in Tabs \ {t} : form'[u] = form[u]
      BY <2>3 DEF EditorInv, EditorTypeOK
    <2>5. QED
      BY <2>1, <2>2, <2>3, <2>4, SavingKeepsWork
  <1>7. ASSUME NEW mode \in Modes, OpenEditor(t, mode) PROVE WorkSaved'
    <2> DEFINE f == IF Restores(t, mode, cache[t]) THEN stored[mode].form
                    ELSE Initial(mode, cache[t])
    <2>1. /\ form' = [form EXCEPT ![t] = f]
          /\ Saves(t, mode, cache[t], f)
          /\ shows' = [shows EXCEPT ![t] = mode]
          /\ mode = "new" \/ cache[t] # Nothing
          /\ UNCHANGED cache
      BY <1>7 DEF OpenEditor
    <2> HIDE DEF f
    <2>2. EditorTypeOK /\ EditorTypeOK'
      BY EditorTypeStep DEF EditorInv
    <2>3. form'[t] = f /\ shows'[t] = mode /\ f \in Form
          /\ \A u \in Tabs \ {t} : shows'[u] = shows[u] /\ form'[u] = form[u]
      BY <2>1, <2>2 DEF EditorTypeOK
    <2>4. mode = "edit" => cache[t] \in Sheet
      BY <2>1, <2>2 DEF EditorTypeOK
    <2>5. QED
      BY <2>1, <2>3, <2>4, SavingKeepsWork
  <1>8. CASE \E draft \in BOOLEAN : Publish(t, draft)
    BY <1>0, <1>8 DEF Publish
  <1>9. CASE PublishDraft(t) \/ ServerWrites(t) \/ ServerRefuses(t) \/ Failed(t)
    BY <1>0, <1>9 DEF PublishDraft, ServerWrites, ServerRefuses, Failed
  <1>10. CASE remove(t)
    <2>1. "edit" \in Modes
      BY <1>10 DEF remove, EditorInv, EditorTypeOK
    <2>2. QED
      BY <1>10, <2>1, ClosingKeepsWork DEF remove
  <1>11. CASE Answered(t)
    <2>1. CASE sent[t].mode = "banner"
      BY <1>0, <1>11, <2>1 DEF Answered
    <2>2. CASE sent[t].mode # "banner"
      <3>1. sent[t].mode \in Modes
        BY <1>11, <2>2 DEF Answered, EditorInv, EditorTypeOK, Input
      <3>2. \E place \in {"away", "page"} : Unmounts(t, place)
        BY <1>11, <2>2 DEF Answered
      <3>3. /\ Drops(t, sent[t].mode) /\ UNCHANGED cache
            /\ left' = [Leaving(t) EXCEPT ![sent[t].mode] = Nothing]
        BY <1>11, <2>2 DEF Answered
      <3>4. QED
        BY <3>1, <3>2, <3>3, ClosingKeepsWork
    <2>3. QED
      BY <2>1, <2>2
  <1>12. QED
    BY <1>2, <1>3, <1>4, <1>5, <1>6, <1>7, <1>8, <1>9, <1>10, <1>11

\* Types, and every open editor's work in its draft, hold throughout.
THEOREM EditorKeepsInv == EditorSpec => []EditorInv
  <1>1. EditorInv /\ [EditorNext]_editorVars => EditorInv'
    BY EditorTypeStep, WorkStep DEF EditorInv
  <1>2. QED
    BY <1>1, EditorInvInit, PTL DEF EditorSpec

\* What is typed into a tab's editor outlives the editor, in its draft or on
\* the server, whatever tabs, kinds of editors, texts and versions there are
\* (EditorPage.tsx 115-118).
THEOREM WorkIsKept == EditorSpec => LeavingKeepsWork
  <1> DEFINE Kept ==
        \A t \in Tabs :
          LET mode == shows[t] text == form[t].text
          IN Editing(t) /\ shows'[t] # mode /\ server' # Gone =>
             \/ stored'[mode] # Nothing /\ stored'[mode].form.text = text
             \/ sent[t] # Nothing /\ sent[t].form.text = text /\ sent[t].reply = "ok"
             \/ wrote[mode] # t
             \/ sent[t] # Nothing /\ sent[t].form.text # text
  <1>1. EditorInv /\ [EditorNext]_editorVars => Kept
    <2> SUFFICES ASSUME EditorInv, [EditorNext]_editorVars, NEW t \in Tabs,
                        Editing(t), shows'[t] # shows[t], server' # Gone, wrote[shows[t]] = t
                 PROVE  \/ /\ stored'[shows[t]] # Nothing
                           /\ stored'[shows[t]].form.text = form[t].text
                        \/ sent[t] # Nothing /\ sent[t].reply = "ok"
      OBVIOUS
    <2>1. stored[shows[t]] # Nothing /\ stored[shows[t]].form = form[t]
      <3>1. stored[shows[t]] # Nothing /\ stored[shows[t]] = Work(t)
        BY DEF EditorInv, WorkSaved
      <3>2. Work(t).form = form[t]
        BY DEF Work
      <3>3. QED
        BY <3>1, <3>2
    <2>2. CASE UNCHANGED stored
      BY <2>1, <2>2
    <2>3. CASE UNCHANGED shows
      BY <2>3
    <2>4. CASE UNCHANGED editorVars \/ ElsewherePublishes
      BY <2>3, <2>4 DEF editorVars, ElsewherePublishes, editing
    <2> SUFFICES ASSUME NEW u \in Tabs,
          \/ Fetch(u) \/ OpenPage(u) \/ Leave(u) \/ CloseTab(u) \/ SignIn(u)
          \/ Type(u) \/ TypeTags(u) \/ Discard(u)
          \/ PublishDraft(u) \/ remove(u)
          \/ ServerWrites(u) \/ ServerRefuses(u) \/ Answered(u) \/ Failed(u)
          \/ \E mode \in Modes : OpenEditor(u, mode)
          \/ \E draft \in BOOLEAN : Publish(u, draft)
        PROVE \/ UNCHANGED shows \/ UNCHANGED stored
              \/ sent[t] # Nothing /\ sent[t].reply = "ok"
      BY <2>1, <2>2, <2>3, <2>4 DEF EditorNext
    <2>5. CASE Fetch(u) \/ Type(u) \/ TypeTags(u) \/ Discard(u) \/ PublishDraft(u)
               \/ ServerWrites(u) \/ ServerRefuses(u) \/ Failed(u)
               \/ \E draft \in BOOLEAN : Publish(u, draft)
      BY <2>5 DEF Fetch, Type, TypeTags, Discard, PublishDraft, ServerWrites,
                  ServerRefuses, Failed, Publish, editing
    <2>6. CASE OpenPage(u) \/ Leave(u) \/ CloseTab(u) \/ SignIn(u)
      BY <2>6 DEF OpenPage, Leave, CloseTab, SignIn
    <2>7. CASE \E mode \in Modes : OpenEditor(u, mode)
      <3>1. u # t
        BY <2>7, EditorAssumption DEF OpenEditor, Editing
      <3>2. QED
        BY <2>7, <3>1 DEF OpenEditor, EditorInv, EditorTypeOK
    <2>8. CASE remove(u)
      BY <2>8 DEF remove
    <2>9. CASE Answered(u)
      <3>1. CASE u = t
        BY <2>9, <3>1 DEF Answered
      <3>2. CASE u # t
        BY <2>9, <3>2 DEF Answered, Unmounts, EditorInv, EditorTypeOK, editing
      <3>3. QED
        BY <3>1, <3>2
    <2>10. QED
      BY <2>5, <2>6, <2>7, <2>8, <2>9
  <1>2. QED
    BY <1>1, EditorKeepsInv, PTL DEF EditorSpec, LeavingKeepsWork

\* What was typed comes back in the next editor of its kind, on the version it
\* was made from and on no other, whatever happened since the editor that
\* showed it went away (EditorPage.tsx 115-118, 125-135).
THEOREM WorkReturns == EditorSpec => WorkComesBack
  <1> DEFINE ComesBack ==
        \A t \in Tabs, mode \in Modes :
          shows[t] # mode /\ shows'[t] = mode /\ left[mode] # Nothing =>
             LET work == left[mode] base == BaseOf(t, mode, cache[t])
             IN /\ work.base = base /\ (mode = "edit" => base \in work.form.seen) =>
                      form'[t].text = work.form.text
                /\ work.base # base => form'[t].text = Initial(mode, cache[t]).text
  <1>1. EditorInv /\ [EditorNext]_editorVars => ComesBack
    <2> SUFFICES ASSUME EditorInv, [EditorNext]_editorVars, NEW t \in Tabs, NEW mode \in Modes,
                        shows[t] # mode, shows'[t] = mode, left[mode] # Nothing
                 PROVE  LET work == left[mode] base == BaseOf(t, mode, cache[t])
                        IN /\ work.base = base => form'[t].text = work.form.text
                           /\ work.base # base => form'[t].text = Initial(mode, cache[t]).text
      OBVIOUS
    <2> USE DEF EditorInv, EditorTypeOK
    <2>1. CASE OpenEditor(t, mode)
      <3> DEFINE f == IF Restores(t, mode, cache[t]) THEN stored[mode].form
                      ELSE Initial(mode, cache[t])
      <3>1. form'[t] = f
        BY <2>1 DEF OpenEditor
      <3>2. stored[mode] # Nothing /\ stored[mode] = left[mode]
        BY DEF WorkSaved
      <3>3. QED
        BY <3>1, <3>2 DEF Restores
    <2>2. ASSUME NEW u \in Tabs, NEW place, place # mode,
                 shows' = [shows EXCEPT ![u] = place]
          PROVE  FALSE
      BY <2>2
    <2>3. ASSUME UNCHANGED shows PROVE FALSE
      BY <2>3
    <2>4. CASE UNCHANGED editorVars \/ ElsewherePublishes
      BY <2>3, <2>4 DEF editorVars, ElsewherePublishes, editing
    <2> SUFFICES ASSUME NEW u \in Tabs,
          \/ Fetch(u) \/ OpenPage(u) \/ Leave(u) \/ CloseTab(u) \/ SignIn(u)
          \/ Type(u) \/ TypeTags(u) \/ Discard(u)
          \/ PublishDraft(u) \/ remove(u)
          \/ ServerWrites(u) \/ ServerRefuses(u) \/ Answered(u) \/ Failed(u)
          \/ \E m \in Modes : OpenEditor(u, m)
          \/ \E draft \in BOOLEAN : Publish(u, draft)
        PROVE OpenEditor(t, mode)
      BY <2>1, <2>4 DEF EditorNext
    <2>5. CASE Fetch(u) \/ Type(u) \/ TypeTags(u) \/ Discard(u) \/ PublishDraft(u)
               \/ ServerWrites(u) \/ ServerRefuses(u) \/ Failed(u)
               \/ \E draft \in BOOLEAN : Publish(u, draft)
      BY <2>3, <2>5 DEF Fetch, Type, TypeTags, Discard, PublishDraft, ServerWrites,
                  ServerRefuses, Failed, Publish, editing
    <2>6. CASE OpenPage(u) \/ Leave(u) \/ CloseTab(u) \/ SignIn(u) \/ remove(u) \/ Answered(u)
      <3>1. mode \notin {"away", "page"}
        BY EditorAssumption
      <3>2. QED
        BY <2>2, <2>3, <2>6, <3>1 DEF OpenPage, Leave, CloseTab, SignIn, remove, Answered,
                  Unmounts, editing
    <2>7. ASSUME NEW m \in Modes, OpenEditor(u, m) PROVE OpenEditor(t, mode)
      <3>1. u = t /\ m = mode
        BY <2>7 DEF OpenEditor
      <3>2. QED
        BY <2>7, <3>1
    <2>8. QED
      BY <2>5, <2>6, <2>7
  <1>2. QED
    BY <1>1, EditorKeepsInv, PTL DEF EditorSpec, WorkComesBack

-----------------------------------------------------------------------------
(***************************************************************************)
(* SheetForm: the editor's form fits its instrument, for any chords, capos, *)
(* tunings and number of files opened.                                     *)
(***************************************************************************)

\* A form has the five fields, whatever they hold.
IsForm(f) ==
    f = [kind |-> f.kind, tuning |-> f.tuning, capo |-> f.capo,
         chords |-> f.chords, shapes |-> f.shapes]

Sound(f) == IsForm(f) /\ FitsOrCameSo(f)

\* So does every form that a file may replace, while the file is read and as
\* long as Undo can bring it back, and what discarding brings back: FormFits is
\* not inductive without.
FormInv ==
    /\ Sound(fields) /\ Sound(given) /\ (undo # None => Sound(undo))
    /\ reading = [n \in 1..MaxFiles |-> reading[n]]
    /\ \A n \in 1..MaxFiles : reading[n] # None => Sound(reading[n])

LEMMA FormStarts == FormInit => FormInv
  BY DEF FormInit, FormInv, Sound, IsForm, FitsOrCameSo, Fields

\* No action of the form takes it, or what Undo would bring back, out of that.
LEMMA FormKeeps == FormInv /\ [FormNext]_formVars => FormInv'
  <1> SUFFICES ASSUME FormInv, [FormNext]_formVars PROVE FormInv'
    OBVIOUS
  <1> USE DEF FormInv
  \* The form of this moment, which is Sound, may become one that is being replaced.
  <1>0. ASSUME given' = given, Sound(fields)', undo' \in {undo, None},
               \/ reading' = reading
               \/ \E n \in 1..MaxFiles, f \in {fields, None} : reading' = [reading EXCEPT ![n] = f]
        PROVE  FormInv'
    BY <1>0 DEF Sound, FitsOrCameSo
  <1>1. CASE ChooseFile
    <2>1. CASE files' \in 1..MaxFiles
      BY <1>0, <1>1, <2>1 DEF ChooseFile, Sound, FitsOrCameSo
    <2>2. CASE files' \notin 1..MaxFiles
      <3>1. reading' = reading
        BY <1>1, <2>2 DEF ChooseFile
      <3>2. QED
        BY <1>0, <1>1, <3>1 DEF ChooseFile, Sound, FitsOrCameSo
    <2>3. QED
      BY <2>1, <2>2
  <1>2. CASE Undo
    BY <1>0, <1>2 DEF Undo, Sound, FitsOrCameSo
  <1>3. CASE Dismiss
    BY <1>0, <1>3 DEF Dismiss, Sound, FitsOrCameSo
  <1>4. CASE DiscardForm
    BY <1>0, <1>4 DEF DiscardForm, Sound, FitsOrCameSo
  <1>5. ASSUME NEW kind \in Kinds, PickKind(kind) PROVE FormInv'
    <2>1. Sound(fields)'
      BY <1>5 DEF PickKind, Sound, IsForm, FitsOrCameSo, HasTuning
    <2> QED
      BY <1>0, <1>5, <2>1 DEF PickKind
  <1>6. ASSUME NEW id \in Picks, PickTuning(id) PROVE FormInv'
    <2>1. Sound(fields)'
      BY <1>6 DEF PickTuning, Sound, IsForm, FitsOrCameSo, HasTuning
    <2> QED
      BY <1>0, <1>6, <2>1 DEF PickTuning
  <1>7. ASSUME NEW capo \in Capos, TypeCapo(capo) PROVE FormInv'
    <2>1. Sound(fields)'
      BY <1>7 DEF TypeCapo, Sound, IsForm, FitsOrCameSo, HasTuning
    <2> QED
      BY <1>0, <1>7, <2>1 DEF TypeCapo
  <1>8. ASSUME NEW chords \in SUBSET Chords, TypeContent(chords) PROVE FormInv'
    <2>1. Sound(fields)'
      BY <1>8 DEF TypeContent, Sound, IsForm, FitsOrCameSo, HasTuning
    <2> QED
      BY <1>0, <1>8, <2>1 DEF TypeContent
  <1>9. ASSUME NEW c \in Chords, NEW own \in BOOLEAN, EditShape(c, own) PROVE FormInv'
    <2>1. Sound(fields)'
      BY <1>9 DEF EditShape, Sound, IsForm, FitsOrCameSo, HasTuning
    <2> QED
      BY <1>0, <1>9, <2>1 DEF EditShape
  <1>10. ASSUME NEW n \in 1..MaxFiles, NEW file \in FileFields, FileComes(n, file) PROVE FormInv'
    <2>1. Sound(fields)'
      BY <1>10 DEF FileComes, Sound, IsForm, FitsOrCameSo, HasTuning
    <2>2. Sound(undo)'
      BY <1>10 DEF FileComes, Sound, FitsOrCameSo
    <2>3. /\ reading' = [m \in 1..MaxFiles |-> reading'[m]]
          /\ \A m \in 1..MaxFiles : reading'[m] \in {reading[m], None}
      BY <1>10 DEF FileComes
    <2> QED
      BY <1>10, <2>1, <2>2, <2>3 DEF FileComes, Sound, FitsOrCameSo
  <1>11. ASSUME NEW n \in 1..MaxFiles, FileFails(n) PROVE FormInv'
    BY <1>0, <1>11 DEF FileFails, Sound, FitsOrCameSo
  <1>12. CASE UNCHANGED formVars
    BY <1>0, <1>12 DEF formVars, Sound, FitsOrCameSo
  <1> QED
    BY <1>1, <1>2, <1>3, <1>4, <1>5, <1>6, <1>7, <1>8, <1>9, <1>10, <1>11, <1>12 DEF FormNext

\* Whatever sheet the editor opened, however many files are read at once and
\* whatever is picked, typed, undone and discarded meanwhile: a tuning that its
\* instrument does not have, or a capo with no box to take it off, is in the
\* form only as the sheet brought it (openFile, the Type buttons, Undo).
THEOREM FormAlwaysFits == FormSpec => []FormFits
  <1>1. FormInv => FormFits
    BY DEF FormInv, Sound, FormFits
  <1> QED
    BY FormStarts, FormKeeps, <1>1, PTL DEF FormSpec

-----------------------------------------------------------------------------
(***************************************************************************)
(* PlayAlong: for any number of starts and stops, queues of any length and *)
(* any set of faults.                                                      *)
(***************************************************************************)

(***************************************************************************)
(* The control the safety of the microphone rests on.                      *)
(***************************************************************************)

\* Runs to come have not begun.
NotYet == \A r \in Run : r > run => at[r] = "none"

\* The current start still waits for the microphone or the audio: its page
\* says so, since no message is heard for it yet.
StillLoading ==
    run # NoRun /\ at[run] \in {"mic", "resume"} => status = "loading"

\* Until its prompt is answered it holds no microphone.
NothingYet == mounted /\ run # NoRun /\ at[run] = "mic" => open = {}

\* A page that has started and not stopped does not say it is off.
OnOnceStarted == run # NoRun /\ at[run] # "none" => status # "off"

\* The worker's messages go to a run that has begun, and to the current one
\* only after it has given the worker its sheet.
HandlerBegun ==
    /\ handler <= run
    /\ handler = run /\ run # NoRun => at[run] \in {"module", "capturing", "over"}

\* Messages come from a worker that is up, which has a handler.
HasHandler ==
    /\ outbox # <<>> => worker = "up"
    /\ worker = "up" => handler # NoRun

PlayControl ==
    /\ NotYet /\ StillLoading /\ NothingYet /\ OnOnceStarted
    /\ HandlerBegun /\ HasHandler /\ MicIsCurrent /\ OffIsClosed

PlayInv == PlayTypeOK /\ PlayControl

-----------------------------------------------------------------------------
(* Types. *)

\* Taking the first message off a queue leaves a queue; the message is one
\* of its type.
LEMMA HeadTail ==
    ASSUME NEW T, NEW q \in Seq(T), q # <<>>
    PROVE  Head(q) \in T /\ Tail(q) \in Seq(T)
  OBVIOUS

\* Whatever the worker answers its waiting starts is a queue of answers.
LEMMA AnswersType ==
    ASSUME NEW type \in FromWorkerType, waiting \in Seq(Run)
    PROVE  Answers(type) \in Seq(FromWorkerType)
  BY DEF Answers

\* A call to a worker keeps its queue a queue of messages to it.
LEMMA ToWorkerKeepsType ==
    ASSUME NEW m \in ToWorkerType, inbox \in Seq(ToWorkerType), ToWorker(m)
    PROVE  inbox' \in Seq(ToWorkerType)
  BY DEF ToWorker

\* The calls the page makes.
LEMMA MessageTypes ==
    /\ \A r \in Run : Message("start", r) \in ToWorkerType
    /\ Message("stop", NoRun) \in ToWorkerType
    /\ Message("audio", NoRun) \in ToWorkerType
  BY DEF Message, ToWorkerType

\* Each state variable keeps its type: run numbers stay within the bound,
\* the model is loading exactly while starts wait for it (load, worker.ts).
THEOREM PlayTypeCorrect == PlaySpec => []PlayTypeOK
  <1>1. Init => PlayTypeOK
    BY PlayAssumption DEF Init, PlayTypeOK, Run, NoRun
  <1>2. PlayTypeOK /\ [PlayNext]_playVars => PlayTypeOK'
    <2> SUFFICES ASSUME PlayTypeOK, [PlayNext]_playVars PROVE PlayTypeOK'
      OBVIOUS
    <2> USE PlayAssumption DEF Run, NoRun
    <2>1. CASE Start
      BY <2>1 DEF PlayTypeOK, Start, LetMicGo, Goto, inside
    <2>2. CASE Stop
      <3>1. inbox' \in Seq(ToWorkerType)
        BY <2>2, ToWorkerKeepsType, MessageTypes DEF Stop, PlayTypeOK
      <3>2. QED
        BY <2>2, <3>1 DEF PlayTypeOK, Stop, LetMicGo, inside
    <2>3. CASE Unmount
      <3>1. inbox' \in Seq(ToWorkerType) /\ outbox' \in Seq(FromWorkerType)
        BY <2>3 DEF Unmount
      <3>2. worker' \in {"none", "up", "terminated"} /\ open' \subseteq Run
        BY <2>3 DEF Unmount, PlayTypeOK
      <3>3. QED
        BY <2>3, <3>1, <3>2 DEF PlayTypeOK, Unmount, inside
    <2>4. CASE Hears
      <3>1. outbox' \in Seq(FromWorkerType)
        BY <2>4, HeadTail DEF Hears, PlayTypeOK
      <3>2. /\ status' \in {"off", "loading", "listening", "error"}
            /\ open' \subseteq Run /\ stopAudio' \in 0..MaxRun
        <4>1. CASE UNCHANGED audio
          BY <2>4, <4>1 DEF PlayTypeOK, Hears, audio
        <4>2. CASE LetMicGo /\ status' = "error"
          BY <4>2 DEF PlayTypeOK, LetMicGo
        <4>3. QED
          BY <2>4, <4>1, <4>2 DEF Hears
      <3>3. QED
        BY <2>4, <3>1, <3>2 DEF PlayTypeOK, Hears, inside
    <2>5. ASSUME NEW r \in Run, MicOpens(r) PROVE PlayTypeOK'
      BY <2>5 DEF PlayTypeOK, MicOpens, Goto, inside, audio
    <2>6. ASSUME NEW r \in Run, MicDenied(r) PROVE PlayTypeOK'
      BY <2>6 DEF PlayTypeOK, MicDenied, Goto, inside, audio
    <2>7. ASSUME NEW r \in Run, Resumes(r) PROVE PlayTypeOK'
      <3>1. inbox' \in Seq(ToWorkerType)
        <4>1. Message("start", r) \in ToWorkerType
          BY MessageTypes
        <4>2. inbox' \in {inbox, Append(inbox, Message("start", r))}
          BY <2>7 DEF Resumes
        <4>3. QED
          BY <4>1, <4>2 DEF PlayTypeOK
      <3>2. QED
        BY <2>7, <3>1 DEF PlayTypeOK, Resumes, Goto, inside, audio
    <2>8. ASSUME NEW r \in Run, Connects(r) PROVE PlayTypeOK'
      BY <2>8 DEF PlayTypeOK, Connects, Goto, inside, audio
    <2>9. ASSUME NEW r \in Run, SetupFails(r) PROVE PlayTypeOK'
      <3>1. inbox' \in Seq(ToWorkerType)
        BY <2>9, ToWorkerKeepsType, MessageTypes DEF SetupFails, PlayTypeOK
      <3>2. /\ status' \in {"off", "loading", "listening", "error"}
            /\ open' \subseteq Run /\ stopAudio' \in 0..MaxRun
        <4>1. CASE r = run
          <5>1. LetMicGo /\ status' = "error"
            BY <2>9, <4>1 DEF SetupFails
          <5>2. QED
            BY <5>1 DEF PlayTypeOK, LetMicGo
        <4>2. CASE r # run
          BY <2>9, <4>2 DEF PlayTypeOK, SetupFails, audio
        <4>3. QED
          BY <4>1, <4>2
      <3>3. QED
        BY <2>9, <3>1, <3>2 DEF PlayTypeOK, SetupFails, Goto, inside
    <2>10. ASSUME NEW r \in Run, Captures(r) PROVE PlayTypeOK'
      <3>1. inbox' \in Seq(ToWorkerType)
        BY <2>10, ToWorkerKeepsType, MessageTypes DEF Captures, PlayTypeOK
      <3>2. QED
        BY <2>10, <3>1 DEF PlayTypeOK, Captures, inside, audio
    <2>11. ASSUME NEW r \in Run, Emits(r) PROVE PlayTypeOK'
      BY <2>11 DEF PlayTypeOK, Emits, audio, FromWorkerType
    <2>12. CASE Takes
      <3>1. Head(inbox) \in ToWorkerType /\ inbox' \in Seq(ToWorkerType)
        BY <2>12, HeadTail DEF Takes, PlayTypeOK
      <3>2. CASE TakesStart
        <4>1. Head(inbox).run \in Run
          BY <3>1, <3>2 DEF TakesStart, ToWorkerType
        <4>2. /\ waiting' \in Seq(Run) /\ (model' = "loading" <=> waiting' # <<>>)
              /\ model' \in {"none", "loading", "loaded"}
          <5>1. CASE model # "loaded"
            BY <3>2, <4>1, <5>1 DEF PlayTypeOK, TakesStart
          <5>2. CASE model = "loaded"
            BY <3>2, <5>2 DEF PlayTypeOK, TakesStart
          <5>3. QED
            BY <5>1, <5>2
        <4>3. live' \in 0..MaxRun /\ outbox' \in Seq(FromWorkerType)
          <5>1. CASE model # "loaded"
            BY <3>2, <5>1 DEF PlayTypeOK, TakesStart
          <5>2. CASE model = "loaded"
            <6>1. live' = Head(inbox).run /\ outbox' = Append(outbox, "ready")
              BY <3>2, <5>2 DEF TakesStart
            <6>2. outbox' \in Seq(FromWorkerType)
              BY <6>1 DEF PlayTypeOK, FromWorkerType
            <6>3. QED
              BY <4>1, <6>1, <6>2
          <5>3. QED
            BY <5>1, <5>2
        <4>4. QED
          BY <2>12, <3>1, <3>2, <4>2, <4>3
          DEF PlayTypeOK, Takes, TakesStart, audio
      <3>3. CASE TakesAudio
        BY <2>12, <3>1, <3>3 DEF PlayTypeOK, Takes, TakesAudio, audio
      <3>4. CASE TakesStop
        BY <2>12, <3>1, <3>4 DEF PlayTypeOK, Takes, TakesStop, audio
      <3>5. QED
        BY <2>12, <3>2, <3>3, <3>4 DEF Takes
    <2>13. CASE Progresses
      BY <2>13 DEF PlayTypeOK, Progresses, audio, inside, FromWorkerType
    <2>14. CASE ModelLoads
      <3>1. Answers("ready") \in Seq(FromWorkerType) /\ Last(waiting) \in Run
        BY <2>14, AnswersType DEF ModelLoads, PlayTypeOK, FromWorkerType, Last
      <3>2. QED
        BY <2>14, <3>1 DEF PlayTypeOK, ModelLoads, audio
    <2>15. CASE ModelFails
      <3>1. Answers("error") \in Seq(FromWorkerType)
        BY <2>15, AnswersType DEF ModelFails, PlayTypeOK, FromWorkerType
      <3>2. QED
        BY <2>15, <3>1 DEF PlayTypeOK, ModelFails, audio
    <2>16. CASE UNCHANGED playVars
      BY <2>16 DEF PlayTypeOK, playVars, audio, inside
    <2>17. QED
      BY <2>1, <2>2, <2>3, <2>4, <2>5, <2>6, <2>7, <2>8, <2>9, <2>10, <2>11,
         <2>12, <2>13, <2>14, <2>15, <2>16 DEF PlayNext, Setup
  <1>3. QED
    BY <1>1, <1>2, PTL DEF PlaySpec

-----------------------------------------------------------------------------
(* The microphone. *)

\* The control above is kept, given types.
THEOREM PlayInvariant == PlaySpec => []PlayInv
  <1>1. Init => PlayControl
    BY DEF Init, PlayControl, NotYet, StillLoading, OnOnceStarted, HandlerBegun,
           HasHandler, NothingYet, MicIsCurrent, OffIsClosed, Run, NoRun
  <1>2. PlayTypeOK /\ PlayControl /\ [PlayNext]_playVars => PlayControl'
    <2> SUFFICES ASSUME PlayTypeOK, PlayControl, [PlayNext]_playVars
                 PROVE  PlayControl'
      OBVIOUS
    <2>0. /\ run \in Nat /\ handler \in Nat /\ MaxRun \in Nat
          /\ DOMAIN at = Run
      BY PlayAssumption DEF PlayTypeOK
    <2> USE <2>0 DEF Run, NoRun
    <2>1. CASE Start
      <3>1. /\ mounted' = mounted /\ run' = run + 1 /\ run' \in Run
            /\ status' = "loading" /\ at' = [at EXCEPT ![run'] = "mic"]
            /\ UNCHANGED <<handler, worker, outbox>>
        BY <2>1 DEF Start, Goto
      <3>2. NotYet' /\ StillLoading' /\ OnOnceStarted' /\ HandlerBegun' /\ HasHandler'
        BY <3>1 DEF PlayControl, NotYet, StillLoading, OnOnceStarted, HandlerBegun,
                    HasHandler
      <3>3. NothingYet' /\ MicIsCurrent' /\ OffIsClosed'
        BY <2>1 DEF Start, LetMicGo, PlayControl, NothingYet, MicIsCurrent, OffIsClosed
      <3>4. QED
        BY <3>2, <3>3 DEF PlayControl
    <2>2. CASE Stop
      <3>1. /\ mounted' = mounted /\ run' = run + 1 /\ run' \in Run
            /\ UNCHANGED <<at, handler, worker, outbox>>
        BY <2>2 DEF Stop
      <3>2. NotYet' /\ StillLoading' /\ OnOnceStarted' /\ HandlerBegun' /\ HasHandler'
        BY <3>1 DEF PlayControl, NotYet, StillLoading, OnOnceStarted, HandlerBegun,
                    HasHandler
      <3>3. NothingYet' /\ MicIsCurrent' /\ OffIsClosed'
        BY <2>2 DEF Stop, LetMicGo, PlayControl, NothingYet, MicIsCurrent, OffIsClosed
      <3>4. QED
        BY <3>2, <3>3 DEF PlayControl
    <2>3. CASE Unmount
      BY <2>3 DEF Unmount, PlayControl, NotYet, StillLoading, OnOnceStarted,
                  HandlerBegun, HasHandler, NothingYet, MicIsCurrent, OffIsClosed
    <2>4. CASE Hears
      <3>1. /\ UNCHANGED <<mounted, run, at, handler, worker>>
            /\ outbox # <<>> /\ worker = "up"
        BY <2>4 DEF Hears, PlayControl, HasHandler
      <3>2. NotYet' /\ HandlerBegun' /\ HasHandler'
        BY <3>1 DEF PlayControl, NotYet, HandlerBegun, HasHandler
      <3>3. CASE handler # run
        BY <2>4, <3>1, <3>2, <3>3
        DEF Hears, audio, PlayControl, StillLoading, OnOnceStarted, NothingYet,
            MicIsCurrent, OffIsClosed
      <3>4. CASE handler = run
        <4>0. /\ run # NoRun /\ at[run] \in {"module", "capturing", "over"}
              /\ status # "off"
          BY <3>1, <3>4 DEF PlayControl, HandlerBegun, HasHandler, OnOnceStarted
        <4>1. at[run] \notin {"mic", "resume"} /\ status' # "off"
          BY <2>4, <3>1, <3>4, <4>0 DEF Hears
        <4>2. StillLoading' /\ OnOnceStarted'
          BY <3>1, <4>1 DEF StillLoading, OnOnceStarted
        <4>3. NothingYet' /\ MicIsCurrent'
          BY <2>4, <3>1, <4>1
          DEF Hears, audio, LetMicGo, PlayControl, NothingYet, MicIsCurrent
        <4>4. OffIsClosed'
          BY <2>4, <3>1, <3>4, <4>0
          DEF Hears, audio, LetMicGo, PlayControl, NothingYet, MicIsCurrent, OffIsClosed
        <4>5. QED
          BY <3>2, <4>2, <4>3, <4>4 DEF PlayControl
      <3>5. QED
        BY <3>3, <3>4
    <2>late. ASSUME NEW r \in Run, r # run, at[r] # "none",
                    at' = [at EXCEPT ![r] = "over"],
                    UNCHANGED <<mounted, status, run, open, stopAudio, handler,
                                worker, outbox>>
             PROVE  PlayControl'
      <3>1. at'[run] = at[run] /\ \A q \in Run : at[q] = "none" => at'[q] = "none"
        BY <2>late DEF PlayTypeOK
      <3>2. NotYet' /\ StillLoading' /\ OnOnceStarted'
        BY <2>late, <3>1 DEF PlayControl, NotYet, StillLoading, OnOnceStarted
      <3>3. HandlerBegun' /\ HasHandler' /\ NothingYet' /\ MicIsCurrent' /\ OffIsClosed'
        BY <2>late, <3>1
        DEF PlayControl, HandlerBegun, HasHandler, NothingYet, MicIsCurrent, OffIsClosed
      <3>4. QED
        BY <3>2, <3>3 DEF PlayControl
    <2>5. ASSUME NEW r \in Run, MicOpens(r) PROVE PlayControl'
      <3>1. CASE r = run
        <4>1. /\ at' = [at EXCEPT ![run] = "resume"] /\ status = "loading"
              /\ open' = open \cup {run} /\ stopAudio' = run /\ handler # run
              /\ UNCHANGED <<mounted, status, run, handler, worker, outbox>>
          BY <2>5, <3>1 DEF MicOpens, Goto, PlayControl, StillLoading, HandlerBegun
        <4>2. QED
          BY <3>1, <4>1
          DEF PlayControl, NotYet, StillLoading, OnOnceStarted, HandlerBegun,
              HasHandler, NothingYet, MicIsCurrent, OffIsClosed
      <3>2. CASE r # run
        BY <2>5, <2>late, <3>2 DEF MicOpens, Goto, audio
      <3>3. QED
        BY <3>1, <3>2
    <2>6. ASSUME NEW r \in Run, MicDenied(r) PROVE PlayControl'
      <3>1. CASE r = run
        <4>1. /\ at' = [at EXCEPT ![run] = "over"] /\ status' = "error"
              /\ at[run] = "mic" /\ status = "loading" /\ handler # run
              /\ UNCHANGED <<mounted, run, open, stopAudio, handler, worker, outbox>>
          BY <2>6, <3>1
          DEF MicDenied, Goto, audio, PlayControl, StillLoading, HandlerBegun
        <4>2. NotYet' /\ StillLoading' /\ OnOnceStarted'
          BY <3>1, <4>1 DEF PlayControl, NotYet, StillLoading, OnOnceStarted
        <4>3. /\ HandlerBegun' /\ HasHandler'
              /\ NothingYet' /\ MicIsCurrent' /\ OffIsClosed'
          BY <3>1, <4>1
          DEF PlayControl, HandlerBegun, HasHandler, NothingYet, MicIsCurrent, OffIsClosed
        <4>4. QED
          BY <4>2, <4>3 DEF PlayControl
      <3>2. CASE r # run
        BY <2>6, <2>late, <3>2 DEF MicDenied, Goto, audio
      <3>3. QED
        BY <3>1, <3>2
    <2>7. ASSUME NEW r \in Run, Resumes(r) PROVE PlayControl'
      <3>1. CASE r = run
        <4>1. /\ at' = [at EXCEPT ![run] = "module"] /\ status = "loading"
              /\ handler' = run /\ (worker = "up" => worker' = "up")
              /\ UNCHANGED <<mounted, status, run, open, stopAudio, outbox>>
          BY <2>7, <3>1 DEF Resumes, Goto, audio, PlayControl, StillLoading
        <4>2. QED
          BY <3>1, <4>1
          DEF PlayControl, NotYet, StillLoading, OnOnceStarted, HandlerBegun,
              HasHandler, NothingYet, MicIsCurrent, OffIsClosed
      <3>2. CASE r # run
        BY <2>7, <2>late, <3>2 DEF Resumes, Goto, audio
      <3>3. QED
        BY <3>1, <3>2
    <2>8. ASSUME NEW r \in Run, Connects(r) PROVE PlayControl'
      <3>1. CASE r = run
        <4>1. /\ at' = [at EXCEPT ![run] = "capturing"] /\ stopAudio' = run
              /\ at[run] = "module"
              /\ UNCHANGED <<mounted, status, run, open, handler, worker, outbox>>
          BY <2>8, <3>1 DEF Connects, Goto
        <4>2. QED
          BY <3>1, <4>1
          DEF PlayControl, NotYet, StillLoading, OnOnceStarted, HandlerBegun,
              HasHandler, NothingYet, MicIsCurrent, OffIsClosed
      <3>2. CASE r # run
        BY <2>8, <2>late, <3>2 DEF Connects, Goto
      <3>3. QED
        BY <3>1, <3>2
    <2>9. ASSUME NEW r \in Run, SetupFails(r) PROVE PlayControl'
      BY <2>9
      DEF SetupFails, LetMicGo, Goto, audio, PlayControl, NotYet, StillLoading,
          OnOnceStarted, HandlerBegun, HasHandler, NothingYet, MicIsCurrent, OffIsClosed
    <2>10. ASSUME UNCHANGED <<mounted, status, run, at, open, stopAudio, handler,
                              worker>>,
                  worker = "up" \/ outbox' = outbox
           PROVE  PlayControl'
      BY <2>10
      DEF PlayControl, NotYet, StillLoading, OnOnceStarted, HandlerBegun, HasHandler,
          NothingYet, MicIsCurrent, OffIsClosed
    <2>11. ASSUME NEW r \in Run, Captures(r) \/ Emits(r) PROVE PlayControl'
      BY <2>10, <2>11 DEF Captures, Emits, audio
    <2>12. CASE Takes \/ Progresses \/ ModelLoads \/ ModelFails
      BY <2>10, <2>12 DEF Takes, Progresses, ModelLoads, ModelFails, audio
    <2>13. CASE UNCHANGED playVars
      BY <2>10, <2>13 DEF playVars, audio
    <2>14. QED
      BY <2>1, <2>2, <2>3, <2>4, <2>5, <2>6, <2>7, <2>8, <2>9, <2>11, <2>12, <2>13
      DEF PlayNext, Setup
  <1>3. QED
    BY <1>1, <1>2, PlayTypeCorrect, PTL DEF PlaySpec, PlayInv

\* While the page is open, no run but the last one started holds the
\* microphone, however late its prompt is answered (start, usePlayAlong.ts).
THEOREM MicStaysCurrent == PlaySpec => []MicIsCurrent
  BY PlayInvariant, PTL DEF PlayInv, PlayControl

\* An open page that is off or shows an error holds no microphone.
THEOREM OffStaysClosed == PlaySpec => []OffIsClosed
  BY PlayInvariant, PTL DEF PlayInv, PlayControl

\* An open page has the microphone of its last start, and none once it is off
\* or in error (usePlayAlong's run, stop and catch).
THEOREM MicStaysAsShown == PlaySpec => []MicAsShown
  BY MicStaysCurrent, OffStaysClosed, PTL DEF MicAsShown

\* Nothing but a start takes a page out of "off": no message of a stopped run,
\* no answer to a prompt, no set-up that fails late.
THEOREM OffStaysOff == PlaySpec => StaysOff
  <1>1. PlayInv /\ [PlayNext]_playVars =>
        [status = "off" /\ status' # "off" => run' # run]_playVars
    <2> SUFFICES ASSUME PlayInv, PlayNext, status = "off", status' # "off",
                        run' = run
                 PROVE  FALSE
      OBVIOUS
    <2>0. run \in Nat
      BY DEF PlayInv, PlayTypeOK
    <2>1. CASE Hears
      BY <2>1
      DEF Hears, PlayInv, PlayControl, OnOnceStarted, HandlerBegun, HasHandler
    <2>2. ASSUME NEW r \in Run, Setup(r) PROVE FALSE
      BY <2>2
      DEF Setup, MicOpens, MicDenied, Resumes, Connects, SetupFails, PlayInv,
          PlayControl, OnOnceStarted, Run, NoRun
    <2>3. QED
      BY <2>0, <2>1, <2>2
      DEF PlayNext, Start, Stop, Unmount, Captures, Emits, Takes, Progresses,
          ModelLoads, ModelFails
  <1>2. QED
    BY <1>1, PlayInvariant, PTL DEF PlaySpec, StaysOff

=============================================================================
