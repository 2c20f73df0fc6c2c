# Leadsheet.fm in TLA+

Leadsheet.fm is an AppView on atproto: people's lead sheets, ratings and
favorites live as records in their own repos on their PDSes, and a Go server
keeps a Postgres index of them that a React page is served from. The page does
much of the work: it names and voices the chords for any instrument, tuning,
capo and key, plays the chart, follows a player through the microphone, scrolls,
and keeps drafts of what is written. These modules model the parts in which
something can go wrong that a unit test would hardly reach.

    tlc -config MCIndex.cfg MCIndex          # model-check one run
    tlapm IndexProofs.tla                    # check the proofs of one module

`PROJECT.json` lists the runs, the mutants that show each property can fail,
the source lines behind every definition, the findings and the hazards.

## The system

| Component | State it keeps | Operations | Hard about it | What makes it correct |
|---|---|---|---|---|
| Index store (`pkg/store`) | tables `sheets`, `ratings`, `favorites`, `profiles`, `sheet_stats`, `og_cards`, `ingest_state` | upsert and delete of each record, `SetHidden`, `PurgeAccount`, `UpsertProfile`, cards, cleanup | counts are stored and refreshed by each transaction; transactions overlap at READ COMMITTED | counts are a recount; hidden and purged accounts leave nothing behind; nothing stale stays |
| Firehose (`pkg/ingest/jetstream.go`, `indexer.go`) | the cursor, in memory and saved | `consume`, `handle` | stops anywhere, resumes from a cursor saved every few seconds | replays are harmless, nothing is skipped, the index converges |
| Backfiller (`backfill.go`) | `backfill_done`, pages under way | `RunOnce`, `BackfillRepo` | pages go stale while the firehose runs | the backfill and the firehose leave no gap; neither undoes the other |
| Write handlers (`pkg/server/write.go`) | none: PDS, then index | create, update, delete, rate, favorite | the two writes are not one; several tabs and clients | the index ends up with what the repo holds |
| Cleanup (`pkg/store/cleanup.go`), link previews (`pkg/server/meta.go`) | `og_cards`, `sheet_stats` | hourly deletes; draw, store, serve | a sheet deleted while its preview is drawn | no card outlives its sheet for long |
| Sessions (`store/auth.go`, `server/auth.go`) | `oauth_requests`, `oauth_sessions`, `web_sessions` | sign-in, callback, resume, sign-out, expiry | two tables written one after the other, with the cleanup and other requests in between | a sign-in lasts until it is signed out or expires; nothing of it lingers |
| Profile resolver (`ingest/profiles.go`) | `handle`, `resolved_at` | `Run`, `Resolve`, `MarkProfileStale` | a lookup beside an identity event; lookups that fail; late answers | names shown are right in the end |
| HTTP retries (`telemetry/robusthttp`), about badge (`about.go`) | attempts; one cached value | `RoundTrip`; `get` | cancelled contexts, bodies that can't be sent again | not modelled, see below |
| Editor (`EditorPage.tsx`, `lib/api.ts`) | the form, its drafts in localStorage, react-query's copy, a write under way | open, type, save, sign in, publish, discard, delete, open a file, undo | two tabs share a draft; a copy is refetched under an open form; a file is awaited | nothing typed is lost; what comes back is on its own version; the form makes nothing its instrument cannot have |
| Play-along (`usePlayAlong.ts`, `worker.ts`) | run number, microphone, worker, model, two queues | `start`, `stop`, unmount, worker messages | three awaits in `start`; queues outlive a run | the microphone is held exactly while the page listens |
| Chord frames (`live.ts`) and follower (`follow.ts`) | sample buffer, features, run under way; marker, pending run, pace | `push`, `run`; `step` | audio comes while a run computes; hysteresis over an uncertain belief | frames come once and in order; no early far jump; the marker gets there |
| Reading a sheet (`SheetPage.tsx`, `pluck.ts`) | the controls' knobs, hearing, following, scrolling, the player's timers | every button, timers, microphone answers | three modes exclude each other; a player keeps what it was started with | one mode at a time; what is heard is what is shown and sounds like the song |
| Autoscroll (`SheetPage.tsx`) | animations, touches, a timeout | run, stop, set speed, grab, release, frames | an animation replaces another without ending it | the page stays where it is seen; scrolling ends |
| Chord boxes (`guitar.ts`, `piano.ts`, `Voicings.tsx`, `ChordDiagram.tsx`) | the shapes of a chord, picks in localStorage | step, type, move | three sources of "the" shape, for other strings | the box and the sound agree; shapes are the chord and can be fretted |
| Chord charts (`chordpro.ts`, `strum.ts`, `convert.ts`, `chordproFile.ts`, `tabImport.ts`) | none: pure functions | parse, convert, write a file, read it | patterns that last or hold for one bar; two sets of rules for a file | a chart is read as written; a file's first song comes back |
| Records, slugs, browse, pages, metrics | none | pure functions, reads | — | left to unit tests |

The parts meet in few places. Jetstream delivers commits and account events to
`Firehose.handle`, which calls the indexer, which calls the store. The
backfiller lists repos at the relay, pages through each on its PDS and calls
the same indexer. A write handler writes to the viewer's PDS and then calls the
store itself; the same commit comes back over the firehose. A sign-in resolves
the profile and starts a backfill of the account. The cleanup and the preview
handler write to the same database on their own. A write resumes the OAuth
session its browser session points at; identity events queue an account for the
resolver.

In the browser, `SheetPage` owns the knobs and hands what they come to on: to
the boxes (names, strings), to `playThrough` (the resolved frets), and to
`usePlayAlong` (the key to expect). The worker runs `LiveChords`, whose frames
step `Follower`, whose position comes back as the marked chord. Editor, charts
and boxes share `lib/`: a sheet's own shapes go from the editor's boxes through
the draft and the record to the reader's.

## Modules

| Module | What it models |
|---|---|
| `Tally` | the rows of the tables, who is hidden and listed, and how `RecomputeStats` counts (no state) |
| `Library` | the abstract index: records, hidden accounts, and counts that are at every moment their tally |
| `Index` | every table and every transaction of the store, one action each; the properties of the index |
| `StoreTx` | the sheet transactions statement by statement at READ COMMITTED, with row locks and deadlocks |
| `Firehose` | the network's log, the reader and its cursor, over all of `Index` |
| `Ingest` | the firehose together with backfills and write handlers |
| `Opinions` | one account rating or favoriting a sheet from several tabs and another client |
| `Sessions` | sign-ins, the requests of browsers, and the cleanup of their three tables |
| `Profiles` | the passes of the resolver, identity events and what the rows show |
| `Editor` | drafts, copies and writes of one sheet edited in several tabs and elsewhere |
| `SheetForm` | the fields of the form that limit each other, and the files opened into it |
| `PlayAlong` | the play-along hook and its worker |
| `Live` | the sample buffer and the runs that report frames |
| `Follow` | the marker's hysteresis, pace and chord |
| `Instruments` | instruments, kinds and tunings, and how they are looked up; the notes of a piano's chord (no state) |
| `Screen` | the controls of a sheet and its three ways through; the player and its timers |
| `Glide` | autoscroll, with fingers and without |
| `Shapes` | hand-checked and movable shapes, the fretboard search (no state) |
| `Voicings` | a chord's box: the shapes it steps through, the picks it keeps |
| `Charts` | a chart read line by line into sections, bars and strums |
| `Files` | chords in tags or over lyrics made inline; a sheet of one song or several written to a ChordPro file and read back |
| `IndexProofs`, `FirehoseProofs`, `IngestProofs` | theorems about the module each is named after |
| `HandlersProofs` | theorems about `Opinions`, `Sessions` and `StoreTx` |
| `PagesProofs` | theorems about `Editor`, `SheetForm` and `PlayAlong` |
| `ReaderProofs` | theorems about `Screen`, `Live`, `Follow` and `Glide` |
| `MusicProofs` | theorems about `Voicings` and `Files` |
| `ChartProofs` | theorems about `Charts` |
| `MCIndex`, `MCStoreTx`, `MCFirehose`, `MCIngest`, `MCWriters`, `MCServer`, `MCPages`, `MCReader`, `MCMusic` | small instances for TLC |

`Firehose` EXTENDS `Index` and `Ingest` EXTENDS `Firehose`: their actions are
the store's, called with what the log, a page or a request holds. `Library` is
instantiated by `Index` with `hidden <- HiddenIn(profiles)` and the counts as
the views read them, so that a missing stats row is a row of zeros. `Screen`,
`SheetForm`, `Shapes` and `Files` EXTEND `Instruments`, and `Voicings` EXTENDS
`Shapes`. `MCWriters`, `MCServer`, `MCPages`, `MCReader` and `MCMusic` put modules
that share no state side by side: `part` picks the one that moves, the others
keep one of their initial states. `MCIndex` does so with `Index` and an INSTANCE
of `StoreTx` that has tables of its own. Definitions marked *Slip* are plausible
mistakes, used only to show that a property notices them; no specification
mentions them.

### How state and actions correspond to the code: the server

A record's URI is `<<did, rkey>>`, a table a function from the URIs it has rows
for. Of a sheet's columns the modules keep `fork_of_uri` and `draft`, of a
rating's the subject, value and `created_at`; nothing else tells two properties
apart. `rating_avg` and `rating_score` are functions of `total` and `ratings`,
which are kept instead. A profile row is its `hidden` column. An action of
`Index` is one transaction: its last conjunct `RecomputeAll` counts over the
primed tables because `recomputeAll` runs last in the transaction and sees its
writes. `PutOGCard` comes at any time after `DrawCard`, which has read the sheet.

In `StoreTx` a statement is a step. It sees what is committed plus its own
writes (`Over`), and waits for a row another open transaction has written
(`Blockers`). `RecomputeStats` is two steps, since its SELECT reads the snapshot
before its INSERT waits for the stats row. `Abort` is Postgres failing a
statement of a deadlock. What Postgres does is modelled from its documented
behaviour and marked external in the map.

In `Firehose` the log is what Jetstream numbers; `pos` is what the running
`consume` has handled, `cursor` its cursor and `saved` the row in
`ingest_state`. A handled event is one `HandleEvent`, and a batch ends after any
event (`EndBatch`); the save every few seconds may or may not fall on it.
`FailEvent`, `Crash` and `Close` are the ways `consume` ends. The statuses
deactivated, suspended and taken down are one, as `handle` treats them.

In `Ingest` a handler's PDS write appends to the log and its index write is a
later action, or never (`LoseWrite`). What the handler loads to decide whether
to refuse (`Loads`) is read together with the PDS write. A backfill lists a
collection of a repo in one page and puts its records in any order.
`raced` is a history variable: the records that changed while an older write of
them was on its way.

In `Opinions` a rating is its value and `created_at`, under its rkey; the clock
and new rkeys are the number of commits so far. `Ask` is a request up to its
first write, with the URIs it has read; `Rate` and `Favor` write the repo, `IndexIt`
the index, `DeleteNext` and `Unindex` are an iteration of `deleteAll`. `Fails` ends a
request at any of these. `Echo` is the firehose with every commit, in order.
`undisturbed` is history: no other request or client moved since this one began,
when the index was in step.

In `Sessions` a sign-in's three rows have one name, and tables give ages in ticks.
`calling` is a callback from `ProcessCallback`, which saves the OAuth session, to
`CreateWebSession`, with `DeleteAuthRequestInfo` between them; `call` is a
request of a browser that has passed `loadViewer` and then writes or signs out.
`SignOut` forgets the browser session, or fails to. The OAuth library refreshes
tokens behind `Write`, whose save inserts a row that is gone (`ON CONFLICT`).
`Cleanup` is three steps that compare with the time it began, so its thresholds
move by the ticks it has taken. The tables' SELECTs compare at their own time.

In `Profiles` a row is its handle, and `resolved` orders the rows by `resolved_at`:
those marked stale or never resolved are out of it, and the first `expired` are
older than `profileTTL`. A pass (`Run`, `SignedIn`) lists its accounts, and each is
looked up and saved in two steps (`LookUp`, `SaveProfile`), between which anything
may happen. What the network knows is `named`.

### The browser

In `Editor` a *text* stands for everything typed but the tags, which have a box
with a state of its own. `cache[t]` is react-query's copy in tab `t`, which
`Fetch` renews behind an open form; `stored` is localStorage, which the tabs
share; `sent[t]` is a `publish` that waits for its answer, and an answer may be
lost (`Failed` after `ServerWrites`). The save effect runs with each change of
the form or of its base (`Saves`). `seen`, `wrote` and `left` are history: the
versions a form's writer has been shown, the tab that saved or dropped a draft
last, and the draft as the editor that wrote it went away. A draft from before
drafts had a base comes back where the base is null (`Restores`). `SheetForm`
keeps the fields that limit each other. A sheet opens as its record is, since
`sheetInput` normalises nothing: other clients write any tuning and capo. Files are
read while the reader goes on typing and come in any order; one is laid over the
form as it is when it comes, while Undo brings back the form as it was when the
file was chosen, as the code's closure does.

In `PlayAlong` each `await` of `start()` is a place in `at[run]`, a stream is
open from `MicOpens` until `stopAudio` of that run is called, and a handler is
known by the `id` its `start()` closed over. `Live` counts time in hops of the
transform: `push` takes the audio of a chunk, drops old audio, computes the
features it can and starts a run unless one is under way; `RunEnds` reports.
`Follow` is one frame: the belief, a hidden Markov model in floating point, is
abstracted to what it may answer (any run of chords, surely or not), and all
that the code makes of the answer is kept.

In `Screen` the buttons are actions with what `controls` shows them in (the bar
of a phone, its panel, the sidebar, stage mode). `Set` is a knob with the
effect that takes a change over (`heard`), and `hear` starts a player with
what the knobs come to (`Uses`). `Tick` is the player's interval, `ChordStarts`
a timer of a queued chord. `ChartEnds` asks what `tick` asks, that all chords are
queued and the audio clock is past the end; timers that are late then are left
in `late`, which nothing clears, and `LateStarts` has one mark its chord: such a
mark is `stray`. A change of sheet resets what the code resets (`Fresh`). In
`Glide` a position is a step down the page; `anims` are all the animations the
page has, of which the last is seen, and `anim` says whether the newest is the
one the code would end. A finger may be down when scrolling starts, there may be
several, and the speed may be set under any of them. `disturbed` is history: an
animation was started over another, or the page scrolled under one, and not all
have been settled since.

`Shapes` holds the tables of `guitar.ts` as they are, the movable shapes
(`place`) and the search over the fretboard with its fingers, score and order
(`Walked`, `Grip`, `score`, `Before`). `Voicings` keeps the sheet's own shape, the reader's picks and
what the box makes of them. In `Charts` a text is a sequence of lines, each of a
kind that the parser tells apart, and an action parses one line. In `Files` the
lines of a sheet go through `toChordProFile` and `fromChordProFile`, which takes the
first song and makes chords in tags, or else above the lyrics, inline (`asChordPro`).

## What the runs check

| Run (cfg) | Instance | Shows |
|---|---|---|
| `index` (`MCIndex`) | 2 accounts; 2 sheets forking each other or an unindexed one, cards, 1 favorite; or 3 ratings and 2 favorites of one sheet; or 2 transactions at a time, publishing, moving, deleting, hiding | `TypeOK`; `StatsFresh`: stored counts are a recount; `AuthorsKnown`; `CountsAsSeen`: one vote per account, the one it is shown; `HideTakesEffect`; `ReplayIsNoOp`; `RefinesLibrary`; `Heals`: a recount that overlaps nothing sets the count right; `OnlyRecountsDeadlock`: only transactions that recount a second sheet can be failed for a deadlock; `OrphanCardsGo` (liveness) |
| `tx_lost` (`MCStoreTxLost`) | 2 first forks at once | `FreshWhenQuiet` is violated (finding) |
| `firehose_replay` (`MCFirehoseReplay`) | API key, all three collections, account events, stops | `ReplayIsHarmless`, `NoneSkipped`, `Converges` (liveness) |
| `writers` (`MCWriters`) | API key, sign-ins, handlers, a stop; 2 tabs and 4 commits of opinions | `OnlyRacesDiverge`: only a record that changed while an older write of it was on its way ends up wrong; `OneOpinion`: a request leaves one record or none, whatever strays it found |
| `first_start` (`MCIngestFirst`) | no API key, `RunOnce` beside the firehose, a stop | `BackfillCovers`: what a repo has held since it was listed is indexed when `RunOnce` ends |
| `server` (`MCServer`) | 2 sign-ins, 2 requests, cleanups; 2 accounts, one of them broken, passes of 1 | `SignInsHold`; `NothingLingers` and `NamesSettle` (liveness) |
| `ingest_stale` (`MCIngestStale`) | a sign-in and a delete | `QuietInStep` is violated by a backfill's page (finding) |
| `play_left` (`MCPlayLeft`) | one start, a page that is left | `LeavesMic` is violated (finding) |
| `pages` (`MCPages`) | 2 tabs and another device on one sheet; one tab forking, editing, writing anew; the form with 2 files on 5 sheets, of which three do not fit their instrument; 5 starts and stops of play-along under every fault | `LeavingKeepsWork`: nothing typed goes with its editor; `WorkComesBack`: the work an editor left comes back, on its own version only; `FormFits`: what the instrument cannot have, the sheet came with; `MicAsShown`; `StaysOff` |
| `editor_rebased` (`EditorRebased`) | one tab, a publish elsewhere | `DraftKnowsItsVersion` is violated (finding) |
| `reader` (`MCReader`) | 4 sheets, one per instrument, with capos and late timers; 4 steps of page, 2 fingers; 5 runs of chords; 12 frames | `OneAtATime`, `HeardAsShown`, `SoundsTheSame`, `HearingEnds` (`Screen`); `KeepsItsPlace`, `ScrollingEnds` (`Glide`); `MovesAreEarned`, `GetsThere` (`Follow`); `FramesInOrder`, `CatchesUp` (`Live`) |
| `music` (`MCMusic`) | every movable quality at two roots, chords of each instrument; charts of 4 lines; contents of up to 3 lines of 13 kinds, and some longer | `ResolveAgrees`: the chart plays the shape the box shows; `StepShowsNext`; `ShapesServe`; `ChartAsWritten`; `ConvertKeeps`; `FilesComeBack` |

Each module states its type invariant. The run of `Index` checks it, `PlayTypeOK`
is proved, and the other runs spend their time on what could be wrong.

### Bounds

- Two accounts are enough for every relation the index has: an author and a
  fan, a parent's author and a fork's, an account hidden beside one that is not.
  Two sheets that can fork each other, plus a subject that is never indexed,
  reach every case of `OldFork`; two ratings by one account and one by another
  reach every case of `DISTINCT ON`. Forks and votes share no counts. The
  theorems lift the bounds for `Index`.
- Two connections are enough for a lost count and a deadlock; alice's operations
  overlap each other's and bob's, and bob's share a connection: two of his would
  overlap as two of hers do, and the connections are alike.
  `CountsHeal` lifts this for `Heals`.
- `MaxLog` bounds the events of the network and `MaxStops` the stops of the
  reader. A replay that undoes something needs an event, a later event that
  overrides it and a stop; the runs allow at least one more of each.
  `FirehoseProofs` lifts both.
- `MaxPending` bounds the handlers between the PDS and the index; one backfill
  of a repo runs at a time, and sign-ins fall outside `RunOnce`. A divergence
  needs one older write on its way and one newer event. The first start needs
  a record before `RunOnce`, a change while it lists, a stop and a replay.
  `IngestProofs` lifts these bounds.
- A stray rating takes two commits of another client, a request a third, and the
  stray's deletion a fourth: `MaxCommits` is 4. Three tabs would only repeat what
  the second and the other client can do. `HandlersProofs` lifts both bounds.
- Requests, orphans and browser sessions live 1, 2 and 3 ticks, in the order of
  the code's half hour, hour and 90 days; a callback and a cleanup may take one.
  A second sign-in is there to keep the tables from being empty; two requests of
  one session can cross. `HandlersProofs` lifts all of this.
- A pass of one account is enough to keep the other out, which is what
  `profileBatch` could do; three changes are a rename, a sign-in and a row made
  or purged between a lookup and its save.
- `MaxRun` bounds starts and stops of play-along: 5 is start, stop, start, stop,
  start, with a message of the first under way at the last. `MaxQueue` bounds
  the audio, progress and positions that are on their way.
- Two tabs, two versions and three texts: a text each and one from elsewhere, a
  version before and after. A stale draft needs one version and one refetch.
  A tab has one write under way at a time: an editor that is left and opened again
  has buttons of its own, and could send a second. Two files reach each order of
  file, pick, discard and Undo; content and shapes, which limit neither tuning nor
  capo, change only in forms that no file was chosen for (`Bare`), a bound that
  `PagesProofs` lifts with the others.
- `MaxTurns` bounds what the reader presses to 3 on top of any initial setting
  of the knobs that a sheet may open with: a mode, another that takes over, and
  a knob between. `Ahead` bounds the queued chords to 2, so two timers can be
  late. `ReaderProofs` lifts all of it.
- The way down the page is 4 steps, so that a start, a stop and a second start
  fall in its middle; the nudge of a hand is one step. Two fingers are enough for
  one to lift while the other holds the page, and two animations at once
  (`MaxAnims`) for one to be left behind.
  `ReaderProofs` lifts these, and the numbers of the next two.
- The chart has 5 runs of chords, of which the farthest is 4 away with `NEAR` 2;
  `JUMP_FRAMES` is 4, so that a run can lead for too short a time and come back.
- The buffer keeps 4 hops, a window is 4 frames and a run is due every 2: a run
  may take longer than the window, and 12 frames are three windows.
- Charts of four lines reach each order of a pattern that lasts, one for a bar,
  a section and a line of two chords; `ChartProofs` lifts all of this. A file's
  second trip is the last, since it changes nothing.
- Runs say `CHECK_DEADLOCK FALSE` where the system waits for its environment and
  a bound ends the environment's moves.

### Fairness

- `OrphanCardsGo` assumes weak fairness of the hourly cleanup, which
  `cleanupLoop` (`main.go`) runs for as long as the server is up.
- `Converges` assumes weak fairness of connecting and of handling the next
  event: `Firehose.Run` loops until the server stops, and the server is started
  again. Nothing is assumed of the network or of stops, which are only bounded.
- `NothingLingers` assumes that time goes on, that a callback ends, well or not,
  and that one cleanup after another gets through: `cleanupLoop` tries every hour.
  Nobody has to sign in, write or sign out, and the server may stop at any time.
- `NamesSettle` assumes that the resolver ticks and days pass, and that of the
  lookups and saves of an account not all fail. An account that can't be looked
  up only has to be saved now and then. A sign-in's pass may stop half way.
- `HearingEnds` assumes weak fairness of the player's interval and timers,
  which `setInterval` and `setTimeout` promise while the page is there.
- `ScrollingEnds` assumes it of animation frames, animations and the timeout
  after a touch. A finger that stays down is not assumed to lift.
- `GetsThere` assumes that frames come, with sound or without, and `CatchesUp`
  that the microphone goes on and that a run ends, well or not.
- `Editor`, `SheetForm` and `PlayAlong` assume none: their properties are safety.
  A download without a timeout, a prompt the reader never answers and a request
  without one justify no fairness.

## What is proved

`IndexProofs` proves, for any accounts, URIs, star values and times that satisfy
the named assumptions of `Tally` (finite sets of accounts and URIs; a URI is a pair of
an account and an rkey; stars within 1..5; `NoFork` is no URI):

- `TypeCorrect`, `StatsAreFresh`, `AuthorsAreKnown`: the invariants of the runs;
- `HidingTakesEffect`, `ReplaysAreNoOps`: the action properties;
- `IndexRefinesLibrary`: `Index` implements `Library`.

`TypeOK` is inductive by itself. `StatsFresh` is inductive relative to it: a
transaction recounts a set of URIs over the primed tables (`RecomputeFresh`), so
what is left is that every URI *outside* the set tallies as before. That is the
heart of the proof: a tally depends only on the rows that point at the URI
(`RatingsLocal`, `ForksLocal`, `TallyLocal`), a write changes only rows that
pointed or now point at the recounted URIs (`PutElsewhere`, `PutSheetLocal`), and
`AccountSubjects` covers everything an account's rows feed into
(`AccountSubjectsCover`). Two steps need more: `UpsertSheet` may add a profile
row, which is not hidden and so changes nobody's standing; and
`CleanSheetStats` drops a row only if all three counts are 0, where
`NoRatingsNoTotal` is needed since the row's total is not looked at.
`AuthorsKnown` is inductive with `TypeOK`. Replays follow from the two: a row
put over itself leaves the tables as they were, the author's profile is there
already, and fresh counts of equal tables are equal. The refinement maps record
operations to `ChangeSheet` and its kin, `SetHidden` and `PurgeAccount` to
`HideOrShow` and `Forget`, and previews, `UpsertProfile` and cleanup to stutters,
using that the counts are fresh before and after. `CountsAreAsSeen` (`CountsAsSeen`)
compares `StatsFresh`, which counts records the way `DISTINCT ON` picks them,
with what each account is shown: an account with ratings of a sheet has exactly
one newest (`WFMin` finds it), so records that count and accounts that are
counted are in bijection, per star and in all.

`HandlersProofs` proves `Heals` of `StoreTx` (`CountsHeal`) for any number of
connections and any operations, though the counts themselves can be lost
(`tx_lost`). `TxInv` says that a transaction that has met no other is the only
one open, that those at rest have written nothing, and (`CountsLast`) that each
count it has stored is one it would count again: every operation writes its rows
before its first recount.

It also proves `OnlyRecountsDeadlock` (`DeadlocksAreRecounts`). Rows of sheets and
profiles are taken in one order by every operation, so whoever stands in a
circle waits for the counts of a sheet, and holds what another waits for: that
can only be a count it has stored already.

`FirehoseProofs`, for any network the assumptions allow and any number of stops:

- `FirehoseImplementsIndex`: what the reader does to the index are operations
  of `Index`. Every theorem above therefore holds of the index it keeps.
- `NothingIsSkipped` (`NoneSkipped`): with an API key, `ReaderInv` says that
  what is handled is a beginning of the log that goes at least to the saved
  cursor, and that nothing in it has only failed.
- `ReplaysAreHarmless` (`ReplayIsHarmless`), with an API key. In the middle of a
  replay the index is of no one moment: some rows are as far as the reader ever
  came, others have been taken back. `FollowInv` says it row by row: each is
  what it was after *some* event that is neither behind the reader nor beyond
  what it has handled (`Ahead`). Where the reader has caught up only one such
  event is left.

`IngestProofs`, for any network, handlers, backfills, failures and replays:

- `IngestImplementsIndex`: handlers, backfills and reader together do to the
  index only what `Index` allows.
- `OnlyRaces` (`OnlyRacesDiverge`), with an API key. A row nobody raced for may be
  older or newer than what the reader has handled. `SettleInv` says that it is of
  some moment not behind the reader, or that the reader has yet to come to an
  event that sets it right (`RowSettles`); `OnWayOK` says that what is on its way
  is what the repo holds, unless it is in `raced`; `GoneStays` and `HandledKnown`
  keep the rows of deleted accounts and the profiles of authors in step.
- `FirstStartCovers` (`BackfillCovers`), which speaks of a server without a key.
  While `RunOnce` runs, each record that a repo has held since it was listed is
  still to be listed or put, is indexed as it is, or has its last word ahead of
  a reader that went back (`RunInv`, `Overdue`); and an account hidden although
  it is active again is about to be shown (`HiddenInv`).

`HandlersProofs` proves `OneOpinion` of `Opinions` (`OneOpinionIsLeft`) for any tabs,
values and number of commits. `OpinionsInv` says of a request that nothing has
disturbed that it is the only one and is `Going`: rows and repo differ at most
in the record it has just written (`Touched`), late commits say what the repo
says already (`AllFit`), and what the repo will hold without the strays that are
left to delete is what was asked for (`Keeps`). That `deleteAll` meets each key once
rests on the list of a viewer's records naming none twice (`Distinct`).

It also proves `SignInsHold` of `Sessions` (`SignInsAlwaysHold`) for any
number of sign-ins and requests and any lives of rows, if a callback's two saves
lie no further apart than the grace (`TimesAssumption`): an hour against one
request. The strengthening is `YoungEnough`: an OAuth session is no older than
the callback that saved it, so a cleanup's threshold does not reach it.

`PagesProofs` is about the pages that hold work or a device:

- `LeavingKeepsWork` and `WorkComesBack` of `Editor` (`WorkIsKept`, `WorkReturns`)
  for any tabs, tags, texts and versions. `EditorInv` adds to the types `WorkSaved`:
  the draft of a mode is the form of the tab that wrote it last, if that tab's
  editor is still open, and what the last editor of a mode left is its draft
  still, until another editor of the mode opens or a write takes it.
- `FormFits` of `SheetForm` (`FormAlwaysFits`) for any chords, capos, tunings and
  number of files, and any sheet opened. It is not inductive: Undo brings back the
  form as it was when a file was chosen, and discarding the one that was opened,
  so `FormInv` says the same of all of these.
- `PlayTypeOK`, `MicAsShown` (that is, `MicIsCurrent` and `OffIsClosed`) and
  `StaysOff` of `PlayAlong` for every bound on starts and queues and every set of
  faults. `PlayTypeOK` and `MicIsCurrent` are inductive. `OffIsClosed` is not: a
  microphone that opens late must find its page loading, and a message must not
  reach a run that still waits. `PlayInv` adds that: runs to come have not begun
  (`NotYet`), a start that waits shows loading (`StillLoading`) and holds no
  microphone before its prompt is answered (`NothingYet`), and the worker's
  messages go to the current run only after it gave the worker its sheet
  (`HandlerBegun`, `HasHandler`). `StaysOff` then needs `OnOnceStarted`: whatever
  can change the page for the current run finds it no longer off.

`ReaderProofs` is about reading and playing a sheet:

- `OneAtATime`, `HeardAsShown` and `SoundsTheSame` of `Screen` (`OneStaysAtATime`,
  `HeardStaysAsShown`, `SoundStaysTheSame`) for any sheets and any number of
  turns. `ScreenInv` adds that an instrument without strings has the capo of a
  piano's sheet, or none (`KnobsOK`), that a chord is marked without a player only
  if the mark is `stray` (`PlayerOK`), and that a player holds what the knobs came to when it last
  started, with its queue in order (`PlayerOK`). The heart is `HeardIsAllUsed`: two
  settings of the knobs that agree on the dependencies of the effect (`heard`)
  make the same chords sound, though the effect names less than the player uses;
  it needs that an instrument's tunings are told apart by their strings
  (`TuningsDiffer`), of which the effect sees only those.
- `FramesInOrder` of `Live` (`FramesStayInOrder`) for any sizes of buffer, window,
  context and step with `REACH < KEEP` and `LAG + EVERY < TIMESTEP`, which the
  code's constants satisfy (`LiveAssumption`). `WindowInv` adds what a run under
  way is over, the newest frames of the moment it began, and that whatever was
  reported had its context; `OrderInv` that what was emitted lies behind
  `reported`. That the samples of the next frame are never dropped rests on
  `Drop` keeping `KEEP` hops, more than a frame reaches.
- `MovesAreEarned` of `Follow` (`MarkerEarnsItsMoves`) for any chart, paces and
  nearness and whatever the belief answers. `FollowInv` says that the marker's
  index is what its run, its frames and its pace come to, and that a pending run
  is the likeliest and has led at least as long as its frames were counted. That
  the marker only goes forward within a run rests on the monotony of integer
  division (`DivGrows`), which the solver does not know.
- `KeepsItsPlace` of `Glide` (`PageKeepsItsPlace`) for any length of page, any number
  of fingers and any speeds, whenever they are set. `GlideInv` says that there is one
  animation exactly when `anim` is it, started from the scroll position, unless the
  page is `disturbed`, and that only a phone that scrolls has one or waits to go on.
  What happens to a disturbed page is below, under `NeverJumps`.

`MusicProofs` is about the browser's music:

- `ResolveAgrees` and `StepShowsNext` of `Voicings` (`ResolvesAsShown`,
  `ArrowsShowNext`) for any chords, strings and typed shapes, if `Shapes` has at
  least one shape for each chord (`ShapesKnown`): that it has is what a search
  computes, and the run checks it for its boxes (`index` is in the domain of
  `shapesList` in `BoxTypeOK`). The proof needs little of the state: whatever is
  stored, what a box shows is the pick where that is the frets of one of its
  shapes, and the default otherwise (`ShownIsPicked`), and an arrow's shape is
  always among those (`NextIsShape`), in the editor too, where storing a shape
  changes the list that is stepped through.
- `ConvertKeeps` and `FilesComeBack` of `Files` (`ConvertedKept`, `ComesBack`) for
  any sheets whose content has any number of lines of the kinds a content can
  have (`FilesAssumption`): songs, chords in tags and fields of the header among
  them. `FileInv` says what a record can be: the original, the
  original converted, or what a file says of either (`Back`). The rest is about
  the text itself. `FromTo` works out `fromChordProFile(toChordProFile(s))` field
  by field: the header says each field once (`HeaderSays`), and the lines that are
  no header are the body (`RemainingIs`). A text that is flattened from the
  pieces its lines become is laid out piece after piece (`LaysOut`), so that where
  each converted line lands is known (`ConvertLays`), what is in a tab follows
  from line to line (`ConvertTabs`), and so does the count of chords
  (`ConvertCount`). A second trip changes nothing because `Back` of `Back` is
  `Back`. Induction on the lines is `StepByStep`: if a set of numbers lacks one,
  it lacks a least one (`LeastOf`), since the library's induction over an operator
  cannot be instantiated here.

`ChartProofs` is about the charts, and takes its lemmas on sequences and least
numbers from `MusicProofs`:

- `ChartAsWritten` of `Charts` (`ChartsAsWritten`) for any text of any length, any
  sections, names and patterns. It states its four parts of the chart as far as
  it is read, so they are about what would be shown if the text ended here: the
  blocks that are done, and the one being read without the blank lines at its
  edges (`ChartText`). `ChartInv` (`ChartReads`) relates that to the text. What is
  shown is in the text's order, and whatever waits comes after it (`ChartOrder`);
  every line with something to show is there (`ChartRead`), and a blank one will
  be once lyrics follow (`BlanksKept`); `named`, `started` and `strum` are what the
  text says so far; each change shown or waiting is the one that its directive
  asks for (`ChartStands`). A change can wait in two places, in `pending` or with
  a section that shows nothing yet (`Held`), where the next section would lose
  it. `ChartWaits` says when it is not lost: while neither another directive nor
  a second section comes between, a directive waits in one of the two, and it is
  shown before the line it is for. The proof does not go through the ten
  kinds of lines for each part. `LineMoves` sums up what any line can do to the
  text shown and the changes that wait: wait, open a section, or add an item
  (`Moves`). `OrderMoves`, `ReadMoves`, `StandMoves` and `WaitMoves` then need only
  those. Which change is in use at a chord is a walk over what is shown (`Walks`,
  `WalkLasts`), one for each of its chords (`LaidAlike`); as what is shown is in
  order, the last before a chord is the last in the text (`LastingDirects`,
  `OnceDirects`). The bars take turns by a fact on remainders (`NextTurn`), and
  strokes of two bars differ since each bar begins where the one before ends
  (`LaterBegin`). A recursive function is known to exist by building it up
  (`Recursion`).

Only model-checked:

- liveness, which is out of the prover's reach: `OrphanCardsGo`,
  `Converges`, `NothingLingers`, `NamesSettle`, `HearingEnds`, `ScrollingEnds`,
  `GetsThere`, `CatchesUp`;
- what a search over frets and notes computes (`ShapesServe`): it is recursive,
  and a fact about the tables of shapes.

## Findings

Four runs end in a counterexample, each against a line the repository states:
counts lost between overlapping transactions (`social.go:26`), a deleted record
put back by a backfill (`backfill.go:174`), a page that keeps the microphone after
it is left (`usePlayAlong.ts:141`), and a draft that is stored with a version its
writer never saw (`EditorPage.tsx:119`). `Heals` and `OnlyRacesDiverge` say how far
the first two can go, and are proved: the next change of the same sheet or
record sets things right.

Other statements are written down in the modules beside the properties and do
not hold; they have no run. Each is violated when it takes the place of a run's
properties in the cfg named:

| Statement | In | Cfg | What happens |
|---|---|---|---|
| `Rebuildable` (`Firehose`) | `MCFirehose` | `MCFirehoseReplay` | an edit that does not validate is skipped, so the row shows a version the repo no longer holds (`indexer.go:40`) |
| `NoneSkipped` (`Firehose`) | `MCFirehose` | `MCFirehoseReplay`, `CanReplay = FALSE` | without an API key and a saved cursor the reader starts at the live tail, after a store error too (`jetstream.go:82`) |
| `QuietInStep` (`Ingest`) | `MCIngest` | `MCIngestStale`, `MaxPending = 1`, `Backfills = {}` | a handler indexes its write after the firehose has handled a later one (`write.go:186`); `OnlyRacesDiverge` excuses it |
| `MarkedStayQueued` (`Profiles`) | `MCServer` | `MCServer` | an identity event between a lookup and its save is forgotten: the save marks the row fresh with the old handle, for a day (`profiles.go:92`); `NamesSettle` says that it comes right then |
| `ListeningHears` (`PlayAlong`) | `PlayAlong` | `MCPlayLeft`, `Faults = {"audio"}` | setting up fails, the model's arrival turns the error into listening, without a microphone (`usePlayAlong.ts:131`) |
| `DraftHoldsTags` (`Editor`) | `Editor` | `EditorRebased` | the tags box fills the form only when it is left (`EditorPage.tsx:547`) |
| `SentShapesFit` (`SheetForm`) | `MCPages` | `MCPages` | shapes made for one tuning are sent with another (`EditorPage.tsx:637`) |
| `NeverJumps` (`Glide`) | `MCReader` | `MCReader` | `start` overwrites an animation that was not ended: it slides on with scrolling off; and a page scrolled under an animation jumps back when it is settled (`SheetPage.tsx:1381`) |
| `NoChordAfterTheEnd` (`Screen`) | `MCReader` | `MCReader` | where the page is held up past the end of a chart, the timer of a chord comes after `onEnd` and marks it with nothing to unmark it (`pluck.ts:311`) |
| `SoundsTheSame` (`Screen`) | `MCReader` | `MCReader`, without its second disjunct | a piano sheet that other clients gave a capo sounds without the capo that its key is shown with (`SheetPage.tsx:87`) |
| `ClockStops` (`Follow`) | `MCReader` | `MCReader` | a silent frame can move the marker: a run that led before goes on leading (`follow.ts:65`) |
| `AtMostEight` (`Voicings`) | `MCMusic` | `MCMusic` with `dom9` among the qualities of `MCBoxes` | a standard guitar's search is not cut at eight (`guitar.ts:192`) |
| `BarresHold` (`Voicings`) | `MCMusic` | `MCMusic` | a dim7 barre covers a string fretted lower (`guitar.ts:92`) |
| `AsDirected` (`Charts`) | `MCMusic` | `MCMusic` | a pattern set in the bar of a "once" is lost with it; `DirectedApart` says when it is not (`strum.ts:7`) |
| `ParensKept` (`Files`) | `MCMusic` | `MCMusic` | a chord in parentheses is converted with them on and is no chord of the chart (`convert.ts:19`) |
| `NothingLost` (`Files`) | `MCMusic` | `MCMusic` | "the content as it is" (`chordproFile.ts:2`): what stands after a `{new_song}` does not come back (`chordproFile.ts:72`); the editor says that only the first song came in |

And a position of a stopped run can be shown in the next one, since messages
from the worker do not name their run (`usePlayAlong.ts:94` compares the handler's
run with the current one).

## What is not modelled

- Outbound retries (`robusthttp`) and the about badge, see the plan. Edits of one
  sheet from two clients, of which the later keeps `createdAt` and `forkOf` of the
  version it read. What OAuth does between the library and the PDS.
- The `--backfill` flag, several pages per collection, two
  backfills of one repo at once and a sign-in during `RunOnce`. The delays of
  reconnects and retries are abstracted to any order.
- Signal processing: the resampler, the leveler, the transform (`cqt.ts`), the
  network (`btc.ts`) and the follower's belief are real-valued; `Follow` leaves the
  belief's answer open.
- Text character by character: directives, chord names, frets and tabs are
  parsed in unit tests; `Charts` and `Files` start from lines of known kinds. Slugs
  and page tags are formatting.
- A sheet's own shape for other strings than the box's: `Voicings` starts from
  one that fits (`BoxInit`). Scores of shapes are whole numbers in `Shapes`, so where
  the code's floating-point sums differ in their last bit, shapes that tie here may
  come in another order there; no property tells the two orders apart.
- `Follower.reset` but for the constructor: nothing else calls it.
- The synthesis of plucked strings, the strokes within a chord, the wake lock,
  the suggested capo, the drawing of boxes, layout, search fields.
- SQL ranking and search, browsing, file serving, metrics and tracing: reads, or
  state that the program does not read back; `dbq` is generated from
  `queries.sql`, which is what the modules model.

## Plan

1. *Done:* `Tally`, `Library`, `Index`; `StoreTx`; `Firehose`; `Ingest`;
   `PlayAlong`; `Editor`, `SheetForm`; `Screen`, `Glide`, `Live`, `Follow`;
   `Instruments`, `Shapes`, `Voicings`; `Charts`, `Files`; `Opinions`, `Sessions`,
   `Profiles`; the eight proof modules.
2. `Retrier`: attempts, waits and cancellation, with the overflow of a wait the
   server asks for; `Stars`: one cached value behind a mutex.
3. Versions of a sheet in `Ingest`: edits from two clients that overwrite each
   other.
4. Proofs: every safety property that the runs check is proved but for
   `ShapesServe`. Next would be `StoreTx` with transactions that do not overlap as
   an implementation of the sheet operations of `Index`.
