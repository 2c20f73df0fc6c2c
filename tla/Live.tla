-------------------------------- MODULE Live --------------------------------
(***************************************************************************)
(* From the microphone's samples to chord frames (ui/src/listen/live.ts):  *)
(* features are computed as soon as there is audio for them, a run over    *)
(* the newest of them takes its time while more arrive, and reports each   *)
(* frame once that has context on its right.  Time is in hops, as many     *)
(* samples as lie between two frames.                                      *)
(***************************************************************************)
EXTENDS Integers, Sequences, FiniteSets, FiniteSetsExt, SequencesExt

CONSTANTS
    KEEP,           \* history kept
    REACH,          \* audio that a frame's filters need after its start
    TIMESTEP,       \* frames in a run
    LAG,            \* frames of right context
    EVERY,          \* a run every so many new frames
    MaxFrames       \* bound on the frames of a recording

ASSUME LiveAssumption ==
    /\ {KEEP, REACH, TIMESTEP, LAG, EVERY} \subseteq Nat \ {0} /\ MaxFrames \in Nat
    /\ REACH < KEEP /\ LAG + EVERY < TIMESTEP

VARIABLES
    offset, length, \* where the buffered samples start, and how many there are
    feats,          \* frames whose features are computed
    sinceRun,
    window,        \* the frames <<start, end>> of the run under way, or <<>>
    reported,       \* frames up to here have been reported
    emitted         \* history: the frames that were

liveVars == <<offset, length, feats, sinceRun, window, reported, emitted>>
busy == window # <<>>

LiveInit ==
    /\ offset = 0 /\ length = 0 /\ feats = 0 /\ sinceRun = 0
    /\ window = <<>> /\ reported = 0 /\ emitted = <<>>

\* Old audio to drop before a chunk goes in.
Drop(chunk) == IF length + chunk > 2 * KEEP THEN length - KEEP ELSE 0

\* (Slip: a run that is due while there is another is forgotten.)
RunsNowOnce(since) == since = EVERY /\ ~busy

RunsNow(since) == since >= EVERY /\ ~busy

\* A chunk arrives, part of a hop or as long as one or more.
push(chunk) ==
    LET total == offset + length + chunk
        computed == Max({feats, total - REACH + 1})
        since == sinceRun + computed - feats
    IN /\ computed <= MaxFrames
       /\ offset' = offset + Drop(chunk)
       /\ length' = length - Drop(chunk) + chunk
       /\ feats' = computed
       /\ IF RunsNow(since)
          THEN /\ window' = <<Max({0, computed - TIMESTEP}), computed>>
               /\ sinceRun' = 0
          ELSE /\ sinceRun' = since
               /\ UNCHANGED window
       /\ UNCHANGED <<reported, emitted>>

\* (Slip: the newest frames are reported without their context.)
endsAtOnce ==
    /\ busy
    /\ reported' = window[2]
    /\ emitted' = emitted \o [i \in 1..(reported' - reported) |-> reported + i - 1]
    /\ window' = <<>>
    /\ UNCHANGED <<offset, length, feats, sinceRun>>

\* The probabilities are there.  Frames that are older than the run are
\* passed over.
RunEnds ==
    LET to == Max({reported, window[2] - LAG})
        from == Min({to, Max({reported, window[1]})})
    IN /\ busy
       /\ reported' = to
       /\ emitted' = emitted \o [i \in 1..(to - from) |-> from + i - 1]
       /\ window' = <<>>
       /\ UNCHANGED <<offset, length, feats, sinceRun>>

\* btcProbs throws: what it was to report is left to the next run.  (Bound:
\* not when the recording has too few frames left for one.)
RunFails ==
    /\ busy /\ feats < MaxFrames - EVERY
    /\ window' = <<>>
    /\ UNCHANGED <<offset, length, feats, sinceRun, reported, emitted>>

LiveNext == (\E chunk \in 0..2 : push(chunk)) \/ RunEnds \/ RunFails

\* The microphone goes on, and a run ends, well or not.
LiveFairness ==
    /\ WF_liveVars(\E chunk \in 1..2 : push(chunk)) /\ WF_liveVars(push(0))
    /\ WF_liveVars(RunEnds \/ RunFails)
LiveSpec == LiveInit /\ [][LiveNext]_liveVars /\ LiveFairness

-----------------------------------------------------------------------------

\* The samples of the next frame have not been dropped, nor is there more
\* audio than the buffer has room for.
SamplesThere == offset <= feats /\ length <= 2 * KEEP

\* Each frame is reported at most once, in order, and with the frames after it
\* that it needs.
ReportedOnce ==
    /\ \A i \in 1..(Len(emitted) - 1) : emitted[i] < emitted[i + 1]
    /\ \A i \in DOMAIN emitted : emitted[i] + LAG < feats /\ emitted[i] < reported
    /\ reported <= feats

\* No frame is passed over as long as runs keep up with the microphone: the
\* one that passes it over began a whole window after it was due.
OnlyLateAreLost ==
    [][reported' > reported /\ Len(emitted') - Len(emitted) < reported' - reported
        => feats - reported > TIMESTEP]_liveVars

\* Frames come out as the microphone put them in: computed from samples that
\* are still there, reported once and in order, and lost only to a run that
\* took too long (LiveChords.push and run).
FramesInOrder == [](SamplesThere /\ ReportedOnce) /\ OnlyLateAreLost

\* Every frame is reported, or lost, in the end: also when runs fail.
CatchesUp ==
    \A f \in 0..(MaxFrames - LAG - EVERY) : feats > f + LAG + EVERY ~> reported > f
=============================================================================
