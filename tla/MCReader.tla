------------------------------ MODULE MCReader ------------------------------
(***************************************************************************)
(* The ways of going through a sheet, one part at a time: the page's       *)
(* controls and the chart heard ("controls"), autoscroll ("scroll"), the   *)
(* marker that follows a player ("marker") and the frames that move it     *)
(* ("frames").                                                             *)
(***************************************************************************)
EXTENDS Screen, Glide, Follow, Live

VARIABLE part

reader == <<part, screenVars, glideVars, followVars, liveVars>>

Read(kind, id, capo, tempo, chords) ==
    [kind |-> kind, tuning |-> id, capo |-> capo, tempo |-> tempo, chords |-> chords]
MCSheets ==
    {Read("chords", "eb-standard", 12, 200, 3), Read("bass", "d-standard", 0, None, 0),
     Read("ukulele", "baritone", 2, None, 1), Read("piano", "drop-d", 3, 42, 2)}
MCChart == <<1, 1, 2, 1, 3, 3, 1>>

\* A part that is left out starts in one way only.
ReaderInit ==
    /\ part \in {"controls", "scroll", "marker", "frames"}
    /\ ScreenInit /\ GlideInit /\ FollowInit /\ LiveInit
    /\ part = "controls" \/ (sheet.kind = "bass" /\ knobs.readAs = None /\ ~wide)
    /\ part = "scroll" \/ (scroll = 0 /\ fingers = 0 /\ ~phone)

Controls(A) == part = "controls" /\ A /\ UNCHANGED <<part, glideVars, followVars, liveVars>>
Scroll(A) == part = "scroll" /\ A /\ UNCHANGED <<part, screenVars, followVars, liveVars>>
Marker(A) == part = "marker" /\ A /\ UNCHANGED <<part, screenVars, glideVars, liveVars>>
Frames(A) == part = "frames" /\ A /\ UNCHANGED <<part, screenVars, glideVars, followVars>>

ReaderNext ==
    Controls(ScreenNext) \/ Scroll(GlideNext) \/ Marker(FollowNext) \/ Frames(LiveNext)

\* ScreenFairness, GlideFairness, FollowFairness and LiveFairness.
ReaderFairness ==
    /\ WF_reader(Controls(Tick)) /\ WF_reader(Controls(ChordStarts))
    /\ WF_reader(Controls(ChartEnds)) /\ WF_reader(Controls(LateStarts))
    /\ WF_reader(Scroll(Resumes)) /\ WF_reader(Scroll(Glides))
    /\ WF_reader(Scroll(Finishes)) /\ WF_reader(Scroll(Frame))
    /\ WF_reader(Marker(FollowNext))
    /\ WF_reader(Frames(\E chunk \in 1..2 : push(chunk))) /\ WF_reader(Frames(push(0)))
    /\ WF_reader(Frames(RunEnds \/ RunFails))

ReaderSpec == ReaderInit /\ [][ReaderNext]_reader /\ ReaderFairness
=============================================================================
