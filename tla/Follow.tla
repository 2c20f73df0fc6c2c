------------------------------- MODULE Follow -------------------------------
(***************************************************************************)
(* The marker that follows a player through the sheet's chords             *)
(* (ui/src/listen/follow.ts).  The belief over runs of equal chords, a     *)
(* hidden Markov model in floating point, is abstracted to its answer: the *)
(* likeliest run, any run, after each frame with sound (every run can be   *)
(* entered from anywhere), and unchanged by a silent one.  Paces are in    *)
(* frames, rounded down.                                                   *)
(***************************************************************************)
EXTENDS Integers, Sequences, FiniteSets, FiniteSetsExt

CONSTANTS
    Chart,          \* the sheet's chords in order
    NEAR,           \* a move of more runs than this is a jump
    JUMP_FRAMES,    \* how long a far run must lead
    FirstPace, MinPace, MaxPace,
    MaxInRun        \* bound: the frames since a move are counted up to here

ASSUME FollowAssumption ==
    /\ Chart \in Seq(Nat) /\ Chart # <<>>
    /\ JUMP_FRAMES \in Nat \ {0, 1}
    /\ {NEAR, FirstPace, MinPace, MaxPace, MaxInRun} \subseteq Nat
    /\ 0 < MinPace /\ MinPace <= FirstPace /\ FirstPace <= MaxPace
    /\ MaxInRun > MaxPace * Len(Chart)

VARIABLES
    best, sure,     \* the likeliest run, and whether it has most of the belief
    shown,          \* the run the marker is in
    pending, pendingFrames,     \* the run that leads instead, and for how long
    inRun,          \* frames with sound since the marker entered its run
    pace,           \* frames per written chord
    index,          \* the chord the page marks
    silent,
    led             \* history: for how many frames the likeliest has been that

followVars == <<best, sure, shown, pending, pendingFrames, inRun, pace, index, silent, led>>

Starts == {i \in DOMAIN Chart : i = 1 \/ Chart[i] # Chart[i - 1]}
Runs == 1..Cardinality(Starts)
NoLead == 0

\* The constructor's runs: the first chord of each and how many it has.
startOf(r) == CHOOSE i \in Starts : Cardinality({j \in Starts : j <= i}) = r
lengthOf(r) == (IF r + 1 \in Runs THEN startOf(r + 1) ELSE Len(Chart) + 1) - startOf(r)

\* More than 0.6 of the belief, more than 0.5, or less.
Sureness == {"most", "half", "less"}

Distance(r, s) == Max({r - s, s - r})
far(r, s) == Distance(r, s) > NEAR

\* (Slip: a far move is made like a near one.)
movesNear(b, s, frames) == frames >= 2 \/ s = "most"

\* Hysteresis: whether a run that has led so long takes the marker.
moves(b, s, frames) ==
    IF far(b, shown) THEN frames >= JUMP_FRAMES /\ s # "less"
                     ELSE frames >= 2 \/ s = "most"

\* The pace, learned from a run that was played through in order.
learned(b, frames) ==
    IF b = shown + 1 /\ frames > 3
    THEN LET mixed == (7 * pace + 3 * (frames \div lengthOf(shown))) \div 10
         IN Max({MinPace, Min({MaxPace, mixed})})
    ELSE pace

\* The chord of a run that its frames have come to.
indexOf(r, frames, p) == startOf(r) - 1 + Min({lengthOf(r) - 1, frames \div p})

FollowInit ==
    /\ best = 1 /\ sure = "most" /\ led = 0
    /\ shown = 1 /\ pending = NoLead /\ pendingFrames = 0
    /\ inRun = 0 /\ pace = FirstPace /\ index = 0 /\ silent = TRUE

\* The frames that run b has led in a row, this one included.
leading(b) ==
    IF b = pending THEN Min({JUMP_FRAMES, pendingFrames + 1}) ELSE 1

\* step, once the belief is what it is.
Follows(b, s, frames) ==
    LET moved == b # shown /\ moves(b, s, leading(b))
    IN /\ best' = b /\ sure' = s
       /\ led' = IF b = best THEN Min({JUMP_FRAMES, led + 1}) ELSE 1
       /\ shown' = IF moved THEN b ELSE shown
       /\ pending' = IF b = shown \/ moved THEN NoLead ELSE b
       /\ pendingFrames' = IF b = shown THEN pendingFrames ELSE leading(b)
       /\ inRun' = IF moved THEN 0 ELSE frames
       /\ pace' = IF moved THEN learned(b, frames) ELSE pace
       /\ index' = indexOf(shown', inRun', pace')

\* A frame in which something is heard.
Sounds ==
    \E b \in Runs, s \in Sureness :
        Follows(b, s, Min({MaxInRun, inRun + 1})) /\ silent' = FALSE

\* (Slip: a silent frame clears what was pending.)
SilenceClears ==
    /\ silent' = TRUE /\ pending' = NoLead
    /\ UNCHANGED <<best, sure, shown, pendingFrames, inRun, pace, index, led>>

\* A silent frame: the belief stays, and so do the frames in the run.
Silence == Follows(best, sure, inRun) /\ silent' = TRUE

FollowNext == Sounds \/ Silence

\* Frames come as long as the player listens.
FollowFairness == WF_followVars(FollowNext)
FollowSpec == FollowInit /\ [][FollowNext]_followVars /\ FollowFairness

-----------------------------------------------------------------------------

\* The marker's state is in range; what is pending is another run than the one
\* shown, and the chord marked one of the run shown, however long the player
\* lingers there.
FollowTypeOK ==
    /\ {best, shown} \subseteq Runs /\ pending \in Runs \cup {NoLead} /\ pending # shown
    /\ sure \in Sureness /\ silent \in BOOLEAN
    /\ pendingFrames \in 0..JUMP_FRAMES /\ led \in 0..JUMP_FRAMES
    /\ inRun \in 0..MaxInRun /\ pace \in MinPace..MaxPace
    /\ index + 1 \in startOf(shown)..(startOf(shown) + lengthOf(shown) - 1)

\* "A stretch of ambiguous strumming can't throw it far down the page"
\* (follow.ts:6-9): the marker moves only to a run that has led for two
\* frames or is clearly the one, and far only to one that has led for
\* JUMP_FRAMES frames in a row and has half of the belief.  Within a run it
\* only goes forward, and not past its end however long the player lingers.
MovesAreEarned ==
    [][/\ index' + 1 \in startOf(shown')..(startOf(shown') + lengthOf(shown') - 1)
       /\ IF shown' = shown THEN index' >= index
          ELSE /\ shown' = best'
               /\ IF far(shown', shown) THEN led' >= JUMP_FRAMES /\ sure' # "less"
                  ELSE led' >= 2 \/ sure' = "most"]_followVars

\* A player whom the belief has found is followed: the marker gets there.
GetsThere ==
    \A r \in Runs : <>[](best = r /\ sure # "less") => <>[](shown = r)

\* follow.ts:65: "P(no chord) above which the clock stops".
ClockStops == [][silent' => index' = index]_followVars
=============================================================================
