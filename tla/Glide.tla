------------------------------- MODULE Glide -------------------------------
(***************************************************************************)
(* Autoscroll (ui/src/pages/SheetPage.tsx, useAutoScroll and glide).  On a *)
(* phone a transform animation slides the page from its scroll position to *)
(* the bottom; a touch settles it as a scroll position, and 600 ms after   *)
(* the finger lifts it glides on.  Elsewhere every frame sets the scroll   *)
(* position.  A position is a step of the way down the page.               *)
(***************************************************************************)
EXTENDS Naturals, Sequences, SequencesExt

CONSTANTS
    End,            \* the scroll position of the bottom
    Nudge,          \* how far off a frame takes the page for scrolled by hand
    Fingers,        \* how many fingers may be on the screen at once
    MaxAnims        \* bound on the animations a page has at once

ASSUME GlideAssumption ==
    /\ End \in Nat \ {0} /\ Nudge \in Nat
    /\ Fingers \in Nat \ {0} /\ MaxAnims \in Nat \ {0}

VARIABLES
    phone,          \* the page glides
    running,        \* useAutoScroll runs
    scroll,         \* the scroll position
    anims,          \* the animations the page has, the newest last
    anim,           \* whether `anim` is the newest of them
    resume,         \* the timeout after a touch is set
    fingers,        \* the fingers on the screen
    disturbed,      \* history: an animation was started over another, or the page
                    \* scrolled under one, and not all are settled since
    pos, wrote      \* elsewhere: the exact position, and what was last set

glideVars == <<phone, running, scroll, anims, anim, resume, fingers, disturbed, pos, wrote>>

Positions == 0..End
\* from: where it started; gone: how far it has slid the page.
Anim == [from : Positions, gone : Positions]

\* Where the page is seen to be: an animation replaces the ones before it.
Seen == IF anims = <<>> THEN scroll ELSE scroll + Last(anims).gone

\* The scroll position and animations once `anim` is settled.
Settled ==
    IF anim THEN [scroll |-> Last(anims).from + Last(anims).gone, anims |-> Front(anims)]
            ELSE [scroll |-> scroll, anims |-> anims]

settle ==
    /\ scroll' = Settled.scroll /\ anims' = Settled.anims
    /\ anim' = FALSE /\ disturbed' = (disturbed /\ Settled.anims # <<>>)

\* start, from scroll position y with the animations as: it overwrites anim
\* whether or not there is one, and ends at once at the bottom.
start(y, as) ==
    /\ Len(as) < MaxAnims
    /\ resume' = FALSE /\ scroll' = y /\ disturbed' = (as # <<>>)
    /\ IF y < End
       THEN anims' = Append(as, [from |-> y, gone |-> 0]) /\ anim' = TRUE /\ running' = TRUE
       ELSE anims' = as /\ anim' = FALSE /\ running' = FALSE

GlideInit ==
    /\ phone \in BOOLEAN /\ running = FALSE /\ scroll \in Positions
    /\ anims = <<>> /\ anim = FALSE /\ resume = FALSE /\ disturbed = FALSE
    /\ fingers \in 0..(IF phone THEN Fingers ELSE 0)
    /\ pos = 0 /\ wrote = 0

\* The button is tapped (the finger on it has lifted) or another panel takes
\* scrolling up; other fingers may rest on the screen.
Run ==
    /\ ~running
    /\ IF phone THEN start(scroll, anims) /\ UNCHANGED <<pos, wrote>>
       ELSE /\ running' = TRUE /\ pos' = scroll /\ wrote' = scroll
            /\ UNCHANGED <<scroll, anims, anim, resume, disturbed>>
    /\ UNCHANGED <<phone, fingers>>

\* The effect's cleanup, when scrolling is turned off or the page goes.
Stop ==
    /\ running /\ running' = FALSE
    /\ settle /\ resume' = FALSE
    /\ UNCHANGED <<phone, fingers, pos, wrote>>

\* Another speed: the cleanup, and the effect again, while the finger is still
\* on the slider.
SetSpeed ==
    /\ running
    /\ IF phone THEN start(Settled.scroll, Settled.anims) /\ UNCHANGED <<pos, wrote>>
       ELSE /\ pos' = scroll /\ wrote' = scroll
            /\ UNCHANGED <<running, scroll, anims, anim, resume, disturbed>>
    /\ UNCHANGED <<phone, fingers>>

\* grab: a finger on the screen takes over.
Grab ==
    /\ phone /\ fingers < Fingers /\ fingers' = fingers + 1
    /\ IF running THEN settle /\ resume' = FALSE
       ELSE UNCHANGED <<scroll, anims, anim, resume, disturbed>>
    /\ UNCHANGED <<phone, running, pos, wrote>>

\* (Slip: nothing takes the page on.)
ReleaseForgets ==
    /\ fingers > 0 /\ fingers' = fingers - 1
    /\ UNCHANGED <<phone, running, scroll, anims, anim, resume, disturbed, pos, wrote>>

\* release: lifting it hands back, once a flick's momentum is over.
Release ==
    /\ fingers > 0 /\ fingers' = fingers - 1
    /\ resume' = running
    /\ UNCHANGED <<phone, running, scroll, anims, anim, disturbed, pos, wrote>>

Resumes ==
    /\ resume
    /\ start(scroll, anims)
    /\ UNCHANGED <<phone, fingers, pos, wrote>>

\* A finger, its momentum, or a wheel moves the page.
Scrolls(y) ==
    /\ y # scroll
    /\ phone /\ running => fingers > 0 \/ resume
    /\ scroll' = y /\ disturbed' = (anims # <<>>)
    /\ UNCHANGED <<phone, running, anims, anim, resume, fingers, pos, wrote>>

\* Time passes: what animations there are slide on.
Glides ==
    /\ \E i \in DOMAIN anims : anims[i].from + anims[i].gone < End
    /\ anims' = [i \in DOMAIN anims |->
                    IF anims[i].from + anims[i].gone < End
                    THEN [anims[i] EXCEPT !.gone = @ + 1] ELSE anims[i]]
    /\ UNCHANGED <<phone, running, scroll, anim, resume, fingers, disturbed, pos, wrote>>

\* onfinish of any of them settles `anim` and ends the scrolling.
Finishes ==
    /\ running
    /\ \E i \in DOMAIN anims : anims[i].from + anims[i].gone = End
    /\ settle
    /\ running' = FALSE /\ resume' = FALSE
    /\ UNCHANGED <<phone, fingers, pos, wrote>>

\* (Slip: the page is never taken for scrolled by hand.)
FrameBlind ==
    /\ running /\ ~phone
    /\ pos' = pos + 1
    /\ scroll' = IF pos' < End THEN pos' ELSE End
    /\ wrote' = pos'
    /\ running' = (scroll' < End)
    /\ UNCHANGED <<phone, anims, anim, resume, fingers, disturbed>>

\* tick: a page that was scrolled by hand goes on from where it was left.
Frame ==
    /\ running /\ ~phone
    /\ pos' = 1 + IF scroll > wrote + Nudge \/ wrote > scroll + Nudge THEN scroll ELSE pos
    /\ scroll' = IF pos' < End THEN pos' ELSE End
    /\ wrote' = pos'
    /\ running' = (scroll' < End)
    /\ UNCHANGED <<phone, anims, anim, resume, fingers, disturbed>>

GlideNext ==
    \/ Run \/ Stop \/ SetSpeed \/ Grab \/ Release \/ Resumes
    \/ Glides \/ Finishes \/ Frame
    \/ \E y \in Positions : Scrolls(y)

\* Frames, animations and timeouts come.
GlideFairness == WF_glideVars(Resumes) /\ WF_glideVars(Glides)
                 /\ WF_glideVars(Finishes) /\ WF_glideVars(Frame)

GlideSpec == GlideInit /\ [][GlideNext]_glideVars /\ GlideFairness

-----------------------------------------------------------------------------

\* No animation slides the page past its bottom, and `anim` is one it has.
GlideTypeOK ==
    /\ {phone, running, anim, resume, disturbed} \subseteq BOOLEAN
    /\ scroll \in Positions /\ anims \in Seq(Anim) /\ fingers \in 0..Fingers
    /\ pos \in 0..End + 1 /\ wrote \in 0..End + 1
    /\ anim => anims # <<>>
    /\ \A i \in DOMAIN anims : anims[i].from + anims[i].gone <= End

\* SheetPage.tsx:1358: "Touching the screen hands it back as a real scroll
\* position (same frame, no jump)": starting, touching, lifting, a new speed,
\* stopping and finishing leave the page where it is seen to be; only time
\* and a hand move it.  Not so once an animation was started over another (a
\* finger lifts, or the speed slider is let go of, with one under way) or a
\* finger scrolled the page under one, until all of them are settled.
NoJump ==
    [][Seen' # Seen =>
         \/ \E i \in DOMAIN anims : i \in DOMAIN anims' /\ anims'[i].gone > anims[i].gone
         \/ anims = <<>> /\ anims' = <<>> /\ UNCHANGED <<running, fingers, resume>>
         \/ disturbed \/ disturbed' \/ ~phone
      ]_glideVars

\* Once scrolling is off, the page lies where its scroll position says, and
\* nothing is left to slide it, with the same exception.
SettledWhenOff == [](~running => ~resume /\ (anims = <<>> \/ disturbed))

\* Off a phone, a frame takes the page on from where a hand has left it: it
\* does not go back, nor more than a step and the nudge ahead.
CarriesOn ==
    [][~phone /\ running /\ wrote' # wrote =>
         scroll' <= scroll + 1 + Nudge /\ scroll <= scroll' + Nudge]_glideVars

\* The page stays where its reader sees it or puts it, on either kind of
\* screen and under any fingers: only time and a hand move it, as long as one
\* animation at a time has it to itself (useAutoScroll, glide).
KeepsItsPlace == NoJump /\ SettledWhenOff /\ CarriesOn

\* As NoJump and SettledWhenOff without the exception.
NeverJumps ==
    /\ [](~running => anims = <<>>)
    /\ [][Seen' # Seen =>
            \/ \E i \in DOMAIN anims : i \in DOMAIN anims' /\ anims'[i].gone > anims[i].gone
            \/ UNCHANGED <<anims, running, fingers, resume>>
            \/ ~phone]_glideVars

\* A glide that nobody touches comes to the bottom and turns itself off, also
\* after touches, other speeds and stops.
ScrollingEnds == phone /\ running ~> ~running \/ fingers > 0
=============================================================================
