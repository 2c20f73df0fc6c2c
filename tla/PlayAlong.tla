----------------------------- MODULE PlayAlong -----------------------------
(***************************************************************************)
(* Following the player through the microphone (ui/src/listen): the hook   *)
(* usePlayAlong, whose start() waits three times while the page lives on,  *)
(* and the worker that loads the chord model and answers with positions,   *)
(* over two message queues.  A run is one start; stopping bumps the number *)
(* too, so that whatever still waits can tell that it is over.             *)
(***************************************************************************)
EXTENDS Naturals, Sequences, SequencesExt

CONSTANTS
    Faults,     \* what goes wrong: "mic", "audio" (setting up), "model"
    MaxRun,     \* bound on starts and stops
    MaxQueue    \* bound on the audio, progress and positions under way

ASSUME PlayAssumption ==
    /\ Faults \subseteq {"mic", "audio", "model"}
    /\ MaxRun \in Nat /\ MaxQueue \in Nat

Run == 1..MaxRun
NoRun == 0

VARIABLES
    mounted,    \* the sheet's page is open
    status,     \* what it shows: "off", "loading", "listening", "error"
    run,        \* run.current
    at,         \* what each run's start() waits for
    open,       \* the runs that hold the microphone
    stopAudio,  \* the run whose microphone stopAudio lets go
    handler,    \* the run whose onmessage the worker has
    worker,     \* "none", "up" or "terminated"
    inbox,      \* messages to the worker
    model,      \* its model: "none", "loading" or "loaded"
    waiting,    \* the runs that wait in it for the model
    live,       \* the run it listens for
    inferring,  \* the runs with an inference under way
    outbox      \* messages from the worker

audio == <<open, stopAudio>>
inside == <<model, waiting, live, inferring>>
playVars == <<mounted, status, run, at, audio, handler, worker, inbox, inside, outbox>>

Init ==
    /\ mounted = TRUE
    /\ status = "off" /\ run = 0
    /\ at = [r \in Run |-> "none"]
    /\ open = {} /\ stopAudio = NoRun
    /\ handler = NoRun /\ worker = "none"
    /\ inbox = <<>> /\ outbox = <<>>
    /\ model = "none" /\ waiting = <<>> /\ live = NoRun /\ inferring = {}

Message(type, r) == [type |-> type, run |-> r]
Goto(r, place) == at' = [at EXCEPT ![r] = place]

\* stopAudio.current?.(), and null from then on.
LetMicGo == open' = open \ {stopAudio} /\ stopAudio' = NoRun

\* worker.current?.postMessage: nobody reads what a terminated worker is sent.
ToWorker(m) == inbox' = IF worker = "up" THEN Append(inbox, m) ELSE inbox

-----------------------------------------------------------------------------
(* The page. *)

Stop ==
    /\ mounted /\ run < MaxRun
    /\ run' = run + 1
    /\ LetMicGo
    /\ ToWorker(Message("stop", NoRun))
    /\ status' = "off"
    /\ UNCHANGED <<mounted, at, handler, worker, inside, outbox>>

Start ==
    /\ mounted /\ run < MaxRun /\ status \in {"off", "error"}
    /\ run' = run + 1
    /\ LetMicGo
    /\ status' = "loading"
    /\ Goto(run', "mic")
    /\ UNCHANGED <<mounted, handler, worker, inbox, inside, outbox>>

\* (Slip: whoever waited for the microphone takes it.)
MicOpensForAll(r) ==
    /\ at[r] = "mic"
    /\ open' = open \cup {r} /\ stopAudio' = r
    /\ Goto(r, "resume")
    /\ UNCHANGED <<mounted, status, run, handler, worker, inbox, inside, outbox>>

\* getUserMedia: the reader allows the microphone, now or much later.
MicOpens(r) ==
    /\ at[r] = "mic"
    /\ IF r = run
       THEN open' = open \cup {r} /\ stopAudio' = r /\ Goto(r, "resume")
       ELSE Goto(r, "over") /\ UNCHANGED audio
    /\ UNCHANGED <<mounted, status, run, handler, worker, inbox, inside, outbox>>

MicDenied(r) ==
    /\ "mic" \in Faults /\ at[r] = "mic"
    /\ Goto(r, "over")
    /\ IF r = run THEN status' = "error" ELSE UNCHANGED status
    /\ UNCHANGED <<mounted, run, audio, handler, worker, inbox, inside, outbox>>

\* ctx.resume(): the worker is there from now on, and gets the sheet.
Resumes(r) ==
    /\ at[r] = "resume"
    /\ IF r = run
       THEN /\ worker' = IF worker = "none" THEN "up" ELSE worker
            /\ handler' = r
            /\ inbox' = IF worker' = "up" THEN Append(inbox, Message("start", r))
                                          ELSE inbox
            /\ Goto(r, "module")
       ELSE Goto(r, "over") /\ UNCHANGED <<worker, handler, inbox>>
    /\ UNCHANGED <<mounted, status, run, audio, inside, outbox>>

\* addModule: from here on the microphone is heard.
Connects(r) ==
    /\ at[r] = "module"
    /\ IF r = run
       THEN stopAudio' = r /\ Goto(r, "capturing")
       ELSE Goto(r, "over") /\ UNCHANGED stopAudio
    /\ UNCHANGED <<mounted, status, run, open, handler, worker, inbox, inside, outbox>>

\* Setting up throws: no source, no resume, no worklet.
SetupFails(r) ==
    /\ "audio" \in Faults /\ at[r] \in {"resume", "module"}
    /\ Goto(r, "over")
    /\ IF r = run
       THEN /\ LetMicGo
            /\ ToWorker(Message("stop", NoRun))
            /\ status' = "error"
       ELSE UNCHANGED <<audio, inbox, status>>
    /\ UNCHANGED <<mounted, run, handler, worker, inside, outbox>>

Captures(r) ==
    /\ at[r] = "capturing" /\ r \in open /\ Len(inbox) < MaxQueue
    /\ ToWorker(Message("audio", NoRun))
    /\ UNCHANGED <<mounted, status, run, at, audio, handler, worker, inside, outbox>>

\* (Slip: whichever run the handler is of.)
HearsAnyRun ==
    /\ outbox # <<>>
    /\ outbox' = Tail(outbox)
    /\ CASE Head(outbox) = "progress" -> status' = "loading" /\ UNCHANGED audio
         [] Head(outbox) = "ready" -> status' = "listening" /\ UNCHANGED audio
         [] Head(outbox) = "error" -> status' = "error" /\ LetMicGo
         [] Head(outbox) = "position" -> status' = "listening" /\ UNCHANGED audio
    /\ UNCHANGED <<mounted, run, at, handler, worker, inbox, inside>>

\* w.onmessage.  A position that shows what the last one did is dropped.
Hears ==
    /\ outbox # <<>>
    /\ outbox' = Tail(outbox)
    /\ LET m == Head(outbox)
       IN  \/ handler # run /\ UNCHANGED <<status, audio>>
           \/ /\ handler = run /\ m = "progress"
              /\ status' = "loading" /\ UNCHANGED audio
           \/ /\ handler = run /\ m = "ready"
              /\ status' = "listening" /\ UNCHANGED audio
           \/ /\ handler = run /\ m = "error"
              /\ status' = "error" /\ LetMicGo
           \/ /\ handler = run /\ m = "position"
              /\ status' \in {status, "listening"} /\ UNCHANGED audio
    /\ UNCHANGED <<mounted, run, at, handler, worker, inbox, inside>>

\* Leaving the page: the effect's cleanup.  (Nothing shows after it.)
Unmount ==
    /\ mounted
    /\ mounted' = FALSE
    /\ open' = open \ {stopAudio}
    /\ worker' = IF worker = "up" THEN "terminated" ELSE worker
    /\ inbox' = <<>> /\ outbox' = <<>>
    /\ UNCHANGED <<status, run, at, stopAudio, handler, inside>>

-----------------------------------------------------------------------------
(* The worker. *)

\* A message is handled up to its first wait; a start that finds the model
\* loaded is handled whole.
TakesStart ==
    /\ Head(inbox).type = "start"
    /\ UNCHANGED inferring
    /\ LET r == Head(inbox).run
       IN  \/ /\ model # "loaded"
              /\ live' = NoRun
              /\ model' = "loading"
              /\ waiting' = Append(waiting, r)
              /\ UNCHANGED outbox
           \/ /\ model = "loaded"
              /\ live' = r
              /\ outbox' = Append(outbox, "ready")
              /\ UNCHANGED <<model, waiting>>

\* live?.push: enough audio, and no inference under way, begins one.
TakesAudio ==
    /\ Head(inbox).type = "audio"
    /\ inferring' \in {inferring, inferring \cup ({live} \ {NoRun})}
    /\ UNCHANGED <<model, waiting, live, outbox>>

TakesStop ==
    /\ Head(inbox).type = "stop"
    /\ live' = NoRun
    /\ UNCHANGED <<model, waiting, inferring, outbox>>

Takes ==
    /\ worker = "up" /\ inbox # <<>>
    /\ TakesStart \/ TakesAudio \/ TakesStop
    /\ inbox' = Tail(inbox)
    /\ UNCHANGED <<mounted, status, run, at, audio, handler, worker>>

Progresses ==
    /\ worker = "up" /\ model = "loading" /\ Len(outbox) < MaxQueue
    /\ outbox' = Append(outbox, "progress")
    /\ UNCHANGED <<mounted, status, run, at, audio, handler, worker, inbox, inside>>

Answers(type) == [i \in DOMAIN waiting |-> type]

\* The starts that waited go on one after the other: the last one is live.
ModelLoads ==
    /\ worker = "up" /\ model = "loading"
    /\ model' = "loaded"
    /\ live' = Last(waiting)
    /\ outbox' = outbox \o Answers("ready")
    /\ waiting' = <<>>
    /\ UNCHANGED <<mounted, status, run, at, audio, handler, worker, inbox, inferring>>

ModelFails ==
    /\ "model" \in Faults
    /\ worker = "up" /\ model = "loading"
    /\ model' = "none"
    /\ outbox' = outbox \o Answers("error")
    /\ waiting' = <<>>
    /\ UNCHANGED <<mounted, status, run, at, audio, handler, worker, inbox, live, inferring>>

\* An inference ends, whoever is live by now.
Emits(r) ==
    /\ worker = "up" /\ r \in inferring /\ Len(outbox) < MaxQueue
    /\ inferring' = inferring \ {r}
    /\ outbox' = Append(outbox, "position")
    /\ UNCHANGED <<mounted, status, run, at, audio, handler, worker, inbox,
                   model, waiting, live>>

-----------------------------------------------------------------------------

Setup(r) ==
    \/ MicOpens(r) \/ MicDenied(r) \/ Resumes(r) \/ Connects(r) \/ SetupFails(r)

PlayNext ==
    \/ Start \/ Stop \/ Unmount \/ Hears
    \/ \E r \in Run : Setup(r) \/ Captures(r) \/ Emits(r)
    \/ Takes \/ Progresses \/ ModelLoads \/ ModelFails

PlaySpec == Init /\ [][PlayNext]_playVars

-----------------------------------------------------------------------------

ToWorkerType == [type : {"start"}, run : Run] \cup [type : {"audio", "stop"}, run : {NoRun}]
FromWorkerType == {"progress", "ready", "error", "position"}

PlayTypeOK ==
    /\ mounted \in BOOLEAN
    /\ status \in {"off", "loading", "listening", "error"}
    /\ run \in 0..MaxRun
    /\ at \in [Run -> {"none", "mic", "resume", "module", "capturing", "over"}]
    /\ open \subseteq Run /\ stopAudio \in 0..MaxRun /\ handler \in 0..MaxRun
    /\ worker \in {"none", "up", "terminated"}
    /\ inbox \in Seq(ToWorkerType) /\ outbox \in Seq(FromWorkerType)
    /\ model \in {"none", "loading", "loaded"}
    /\ waiting \in Seq(Run) /\ (model = "loading" <=> waiting # <<>>)
    /\ live \in 0..MaxRun /\ inferring \subseteq Run

(* While the page is open, only the run the reader last asked for holds    *)
(* the microphone, and stopAudio can let it go: however late the reader    *)
(* allowed it, and whatever was started, stopped or failed meanwhile       *)
(* (usePlayAlong's start).                                                 *)
MicIsCurrent == mounted => /\ open \subseteq {run}
                           /\ open # {} => stopAudio = run

(* A page that says it is off, or shows an error, does not listen.         *)
OffIsClosed == mounted /\ status \in {"off", "error"} => open = {}

(* An open page's microphone is the one its reader knows of: that of the   *)
(* last start, and none once it is off or in error.                        *)
MicAsShown == MicIsCurrent /\ OffIsClosed

(* Once off, the page stays off until the reader starts again, whatever    *)
(* the worker still sends and whichever start() was still waiting.         *)
StaysOff == [][status = "off" /\ status' # "off" => run' # run]_playVars

(* "Listens through the microphone and follows the player": a page that    *)
(* says it is listening holds the microphone.                              *)
ListeningHears == mounted /\ status = "listening" => run \in open

(* A start still waiting on the microphone knows it has been cancelled:    *)
(* once the page is left, nothing of it holds the microphone.              *)
LeavesMic == ~mounted => open = {}
=============================================================================
