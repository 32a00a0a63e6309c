--------------------------- MODULE ProgressReporter ---------------------------
(***************************************************************************)
(* The progress output of a run (src/internal/app/progress.go): the        *)
(* command's calls and the goroutines that animate the line of a wait      *)
(* share a terminal.  A mutex makes each call, and each tick of a          *)
(* goroutine, one step.  Off a terminal every message is a line of a log.  *)
(***************************************************************************)
EXTENDS Integers, FiniteSets

CONSTANTS
  Messages,  \* texts of a wait
  NoMsg,     \* no text, or the text of another line
  MaxWaits   \* bound: waits of a run

Frames == 4

ASSUME ProgressAssumption == NoMsg \notin Messages /\ MaxWaits \in Nat

VARIABLES
  interactive,    \* the output is a terminal
  waiting,        \* a wait is shown
  lastWaitMsg,    \* its text
  lastWaitFrame,  \* its frame
  rendered,       \* lastRenderLen > 0
  waitToken,      \* the animation that may draw
  animators,      \* the goroutines that have not ended, with their tokens
  started,        \* waits so far
  line,           \* the text of a frame the cursor stands behind, or NoMsg
  logged,         \* the last whole line that was written
  mixed           \* a line was written behind a frame

state  == <<waiting, lastWaitMsg, lastWaitFrame, rendered, waitToken>>
screen == <<line, logged, mixed>>
vars   == <<interactive, state, animators, started, screen>>

Init ==
  /\ interactive \in BOOLEAN /\ waiting = FALSE
  /\ lastWaitMsg = NoMsg /\ lastWaitFrame = 0 /\ rendered = FALSE
  /\ waitToken = 0 /\ animators = {} /\ started = 0
  /\ line = NoMsg /\ logged = NoMsg /\ mixed = FALSE

(* What finishWaitLocked leaves of the wait and of its line. *)
Idle ==
  /\ waiting' = FALSE /\ lastWaitMsg' = NoMsg /\ lastWaitFrame' = 0 /\ rendered' = FALSE
Cleared == IF waiting /\ rendered THEN NoMsg ELSE line

(* A line of its own, if shown is all that stands on it before. *)
Println(shown, text) ==
  /\ logged' = text /\ line' = NoMsg
  /\ mixed' = (mixed \/ shown # NoMsg)

(* finishWaitLocked, but for the screen. *)
Finish == IF waiting THEN Idle /\ waitToken' = waitToken + 1 ELSE UNCHANGED state

(* Another wait. *)
Begin == started < MaxWaits /\ started' = started + 1

GoOn == IF waiting THEN UNCHANGED started ELSE Begin

(* startAnimationLocked, behind the token `before`. *)
Animate(before) ==
  /\ Begin
  /\ waitToken' = before + 1
  /\ animators' = animators \cup {[id |-> started, token |-> before + 1]}

(* renderCurrentLocked: the line is erased and written anew. *)
Render(msg) ==
  /\ rendered' = TRUE /\ line' = msg
  /\ UNCHANGED <<logged, mixed>>

-----------------------------------------------------------------------------
(* Mutant of Stepf: the line of a wait is not finished. *)
StepfAtOnce ==
  /\ Println(line, NoMsg)
  /\ UNCHANGED <<interactive, state, animators, started>>

Stepf ==
  /\ Finish
  /\ Println(Cleared, NoMsg)
  /\ UNCHANGED <<interactive, animators, started>>

WaitStart(msg) ==
  \/ /\ ~interactive
     /\ waiting' = TRUE /\ lastWaitMsg' = msg
     /\ Println(line, msg)
     /\ GoOn
     /\ UNCHANGED <<interactive, lastWaitFrame, rendered, waitToken, animators>>
  \/ /\ interactive
     /\ waiting' = TRUE /\ lastWaitMsg' = msg /\ lastWaitFrame' = 0
     /\ Render(msg)
     /\ Animate(IF waiting THEN waitToken + 1 ELSE waitToken)
     /\ UNCHANGED interactive

(* Mutant of LogTick: a new text does not count. *)
LogTickOnce(msg) ==
  /\ ~interactive
  /\ waiting' = TRUE /\ lastWaitMsg' = msg
  /\ IF ~waiting THEN Println(line, msg) ELSE UNCHANGED screen
  /\ GoOn
  /\ UNCHANGED <<interactive, lastWaitFrame, rendered, waitToken, animators>>

(* WaitTick, off a terminal: the log gets what is new. *)
LogTick(msg) ==
  /\ ~interactive
  /\ waiting' = TRUE /\ lastWaitMsg' = msg
  /\ IF ~waiting \/ msg # lastWaitMsg THEN Println(line, msg) ELSE UNCHANGED screen
  /\ GoOn
  /\ UNCHANGED <<interactive, lastWaitFrame, rendered, waitToken, animators>>

(* WaitTick on a terminal; behind a finished wait it begins a new one. *)
DrawTick(msg) ==
  /\ interactive
  /\ waiting' = TRUE /\ lastWaitMsg' = msg
  /\ Render(msg)
  /\ \/ waiting /\ UNCHANGED <<lastWaitFrame, waitToken, animators, started>>
     \/ ~waiting /\ lastWaitFrame' = 0 /\ Animate(waitToken)
  /\ UNCHANGED interactive

(* Mutant of WaitDone: the token is moved on once more than the wait. *)
WaitDoneTwice ==
  /\ \/ interactive /\ Idle /\ waitToken' = waitToken + 2 /\ Println(Cleared, NoMsg)
     \/ ~interactive /\ Idle /\ Println(line, NoMsg) /\ UNCHANGED waitToken
  /\ UNCHANGED <<interactive, animators, started>>

WaitDone ==
  /\ \/ interactive /\ Finish /\ Println(Cleared, NoMsg)
     \/ ~interactive /\ Idle /\ Println(line, NoMsg) /\ UNCHANGED waitToken
  /\ UNCHANGED <<interactive, animators, started>>

(* Mutant of May: a goroutine looks at the wait, not at the token. *)
MayWaiting(g) == waiting

(* A goroutine still animates the wait that is shown. *)
May(g) == waiting /\ g.token = waitToken

(* Mutant of AnimationTick: a goroutine draws on as long as any wait is shown. *)
AnimationTickAny(g) ==
  /\ g \in animators
  /\ \/ /\ waiting
        /\ lastWaitFrame' = (lastWaitFrame + 1) % Frames
        /\ Render(lastWaitMsg)
        /\ UNCHANGED <<waiting, lastWaitMsg, waitToken, animators>>
     \/ /\ ~waiting /\ animators' = animators \ {g}
        /\ UNCHANGED <<state, screen>>
  /\ UNCHANGED <<interactive, started>>

(* The ticker of a goroutine fires: it draws the next frame, or ends. *)
AnimationTick(g) ==
  /\ g \in animators
  /\ \/ /\ May(g)
        /\ lastWaitFrame' = (lastWaitFrame + 1) % Frames
        /\ Render(lastWaitMsg)
        /\ UNCHANGED <<waiting, lastWaitMsg, waitToken, animators>>
     \/ /\ ~May(g) /\ animators' = animators \ {g}
        /\ UNCHANGED <<state, screen>>
  /\ UNCHANGED <<interactive, started>>

-----------------------------------------------------------------------------
(* The command calls in whatever order its orders take. *)
Call ==
  Stepf \/ WaitDone \/ \E msg \in Messages : WaitStart(msg) \/ LogTick(msg) \/ DrawTick(msg)

Next == Call \/ \E g \in animators : AnimationTick(g)

Goroutines == [id: 0 .. MaxWaits - 1, token: 0 .. 2 * MaxWaits]

(* A ticker fires again and again, and the mutex keeps nobody out for ever. *)
Spec == Init /\ [][Next]_vars /\ \A g \in Goroutines : WF_vars(AnimationTick(g))

-----------------------------------------------------------------------------
(* Properties. *)

(* Every variable holds a value of its kind. *)
TypeOK ==
  /\ interactive \in BOOLEAN /\ waiting \in BOOLEAN /\ rendered \in BOOLEAN
  /\ lastWaitMsg \in Messages \cup {NoMsg} /\ lastWaitFrame \in 0 .. Frames - 1
  /\ waitToken \in 0 .. 2 * MaxWaits /\ started \in 0 .. MaxWaits
  /\ animators \subseteq Goroutines
  /\ line \in Messages \cup {NoMsg} /\ logged \in Messages \cup {NoMsg} /\ mixed \in BOOLEAN

(* No line is ever written behind a frame, and none is left when the wait   *)
(* has ended, whichever goroutine wakes up after that.                      *)
OwnLines == ~mixed /\ (~waiting => line = NoMsg)

(* While a wait is shown, the text of the last call is what stands on the   *)
(* line, or at the end of the log, whoever wrote there last.                *)
ShowsCurrent == waiting => lastWaitMsg = IF interactive THEN line ELSE logged

(* A wait on a terminal is animated by one goroutine, however quickly waits *)
(* follow each other while goroutines of former ones are asleep.            *)
OneAnimator == interactive /\ waiting => Cardinality({g \in animators : May(g)}) = 1

(* The goroutine of a wait that is over ends. *)
AnimatorsEnd ==
  \A g \in Goroutines : g \in animators /\ ~May(g) ~> g \notin animators
=============================================================================
