------------------------ MODULE ProgressReporterProofs ------------------------
(***************************************************************************)
(* Proofs about ProgressReporter, for any texts and any number of waits.   *)
(* OwnLines, ShowsCurrent and OneAnimator follow from one invariant: on a  *)
(* terminal the text of the wait stands on the line, and of the goroutines *)
(* exactly one has the token in force; no goroutine's token is newer.      *)
(***************************************************************************)
EXTENDS ProgressReporter, FiniteSetTheorems, TLAPS

Tokens ==
  /\ waitToken \in Nat
  /\ \A g \in animators : g.token \in Nat /\ g.token <= waitToken
  /\ ~interactive => animators = {}

Screen ==
  /\ interactive \in BOOLEAN /\ waiting \in BOOLEAN /\ mixed = FALSE
  /\ waiting /\ interactive => rendered = TRUE /\ line = lastWaitMsg
  /\ waiting /\ ~interactive => logged = lastWaitMsg
  /\ ~(waiting /\ interactive) => line = NoMsg

Animated ==
  interactive /\ waiting =>
    \E g \in animators : \A h \in animators : h.token = waitToken <=> h = g

ProgressInv == Tokens /\ Screen /\ Animated

(* A call that ends the wait, or finds none, leaves an empty line and tokens *)
(* that no goroutine will get.                                               *)
LEMMA FinishKeeps ==
  ASSUME ProgressInv, Finish, Println(Cleared, NoMsg),
         UNCHANGED <<interactive, animators, started>>
  PROVE  ProgressInv'
<1>1. Tokens'
  BY DEF ProgressInv, Tokens, Finish, state
<1>2. waiting' = FALSE
  BY DEF Finish, Idle, state, ProgressInv, Screen
<1>3. Cleared = NoMsg
  BY DEF Cleared, ProgressInv, Screen
<1>4. Screen'
  BY <1>2, <1>3 DEF Println, ProgressInv, Screen
<1> QED
  BY <1>1, <1>2, <1>4 DEF ProgressInv, Animated

(* The goroutine of a new animation is the only one with its token. *)
LEMMA AnimateKeeps ==
  ASSUME NEW before \in Nat, before >= waitToken, NEW msg,
         ProgressInv, interactive, Animate(before), Render(msg),
         waiting' = TRUE, lastWaitMsg' = msg, UNCHANGED interactive
  PROVE  ProgressInv'
<1> DEFINE new == [id |-> started, token |-> before + 1]
<1>1. /\ waitToken' = before + 1 /\ animators' = animators \cup {new}
      /\ \A g \in animators : g.token \in Nat /\ g.token < before + 1
      /\ new.token = before + 1
  BY DEF Animate, ProgressInv, Tokens
<1>2. Tokens'
  BY <1>1 DEF Tokens
<1>3. Screen'
  BY DEF Render, ProgressInv, Screen
<1>4. \A h \in animators' : h.token = waitToken' <=> h = new
  BY <1>1
<1>5. Animated'
  BY <1>1, <1>4 DEF Animated
<1> QED
  BY <1>2, <1>3, <1>5 DEF ProgressInv

(* A message of the log. *)
LEMMA LogKeeps ==
  ASSUME NEW msg, ProgressInv, ~interactive,
         waiting' = TRUE, lastWaitMsg' = msg,
         Println(line, msg) \/ (waiting /\ msg = lastWaitMsg /\ UNCHANGED screen),
         UNCHANGED <<interactive, waitToken, animators>>
  PROVE  ProgressInv'
<1>1. Tokens' /\ Animated'
  BY DEF ProgressInv, Tokens, Animated
<1>2. Screen'
  BY DEF ProgressInv, Screen, Println, screen
<1> QED
  BY <1>1, <1>2 DEF ProgressInv

LEMMA WaitStartKeeps ==
  ASSUME ProgressInv, NEW msg \in Messages, WaitStart(msg)
  PROVE  ProgressInv'
<1>1. CASE ~interactive
  BY <1>1, LogKeeps DEF WaitStart
<1>2. CASE interactive
  <2> DEFINE before == IF waiting THEN waitToken + 1 ELSE waitToken
  <2>1. before \in Nat /\ before >= waitToken
    BY DEF ProgressInv, Tokens
  <2>2. /\ Animate(before) /\ Render(msg) /\ waiting' = TRUE /\ lastWaitMsg' = msg
        /\ UNCHANGED interactive
    BY <1>2 DEF WaitStart
  <2> HIDE DEF before
  <2> QED
    BY <1>2, <2>1, <2>2, AnimateKeeps
<1> QED
  BY <1>1, <1>2

LEMMA DrawTickKeeps ==
  ASSUME ProgressInv, NEW msg \in Messages, DrawTick(msg)
  PROVE  ProgressInv'
<1>1. CASE waiting
  <2>1. UNCHANGED <<interactive, waitToken, animators>> /\ interactive /\ waiting' = TRUE
    BY <1>1 DEF DrawTick
  <2>2. Tokens' /\ Animated'
    BY <1>1, <2>1 DEF ProgressInv, Tokens, Animated
  <2>3. Screen'
    BY <2>1 DEF DrawTick, Render, ProgressInv, Screen
  <2> QED
    BY <2>2, <2>3 DEF ProgressInv
<1>2. CASE ~waiting
  <2>1. waitToken \in Nat /\ waitToken >= waitToken
    BY DEF ProgressInv, Tokens
  <2>2. /\ Animate(waitToken) /\ Render(msg) /\ waiting' = TRUE /\ lastWaitMsg' = msg
        /\ interactive /\ UNCHANGED interactive
    BY <1>2 DEF DrawTick
  <2> QED
    BY <2>1, <2>2, AnimateKeeps
<1> QED
  BY <1>1, <1>2

LEMMA WaitDoneKeeps ==
  ASSUME ProgressInv, WaitDone PROVE ProgressInv'
<1>1. CASE interactive
  BY <1>1, FinishKeeps DEF WaitDone
<1>2. CASE ~interactive
  <2>1. /\ Idle /\ Println(line, NoMsg)
        /\ UNCHANGED <<waitToken, interactive, animators>>
    BY <1>2 DEF WaitDone
  <2>2. Tokens' /\ Animated'
    BY <1>2, <2>1 DEF ProgressInv, Tokens, Animated
  <2>3. Screen'
    BY <1>2, <2>1 DEF Idle, Println, ProgressInv, Screen
  <2> QED
    BY <2>2, <2>3 DEF ProgressInv
<1> QED
  BY <1>1, <1>2

(* A goroutine draws the wait it belongs to, or it was not the one. *)
LEMMA TickKeeps ==
  ASSUME ProgressInv, NEW g \in animators, AnimationTick(g)
  PROVE  ProgressInv'
<1>1. interactive
  BY DEF ProgressInv, Tokens
<1>2. CASE May(g)
  <2>1. /\ Render(lastWaitMsg) /\ waiting
        /\ UNCHANGED <<waiting, lastWaitMsg, waitToken, animators, interactive>>
    BY <1>2 DEF AnimationTick, May
  <2>2. Tokens' /\ Animated'
    BY <2>1 DEF ProgressInv, Tokens, Animated
  <2>3. Screen'
    BY <1>1, <2>1 DEF Render, ProgressInv, Screen
  <2> QED
    BY <2>2, <2>3 DEF ProgressInv
<1>3. CASE ~May(g)
  <2>1. animators' = animators \ {g} /\ UNCHANGED <<interactive, state, screen>>
    BY <1>3 DEF AnimationTick
  <2>2. Tokens' /\ Screen'
    BY <2>1 DEF ProgressInv, Tokens, Screen, state, screen
  <2>3. ASSUME waiting
        PROVE  \E h \in animators' : \A k \in animators' : k.token = waitToken' <=> k = h
    <3>1. PICK h \in animators : \A k \in animators : k.token = waitToken <=> k = h
      BY <1>1, <2>3 DEF ProgressInv, Animated
    <3>2. h # g
      BY <1>3, <2>3, <3>1 DEF May
    <3> QED
      BY <2>1, <3>1, <3>2 DEF state
  <2>4. Animated'
    BY <2>1, <2>3 DEF Animated, state
  <2> QED
    BY <2>2, <2>4 DEF ProgressInv
<1> QED
  BY <1>2, <1>3

LEMMA ProgressInvStep == ProgressInv /\ [Next]_vars => ProgressInv'
<1> SUFFICES ASSUME ProgressInv, [Next]_vars PROVE ProgressInv'
  OBVIOUS
<1>1. CASE Stepf
  BY <1>1, FinishKeeps DEF Stepf
<1>2. CASE WaitDone
  BY <1>2, WaitDoneKeeps
<1>3. ASSUME NEW msg \in Messages, WaitStart(msg) PROVE ProgressInv'
  BY <1>3, WaitStartKeeps
<1>4. ASSUME NEW msg \in Messages, LogTick(msg) PROVE ProgressInv'
  BY <1>4, LogKeeps DEF LogTick
<1>5. ASSUME NEW msg \in Messages, DrawTick(msg) PROVE ProgressInv'
  BY <1>5, DrawTickKeeps
<1>6. ASSUME NEW g \in animators, AnimationTick(g) PROVE ProgressInv'
  BY <1>6, TickKeeps
<1>7. CASE UNCHANGED vars
  BY <1>7 DEF vars, state, screen, ProgressInv, Tokens, Screen, Animated
<1> QED
  BY <1>1, <1>2, <1>3, <1>4, <1>5, <1>6, <1>7 DEF Next, Call

(* The inductive invariant of the reporter and its goroutines.               *)
THEOREM ProgressInvHolds == Spec => []ProgressInv
<1>1. ASSUME Init PROVE ProgressInv
  <2>1. waiting = FALSE /\ mixed = FALSE /\ line = NoMsg /\ interactive \in BOOLEAN
    BY <1>1 DEF Init
  <2>2. Tokens
    BY <1>1 DEF Init, Tokens
  <2>3. Screen /\ Animated
    BY <2>1 DEF Screen, Animated
  <2> QED
    BY <2>2, <2>3 DEF ProgressInv
<1> QED
  BY <1>1, ProgressInvStep, PTL DEF Spec

(* Lines of the log and frames of a wait never mix, and no frame is left     *)
(* when its wait has ended, whichever goroutine wakes up (progress.go:175).  *)
THEOREM LinesKeptApart == Spec => []OwnLines
<1>1. ProgressInv => OwnLines
  BY DEF ProgressInv, Screen, OwnLines
<1> QED
  BY <1>1, ProgressInvHolds, PTL

(* What stands on the line, or last in the log, is the text of the last call *)
(* (progress.go:62-103), for any number of goroutines.                       *)
THEOREM CurrentAlwaysShown == Spec => []ShowsCurrent
<1>1. ProgressInv => ShowsCurrent
  BY DEF ProgressInv, Screen, ShowsCurrent
<1> QED
  BY <1>1, ProgressInvHolds, PTL

(* Each wait on a terminal has one goroutine that draws (progress.go:163).   *)
THEOREM OneAnimatorAlways == Spec => []OneAnimator
<1>1. ASSUME ProgressInv, interactive, waiting
      PROVE  Cardinality({g \in animators : May(g)}) = 1
  <2>1. PICK g \in animators : \A h \in animators : h.token = waitToken <=> h = g
    BY <1>1 DEF ProgressInv, Animated
  <2>2. {h \in animators : May(h)} = {g}
    BY <1>1, <2>1 DEF May
  <2> QED
    BY <2>2, FS_Singleton
<1>2. ProgressInv => OneAnimator
  BY <1>1 DEF OneAnimator
<1> QED
  BY <1>2, ProgressInvHolds, PTL

-----------------------------------------------------------------------------
(* The types.  A wait moves the token on twice at most, once when it begins *)
(* and once when it ends, which bounds the tokens by the number of waits.   *)
TokensCounted ==
  /\ waitToken <= 2 * started
  /\ waiting => waitToken + 1 <= 2 * started

TypeInv == TypeOK /\ TokensCounted

LEMMA PrintlnType ==
  ASSUME TypeOK, NEW shown, NEW text \in Messages \cup {NoMsg}, Println(shown, text)
  PROVE  /\ line' \in Messages \cup {NoMsg} /\ logged' \in Messages \cup {NoMsg}
         /\ mixed' \in BOOLEAN
BY DEF TypeOK, Println

LEMMA IdleType ==
  ASSUME TypeInv, Idle, UNCHANGED <<interactive, animators, started>>,
         waitToken' \in {waitToken} \cup (IF waiting THEN {waitToken + 1} ELSE {}),
         line' \in Messages \cup {NoMsg}, logged' \in Messages \cup {NoMsg},
         mixed' \in BOOLEAN
  PROVE  TypeInv'
<1>1. /\ waiting' = FALSE /\ lastWaitMsg' = NoMsg /\ lastWaitFrame' = 0 /\ rendered' = FALSE
      /\ lastWaitFrame' \in 0 .. Frames - 1
  BY DEF Idle, Frames
<1>2. /\ waitToken \in Nat /\ started \in Nat /\ started <= MaxWaits
      /\ waiting => waitToken + 1 <= 2 * started
      /\ ~waiting => waitToken <= 2 * started
  BY ProgressAssumption DEF TypeInv, TypeOK, TokensCounted
<1>3. /\ waitToken' \in Nat /\ waitToken' <= 2 * started /\ started' = started
  BY <1>2
<1>4. waitToken' \in 0 .. 2 * MaxWaits
  BY <1>2, <1>3, ProgressAssumption
<1>5. TokensCounted'
  <2>1. waitToken' \in Nat /\ started' \in Nat /\ waitToken' <= 2 * started'
    BY <1>2, <1>3
  <2>2. ~waiting'
    BY <1>1
  <2> QED BY <2>1, <2>2 DEF TokensCounted
<1>6. TypeOK'
  BY <1>1, <1>4 DEF TypeInv, TypeOK
<1> QED BY <1>5, <1>6 DEF TypeInv

LEMMA FinishType ==
  ASSUME TypeInv, Finish, Println(Cleared, NoMsg), UNCHANGED <<interactive, animators, started>>
  PROVE  TypeInv'
<1>1. CASE waiting
  <2>1. Idle /\ waitToken' = waitToken + 1
    BY <1>1 DEF Finish
  <2>2. /\ line' \in Messages \cup {NoMsg} /\ logged' \in Messages \cup {NoMsg}
        /\ mixed' \in BOOLEAN
    BY PrintlnType DEF TypeInv
  <2> QED BY <1>1, <2>1, <2>2, IdleType
<1>2. CASE ~waiting
  <2>1. UNCHANGED state
    BY <1>2 DEF Finish
  <2> QED
    BY <2>1, PrintlnType DEF TypeInv, TypeOK, TokensCounted, state
<1> QED BY <1>1, <1>2

(* The text of a wait off a terminal, with a line of the log or without.    *)
LEMMA LogType ==
  ASSUME TypeInv, NEW msg \in Messages, waiting' = TRUE, lastWaitMsg' = msg, GoOn,
         Println(line, msg) \/ UNCHANGED screen,
         UNCHANGED <<interactive, lastWaitFrame, rendered, waitToken, animators>>
  PROVE  TypeInv'
<1>1. /\ line' \in Messages \cup {NoMsg} /\ logged' \in Messages \cup {NoMsg}
      /\ mixed' \in BOOLEAN
  BY PrintlnType DEF TypeInv, TypeOK, screen
<1>2. /\ started' \in 0 .. MaxWaits
      /\ waiting => started' = started
      /\ ~waiting => started' = started + 1
  BY ProgressAssumption DEF GoOn, Begin, TypeInv, TypeOK
<1>3. /\ waitToken \in Nat /\ started \in Nat
      /\ waiting => waitToken + 1 <= 2 * started
      /\ ~waiting => waitToken <= 2 * started
  BY ProgressAssumption DEF TypeInv, TypeOK, TokensCounted
<1>4. waitToken' + 1 <= 2 * started' /\ waitToken' <= 2 * started'
  <2>1. waitToken' = waitToken
    OBVIOUS
  <2>2. CASE waiting
    BY <1>2, <1>3, <2>1, <2>2
  <2>3. CASE ~waiting
    <3>1. started' = started + 1 /\ waitToken <= 2 * started
      BY <1>2, <1>3, <2>3
    <3> QED BY <1>3, <2>1, <3>1
  <2> QED BY <2>2, <2>3
<1>5. TokensCounted'
  BY <1>4 DEF TokensCounted
<1>6. interactive' \in BOOLEAN /\ waiting' \in BOOLEAN /\ rendered' \in BOOLEAN
  BY DEF TypeInv, TypeOK
<1>7. /\ lastWaitMsg' \in Messages \cup {NoMsg} /\ lastWaitFrame' \in 0 .. Frames - 1
      /\ waitToken' \in 0 .. 2 * MaxWaits /\ animators' \subseteq Goroutines
  BY DEF TypeInv, TypeOK
<1>8. TypeOK'
  BY <1>1, <1>2, <1>6, <1>7 DEF TypeOK
<1> QED BY <1>5, <1>8 DEF TypeInv

(* A goroutine is started behind the token of the wait before.              *)
LEMMA AnimateType ==
  ASSUME TypeInv, NEW msg \in Messages, waiting' = TRUE, lastWaitMsg' = msg,
         lastWaitFrame' = 0, Render(msg), UNCHANGED interactive,
         NEW before \in Nat, before = IF waiting THEN waitToken + 1 ELSE waitToken,
         Animate(before)
  PROVE  TypeInv'
<1>1. /\ started' = started + 1 /\ started < MaxWaits /\ waitToken' = before + 1
      /\ animators' = animators \cup {[id |-> started, token |-> before + 1]}
  BY DEF Animate, Begin
<1>2. /\ started \in Nat /\ waitToken \in Nat /\ waitToken <= 2 * started
      /\ waiting => waitToken + 1 <= 2 * started
  BY ProgressAssumption DEF TypeInv, TypeOK, TokensCounted
<1>3. before + 2 <= 2 * started' /\ before + 1 \in 0 .. 2 * MaxWaits
  BY <1>1, <1>2, ProgressAssumption
<1>4. [id |-> started, token |-> before + 1] \in Goroutines
  BY <1>1, <1>2, <1>3, ProgressAssumption DEF Goroutines
<1>5. animators' \subseteq Goroutines
  BY <1>1, <1>4 DEF TypeInv, TypeOK
<1>6. TokensCounted'
  BY <1>1, <1>2, <1>3 DEF TokensCounted
<1> QED
  BY <1>1, <1>2, <1>3, <1>5, <1>6, ProgressAssumption DEF TypeInv, TypeOK, Render, Frames

LEMMA TypeStep == TypeInv /\ [Next]_vars => TypeInv'
<1> SUFFICES ASSUME TypeInv, [Next]_vars PROVE TypeInv'
  OBVIOUS
<1>1. CASE Stepf
  BY <1>1, FinishType DEF Stepf
<1>2. CASE WaitDone
  <2>1. CASE interactive /\ Finish /\ Println(Cleared, NoMsg)
    BY <1>2, <2>1, FinishType DEF WaitDone
  <2>2. CASE Idle /\ Println(line, NoMsg) /\ UNCHANGED waitToken
    <3>1. /\ line' \in Messages \cup {NoMsg} /\ logged' \in Messages \cup {NoMsg}
          /\ mixed' \in BOOLEAN
      BY <2>2, PrintlnType DEF TypeInv
    <3>2. UNCHANGED <<interactive, animators, started>>
      BY <1>2 DEF WaitDone
    <3>3. waitToken' \in {waitToken} \cup (IF waiting THEN {waitToken + 1} ELSE {})
      BY <2>2
    <3>4. Idle
      BY <2>2
    <3> QED BY <3>1, <3>2, <3>3, <3>4, IdleType
  <2> QED BY <1>2, <2>1, <2>2 DEF WaitDone
<1>3. ASSUME NEW msg \in Messages, WaitStart(msg) PROVE TypeInv'
  <2>1. CASE interactive
    <3>1. (IF waiting THEN waitToken + 1 ELSE waitToken) \in Nat
      BY ProgressAssumption DEF TypeInv, TypeOK
    <3> QED BY <1>3, <2>1, <3>1, AnimateType DEF WaitStart
  <2>2. CASE ~interactive
    BY <1>3, <2>2, LogType DEF WaitStart
  <2> QED BY <2>1, <2>2
<1>4. ASSUME NEW msg \in Messages, LogTick(msg) PROVE TypeInv'
  BY <1>4, LogType DEF LogTick
<1>5. ASSUME NEW msg \in Messages, DrawTick(msg) PROVE TypeInv'
  <2>1. CASE waiting
    BY <1>5, <2>1 DEF DrawTick, Render, TypeInv, TypeOK, TokensCounted
  <2>2. CASE ~waiting
    <3>1. waitToken \in Nat
      BY ProgressAssumption DEF TypeInv, TypeOK
    <3> QED BY <1>5, <2>2, <3>1, AnimateType DEF DrawTick
  <2> QED BY <2>1, <2>2
<1>6. ASSUME NEW g \in animators, AnimationTick(g) PROVE TypeInv'
  <2>1. CASE /\ lastWaitFrame' = (lastWaitFrame + 1) % Frames /\ Render(lastWaitMsg)
             /\ UNCHANGED <<waiting, lastWaitMsg, waitToken, animators>>
    <3>1. lastWaitFrame' \in 0 .. Frames - 1
      BY <2>1 DEF TypeInv, TypeOK, Frames
    <3> QED
      BY <1>6, <2>1, <3>1 DEF AnimationTick, Render, TypeInv, TypeOK, TokensCounted
  <2>2. CASE animators' = animators \ {g} /\ UNCHANGED <<state, screen>>
    BY <1>6, <2>2 DEF AnimationTick, TypeInv, TypeOK, TokensCounted, state, screen
  <2> QED BY <1>6, <2>1, <2>2 DEF AnimationTick
<1>7. CASE UNCHANGED vars
  BY <1>7 DEF vars, state, screen, TypeInv, TypeOK, TokensCounted
<1> QED BY <1>1, <1>2, <1>3, <1>4, <1>5, <1>6, <1>7 DEF Next, Call

(* Every variable of the reporter keeps its type, and the tokens of the      *)
(* goroutines stay within two for each wait (progress.go:62-187).            *)
THEOREM ReporterTypeCorrect == Spec => []TypeOK
<1>1. ASSUME Init PROVE TypeInv
  <2>1. TokensCounted
    BY <1>1 DEF Init, TokensCounted
  <2>2. 0 \in 0 .. 2 * MaxWaits /\ 0 \in 0 .. MaxWaits /\ 0 \in 0 .. Frames - 1
    BY ProgressAssumption DEF Frames
  <2>3. TypeOK
    BY <1>1, <2>2 DEF Init, TypeOK
  <2> QED BY <2>1, <2>3 DEF TypeInv
<1>2. TypeInv => TypeOK
  BY DEF TypeInv
<1> QED BY <1>1, <1>2, TypeStep, PTL DEF Spec
=============================================================================
