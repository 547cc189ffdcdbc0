--------------------------- MODULE DuplicationProofs ---------------------------
(***************************************************************************)
(* Proofs about Duplication, for any desktops and any number of attempts,    *)
(* images and switches.  Where the thread is going to after ReleaseFrame or  *)
(* RecreateOutputDuplication decides what the textures have to hold by then. *)
(***************************************************************************)
EXTENDS Duplication, TLAPS

\* There is no duplication before the first one, and while it is recreated; nobody
\* calls through the null pointer then.
Duplicated ==
  ~gaveUp =>
    /\ dupl = "null" => pc \in {"init", "failed", "name", "attach", "duplicate"}
    /\ pc # "crashed"

\* The thread is at p, or on its way there.
Toward(p) ==
  pc = p \/ (ret = p /\ pc \in {"release", "name", "attach", "duplicate"})

\* The clean texture holds the last image, except between the acquisition of a new
\* one and the copy; on the way to the caller the two other textures do, in turn.
Current ==
  ~dropped /\ ~blank /\ ~resized =>
    /\ pc \notin {"query", "compose"} \cup Ended =>
         clean = image \/ (clean = NoTexture /\ image = 0)
    /\ pc \in {"query", "compose"} => present \/ (clean = image /\ image > 0)
    /\ Toward("stage") => composition = image
    /\ Toward("staged") => dst = image

IInv == TypeOK /\ Duplicated /\ Current

-------------------------------------------------------------------------------

\* Every variable keeps its type.
LEMMA TypeStep == TypeOK /\ [Next]_vars => TypeOK'
<1> SUFFICES ASSUME TypeOK, [Next]_vars PROVE TypeOK'
  OBVIOUS
<1> USE DuplicationAssumption
        DEF TypeOK, Ended, NoName, NoTexture, Goto, callVars, textureVars, desktopVars,
            historyVars
<1>1. CASE InitDuplication \/ InitFails \/ Call
  BY <1>1 DEF InitDuplication, InitFails, Call
<1>2. CASE AcquireNull \/ AcquireFails \/ AcquireHeld \/ AcquireLost
  BY <1>2 DEF AcquireNull, AcquireFails, AcquireHeld, AcquireLost
<1>3. CASE AcquireImage \/ AcquireCursor
  <2>1. image' \in 0..MaxUpdates /\ pc' = "query"
    BY <1>3 DEF AcquireImage, AcquireCursor
  <2>2. UNCHANGED <<ret, callVars, dupl, textureVars, desktopVars>>
    BY <1>3 DEF AcquireImage, AcquireCursor
  <2>3. {fresh', held', present', gaveUp', dropped', blank', resized'} \subseteq BOOLEAN
    BY <1>3 DEF AcquireImage, AcquireCursor
  <2> QED
    BY <2>1, <2>2, <2>3
<1>4. CASE QueryTexture
  BY <1>4 DEF QueryTexture
<1>5. CASE QueryFails \/ TextureFails
  BY <1>5 DEF QueryFails, TextureFails
<1>6. CASE Compose
  BY <1>6 DEF Compose
<1>7. CASE CursorFails \/ Stage \/ CompressFails \/ ReturnTexture
  BY <1>7 DEF CursorFails, Stage, CompressFails, ReturnTexture
<1>8. CASE ReleaseFrame \/ ReleaseLost \/ ReleaseNull \/ ReleaseThrows
  BY <1>8 DEF ReleaseFrame, ReleaseLost, ReleaseNull, ReleaseThrows
<1>9. CASE NameFound \/ NameNotFound
  BY <1>9 DEF NameFound, NameNotFound
<1>10. CASE Attach
  <2>1. attached' \in Desktops /\ tries' \in 1..MaxTries
    BY <1>10 DEF Attach
  <2> QED
    BY <1>10, <2>1 DEF Attach
<1>11. CASE DuplicateOutput \/ DuplicateDenied \/ GiveUp
  BY <1>11 DEF DuplicateOutput, DuplicateDenied, GiveUp
<1>12. CASE DuplicateFails
  <2>1. tries' \in 1..MaxTries
    BY <1>12 DEF DuplicateFails
  <2> QED
    BY <1>12, <2>1 DEF DuplicateFails
<1>13. CASE UpdateDesktop
  BY <1>13 DEF UpdateDesktop, threadVars
<1>14. ASSUME NEW d \in Desktops, SwitchDesktop(d) PROVE TypeOK'
  BY <1>14 DEF SwitchDesktop, Lose, threadVars
<1>15. CASE ChangeMode
  BY <1>15 DEF ChangeMode, Lose, threadVars
<1>16. CASE UNCHANGED vars
  BY <1>16 DEF vars
<1> QED
  BY <1>1, <1>2, <1>3, <1>4, <1>5, <1>6, <1>7, <1>8, <1>9, <1>10, <1>11, <1>12,
     <1>13, <1>14, <1>15, <1>16
  DEF Next, Thread, Windows

\* A recreation takes the duplication away and does not end, other than by giving
\* up, before there is another.
LEMMA DuplicatedStep == TypeOK /\ Duplicated /\ [Next]_vars => Duplicated'
<1> SUFFICES ASSUME TypeOK, Duplicated, [Next]_vars PROVE Duplicated'
  OBVIOUS
<1> USE DEF TypeOK, Duplicated, Goto, callVars, textureVars, desktopVars, historyVars
<1>1. CASE InitDuplication \/ InitFails \/ Call
  BY <1>1 DEF InitDuplication, InitFails, Call
<1>2. CASE AcquireNull \/ AcquireFails \/ AcquireHeld \/ AcquireLost
  BY <1>2 DEF AcquireNull, AcquireFails, AcquireHeld, AcquireLost
<1>3. CASE AcquireImage \/ AcquireCursor
  BY <1>3 DEF AcquireImage, AcquireCursor
<1>4. CASE QueryTexture \/ QueryFails \/ TextureFails
  BY <1>4 DEF QueryTexture, QueryFails, TextureFails
<1>5. CASE Compose \/ CursorFails \/ Stage \/ CompressFails \/ ReturnTexture
  BY <1>5 DEF Compose, CursorFails, Stage, CompressFails, ReturnTexture
<1>6. CASE ReleaseFrame \/ ReleaseLost \/ ReleaseNull \/ ReleaseThrows
  BY <1>6 DEF ReleaseFrame, ReleaseLost, ReleaseNull, ReleaseThrows
<1>7. CASE NameFound \/ NameNotFound \/ Attach
  BY <1>7 DEF NameFound, NameNotFound, Attach
<1>8. CASE DuplicateOutput \/ DuplicateDenied \/ DuplicateFails \/ GiveUp
  BY <1>8 DEF DuplicateOutput, DuplicateDenied, DuplicateFails, GiveUp
<1>9. CASE Windows
  BY <1>9 DEF Windows, UpdateDesktop, SwitchDesktop, ChangeMode, Lose, threadVars
<1>10. CASE UNCHANGED vars
  BY <1>10 DEF vars
<1> QED
  BY <1>1, <1>2, <1>3, <1>4, <1>5, <1>6, <1>7, <1>8, <1>9, <1>10 DEF Next, Thread

\* The last image gets into the clean texture, from there or with it into the
\* composition, and from there to the caller; no recreation on the way loses it.
LEMMA CurrentStep == TypeOK /\ Current /\ [Next]_vars => Current'
<1> SUFFICES ASSUME TypeOK, Current, [Next]_vars PROVE Current'
  OBVIOUS
<1> USE DEF TypeOK, Current, Toward, Ended, NoTexture, Goto, callVars, textureVars,
            desktopVars, historyVars
<1>1. CASE InitDuplication \/ InitFails \/ Call
  BY <1>1 DEF InitDuplication, InitFails, Call
<1>2. CASE AcquireNull \/ AcquireFails \/ AcquireHeld \/ AcquireLost
  BY <1>2 DEF AcquireNull, AcquireFails, AcquireHeld, AcquireLost
<1>3. CASE AcquireImage
  BY <1>3 DEF AcquireImage
<1>4. CASE AcquireCursor
  <2>1. image' = content /\ pc' = "query" /\ UNCHANGED textureVars
    BY <1>4 DEF AcquireCursor
  <2>2. ~blank' => ~blank /\ ~fresh
    BY <1>4 DEF AcquireCursor
  <2>3. ~fresh => image = content
    BY <1>4 DEF AcquireCursor, News
  <2> QED
    BY <1>4, <2>1, <2>2, <2>3 DEF AcquireCursor
<1>5. CASE QueryTexture
  BY <1>5 DEF QueryTexture
<1>6. CASE QueryFails \/ TextureFails
  BY <1>6 DEF QueryFails, TextureFails
<1>7. CASE Compose
  <2>1. ~resized' => ~resized /\ ~otherMode
    BY <1>7 DEF Compose
  <2> QED
    BY <1>7, <2>1 DEF Compose
<1>8. CASE CursorFails \/ Stage \/ CompressFails \/ ReturnTexture
  BY <1>8 DEF CursorFails, Stage, CompressFails, ReturnTexture
<1>9. CASE ReleaseFrame \/ ReleaseLost \/ ReleaseNull \/ ReleaseThrows
  BY <1>9 DEF ReleaseFrame, ReleaseLost, ReleaseNull, ReleaseThrows
<1>10. CASE NameFound \/ NameNotFound \/ Attach
  BY <1>10 DEF NameFound, NameNotFound, Attach
<1>11. CASE DuplicateOutput \/ DuplicateDenied \/ DuplicateFails \/ GiveUp
  BY <1>11 DEF DuplicateOutput, DuplicateDenied, DuplicateFails, GiveUp
<1>12. CASE Windows
  BY <1>12 DEF Windows, UpdateDesktop, SwitchDesktop, ChangeMode, threadVars
<1>13. CASE UNCHANGED vars
  BY <1>13 DEF vars
<1> QED
  BY <1>1, <1>2, <1>3, <1>4, <1>5, <1>6, <1>7, <1>8, <1>9, <1>10, <1>11, <1>12, <1>13
  DEF Next, Thread

\* The inductive invariant of the duplication holds throughout.
THEOREM DuplicationInvariance == Spec => []IInv
<1>1. Init => IInv
  <2> SUFFICES ASSUME Init PROVE IInv
    OBVIOUS
  <2> USE DuplicationAssumption DEF Init, NoTexture
  <2>1. TypeOK
    <3>1. /\ -1 \in -1..MaxUpdates /\ 0 \in 0..MaxUpdates /\ 1 \in 1..MaxUpdates
          /\ 0 \in 0..MaxSwitches /\ 1 \in 1..MaxTries
      OBVIOUS
    <3> QED
      BY <3>1 DEF TypeOK, NoName
  <2>2. Duplicated /\ Current
    BY DEF Duplicated, Current, Toward, Ended
  <2> QED
    BY <2>1, <2>2 DEF IInv
<1>2. IInv /\ [Next]_vars => IInv'
  BY TypeStep, DuplicatedStep, CurrentStep DEF IInv
<1> QED
  BY <1>1, <1>2, PTL DEF Spec

\* The duplication's variables have their types in every reachable state.
THEOREM DuplicationTypeCorrect == Spec => []TypeOK
<1>1. IInv => TypeOK
  BY DEF IInv
<1> QED
  BY <1>1, DuplicationInvariance, PTL

\* No null pointer is called through, unless a recreation has run out of tries.
THEOREM NoNullCall == Spec => []NullOnlyAfterGivingUp
<1>1. IInv => NullOnlyAfterGivingUp
  BY DEF IInv, Duplicated, NullOnlyAfterGivingUp
<1> QED
  BY <1>1, DuplicationInvariance, PTL

\* What GetStagedTexture returns is the last image, unless a failure dropped one, a
\* duplication began without one, or the mode has changed.
THEOREM StagedTextureIsCurrent == Spec => []StagedIsImage
<1>1. IInv => StagedIsImage
  BY DEF IInv, Current, Toward, StagedIsImage
<1> QED
  BY <1>1, DuplicationInvariance, PTL

===============================================================================
