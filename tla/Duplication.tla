----------------------------- MODULE Duplication -----------------------------
(***************************************************************************)
(* Desktop duplication on the streamed machine: Duplication::GetStagedTexture*)
(* as the capture loop calls it, GetFrame, ReleaseFrame and the recreation of*)
(* the duplication when Windows takes it away (a UAC prompt, the logon       *)
(* screen, a change of mode).  An image of the desktop is abstracted to its  *)
(* number; DXGI is external and modelled by the results the code handles.    *)
(***************************************************************************)
EXTENDS Integers

CONSTANTS
  Desktops,      \* the desktops of the window station (Default, Winlogon)
  MaxTries,      \* attempts of one round of DuplicateOutput (50 in the code)
  MaxUpdates,    \* bound: images the desktop shows
  MaxSwitches    \* bound: switches of the input desktop, changes of mode

ASSUME DuplicationAssumption ==
  /\ MaxTries \in Nat \ {0}
  /\ MaxUpdates \in Nat \ {0} /\ MaxSwitches \in Nat

VARIABLES
  pc,          \* where the capture thread stands
  ret,         \* where ReleaseFrame, or RecreateOutputDuplication, returns to
  name,        \* desktopName
  attached,    \* the desktop of the capture thread
  tries,       \* attempts of the round of DuplicateOutput
  dupl,        \* m_DesktopDupl: null, valid, or one Windows took the access of
  fresh,       \* nothing has been acquired from it yet
  held,        \* a frame is acquired and not released
  present,     \* LastPresentTime of that frame is not 0
  image,       \* the image DXGI gave out last
  composition, clean, dst, \* m_CompositionTexture, m_LastCleanTexture, dst
  input,       \* the input desktop
  content,     \* the image that desktop shows
  otherMode,   \* the display mode is not that of the first frame
  switches,    \* switches and changes of mode so far
  gaveUp,      \* history: the recreation ran out of tries
  dropped,     \* history: an acquired image was given up by a failure
  blank,       \* history: a duplication began with a frame without an image
  resized      \* history: a frame came in another mode than the first

NoName == "none"
NoTexture == -1     \* 0 is a texture without an image
callVars == <<name, attached, tries>>
textureVars == <<composition, clean, dst>>
desktopVars == <<input, content, otherMode, switches>>
historyVars == <<gaveUp, dropped, blank, resized>>
vars == <<pc, ret, callVars, dupl, fresh, held, present, image, textureVars,
          desktopVars, historyVars>>

Ended == {"crashed", "aborted", "thrown", "failed"}

Init ==
  /\ pc = "init" /\ ret = "idle"
  /\ input \in Desktops /\ attached = input /\ name = NoName
  /\ tries = 1
  /\ dupl = "null" /\ fresh = FALSE /\ held = FALSE /\ present = FALSE
  /\ image = 0
  /\ composition = NoTexture /\ clean = NoTexture /\ dst = NoTexture
  /\ content = 1 /\ otherMode = FALSE /\ switches = 0
  /\ gaveUp = FALSE /\ dropped = FALSE /\ blank = FALSE /\ resized = FALSE

-----------------------------------------------------------------------------
(* Variants of actions below, each with one mistake, for mutation testing.   *)

\* Only the composition texture is updated by a new image.
ComposeWithoutClean ==
  /\ pc = "compose"
  /\ composition' = (IF present THEN image ELSE clean)
  /\ pc' = "release" /\ ret' = "stage"
  /\ resized' = (resized \/ otherMode)
  /\ UNCHANGED <<clean, dst, callVars, dupl, fresh, held, present, image,
                 desktopVars, gaveUp, dropped, blank>>

\* E_ACCESSDENIED leaves the loop as a success does.
DuplicateDeniedReturns ==
  /\ pc = "duplicate" /\ attached # input
  /\ pc' = ret
  /\ UNCHANGED <<ret, callVars, dupl, fresh, held, present, image,
                 textureVars, desktopVars, historyVars>>

\* SetThreadDesktop is forgotten.
AttachForgotten ==
  /\ pc = "attach"
  /\ dupl' = "null" /\ held' = FALSE /\ fresh' = FALSE
  /\ tries' = 1 /\ pc' = "duplicate"
  /\ UNCHANGED <<ret, name, attached, present, image, textureVars,
                 desktopVars, historyVars>>

-----------------------------------------------------------------------------
\* The thread goes to p; nothing but the program counter and ret changes.
Goto(p, r) ==
  /\ pc' = p /\ ret' = r
  /\ UNCHANGED <<callVars, dupl, fresh, held, present, image, textureVars,
                 desktopVars>>

(* InitDuplication, called once before the streaming begins.                 *)

InitDuplication ==
  /\ pc = "init" /\ dupl' = "valid" /\ fresh' = TRUE
  /\ pc' = "idle"
  /\ UNCHANGED <<ret, callVars, held, present, image, textureVars,
                 desktopVars, historyVars>>

\* Any of its steps fails: FindAndSendMode returns false, or it throws.
InitFails == pc = "init" /\ Goto("failed", ret) /\ UNCHANGED historyVars

-----------------------------------------------------------------------------
(* GetStagedTexture and GetFrame.                                            *)

Call == pc = "idle" /\ Goto("acquire", ret) /\ UNCHANGED historyVars

\* The desktop has changed since the last image, or none was given yet.
News == fresh \/ image # content

\* AcquireNextFrame on a null pointer
AcquireNull ==
  pc = "acquire" /\ dupl = "null" /\ Goto("crashed", ret) /\ UNCHANGED historyVars

AcquireImage ==
  /\ pc = "acquire" /\ dupl = "valid" /\ ~held /\ News
  /\ held' = TRUE /\ present' = TRUE /\ image' = content /\ fresh' = FALSE
  /\ pc' = "query"
  /\ UNCHANGED <<ret, callVars, dupl, textureVars, desktopVars, historyVars>>

\* LastPresentTime is 0: the cursor has moved, the desktop has not changed.
AcquireCursor ==
  /\ pc = "acquire" /\ dupl = "valid" /\ ~held /\ (fresh \/ ~News)
  /\ held' = TRUE /\ present' = FALSE /\ image' = content /\ fresh' = FALSE
  /\ blank' = (blank \/ fresh)
  /\ pc' = "query"
  /\ UNCHANGED <<ret, callVars, dupl, textureVars, desktopVars, gaveUp,
                 dropped, resized>>

\* DXGI_ERROR_WAIT_TIMEOUT, or an error the code has no answer to: return.
AcquireFails ==
  /\ pc = "acquire" /\ dupl = "valid" /\ ~held
  /\ Goto("idle", ret) /\ UNCHANGED historyVars

\* DXGI_ERROR_INVALID_CALL: ReleaseFrame, and return -1.
AcquireHeld ==
  /\ pc = "acquire" /\ dupl = "valid" /\ held
  /\ Goto("release", "idle") /\ UNCHANGED historyVars

\* DXGI_ERROR_ACCESS_LOST: recreate, and call GetFrame again whatever came of it.
AcquireLost ==
  /\ pc = "acquire" /\ dupl = "lost"
  /\ pc' = "name" /\ ret' = "acquire"
  /\ UNCHANGED <<name, attached, tries, dupl, fresh, held, present, image,
                 textureVars, desktopVars, historyVars>>

\* The textures are created with the first frame.
QueryTexture ==
  /\ pc = "query" /\ pc' = "compose"
  /\ IF clean = NoTexture THEN composition' = 0 /\ clean' = 0
     ELSE UNCHANGED <<composition, clean>>
  /\ UNCHANGED <<ret, callVars, dupl, fresh, held, present, image, dst,
                 desktopVars, historyVars>>

\* No ID3D11Texture2D: return 1, with the frame still acquired.
QueryFails ==
  /\ pc = "query"
  /\ Goto("idle", ret) /\ dropped' = TRUE /\ UNCHANGED <<gaveUp, blank, resized>>

\* A texture of our own cannot be created: ReleaseFrame and return 1.
TextureFails ==
  /\ pc = "query" /\ clean = NoTexture
  /\ Goto("release", "idle") /\ dropped' = TRUE
  /\ UNCHANGED <<gaveUp, blank, resized>>

\* Copy the new image, or the last one without its cursor, and draw the cursor.
\* CopyResource does nothing between textures of different sizes.
Compose ==
  /\ pc = "compose"
  /\ IF ~present THEN composition' = clean /\ UNCHANGED clean
     ELSE IF otherMode THEN UNCHANGED <<composition, clean>>
     ELSE composition' = image /\ clean' = image
  /\ resized' = (resized \/ otherMode)
  /\ pc' = "release" /\ ret' = "stage"
  /\ UNCHANGED <<dst, callVars, dupl, fresh, held, present, image,
                 desktopVars, gaveUp, dropped, blank>>

\* The shape of the cursor, or a surface to draw it on, cannot be had: abort.
CursorFails == pc = "compose" /\ Goto("aborted", ret) /\ UNCHANGED historyVars

\* CopyResource to the caller's texture, through CompressTexture or not
Stage ==
  /\ pc = "stage"
  /\ dst' = composition
  /\ pc' = "release" /\ ret' = "staged"
  /\ UNCHANGED <<callVars, dupl, fresh, held, present, image, composition,
                 clean, desktopVars, historyVars>>

\* CompressTexture creates its views with the first frame, and throws.
CompressFails ==
  pc = "stage" /\ dst = NoTexture /\ Goto("thrown", ret) /\ UNCHANGED historyVars

\* GetStagedTexture returns true.
ReturnTexture == pc = "staged" /\ Goto("idle", ret) /\ UNCHANGED historyVars

-----------------------------------------------------------------------------
(* ReleaseFrame.                                                             *)

\* Released, or DXGI_ERROR_INVALID_CALL because it was released before.
ReleaseFrame ==
  /\ pc = "release" /\ dupl = "valid"
  /\ held' = FALSE /\ pc' = ret
  /\ UNCHANGED <<ret, callVars, dupl, fresh, present, image, textureVars,
                 desktopVars, historyVars>>

ReleaseLost ==
  /\ pc = "release" /\ dupl = "lost"
  /\ pc' = "name"
  /\ UNCHANGED <<ret, name, attached, tries, dupl, fresh, held, present, image,
                 textureVars, desktopVars, historyVars>>

ReleaseNull ==
  pc = "release" /\ dupl = "null" /\ Goto("crashed", ret) /\ UNCHANGED historyVars

\* Any other error is thrown.
ReleaseThrows ==
  pc = "release" /\ dupl # "null" /\ Goto("thrown", ret) /\ UNCHANGED historyVars

-----------------------------------------------------------------------------
(* RecreateOutputDuplication.                                                *)

\* GetDesktopName, tried again every 100 ms
NameFound ==
  /\ pc = "name"
  /\ name' = input /\ pc' = "attach"
  /\ UNCHANGED <<ret, attached, tries, dupl, fresh, held, present,
                 image, textureVars, desktopVars, historyVars>>

\* 50 times without success: go on with an empty name.
NameNotFound ==
  /\ pc = "name"
  /\ name' = NoName /\ pc' = "attach"
  /\ UNCHANGED <<ret, attached, tries, dupl, fresh, held, present,
                 image, textureVars, desktopVars, historyVars>>

\* OpenDesktop and SetThreadDesktop, which fail without a name; then the old
\* duplication goes, if there still is one, and with it the frame.
Attach ==
  /\ pc = "attach"
  /\ attached' = (IF name = NoName THEN attached ELSE name)
  /\ dupl' = "null" /\ held' = FALSE /\ fresh' = FALSE
  /\ tries' = 1 /\ pc' = "duplicate"
  /\ UNCHANGED <<ret, name, present, image, textureVars,
                 desktopVars, historyVars>>

DuplicateOutput ==
  /\ pc = "duplicate" /\ attached = input
  /\ dupl' = "valid" /\ fresh' = TRUE /\ pc' = ret
  /\ UNCHANGED <<ret, callVars, held, present, image, textureVars,
                 desktopVars, historyVars>>

\* E_ACCESSDENIED, of a desktop that is not the input desktop: goto Retry, which
\* lies behind the comparison of methodTry with its limit: the only one made is
\* that of 0, so the retries have no limit.
DuplicateDenied ==
  /\ pc = "duplicate" /\ attached # input
  /\ pc' = "name"
  /\ UNCHANGED <<ret, name, attached, tries, dupl, fresh, held, present, image,
                 textureVars, desktopVars, historyVars>>

\* Any other error: try again, MaxTries times.
DuplicateFails ==
  /\ pc = "duplicate" /\ tries < MaxTries
  /\ tries' = tries + 1
  /\ UNCHANGED <<pc, ret, name, attached, dupl, fresh, held,
                 present, image, textureVars, desktopVars, historyVars>>

\* RecreateOutputDuplication returns false, and its caller goes on.
GiveUp ==
  /\ pc = "duplicate" /\ tries = MaxTries
  /\ pc' = ret /\ gaveUp' = TRUE
  /\ UNCHANGED <<ret, callVars, dupl, fresh, held, present, image,
                 textureVars, desktopVars, dropped, blank, resized>>

Thread ==
  \/ InitDuplication \/ InitFails \/ Call
  \/ AcquireNull \/ AcquireImage \/ AcquireCursor \/ AcquireFails
  \/ AcquireHeld \/ AcquireLost
  \/ QueryTexture \/ QueryFails \/ TextureFails
  \/ Compose \/ CursorFails \/ Stage \/ CompressFails \/ ReturnTexture
  \/ ReleaseFrame \/ ReleaseLost \/ ReleaseNull \/ ReleaseThrows
  \/ NameFound \/ NameNotFound \/ Attach
  \/ DuplicateOutput \/ DuplicateDenied \/ DuplicateFails \/ GiveUp

-----------------------------------------------------------------------------
(* Windows.                                                                  *)

threadVars == <<pc, ret, callVars, held, present, image, textureVars,
                historyVars>>
Lose == dupl' = (IF dupl = "valid" THEN "lost" ELSE dupl)

UpdateDesktop ==
  /\ content < MaxUpdates
  /\ content' = content + 1
  /\ UNCHANGED <<threadVars, dupl, fresh, input, otherMode, switches>>

\* Another desktop gets the input, and shows another image.
SwitchDesktop(d) ==
  /\ d # input /\ switches < MaxSwitches /\ content < MaxUpdates
  /\ input' = d /\ content' = content + 1 /\ switches' = switches + 1
  /\ Lose
  /\ UNCHANGED <<threadVars, fresh, otherMode>>

\* To another mode than that of the first frame, or back
ChangeMode ==
  /\ clean # NoTexture /\ switches < MaxSwitches
  /\ otherMode' = ~otherMode /\ switches' = switches + 1
  /\ Lose
  /\ UNCHANGED <<threadVars, fresh, input, content>>

Windows ==
  UpdateDesktop \/ (\E d \in Desktops : SwitchDesktop(d)) \/ ChangeMode

Next == Thread \/ Windows

Spec == Init /\ [][Next]_vars

\* The thread runs, AcquireNextFrame does not fail every time there is an
\* image, and the name of the input desktop is found now and then.
FairSpec ==
  Spec /\ WF_vars(Thread) /\ SF_vars(AcquireImage) /\ SF_vars(NameFound)

-----------------------------------------------------------------------------
TypeOK ==
  /\ pc \in {"init", "idle", "acquire", "query", "compose", "stage", "staged",
             "release", "name", "attach", "duplicate"} \cup Ended
  /\ ret \in {"idle", "acquire", "stage", "staged"}
  /\ name \in Desktops \cup {NoName} /\ {attached, input} \subseteq Desktops
  /\ tries \in 1..MaxTries
  /\ dupl \in {"null", "valid", "lost"}
  /\ image \in 0..MaxUpdates
  /\ {composition, clean, dst} \subseteq NoTexture..MaxUpdates
  /\ content \in 1..MaxUpdates /\ switches \in 0..MaxSwitches
  /\ {fresh, held, present, otherMode, gaveUp, dropped, blank, resized}
       \subseteq BOOLEAN

\* The thread calls m_DesktopDupl through a null pointer only after a
\* recreation has run out of tries: every other path puts a duplication there.
NullOnlyAfterGivingUp == pc = "crashed" => gaveUp

\* A texture that GetStagedTexture returns holds the image DXGI gave out last,
\* also when only the cursor moved, after failed calls and across recreations;
\* unless an image was dropped by a failure, a duplication began without one, or
\* the mode is not that of the textures.
StagedIsImage ==
  pc = "staged" /\ ~dropped /\ ~blank /\ ~resized => dst = image

\* Whatever desktop the user is taken to, the capture thread follows: an image
\* is staged at last, or a newer one, unless a failure, another mode or a
\* recreation that gave up stands in the way.
ImageIsStaged ==
  \A n \in 1..MaxUpdates :
    (content = n) ~> (dst >= n \/ pc \in Ended \/ gaveUp \/ dropped \/ blank
                        \/ resized)
=============================================================================
