----------------------------- MODULE KeyCombos -----------------------------
(***************************************************************************)
(* The escape combinations of the viewer: InputNDSessionServer::SendEvent    *)
(* tracks Alt, Tab, Ctrl, Shift and X in the bits of one word, KeyFlags, and *)
(* blocks an event that completes Alt+Tab or Ctrl+Alt+Shift+X.  The word is  *)
(* modelled as the set of its bits; the scan codes the code uses as masks    *)
(* overlap.  Raw input reaches the window only while it has the focus, so    *)
(* keys are also pressed and released unseen.                                *)
(***************************************************************************)
EXTENDS Integers

CONSTANT OtherKeys  \* keys that take part in no combination

Bits ==
  [k \in {"Alt", "Tab", "Ctrl", "LShift", "RShift", "X"} |->
     CASE k = "Alt"    -> {3, 4, 5}        \* 0x38
       [] k = "Tab"    -> {0, 1, 2, 3}     \* 0x0F
       [] k = "Ctrl"   -> {0, 2, 3, 4}     \* 0x1D
       [] k = "LShift" -> {1, 3, 5}        \* 0x2A
       [] k = "RShift" -> {1, 2, 4, 5}     \* 0x36
       [] k = "X"      -> {0, 2, 3, 5}]    \* 0x2D

Tracked == DOMAIN Bits
Keys == Tracked \cup OtherKeys
Shifts == {"LShift", "RShift"}

ASSUME KeysAssumption == OtherKeys \cap Tracked = {}

VARIABLES
  held,      \* the keys the user holds down
  focused,   \* the window receives raw input
  KeyFlags,  \* the static word of InputNDSession.cpp, as a set of bits
  seen,      \* history: keys whose last event seen by the window was a make
  last,      \* history: the last event seen, <<key, "make" or "break">>
  blocked    \* history: the last event seen was blocked

comboVars == <<held, focused, KeyFlags, seen, last, blocked>>

ComboInit ==
  /\ held = {} /\ focused = TRUE /\ KeyFlags = {} /\ seen = {}
  /\ last = <<>> /\ blocked = FALSE

\* Variants with one mistake each, for mutation testing: a test for all
\* bits of a mask, a release of X that is not handled.
TestAll(flags, mask) == mask \subseteq flags

ClearButX(k) ==
  IF k \in Shifts THEN KeyFlags \ (Bits["LShift"] \cup Bits["RShift"])
  ELSE IF k \in Tracked \ {"X"} THEN KeyFlags \ Bits[k]
  ELSE KeyFlags

\* flags & mask, as a condition
Test(flags, mask) == flags \cap mask # {}

\* KeyFlags |= bits of the key
Raise(k) == IF k \in Tracked THEN KeyFlags \cup Bits[k] ELSE KeyFlags

\* KeyFlags &= ~bits; either shift clears both
Clear(k) ==
  IF k \in Shifts THEN KeyFlags \ (Bits["LShift"] \cup Bits["RShift"])
  ELSE IF k \in Tracked THEN KeyFlags \ Bits[k]
  ELSE KeyFlags

AltTab(k, flags) ==
  /\ Test(flags, Bits["Alt"]) /\ Test(flags, Bits["Tab"]) /\ k = "Tab"

CtrlAltShiftX(k, flags) ==
  /\ Test(flags, Bits["Ctrl"]) /\ Test(flags, Bits["Alt"])
  /\ Test(flags, Bits["LShift"] \cup Bits["RShift"])
  /\ Test(flags, Bits["X"]) /\ k = "X"

\* A make event: the first press of a key or its typematic repeat.
Make(k) ==
  /\ held' = held \cup {k}
  /\ IF focused
     THEN /\ KeyFlags' = Raise(k)
          /\ blocked' = (AltTab(k, Raise(k)) \/ CtrlAltShiftX(k, Raise(k)))
          /\ seen' = seen \cup {k}
          /\ last' = <<k, "make">>
     ELSE UNCHANGED <<KeyFlags, blocked, seen, last>>
  /\ UNCHANGED focused

\* A break event.
Break(k) ==
  /\ k \in held
  /\ held' = held \ {k}
  /\ IF focused
     THEN /\ KeyFlags' = Clear(k)
          /\ blocked' = FALSE
          /\ seen' = seen \ {k}
          /\ last' = <<k, "break">>
     ELSE UNCHANGED <<KeyFlags, blocked, seen, last>>
  /\ UNCHANGED focused

FocusChange ==
  /\ focused' = ~focused
  /\ UNCHANGED <<held, KeyFlags, seen, last, blocked>>

ComboNext == (\E k \in Keys : Make(k) \/ Break(k)) \/ FocusChange

ComboSpec == ComboInit /\ [][ComboNext]_comboVars

-----------------------------------------------------------------------------
ComboTypeOK ==
  /\ held \subseteq Keys /\ seen \subseteq Keys
  /\ focused \in BOOLEAN /\ blocked \in BOOLEAN
  /\ KeyFlags \subseteq 0..5
  /\ last \in {<<>>} \cup (Keys \X {"make", "break"})

\* An event is only blocked as "Alt+Tab" or "Ctrl+Alt+Shift+X" while the other
\* keys of the combination are down, as far as the window can know.
BlockedIsHeld ==
  blocked => IF last[1] = "Tab" THEN "Alt" \in seen
             ELSE {"Ctrl", "Alt"} \subseteq seen /\ seen \cap Shifts # {}

\* A combination the user really presses is never missed, in whatever order
\* its keys went down and whatever shared bits other releases have cleared.
ComboNeverMissed ==
  /\ last = <<"Tab", "make">> /\ "Alt" \in seen => blocked
  /\ /\ last = <<"X", "make">>
     /\ {"Ctrl", "Alt"} \subseteq seen /\ seen \cap Shifts # {}
     => blocked

\* KeyFlags holds no bit that no key is known to be down for: the word drains
\* back to 0 when the window has seen every key released.
NoStaleBits == KeyFlags \subseteq UNION {Bits[k] : k \in seen \cap Tracked}
=============================================================================
