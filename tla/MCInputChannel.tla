--------------------------- MODULE MCInputChannel ---------------------------
(* An instance of InputChannel: an extended and a plain key; a move, a click, *)
(* the wheel, two X buttons, an event of movement, wheel and button at once,  *)
(* and a tilt of the wheel by a mouse that reports positions.                 *)
EXTENDS InputChannel

CONSTANTS b1, hw, x4, x5

MCKeyEvents == {<<1, 0, TRUE>>, <<2, 1, FALSE>>}

Event(dx, dw, fs, abs) == [x |-> dx, wheel |-> dw, flags |-> fs, absolute |-> abs]

Move == Event(-1, 0, {}, FALSE)
Click == Event(0, 0, {b1}, FALSE)
Turn == Event(0, 1, {Wheel}, FALSE)
MoveTurnClick == Event(-1, 1, {b1, Wheel}, FALSE)
Press(x) == Event(0, 0, {x}, FALSE)
TiltAt == Event(2, 1, {hw}, TRUE)

MCMouse == {Move, Click, Turn, MoveTurnClick, Press(x4), Press(x5), TiltAt}
=============================================================================
