-------------------------------- MODULE Input --------------------------------
(***************************************************************************)
(* From the keys, the mouse button and the fingers to the camera.          *)
(*  - Windows (src/win/map.cpp): WndProc gives each message to             *)
(*    Application at once; it gets no message for a key released while     *)
(*    another window has the focus, nor, as it never captures the mouse,   *)
(*    for a button released outside the window.                            *)
(*  - iOS (src/ios/main.mm, entry.cpp): the touch callbacks of the view    *)
(*    change one mouse state, and update() compares it with that of the    *)
(*    frame before.                                                        *)
(*  - Application and World (src/core): the keys make a velocity, and a    *)
(*    touch dragged turns the camera.                                      *)
(* A velocity is in units of speed.  A key is an axis and a direction:     *)
(* A and D, LeftShift and SpaceBar, W and S are each <<axis, -1>> and      *)
(* <<axis, 1>>.                                                            *)
(***************************************************************************)
EXTENDS Integers

CONSTANTS
  Axes,     \* of the velocity
  Fingers,  \* that may touch the screen
  Places,   \* the places of the window
  Widths,   \* the widths it may have
  NoTouch,  \* the null pointer
  MaxTurn   \* bound: how far the camera turns

ASSUME InputAssumption ==
  /\ Places \subseteq Nat /\ Widths \subseteq Nat \ {0} /\ MaxTurn \in Nat
  /\ NoTouch \notin [at : Nat, initDir : Int, last : Nat]

VARIABLES
  platform,   \* "windows" or "ios", and stays what it is
  held,       \* keys that are down
  focus,      \* the window has the focus
  missed,     \* history: keys released without a message
  keystate,   \* keystate of WndProc: keys it has given to KeyDown and not to KeyUp
  vel,        \* g_vel
  down,       \* the mouse button is down (Windows)
  fingers,    \* that touch the screen (iOS)
  lost,       \* history: the button was released without a message
  press,      \* history: where the message of the last press said it was
  mouse,      \* m_mouseState: [down, at] (iOS)
  prev,       \* the same in the frame before
  width,      \* m_width
  buttonDown, \* m_buttonDown
  touch,      \* m_activeTouch: [at, initDir, last], or NoTouch
  dir         \* the direction of the camera

keyVars   == <<held, focus, missed, keystate, vel>>
mouseVars == <<down, lost, press>>
touchVars == <<fingers, mouse, prev>>
dragVars  == <<buttonDown, touch, dir>>
inputVars == <<platform, keyVars, mouseVars, touchVars, width, dragVars>>

Keys    == Axes \X {-1, 1}
Touches == [at : Nat, initDir : Int, last : Nat]

(* The place x in parts of the width w.                                    *)
Part(x, w) == x \div w

InputTypeOK ==
  /\ platform \in {"windows", "ios"}
  /\ held \subseteq Keys /\ missed \subseteq Keys /\ keystate \subseteq Keys
  /\ vel \in [Axes -> Int]
  /\ focus \in BOOLEAN /\ down \in BOOLEAN /\ lost \in BOOLEAN
  /\ fingers \subseteq Fingers /\ press \in Nat
  /\ mouse \in [down : BOOLEAN, at : Places] /\ prev \in [down : BOOLEAN, at : Places]
  /\ width \in Widths /\ buttonDown \in BOOLEAN
  /\ touch \in Touches \cup {NoTouch}
  /\ dir \in Int

InputInit ==
  /\ platform \in {"windows", "ios"}
  /\ held = {} /\ missed = {} /\ keystate = {} /\ focus = TRUE
  /\ vel = [a \in Axes |-> 0]
  /\ down = FALSE /\ lost = FALSE /\ press = 0 /\ fingers = {}
  /\ mouse \in [down : {FALSE}, at : Places] /\ prev = mouse
  /\ width \in Widths
  /\ buttonDown = FALSE /\ touch = NoTouch /\ dir = 0
-----------------------------------------------------------------------------
(* Application and World. *)

KeyDown(k) == vel' = [vel EXCEPT ![k[1]] = @ + k[2]]

(* The axis stops, whichever of its keys is still down. *)
KeyUp(k) == vel' = [vel EXCEPT ![k[1]] = 0]

(* Mutant of TouchDown: a touch that goes on is kept. *)
TouchDownKeep(x, w) ==
  /\ buttonDown' = TRUE
  /\ touch' = IF touch = NoTouch
                THEN [at |-> Part(x, w), initDir |-> dir, last |-> Part(x, w)]
                ELSE touch
  /\ UNCHANGED dir

TouchDown(x, w) ==
  /\ buttonDown' = TRUE
  /\ touch' = [at |-> Part(x, w), initDir |-> dir, last |-> Part(x, w)]
  /\ UNCHANGED dir

(* The camera turns by twice the way from the place of the press. *)
TouchMove(x, w) ==
  IF buttonDown /\ touch # NoTouch
    THEN /\ touch' = [touch EXCEPT !.last = Part(x, w)]
         /\ dir' = touch.initDir - 2 * (Part(x, w) - touch.at)
         /\ dir' \in -MaxTurn .. MaxTurn
         /\ UNCHANGED buttonDown
    ELSE UNCHANGED dragVars

TouchUp == buttonDown' = FALSE /\ touch' = NoTouch /\ UNCHANGED dir
-----------------------------------------------------------------------------
(* Windows: keys. *)

(* Mutant of PressKey: the messages of a repeating key count. *)
PressKeyRepeats(k) ==
  /\ platform = "windows"
  /\ held' = held \cup {k}
  /\ IF focus
       THEN KeyDown(k) /\ keystate' = keystate \cup {k}
       ELSE UNCHANGED <<vel, keystate>>
  /\ UNCHANGED <<platform, focus, missed, mouseVars, touchVars, width, dragVars>>

(* A key is pressed, or repeats; keystate lets only the first message by.  *)
PressKey(k) ==
  /\ platform = "windows"
  /\ held' = held \cup {k}
  /\ IF focus /\ k \notin keystate
       THEN KeyDown(k) /\ keystate' = keystate \cup {k}
       ELSE UNCHANGED <<vel, keystate>>
  /\ UNCHANGED <<platform, focus, missed, mouseVars, touchVars, width, dragVars>>

ReleaseKey(k) ==
  /\ platform = "windows" /\ k \in held
  /\ held' = held \ {k}
  /\ IF focus
       THEN /\ missed' = missed \ {k}
            /\ IF k \in keystate
                 THEN KeyUp(k) /\ keystate' = keystate \ {k}
                 ELSE UNCHANGED <<vel, keystate>>
       ELSE missed' = missed \cup {k} /\ UNCHANGED <<vel, keystate>>
  /\ UNCHANGED <<platform, focus, mouseVars, touchVars, width, dragVars>>

(* To another window or back; WndProc handles neither. *)
ChangeFocus ==
  /\ platform = "windows"
  /\ focus' = ~focus
  /\ UNCHANGED <<platform, held, missed, keystate, vel, mouseVars, touchVars, width, dragVars>>
-----------------------------------------------------------------------------
(* Windows: the mouse. *)

PressButton(x) ==
  /\ platform = "windows" /\ ~down
  /\ down' = TRUE /\ lost' = FALSE /\ press' = Part(x, width)
  /\ TouchDown(x, width)
  /\ UNCHANGED <<platform, keyVars, touchVars, width>>

(* Outside the window: no message. *)
PressOutside ==
  /\ platform = "windows" /\ ~down
  /\ down' = TRUE
  /\ UNCHANGED <<platform, keyVars, lost, press, touchVars, width, dragVars>>

MoveMouse(x) ==
  /\ platform = "windows"
  /\ TouchMove(x, width)
  /\ UNCHANGED <<platform, keyVars, mouseVars, touchVars, width>>

(* Inside the window, or outside. *)
ReleaseButton ==
  /\ platform = "windows" /\ down
  /\ down' = FALSE
  /\ \/ TouchUp /\ UNCHANGED lost
     \/ UNCHANGED dragVars /\ lost' = TRUE
  /\ UNCHANGED <<platform, keyVars, press, touchVars, width>>

(* WM_SIZE *)
Resize(w) ==
  /\ platform = "windows" /\ width' = w
  /\ UNCHANGED <<platform, keyVars, mouseVars, touchVars, dragVars>>
-----------------------------------------------------------------------------
(* iOS: the callbacks of the view.  The place is that of any finger that   *)
(* touches; and whichever finger ends, the button of the mouse state is up.*)

TouchesBegan(f, x) ==
  /\ platform = "ios" /\ f \notin fingers
  /\ fingers' = fingers \cup {f}
  /\ mouse' = [down |-> TRUE, at |-> x]
  /\ UNCHANGED <<platform, keyVars, mouseVars, prev, width, dragVars>>

TouchesMoved(x) ==
  /\ platform = "ios" /\ fingers # {}
  /\ mouse' = [mouse EXCEPT !.at = x]
  /\ UNCHANGED <<platform, keyVars, mouseVars, fingers, prev, width, dragVars>>

(* Also touchesCancelled. *)
TouchesEnded(f, x) ==
  /\ platform = "ios" /\ f \in fingers
  /\ fingers' = fingers \ {f}
  /\ mouse' = [down |-> FALSE, at |-> x]
  /\ UNCHANGED <<platform, keyVars, mouseVars, prev, width, dragVars>>

(* A change of the button goes before a move. *)
Poll(w) ==
  CASE prev.down # mouse.down ->
         IF mouse.down THEN TouchDown(mouse.at, w) ELSE TouchUp
    [] mouse.down /\ prev.down /\ prev.at # mouse.at -> TouchMove(mouse.at, w)
    [] OTHER -> UNCHANGED dragVars

(* update(): what happened between two frames is seen as one change, after *)
(* the last size the view has had.                                         *)
UpdateIos(w) ==
  /\ platform = "ios"
  /\ prev # mouse \/ width # w
  /\ width' = w
  /\ Poll(w)
  /\ prev' = mouse
  /\ UNCHANGED <<platform, keyVars, mouseVars, fingers, mouse>>
-----------------------------------------------------------------------------
Windows ==
  \/ \E k \in Keys : PressKey(k) \/ ReleaseKey(k)
  \/ ChangeFocus
  \/ \E x \in Places : PressButton(x) \/ MoveMouse(x)
  \/ PressOutside \/ ReleaseButton
  \/ \E w \in Widths : Resize(w)

Ios ==
  \/ \E f \in Fingers, x \in Places : TouchesBegan(f, x) \/ TouchesEnded(f, x)
  \/ \E x \in Places : TouchesMoved(x)
  \/ \E w \in Widths : UpdateIos(w)

InputNext == Windows \/ Ios

InputSpec == InputInit /\ [][InputNext]_inputVars
-----------------------------------------------------------------------------
(* Properties. *)

(* The camera moves along an axis at no more than one speed, and only      *)
(* while a key of that direction is down or was released where the window  *)
(* could not see it; repeats, both keys of an axis at once and changes of  *)
(* focus between them add nothing.                                         *)
VelocityOfHeldKeys ==
  \A a \in Axes :
    /\ vel[a] \in {-1, 0, 1}
    /\ vel[a] # 0 => <<a, vel[a]>> \in held \cup missed

(* A drag is of the last press: on Windows it goes on without the button   *)
(* only if the release was outside the window, and then the next press     *)
(* begins another; on iOS it is the last frame's.  The moves of a drag     *)
(* add up, also if the window is resized in between.                       *)
DragOfLastPress ==
  /\ buttonDown = (touch # NoTouch)
  /\ platform = "windows" /\ touch # NoTouch => (down \/ lost) /\ touch.at = press
  /\ platform = "ios" => /\ buttonDown = prev.down
                         /\ buttonDown /\ fingers = {} => ~mouse.down
  /\ touch # NoTouch => dir = touch.initDir - 2 * (touch.last - touch.at)
=============================================================================
