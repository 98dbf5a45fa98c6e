---------------------------- MODULE InputEvents ----------------------------
(***************************************************************************)
(* The input events a viewer's page sends to the host as JSON              *)
(* (client/input.mjs, and InputEvent in host/src/input.rs), and Reset,     *)
(* which the host sends itself.  `at' is a position or a distance along    *)
(* one axis, in parts of the video frame; the other axis is like it.       *)
(***************************************************************************)
EXTENDS Integers, Sequences, FiniteSets

Button == {"left", "right"}
Modifier == {"shift", "meta"}   \* of four; the code treats them alike

EventType == {"down", "move", "up", "move_rel", "click", "press", "release",
              "scroll", "text", "key", "reset"}

InputEvent == [type : EventType, button : Button, at : Int, mods : SUBSET Modifier]

Event(t) == [type |-> t, button |-> "left", at |-> 0, mods |-> {}]

Click(b)     == [Event("click") EXCEPT !.button = b]
Press(b)     == [Event("press") EXCEPT !.button = b]
Release(b)   == [Event("release") EXCEPT !.button = b]
Down(x)      == [Event("down") EXCEPT !.at = x]
MoveTo(x)    == [Event("move") EXCEPT !.at = x]
Up(x)        == [Event("up") EXCEPT !.at = x]
MoveRel(dx)  == [Event("move_rel") EXCEPT !.at = dx]
Scroll(dx)   == [Event("scroll") EXCEPT !.at = dx]
Key(mods)    == [Event("key") EXCEPT !.mods = mods]
Text         == Event("text")
Reset        == Event("reset")
=============================================================================
