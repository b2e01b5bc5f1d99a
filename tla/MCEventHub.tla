---- MODULE MCEventHub ----
(* EventHub with one or two nodes: the first is a game controller with a
   keyboard, the second a keyboard that may become the built-in one. *)
EXTENDS EventHub
CONSTANTS pad, kbd
Pad == {"keys", "buttons", "axis", "keymap", "padKeys", "eligible"}
Kbd == {"keys", "keymap", "eligible", "Q"}
NodeCapabilities == [n \in Nodes |-> IF n = pad THEN Pad ELSE Kbd]
====
