------------------------------- MODULE Typist -------------------------------
(***************************************************************************)
(* What the keyboard promises: keys are struck one at a time, and each has *)
(* its effect on the text before the next one is struck.  After            *)
(* COUNT_LIMIT codes nothing that is typed has an effect any more.         *)
(***************************************************************************)
EXTENDS Integers, Sequences

CONSTANTS
  Keys,          \* keys of the keyboard
  Letters,       \* keys that shift and caps lock make upper case, as their characters
  Symbols,       \* keys that only shift changes, as their characters
  Plain,         \* keys that nothing changes, as their characters
  COUNT_LIMIT

VARIABLES
  text,          \* what was typed: characters, and whether they are upper ones
  shift, caps,
  struck,        \* the key that was struck and has had no effect yet
  codes          \* codes handled so far, of keys or of nothing

vars == <<text, shift, caps, struck, codes>>

Events == [key : Keys, down : BOOLEAN]
Nothing == [key |-> "none", down |-> FALSE]

Init ==
  /\ text = << >> /\ shift = FALSE /\ caps = FALSE
  /\ struck = Nothing /\ codes = 0

Strike ==
  /\ struck = Nothing /\ struck' \in Events
  /\ UNCHANGED <<text, shift, caps, codes>>

Typed(key) ==
  CASE key \in DOMAIN Letters -> <<[char |-> Letters[key], upper |-> shift \/ caps]>>
    [] key \in DOMAIN Symbols -> <<[char |-> Symbols[key], upper |-> shift]>>
    [] key \in DOMAIN Plain   -> <<[char |-> Plain[key], upper |-> FALSE]>>
    [] OTHER                  -> << >>

(* Keys type when they go down; shift works as long as it is held.          *)
Effect ==
  /\ codes < COUNT_LIMIT /\ codes' = codes + 1
  /\ text' = IF struck.down THEN text \o Typed(struck.key) ELSE text
  /\ shift' = IF struck.key = "shift" THEN struck.down ELSE shift
  /\ caps' = IF struck.key = "caps" /\ struck.down THEN ~caps ELSE caps
  /\ struck' = Nothing

Deaf ==
  /\ codes = COUNT_LIMIT /\ struck' = Nothing
  /\ UNCHANGED <<text, shift, caps, codes>>

Next == Strike \/ Effect \/ Deaf

Spec == Init /\ [][Next]_vars
=============================================================================
