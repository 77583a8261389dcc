----------------------------- MODULE MCItchLink -----------------------------
(***************************************************************************)
(* Instances of ItchLink: a feed of two messages of any of the types, with *)
(* the lengths that ITCH 5.0 gives them, and a short third one, which      *)
(* shows whether the framing is still kept.                                *)
(***************************************************************************)
EXTENDS ItchLink

\* Message n of a type: no two bytes of its body are the same, and the bytes of
\* different messages differ.
Message(type, length, n) ==
  <<0, length, type>> \o [i \in 1 .. length - 1 |-> i + 41 * (n + 2)]

Execution(n, printable) == [Message(MESSAGE_TYPE_C, 36, n) EXCEPT ![34] = printable]

\* 83 is 'S', a system event, which the parser skips; 89 is 'Y', 78 is 'N'.
MCMessages ==
  [n \in 1 .. 3 |->
     IF n = 3 THEN {Message(MESSAGE_TYPE_D, 19, n)}
     ELSE {Message(MESSAGE_TYPE_A, 36, n), Message(MESSAGE_TYPE_F, 40, n),
           Message(MESSAGE_TYPE_E, 31, n), Message(MESSAGE_TYPE_X, 23, n),
           Message(MESSAGE_TYPE_D, 19, n), Message(83, 12, n),
           Execution(n, 89), Execution(n, 78)}]
=============================================================================
