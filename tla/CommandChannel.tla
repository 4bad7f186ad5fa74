--------------------------- MODULE CommandChannel ---------------------------
(***************************************************************************)
(* What the match-on-chip operations may rely on when they send commands   *)
(* through verimark_moc_send: commands are asked one at a time; an answer  *)
(* a callback gets belongs to a command of the same open session that was  *)
(* asked and not answered before, and answers arrive in the order of their *)
(* commands.  With a strict sensor, one that throws unread answers away,   *)
(* every answer belongs to the command just asked, and once a command was  *)
(* lost no later command of the session is answered.                       *)
(***************************************************************************)
EXTENDS Naturals

CONSTANT MaxAsked   \* bound on the number of the last command of a session

VARIABLES
  state,    \* "down", "up" or "asking"
  asked,    \* number of the command asked last
  given,    \* number of the command answered last
  lost,     \* has a command of this session failed?
  strict    \* does the sensor throw unread answers away?

channelVars == <<state, asked, given, lost, strict>>

Init == /\ state = "down" /\ asked = 0 /\ given = 0 /\ lost = FALSE
        /\ strict \in BOOLEAN

Up == /\ state = "down" /\ state' = "up"
      /\ asked' = 0 /\ given' = 0 /\ lost' = FALSE
      /\ UNCHANGED strict

Ask == /\ state = "up" /\ state' = "asking"
       /\ asked < MaxAsked /\ asked' = asked + 1
       /\ UNCHANGED <<given, lost, strict>>

Give == /\ state = "asking" /\ state' = "up"
        /\ strict => ~lost
        /\ \E n \in given + 1 .. asked : (strict => n = asked) /\ given' = n
        /\ UNCHANGED <<asked, lost, strict>>

Lose == /\ state = "asking" /\ state' = "up"
        /\ lost' = TRUE
        /\ UNCHANGED <<asked, given, strict>>

\* The device is closed, or its process dies.
Down == /\ state # "down" /\ state' = "down"
        /\ asked' = 0 /\ given' = 0 /\ lost' = FALSE
        /\ UNCHANGED strict

Next == Up \/ Ask \/ Give \/ Lose \/ Down

Spec == Init /\ [][Next]_channelVars

-----------------------------------------------------------------------------

\* What the operations may conclude, whatever the sensor keeps: until a command
\* of the session is lost, the answer verimark_moc_send's callback gets is the
\* answer to its own command, and no command was left out.
AnswersOwn ==
  [][Give /\ ~lost => given' = asked /\ given' = given + 1]_channelVars
=============================================================================
