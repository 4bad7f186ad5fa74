------------------------ MODULE CommandChannelProofs ------------------------
(***************************************************************************)
(* What CommandChannel's promises say together, for every MaxAsked: an     *)
(* operation that sees no command fail may take each answer for its own.   *)
(***************************************************************************)
EXTENDS CommandChannel, TLAPS

\* Until a command is lost, every command but the one in flight was answered.
Balanced ==
  /\ state \in {"down", "up", "asking"} /\ asked \in Nat /\ given \in 0..asked
  /\ state = "up" /\ ~lost => given = asked
  /\ state = "asking" => asked >= 1 /\ (~lost => given = asked - 1)

\* Every step of the channel keeps it so.
THEOREM BalanceKept == Spec => []Balanced
<1>1. Init => Balanced
  BY DEF Init, Balanced
<1>2. Balanced /\ [Next]_channelVars => Balanced'
  <2> SUFFICES ASSUME Balanced, [Next]_channelVars PROVE Balanced'
    OBVIOUS
  <2> USE DEF Balanced
  <2>1. CASE Up
    BY <2>1 DEF Up
  <2>2. CASE Ask
    BY <2>2 DEF Ask
  <2>3. CASE Give
    <3>1. PICK n \in given + 1 .. asked : given' = n
      BY <2>3 DEF Give
    <3> QED BY <2>3, <3>1 DEF Give
  <2>4. CASE Lose
    BY <2>4 DEF Lose
  <2>5. CASE Down
    BY <2>5 DEF Down
  <2>6. CASE UNCHANGED channelVars
    BY <2>6 DEF channelVars
  <2> QED BY <2>1, <2>2, <2>3, <2>4, <2>5, <2>6 DEF Next
<1> QED BY <1>1, <1>2, PTL DEF Spec

\* An answer given before any loss is the answer to the command just asked.
THEOREM AnswersAreOwn == Spec => AnswersOwn
<1>1. Balanced => [Give /\ ~lost => given' = asked /\ given' = given + 1]_channelVars
  <2> SUFFICES ASSUME Balanced, Give, ~lost PROVE given' = asked /\ given' = given + 1
    OBVIOUS
  <2>1. PICK n \in given + 1 .. asked : given' = n
    BY DEF Give
  <2>2. given = asked - 1 /\ asked \in Nat /\ given \in Nat
    BY DEF Balanced, Give
  <2> QED BY <2>1, <2>2
<1> QED BY <1>1, BalanceKept, PTL DEF AnswersOwn
=============================================================================
