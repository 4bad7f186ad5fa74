------------------------------ MODULE RoundTrip ------------------------------
(***************************************************************************)
(* What a command's round trip over EP0 may do (abstract): the sensor gets *)
(* the command whole or not at all, whatever the driver is told; the       *)
(* driver gets an answer whole, or a part of one, or an error; what is     *)
(* left of an answer nobody finished reading may stay in the sensor.       *)
(* Session is built from these operations; Transport implements them.      *)
(***************************************************************************)
EXTENDS Naturals, Sequences

CONSTANTS
  Commands, Answers,   \* what is sent and what the sensor answers
  Rest,                \* a part of an answer
  Failed,              \* the driver got an error
  QueueSize            \* bound on the commands and answers in the sensor

VARIABLES
  wire,     \* "idle", or "sent": the driver reads
  inq,      \* commands the sensor has and did not execute
  ans,      \* answers nobody has read
  got,      \* what the driver got last
  strict    \* does the sensor drop both when a new command starts?

tripVars == <<wire, inq, ans, got, strict>>

Init == /\ wire = "idle" /\ inq = <<>> /\ ans = <<>> /\ got = Failed
        /\ strict \in BOOLEAN

Room == strict \/ Len(inq) + Len(ans) < QueueSize

\* The whole command is in the sensor.
Arrives(c) ==
  /\ Room
  /\ inq' = IF strict THEN <<c>> ELSE Append(inq, c)
  /\ ans' = IF strict THEN <<>> ELSE ans

\* Its beginning is, and may stay alone.
Begins == strict /\ inq' = <<>> /\ ans' = <<>>

\* The first unread answer is lost, or all but a part of it.
Spoilt == ans # <<>> /\ ans' \in {Tail(ans), <<Rest>> \o Tail(ans)}

Begin == /\ wire = "idle" /\ Begins
         /\ UNCHANGED <<wire, got, strict>>

\* A driver that is not told of an error has at least begun.
Write(c) == /\ wire = "idle"
            /\ \/ /\ Arrives(c) \/ Begins \/ (~strict /\ UNCHANGED <<inq, ans>>)
                  /\ wire' = "sent" /\ UNCHANGED got
               \/ /\ Arrives(c) \/ Begins \/ UNCHANGED <<inq, ans>>
                  /\ wire' = "idle" /\ got' = Failed
            /\ UNCHANGED strict

Read == /\ wire = "sent" /\ wire' = "idle"
        /\ \/ Spoilt /\ got' \in {Head(ans), Rest, Failed}
           \/ UNCHANGED ans /\ got' = Failed
        /\ UNCHANGED <<inq, strict>>

\* A read the driver tries again, or goes on with.
Retry == /\ wire = "sent" /\ Spoilt
         /\ UNCHANGED <<wire, inq, got, strict>>

Execute(a) == /\ inq # <<>> /\ inq' = Tail(inq) /\ ans' = Append(ans, a)
              /\ UNCHANGED <<wire, got, strict>>

Next == \/ Begin \/ Read \/ Retry
        \/ \E c \in Commands : Write(c)
        \/ \E a \in Answers : Execute(a)

Spec == Init /\ [][Next]_tripVars
=============================================================================
