------------------------------ MODULE SendLimit ------------------------------
(***************************************************************************)
(* CAPI/src/CAPI.cpp, SendCommandMessage: the client refuses a command     *)
(* when it and the two before came, on average, less than SendTimeLimit    *)
(* milliseconds after one another.                                         *)
(*                                                                         *)
(* Times are kept as ages, and no age beyond three limits is told from     *)
(* another (Cap): such an age alone is enough for a command to be sent.    *)
(* One thread sends at a time: the static variables have no lock.          *)
(***************************************************************************)
EXTENDS Integers, Sequences

CONSTANTS
  SendTimeLimit,
  Slack           \* what the two gaps are longer than the limit at first (5)

ASSUME LimitAssumption == SendTimeLimit \in Nat \ {0} /\ Slack \in Nat

VARIABLES
  since,      \* now - lastSendTime
  deltaSendTime,
  recent      \* history: the ages of the last three commands, youngest first

limitVars == <<since, deltaSendTime, recent>>

Window == 3 * SendTimeLimit
Ages == 0 .. Window
Cap(n) == IF n > Window THEN Window ELSE n

\* lastSendTime is 0, the beginning of 1970.
LimitInit ==
  /\ since = Window
  /\ deltaSendTime = [i \in 0 .. 1 |-> Cap(SendTimeLimit + Slack)]
  /\ recent = <<>>

Tick ==
  /\ since' = Cap(since + 1)
  /\ recent' = [i \in DOMAIN recent |-> Cap(recent[i] + 1)]
  /\ UNCHANGED deltaSendTime

\* Mutant of TooSoon: the mean of two.
TooSoonOfTwo ==
  3 * (since + deltaSendTime[1]) < 2 * Window

TooSoon == since + deltaSendTime[0] + deltaSendTime[1] < Window

Refuse == TooSoon /\ UNCHANGED limitVars

Accept ==
  /\ ~ TooSoon
  /\ since' = 0
  /\ deltaSendTime' = [i \in 0 .. 1 |-> IF i = 0 THEN deltaSendTime[1] ELSE since]
  /\ recent' = <<0>> \o SubSeq(recent, 1, IF Len(recent) > 2 THEN 2 ELSE Len(recent))

SendCommandMessage == Accept \/ Refuse

LimitSpec == LimitInit /\ [][Tick \/ SendCommandMessage]_limitVars

-----------------------------------------------------------------------------
\* A command is sent only when the third before it is three limits old: the
\* server gets at most three commands in any such time, however the program
\* times its calls (CAPI.cpp:174).
AtMostThree ==
  [][recent' # recent /\ since' = 0 /\ Len(recent) = 3 => recent[3] = Window]_limitVars

\* Its invariant: the gaps are those between the last three commands.
LimitInv ==
  /\ since \in Ages
  /\ deltaSendTime \in [0 .. 1 -> Ages]
  /\ recent \in Seq(Ages) /\ Len(recent) <= 3
  /\ Len(recent) >= 1 => recent[1] = since
  /\ Len(recent) >= 2 => recent[2] = Cap(since + deltaSendTime[1])
  /\ Len(recent) = 3 => recent[3] = Cap(since + deltaSendTime[0] + deltaSendTime[1])
=============================================================================
