------------------------------- MODULE Talk85 -------------------------------
(***************************************************************************)
(* How the two members of team 85 make each other stop and go on           *)
(* (player_codes/85/player1.cpp and player2.cpp).  A player has one text,  *)
(* the last that the other sent, and keeps it until the next comes.        *)
(*                                                                         *)
(* Member 1 sends its text until it hears the same back, or max_speak      *)
(* times.  Member 2 answers each change of its flag stop once.             *)
(***************************************************************************)
EXTENDS Kitchen

CONSTANT max_speak   \* bound: 10 in the program

\* Both begin stopped (player1.cpp:309, player2.cpp:324).
Init ==
  /\ pc = [one |-> "work", two |-> "look"]
  /\ my = [stop1 |-> TRUE, stop2 |-> TRUE, speak |-> 0]
  /\ world = [one |-> "", two |-> "", faults |-> 0, missed |-> FALSE]

Goto(who, l) == pc' = [pc EXCEPT ![who] = l]

\* SpeakToFriend: the text takes the place of the last one.
Tell(who, text) == {[world EXCEPT ![who] = text]} \cup Fault(world)

\* Member 1 wants the other to stop (GoToCooker and others), or to go on
\* (WaitCookFinish, and DecideWhichToCook when it can do nothing).
Speak(text, stop) ==
  /\ pc.one = "work" /\ my.stop1 # stop
  /\ Goto("one", text) /\ my' = [my EXCEPT !.stop1 = stop, !.speak = 0]
  /\ UNCHANGED world
SayStop == Speak("Stop", TRUE)
SayGo == Speak("Go", FALSE)

\* It looks at what it heard before it says anything.
speakToFriend ==
  /\ pc.one \in {"Stop", "Go"}
  /\ IF world.one = pc.one \/ my.speak >= max_speak
     THEN /\ Goto("one", "work") /\ UNCHANGED my
          /\ world' = [world EXCEPT !.missed = @ \/ world.one # pc.one]
     ELSE /\ world' \in Tell("two", pc.one)
          /\ my' = [my EXCEPT !.speak = @ + 1] /\ UNCHANGED pc

\* Member 2 at the beginning of play: it changes its flag, and answers.
Hear ==
  /\ pc.two = "look" /\ world.two = IF my.stop2 THEN "Go" ELSE "Stop"
  /\ my' = [my EXCEPT !.stop2 = ~ @] /\ Goto("two", "answer") /\ UNCHANGED world
Answer ==
  /\ pc.two = "answer" /\ Goto("two", "look") /\ UNCHANGED my
  /\ \/ world' = [world EXCEPT !.one = IF my.stop2 THEN "Stop" ELSE "Go"]
     \/ \E w \in Fault(world) : world' = [w EXCEPT !.missed = TRUE]

One == SayGo \/ speakToFriend
Two == Hear \/ Answer
Next == One \/ SayStop \/ Two

-----------------------------------------------------------------------------
\* Infinitely often member 2 may work, unless an answer was lost, or member 1
\* did not wait for it.  A lost answer to "Stop" is for ever: member 1 hears
\* "Go" from before, and so never says it again.  Without the answer in time
\* both may be left waiting, member 1 for food and member 2 for "Go".
MayWork == ~ my.stop2 \/ world.missed
=============================================================================
