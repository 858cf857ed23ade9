------------------------------ MODULE Player84 ------------------------------
(***************************************************************************)
(* player_codes/84/player1.cpp and player2.cpp (the same file): four       *)
(* threads that share My, Dicision, SP and AllFood without a lock.         *)
(*                                                                         *)
(*   play           walks, picks and puts as mark_state says               *)
(*   _FlushMark     decides what to make, and sets mark_state and Force    *)
(*   _GetMessage    keeps SP and AnotherHand up to date, from what the     *)
(*                  player sees and from the texts of the other player     *)
(*   _FlushTask     keeps TaskTime, what there are tasks for (how long     *)
(*                  they will be there weighs dishes against each other:   *)
(*                  here there is one)                                     *)
(*                                                                         *)
(* SP, what it believes to lie in the stores, is a set for one store here. *)
(* Walks (see Walk84) are one step; the texts that come are counted among  *)
(* the faults.                                                             *)
(***************************************************************************)
EXTENDS Kitchen, TLC

vars == <<pc, my, world>>

Foods == {"Rice", "Egg"}    \* what is brought to the stores: rice and other food
Known == {"Rice", "CookedRice"}   \* of what is known to lie there, what is for the rice

Tasks == {None, "CookedRice", "BeefNoodle"}   \* what is asked for: one dish at a time

Init ==
  /\ pc = [play |-> "loop0", mark |-> "scan"]
  /\ my = [mark_state |-> 0, Force |-> FALSE, Dicision |-> <<>>, CookingDish |-> FALSE,
           SP |-> {}, AnotherHand |-> None, running |-> 0, TaskTime |-> None]
  /\ \E t \in Tasks : world = [posted |-> t] @@ NewWorld({"store", "pot"}, {"pot"})

Count(b) == IF b THEN 1 ELSE 0
Now(thread, l) == pc[thread] = l
Goto(thread, l) == pc' = [pc EXCEPT ![thread] = l]

\* FlushFood counts the other's dish as one more of its own (2482).
AllFood(d) ==
  Count(world.hand = d) * (IF my.AnotherHand # None THEN 2 ELSE 1) + Count(d \in my.SP)
OnlyTheOthers(d) == AllFood(d) = 1 /\ my.AnotherHand = d
FindDish(d) == AllFood(d) > 0 /\ ~ OnlyTheOthers(d)

-----------------------------------------------------------------------------
\* Of the functions C0 to C22, which tell whether a dish can be made (mark), all
\* but that of cooked rice return at once; and so do D0 to D22, which order what
\* it takes.
Makes == {"CookedRice"}
D14 == <<"Rice", "CookedRice">>
D == [d \in Makes |-> D14]

\* Cooked rice is being made, or there is rice.
C14 == ~ (AllFood("CookedRice") > 0) /\ (my.CookingDish \/ AllFood("Rice") > 0)
Insert == my.TaskTime \in Makes /\ C14 /\ world.hand # my.TaskTime

\* _FlushMark, one pass: a dish that is there for a task, or one to be made.
There == my.TaskTime # None /\ FindDish(my.TaskTime)
ScanThere ==
  /\ Now("mark", "scan") /\ There /\ my.mark_state # 3
  /\ my' = [my EXCEPT !.Force = TRUE] /\ Goto("mark", "deliver") /\ UNCHANGED world
ScanNone ==
  /\ Now("mark", "scan") /\ ~ There
  /\ my' = IF my.mark_state = 3 THEN [my EXCEPT !.mark_state = 0, !.Force = TRUE] ELSE my
  /\ Goto("mark", IF Insert THEN "clear1" ELSE "scan") /\ UNCHANGED world

\* The state is set before the decision.
Deliver == Now("mark", "deliver") /\ my' = [my EXCEPT !.mark_state = 3]
           /\ Goto("mark", "clear3") /\ UNCHANGED world
ClearD(thread, from, to) ==
  /\ Now(thread, from) /\ my' = [my EXCEPT !.Dicision = <<>>]
  /\ Goto(thread, to) /\ UNCHANGED world
WriteDeliver == Now("mark", "write3") /\ my' = [my EXCEPT !.Dicision = <<"CookedRice">>]
                /\ Goto("mark", "scan") /\ UNCHANGED world

\* The decision is ordered before the state is set.
WriteMake ==
  /\ Now("mark", "write1")
  /\ \E d \in Makes : my' = [my EXCEPT !.Dicision = D[d]]
  /\ Goto("mark", "make") /\ UNCHANGED world
Make ==
  /\ Now("mark", "make")
  /\ my' = IF my.mark_state = 1 THEN my ELSE [my EXCEPT !.mark_state = 1, !.Force = TRUE]
  /\ Goto("mark", "scan") /\ UNCHANGED world

_FlushMark ==
  \/ ScanThere \/ ScanNone \/ Deliver \/ ClearD("mark", "clear3", "write3") \/ WriteDeliver
  \/ ClearD("mark", "clear1", "write1") \/ WriteMake \/ Make

-----------------------------------------------------------------------------
\* play runs each state, that is, calls its function until it returns 0.
Enter(n, next) ==
  /\ Now("play", "loop" \o ToString(n))
  /\ IF my.mark_state = n
     THEN my' = [my EXCEPT !.running = n] /\ Goto("play", "state" \o ToString(n))
     ELSE UNCHANGED my /\ Goto("play", next)
  /\ UNCHANGED world

Return0(mine) ==
  my' = [mine EXCEPT !.running = 0] /\ Goto("play", IF mine.running = 0 THEN "loop1"
                             ELSE IF mine.running = 1 THEN "loop3" ELSE "loop0")
Return1(mine) == my' = mine /\ Goto("play", "state" \o ToString(mine.running))

\* A walk that is blocked returns -1, and 0 the third time.
Blocked(mine) == world' \in GoWrong(world) /\ (Return0(mine) \/ Return1(mine))

Forced ==
  /\ pc.play \in {"state0", "state1", "state3", "stow", "fetch"} /\ my.Force
  /\ Return0([my EXCEPT !.Force = FALSE])
  /\ UNCHANGED world
At(l) == Now("play", l) /\ (l \in {"state0", "state1", "state3", "stow", "fetch"} => ~ my.Force)

State0 ==
  /\ At("state0")
  /\ Goto("play", IF world.hand # None THEN "stow" ELSE "fetch")
  /\ UNCHANGED <<my, world>>

Stow ==
  /\ At("stow")
  /\ IF world.hand = None THEN Return0(my) /\ UNCHANGED world
     ELSE \/ /\ world' \in IF world.hand \in Known THEN Put([world EXCEPT !.at = "store"], "store")
                          ELSE ThrowAway([world EXCEPT !.at = "store"])
             /\ Return1(my)
          \/ Blocked(my)

Fetch ==
  /\ At("fetch")
  /\ IF world.hand # None THEN Return0(my) /\ UNCHANGED world
     ELSE \/ \E f \in Foods : world' \in PickFood([world EXCEPT !.at = "road"], f) /\ Return1(my)
          \/ Blocked(my)

\* FlushPlace forces it at every food point but the first it came to (2445).
ForcedAtFood ==
  /\ At("fetch") /\ Return0(my) /\ UNCHANGED world

-----------------------------------------------------------------------------
\* State1.  A decision that is cleared and not yet written has no -1 at its
\* end: what is read then is behind the array.
Finish == Return0([my EXCEPT !.Dicision = <<>>, !.mark_state = 0])

TornDecision ==
  /\ At("state1") /\ my.Dicision = <<>>
  /\ \E w \in Fault(world) :
       \/ Goto("play", "crashed") /\ world' = w /\ UNCHANGED my
       \/ Finish /\ world' = w
       \/ w.hand # None /\ Goto("play", "state0") /\ world' = w /\ UNCHANGED my
       \/ w.hand = None /\ world' \in UseCooker([w EXCEPT !.at = "pot"], "pot") /\ Return1(my)

\* At a cooker: a dish is thrown onto it, and what it has made is picked.
CookPut(w) == Put(w, "pot")
CookPick(w) == PickBlock(w, "pot")

\* The wait for the dish; then aim may be of something else than this cooker.
AwaitDish ==
  /\ At("state1") /\ my.Dicision # <<>> /\ my.CookingDish
  /\ LET w == Ready(world, "pot") IN
     world' \in IF w.at = "pot" THEN CookPick(w) ELSE {w}
  /\ Return1([my EXCEPT !.CookingDish = FALSE])

\* The last dish of the decision that is found, else the first.
End == Len(my.Dicision)
Wanted == IF FindDish(my.Dicision[End]) THEN my.Dicision[End] ELSE my.Dicision[1]

State1 ==
  /\ At("state1") /\ my.Dicision # <<>> /\ ~ my.CookingDish
  /\ UNCHANGED world
  /\ CASE world.hand = Wanted /\ Wanted = my.Dicision[End] -> Finish
       [] world.hand = Wanted /\ Wanted # my.Dicision[End] ->
            Goto("play", "cook") /\ UNCHANGED my
       [] world.hand \notin {Wanted, None} -> Goto("play", "state0") /\ UNCHANGED my
       [] world.hand = None /\ FindDish(Wanted) -> Goto("play", "take") /\ UNCHANGED my
       [] OTHER -> Goto("play", "state0") /\ my' = [my EXCEPT !.mark_state = 0]

\* ClearTable, CookPut and use; or ClearTable drops the dish it came with.
Cook ==
  /\ At("cook")
  /\ LET w == [world EXCEPT !.at = "pot", !.floor["pot"] = {}] IN
     \/ world' \in UNION {UseCooker(v, "pot") : v \in CookPut(w)}
        /\ Return1([my EXCEPT !.CookingDish = TRUE])
     \/ \E v \in Fault(w) : world' = [v EXCEPT !.hand = None]
        /\ Return0([my EXCEPT !.mark_state = 0, !.CookingDish = FALSE])
     \/ world' \in GoWrong(world) /\ (Return0(my) \/ Return1([my EXCEPT !.mark_state = 0]))

\* What is picked is read from the decision again.
Take ==
  /\ At("take")
  /\ \/ \E d \in {my.Dicision[i] : i \in DOMAIN my.Dicision} \cup {None} :
          /\ world' \in PickDish([world EXCEPT !.at = "store"], d)
          /\ IF world'.hand = d /\ d # None THEN Return1(my) ELSE Return0(my)
     \/ Blocked(my)

\* State3: it goes to where the dish is, but does not pick it (607).
State3 ==
  /\ At("state3")
  /\ IF my.Dicision = <<>> \/ ~ FindDish(my.Dicision[1])
     THEN Return0(my) /\ UNCHANGED world
     ELSE IF world.hand = my.Dicision[1]
     THEN Goto("play", "submit") /\ UNCHANGED <<my, world>>
     ELSE \/ world' \in Go(world, "store") /\ Return1(my)
          \/ Blocked(my)

Submit ==
  /\ At("submit")
  /\ \/ world' \in HandIn([world EXCEPT !.at = "road"]) /\ Return1([my EXCEPT !.Dicision = <<>>])
     \/ Blocked(my)

play ==
  \/ Enter(0, "loop1") \/ Enter(1, "loop3") \/ Enter(3, "loop0") \/ Forced
  \/ State0 \/ Stow \/ Fetch \/ TornDecision \/ AwaitDish \/ State1 \/ Cook \/ Take
  \/ State3 \/ Submit

-----------------------------------------------------------------------------
\* FlushPlace: at a store the player sees what is there.
FlushPlace ==
  /\ world.at = "store" /\ my' = [my EXCEPT !.SP = world.floor["store"] \cap Known]
  /\ UNCHANGED <<pc, world>>

\* A text is read: what is in a store (110), what the other holds (103), or what
\* it is about to do (101, 102, 112).  Each forces the player.
Read ==
  /\ \E w \in Fault(world) : world' = w
  /\ \E sp \in SUBSET Known, d \in Known \cup {None} :
       /\ sp = my.SP \/ d = my.AnotherHand
       /\ my' = [my EXCEPT !.Force = TRUE, !.SP = sp, !.AnotherHand = d]
  /\ UNCHANGED pc

FlushTask == my' = [my EXCEPT !.TaskTime = world.posted]
_FlushTask == my.TaskTime # world.posted /\ FlushTask /\ UNCHANGED <<pc, world>>

NewTask ==
  /\ \E w \in Fault(world), t \in Tasks \ {world.posted} : world' = [w EXCEPT !.posted = t]
  /\ UNCHANGED <<pc, my>>

Next == play \/ _FlushMark \/ ForcedAtFood \/ FlushPlace \/ Read \/ _FlushTask \/ NewTask

-----------------------------------------------------------------------------
\* Infinitely often: it sets out for something, unless it has crashed, or is in
\* one of the ways in which the program does end up:
\*   the decision it reads is not there; where handing in failed, _FlushMark
\*   does not write it again, for the dish is there still;
\*   it waits at a dish that lies in a store, and does not pick it;
\*   it is thrown to and fro between State1 and State0, because C14 counts the
\*   rice the other holds and FindDish does not.
NoDecision == my.mark_state # 0 /\ my.Dicision = <<>>
WaitsAtDish == my.mark_state = 3 /\ world.hand # "CookedRice" /\ "CookedRice" \in my.SP
ThrownBack == OnlyTheOthers("Rice")
SetsOut ==
  \/ pc.play \in {"stow", "fetch", "cook", "take", "submit", "crashed"}
  \/ NoDecision \/ WaitsAtDish \/ ThrownBack
=============================================================================
