------------------------------- MODULE Cooker -------------------------------
(***************************************************************************)
(* logic/Logic.Server/Block.cs, class Cooker, with the code of Player.Pick *)
(* and Player.Use that calls it: a cooker, the teams that use it and pick  *)
(* from it, and the callbacks of its two timers.  No lock guards a cooker: *)
(* every assignment to its fields is a step of its own.  The messages of a *)
(* team are handled one after the other, so a team is a thread.            *)
(*                                                                         *)
(* A dish is followed by what becomes of it: Cooking, a product of the     *)
(* recipes ("good"), a spiced pot, a DarkDish or an OverCookedDish.  All   *)
(* cooking times are CookTime; the config file gives each product its own. *)
(***************************************************************************)
EXTENDS Integers, FiniteSets

CONSTANTS
  Teams,       \* the teams (threads that handle their messages) ...
  Users,       \* ... and those among them that use the cooker, not only pick
  Pool,        \* the threads on which CookingTimer's callback runs
  Foods,       \* what may lie in the cooker's cell: see Batches
  CookTime,    \* Configs(.., "CookTime")
  MaxUses,     \* bound: how often ingredients are put into the cell
  Prompt       \* TRUE: time stands still while a thread is in a method

Batches == {"none", "recipe", "junk", "pot"}  \* pot: at least 60 points' worth

ASSUME CookerAssumption ==
  /\ Users \subseteq Teams
  /\ Foods \subseteq Batches \X BOOLEAN
  /\ CookTime \in Nat \ {0} /\ MaxUses \in Nat /\ Prompt \in BOOLEAN
  /\ Teams \cap Pool = {}

None == "none"                 \* no team: -1 in the code
Off == -1                      \* a timer that is not armed
ProtectTime == (5 * CookTime) \div 4
FreshTime == CookTime \div 2

Fresh == {"good", "spiced"}
Dishes == {"empty", "cooking", "dark", "burnt"} \cup Fresh

\* What the config file has a CookTime for under the name cookingResult holds;
\* the name of a spiced pot there ends with its rank.
Timed == {"good", "dark", "burnt"}

VARIABLES
  isCooking, dish, cookingResult, protectedTeam,   \* the fields of Cooker
  cookingTimer, protectTimer,    \* time to go, or Off
  protectCalls,                  \* callbacks of protectTimer not yet run
  cell,                          \* <<food, condiment>> in the cooker's cell
  pc,                            \* where each thread is
  batch,                         \* per thread: the product it is about to cook or serve,
                                 \* "empty" otherwise
  crashed,                       \* an exception left a timer's callback
  uses,                          \* how often the cell was filled
  starter, age,                  \* history: who started the batch that is
                                 \* protected, and when
  stolen                         \* history: a protected dish was taken by
                                 \* another team

fields == <<isCooking, dish, cookingResult, protectedTeam>>
timers == <<cookingTimer, protectTimer, protectCalls>>
history == <<starter, age, stolen>>
vars == <<fields, timers, cell, pc, batch, crashed, uses, history>>

Threads == Teams \cup Pool

Init ==
  /\ isCooking = FALSE /\ dish = "empty" /\ cookingResult = "empty"
  /\ protectedTeam = None
  /\ cookingTimer = Off /\ protectTimer = Off /\ protectCalls = 0
  /\ cell = <<"none", FALSE>>
  /\ pc = [th \in Threads |-> "idle"]
  /\ batch = [th \in Threads |-> "empty"]
  /\ crashed = FALSE
  /\ uses = 0
  /\ starter = None /\ age = 0
  /\ stolen = FALSE

Goto(th, from, to) ==
  /\ ~ crashed
  /\ pc[th] = from
  /\ pc' = [pc EXCEPT ![th] = to]

-----------------------------------------------------------------------------
\* Players put food, or a Condiment, or both, into the cell.
Fill(food) ==
  /\ ~ crashed
  /\ cell = <<"none", FALSE>> /\ uses < MaxUses
  /\ cell' = food
  /\ uses' = uses + 1
  /\ UNCHANGED <<fields, timers, pc, batch, crashed, history>>

\* Player.Use and UseCooker look at isCooking.
Use(t) ==
  /\ ~ isCooking
  /\ Goto(t, "idle", "gather")
  /\ UNCHANGED <<fields, timers, cell, batch, crashed, uses, history>>

\* What is to be cooked; "empty": nothing, or too little for a spiced pot.
Product(food, condiment) ==
  IF food = "none" THEN "empty"
  ELSE IF condiment THEN (IF food = "pot" THEN "spiced" ELSE "empty")
  ELSE IF food = "recipe" THEN "good" ELSE "dark"

\* UseCooker takes the Condiment and every dish out of the cell.
Gather(t) ==
  /\ Goto(t, "gather", IF Product(cell[1], cell[2]) = "empty" THEN "idle" ELSE "claim")
  /\ batch' = [batch EXCEPT ![t] = Product(cell[1], cell[2])]
  /\ cell' = <<"none", FALSE>>
  /\ UNCHANGED <<fields, timers, crashed, uses, history>>

Claim(t) ==
  /\ Goto(t, "claim", "protect")
  /\ isCooking' = TRUE
  /\ UNCHANGED <<dish, cookingResult, protectedTeam, timers, cell, batch, crashed, uses,
                 history>>

Protect(t) ==
  /\ Goto(t, "protect", "pot")
  /\ protectedTeam' = t
  /\ UNCHANGED <<isCooking, dish, cookingResult, timers, cell, batch, crashed, uses, history>>

FillPot(t) ==
  /\ Goto(t, "pot", "result")
  /\ dish' = "cooking"
  /\ starter' = t /\ age' = 0
  /\ UNCHANGED <<isCooking, cookingResult, protectedTeam, timers, cell, batch, crashed, uses,
                 stolen>>

\* The recipe is looked up; an unknown one leaves null until it is named.
SetResult(t) ==
  /\ Goto(t, "result", IF batch[t] = "spiced" THEN "arm" ELSE "check")
  /\ cookingResult' = IF batch[t] = "dark" THEN "null" ELSE batch[t]
  /\ UNCHANGED <<isCooking, dish, protectedTeam, timers, cell, batch, crashed, uses, history>>

CheckResult(t) ==
  /\ Goto(t, "check", IF cookingResult = "null" THEN "name" ELSE "arm")
  /\ UNCHANGED <<fields, timers, cell, batch, crashed, uses, history>>

NameResult(t) ==
  /\ Goto(t, "name", "arm")
  /\ cookingResult' = "dark"
  /\ UNCHANGED <<isCooking, dish, protectedTeam, timers, cell, batch, crashed, uses, history>>

\* The cooking time is looked up under cookingResult, which another team may
\* have written since; that of a spiced pot under the name of all pots.
TimeFound(t) == batch[t] = "spiced" \/ cookingResult \in Timed

\* Mutant of Arm: the timer is not started.
ArmNothing(t) ==
  /\ TimeFound(t)
  /\ Goto(t, "arm", "armprotect")
  /\ UNCHANGED <<fields, timers, cell, batch, crashed, uses, history>>

Arm(t) ==
  /\ TimeFound(t)
  /\ Goto(t, "arm", "armprotect")
  /\ cookingTimer' = CookTime
  /\ UNCHANGED <<fields, protectTimer, protectCalls, cell, batch, crashed, uses, history>>

ArmProtect(t) ==
  /\ TimeFound(t)
  /\ Goto(t, "armprotect", "idle")
  /\ protectTimer' = ProtectTime
  /\ batch' = [batch EXCEPT ![t] = "empty"]
  /\ UNCHANGED <<fields, cookingTimer, protectCalls, cell, crashed, uses, history>>

\* Whether the exception ends the process is up to the socket library, whose
\* callback handles messages.
ArmThrows(t) ==
  /\ ~ TimeFound(t)
  /\ Goto(t, "arm", "idle") \/ Goto(t, "armprotect", "idle")
  /\ crashed' \in BOOLEAN
  /\ batch' = [batch EXCEPT ![t] = "empty"]
  /\ UNCHANGED <<fields, timers, cell, uses, history>>

-----------------------------------------------------------------------------
\* Player.Pick: a cooker protected for another team is passed over; then an
\* empty one is.
Pick(t) ==
  /\ protectedTeam \in {None, t}
  /\ Goto(t, "idle", "see")
  /\ UNCHANGED <<fields, timers, cell, batch, crashed, uses, history>>

See(t) ==
  /\ Goto(t, "see", IF dish = "empty" THEN "idle" ELSE "reset")
  /\ UNCHANGED <<fields, timers, cell, batch, crashed, uses, history>>

\* GetDish.
Reset(t) ==
  /\ Goto(t, "reset", "stop")
  /\ cookingResult' = "empty"
  /\ UNCHANGED <<isCooking, dish, protectedTeam, timers, cell, batch, crashed, uses, history>>

StopCooking(t) ==
  /\ Goto(t, "stop", "unprotect")
  /\ isCooking' = FALSE
  /\ UNCHANGED <<dish, cookingResult, protectedTeam, timers, cell, batch, crashed, uses, history>>

Unprotect(t) ==
  /\ Goto(t, "unprotect", "take")
  /\ protectTimer' = 0
  /\ UNCHANGED <<fields, cookingTimer, protectCalls, cell, batch, crashed, uses, history>>

Take(t) ==
  /\ Goto(t, "take", "clear")
  /\ stolen' = (stolen \/ (starter \notin {None, t} /\ dish # "empty"))
  /\ UNCHANGED <<fields, timers, cell, batch, crashed, uses, starter, age>>

Clear(t) ==
  /\ Goto(t, "clear", "idle")
  /\ dish' = "empty"
  /\ starter' = None /\ age' = 0
  /\ UNCHANGED <<isCooking, cookingResult, protectedTeam, timers, cell, batch, crashed, uses,
                 stolen>>

-----------------------------------------------------------------------------
\* The timers run down; in a Prompt run only when all threads are at rest.
AtRest == (\A th \in Threads : pc[th] = "idle") /\ protectCalls = 0
Down(timer) == IF timer = Off THEN Off ELSE timer - 1

Tick ==
  /\ ~ crashed
  /\ cookingTimer # 0 /\ protectTimer # 0
  /\ Prompt => AtRest
  /\ cookingTimer' = Down(cookingTimer) /\ protectTimer' = Down(protectTimer)
  /\ age' = IF starter = None \/ age + 1 = ProtectTime THEN 0 ELSE age + 1
  /\ starter' = IF age + 1 = ProtectTime THEN None ELSE starter
  /\ UNCHANGED <<fields, protectCalls, cell, pc, batch, crashed, uses, stolen>>

FireProtect ==
  /\ ~ crashed
  /\ protectTimer = 0 /\ protectCalls < Cardinality(Teams)
  /\ protectTimer' = Off
  /\ protectCalls' = protectCalls + 1
  /\ UNCHANGED <<fields, cookingTimer, cell, pc, batch, crashed, uses, history>>

EndProtection ==
  /\ ~ crashed
  /\ protectCalls > 0
  /\ protectCalls' = protectCalls - 1
  /\ protectedTeam' = None
  /\ UNCHANGED <<isCooking, dish, cookingResult, cookingTimer, protectTimer, cell, pc,
                 batch, crashed, uses, history>>

FireCook(c) ==
  /\ cookingTimer = 0
  /\ Goto(c, "idle", "cook")
  /\ cookingTimer' = Off
  /\ UNCHANGED <<fields, protectTimer, protectCalls, cell, batch, crashed, uses, history>>

\* Mutant of Cook: the flag is not taken back.
CookStill(c) ==
  /\ Goto(c, "cook", "finish")
  /\ UNCHANGED <<fields, timers, cell, batch, crashed, uses, history>>

Cook(c) ==
  /\ Goto(c, "cook", "finish")
  /\ isCooking' = FALSE
  /\ UNCHANGED <<dish, cookingResult, protectedTeam, timers, cell, batch, crashed, uses, history>>

\* Dish = Enum.Parse(.., cookingResult): a read, which must find a name, and a
\* write.
ReadResult(c) ==
  /\ cookingResult # "null"
  /\ Goto(c, "finish", "serve")
  /\ batch' = [batch EXCEPT ![c] = cookingResult]
  /\ UNCHANGED <<fields, timers, cell, crashed, uses, history>>

Serve(c) ==
  /\ Goto(c, "serve", "keep")
  /\ dish' = batch[c]
  /\ batch' = [batch EXCEPT ![c] = "empty"]
  /\ UNCHANGED <<isCooking, cookingResult, protectedTeam, timers, cell, crashed, uses, history>>

\* Only a fresh dish will overcook: Dish > DishEmpty && Dish < DishSize2 reads
\* it twice, and a pick may come in between.
NotEmpty(c) ==
  /\ Goto(c, "keep", IF dish = "empty" THEN "idle" ELSE "edible")
  /\ UNCHANGED <<fields, timers, cell, batch, crashed, uses, history>>

Edible(c) ==
  /\ Goto(c, "edible", IF dish \in Fresh \cup {"empty"} THEN "fresh" ELSE "idle")
  /\ UNCHANGED <<fields, timers, cell, batch, crashed, uses, history>>

\* Mutant of KeepFresh: a finished dish is left alone.
KeepForever(c) ==
  /\ Goto(c, "fresh", "idle")
  /\ UNCHANGED <<fields, timers, cell, batch, crashed, uses, history>>

\* The dish is looked at again; the time of all but a pot is looked up under
\* cookingResult, which a pick may have reset: there is none for DishEmpty.
LookupFails == dish \in {"good", "empty"} /\ cookingResult \notin Timed

KeepFresh(c) ==
  /\ ~ LookupFails
  /\ Goto(c, "fresh", "overcook")
  /\ cookingTimer' = FreshTime
  /\ UNCHANGED <<fields, protectTimer, protectCalls, cell, batch, crashed, uses, history>>

\* The callback of a System.Threading.Timer: nothing catches the exception.
Crash(c) ==
  /\ \/ cookingResult = "null" /\ Goto(c, "finish", "idle")
     \/ LookupFails /\ Goto(c, "fresh", "idle")
  /\ crashed' = TRUE
  /\ UNCHANGED <<fields, timers, cell, batch, uses, history>>

Overcook(c) ==
  /\ Goto(c, "overcook", "idle")
  /\ cookingResult' = "burnt"
  /\ UNCHANGED <<isCooking, dish, protectedTeam, timers, cell, batch, crashed, uses, history>>

-----------------------------------------------------------------------------
UseStep(t) ==
  \/ Gather(t) \/ Claim(t) \/ Protect(t) \/ FillPot(t)
  \/ SetResult(t) \/ CheckResult(t) \/ NameResult(t)
  \/ Arm(t) \/ ArmProtect(t) \/ ArmThrows(t)

PickStep(t) ==
  See(t) \/ Reset(t) \/ StopCooking(t) \/ Unprotect(t) \/ Take(t) \/ Clear(t)

CookStep(c) ==
  \/ FireCook(c) \/ Cook(c) \/ ReadResult(c) \/ Serve(c)
  \/ NotEmpty(c) \/ Edible(c) \/ KeepFresh(c) \/ Crash(c) \/ Overcook(c)

Next ==
  \/ \E food \in Foods : Fill(food)
  \/ \E t \in Users : Use(t)
  \/ \E t \in Teams : UseStep(t) \/ Pick(t) \/ PickStep(t)
  \/ \E c \in Pool : CookStep(c)
  \/ FireProtect \/ EndProtection
  \/ Tick

\* Armed timers fire and what has begun goes on.  Time passes, too, also when
\* players use the cooker over and over: the methods take next to none, so that
\* all threads rest again and again, and Tick, which a Prompt run disables in
\* between, is taken.  Nobody has to use the cooker or to pick from it.
Fairness ==
  /\ SF_vars(Tick) /\ WF_vars(FireProtect) /\ WF_vars(EndProtection)
  /\ Prompt => []<>AtRest
  /\ \A t \in Teams : WF_vars(UseStep(t)) /\ WF_vars(PickStep(t))
  /\ \A c \in Pool : WF_vars(CookStep(c))

Spec == Init /\ [][Next]_vars
FairSpec == Spec /\ Fairness

-----------------------------------------------------------------------------
Labels == {"idle", "gather", "claim", "protect", "pot", "result", "check", "name", "arm",
           "armprotect", "see", "reset", "stop", "unprotect", "take", "clear",
           "cook", "finish", "serve", "keep", "edible", "fresh", "overcook"}

TypeOK ==
  /\ isCooking \in BOOLEAN
  /\ dish \in Dishes /\ cookingResult \in Dishes \cup {"null"}
  /\ protectedTeam \in Teams \cup {None}
  /\ cookingTimer \in Nat \cup {Off} /\ protectTimer \in Nat \cup {Off} /\ protectCalls \in Nat
  /\ cell \in Batches \X BOOLEAN
  /\ pc \in [Threads -> Labels]
  /\ batch \in [Threads -> Dishes]
  /\ crashed \in BOOLEAN
  /\ starter \in Teams \cup {None}
  /\ uses \in Nat /\ age \in Nat
  /\ stolen \in BOOLEAN

\* A cooker that is cooking will be released: its timer is armed, the callback
\* that takes the flag back has not done so yet, a UseCooker is on its way to
\* arm the timer and will find a cooking time, or a pick is about to take the
\* flag back (Block.cs:86-92, 104-106, 131-191).  Otherwise it could never be
\* used again, since UseCooker returns at once while the flag is set.
Arming(t) ==
  \/ pc[t] \in {"protect", "pot", "result", "name"}
  \/ pc[t] = "check" /\ cookingResult \in Timed \cup {"null"}
  \/ pc[t] = "arm" /\ TimeFound(t)

NeverStuck ==
  isCooking =>
    \/ cookingTimer # Off
    \/ \E c \in Pool : pc[c] = "cook"
    \/ \E t \in Teams : Arming(t) \/ pc[t] = "stop"

\* A fresh dish will burn unless it is taken: the timer that burns it is armed,
\* or a callback that has yet to look at the dish will arm it (Block.cs:104-115),
\* whatever picks, uses and other callbacks do meanwhile.
Keeping(c) == pc[c] \in {"cook", "finish", "serve", "keep", "edible", "fresh"}

FreshWillBurn ==
  dish \in Fresh => crashed \/ cookingTimer # Off \/ \E c \in Pool : Keeping(c)

\* No cooker cooks for ever.
CookingEnds == isCooking ~> ~ isCooking \/ crashed

\* No finished dish stays fresh for ever: it is picked or it overcooks.
FreshDishesGo == dish \in Fresh ~> dish \notin Fresh \/ crashed

-----------------------------------------------------------------------------
\* What the rules promise: while a batch is protected only the team that
\* started it takes it.
ProtectionHolds == ~ stolen
=============================================================================
