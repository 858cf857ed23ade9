---------------------------- MODULE CookerProofs ----------------------------
(***************************************************************************)
(* A cooker that is cooking is always released and a fresh dish always     *)
(* burns unless it is taken, whatever the interleaving of teams and timer  *)
(* callbacks, for any number of them.                                      *)
(***************************************************************************)
EXTENDS Cooker, TLAPS

\* The times the timers are set to.
LEMMA Times == CookTime \in Nat \ {0} /\ ProtectTime \in Nat /\ FreshTime \in Nat
<1>1. \A n \in Nat : n \div 2 \in Nat /\ (5 * n) \div 4 \in Nat
  OBVIOUS
<1>2. QED
  BY <1>1, CookerAssumption DEF ProtectTime, FreshTime

LEMMA InitTypes == Init => TypeOK
<1> SUFFICES ASSUME Init PROVE TypeOK
  OBVIOUS
<1>1. cell \in Batches \X BOOLEAN
  BY DEF Init, Batches
<1>2. stolen \in BOOLEAN /\ isCooking \in BOOLEAN /\ crashed \in BOOLEAN
  BY DEF Init
<1>3. QED
  BY <1>1, <1>2 DEF Init, TypeOK, Dishes, Labels, None

LEMMA NextTypes == TypeOK /\ [Next]_vars => TypeOK'
<1> SUFFICES ASSUME TypeOK, [Next]_vars PROVE TypeOK'
  OBVIOUS
<1> USE CookerAssumption, Times
    DEF TypeOK, Goto, Dishes, Fresh, Labels, Threads, Off, fields, timers, history
<1>1. ASSUME NEW food \in Foods, Fill(food) PROVE TypeOK'
  BY <1>1 DEF Fill
<1>2. ASSUME NEW t \in Teams, Use(t) PROVE TypeOK'
  BY <1>2 DEF Use
<1>3. ASSUME NEW t \in Teams, Gather(t) PROVE TypeOK'
  <2>1. Product(cell[1], cell[2]) \in Dishes
    BY DEF Product
  <2>2. <<"none", FALSE>> \in Batches \X BOOLEAN
    BY DEF Batches
  <2>3. QED
    BY <1>3, <2>1, <2>2 DEF Gather
<1>4. ASSUME NEW t \in Teams, Claim(t) PROVE TypeOK'
  BY <1>4 DEF Claim
<1>5. ASSUME NEW t \in Teams, Protect(t) PROVE TypeOK'
  BY <1>5 DEF Protect
<1>6. ASSUME NEW t \in Teams, FillPot(t) PROVE TypeOK'
  BY <1>6 DEF FillPot
<1>7. ASSUME NEW t \in Teams, SetResult(t) PROVE TypeOK'
  BY <1>7 DEF SetResult
<1>8. ASSUME NEW t \in Teams,
             CheckResult(t) \/ NameResult(t) \/ Arm(t) \/ ArmProtect(t) \/ ArmThrows(t)
      PROVE  TypeOK'
  <2>1. CASE CheckResult(t) \/ NameResult(t)
    BY <2>1 DEF CheckResult, NameResult
  <2>2. CASE Arm(t) \/ ArmProtect(t)
    BY <2>2 DEF Arm, ArmProtect
  <2>3. CASE ArmThrows(t)
    BY <2>3 DEF ArmThrows
  <2>4. QED
    BY <1>8, <2>1, <2>2, <2>3
<1>9. ASSUME NEW t \in Teams, Pick(t) \/ See(t) PROVE TypeOK'
  BY <1>9 DEF Pick, See
<1>10. ASSUME NEW t \in Teams, Reset(t) \/ StopCooking(t) \/ Unprotect(t) PROVE TypeOK'
  <2>1. CASE Reset(t)
    BY <2>1 DEF Reset
  <2>2. CASE StopCooking(t)
    BY <2>2 DEF StopCooking
  <2>3. CASE Unprotect(t)
    BY <2>3 DEF Unprotect
  <2>4. QED
    BY <1>10, <2>1, <2>2, <2>3
<1>11. ASSUME NEW t \in Teams, Take(t) PROVE TypeOK'
  BY <1>11 DEF Take
<1>12. ASSUME NEW t \in Teams, Clear(t) PROVE TypeOK'
  BY <1>12 DEF Clear
<1>13. ASSUME NEW c \in Pool, FireCook(c) \/ Cook(c) PROVE TypeOK'
  <2>1. CASE FireCook(c)
    BY <2>1 DEF FireCook
  <2>2. CASE Cook(c)
    BY <2>2 DEF Cook
  <2>3. QED
    BY <1>13, <2>1, <2>2
<1>14. ASSUME NEW c \in Pool, ReadResult(c) \/ Serve(c) PROVE TypeOK'
  <2>1. CASE ReadResult(c)
    BY <2>1 DEF ReadResult
  <2>2. CASE Serve(c)
    BY <2>2 DEF Serve
  <2>3. QED
    BY <1>14, <2>1, <2>2
<1>15. ASSUME NEW c \in Pool, NotEmpty(c) \/ Edible(c) \/ KeepFresh(c) PROVE TypeOK'
  <2>1. CASE NotEmpty(c)
    BY <2>1 DEF NotEmpty
  <2>2. CASE Edible(c)
    BY <2>2 DEF Edible
  <2>3. CASE KeepFresh(c)
    BY <2>3 DEF KeepFresh
  <2>4. QED
    BY <1>15, <2>1, <2>2, <2>3
<1>16. ASSUME NEW c \in Pool, Crash(c) \/ Overcook(c) PROVE TypeOK'
  <2>1. CASE Crash(c)
    BY <2>1 DEF Crash
  <2>2. CASE Overcook(c)
    BY <2>2 DEF Overcook
  <2>3. QED
    BY <1>16, <2>1, <2>2
<1>17. CASE FireProtect \/ EndProtection
  BY <1>17 DEF FireProtect, EndProtection
<1>18. CASE Tick
  BY <1>18 DEF Tick, Down
<1>19. CASE UNCHANGED vars
  BY <1>19 DEF vars
<1> HIDE DEF TypeOK, Goto, Dishes, Fresh, Labels, Threads, Off, fields, timers, history
<1>20. QED
  BY <1>1, <1>2, <1>3, <1>4, <1>5, <1>6, <1>7, <1>8, <1>9, <1>10, <1>11, <1>12, <1>13,
     <1>14, <1>15, <1>16, <1>17, <1>18, <1>19
  DEF Next, UseStep, PickStep, CookStep

\* The variables keep their types: no product outside of DishType is served.
THEOREM TypeCorrect == Spec => []TypeOK
  BY InitTypes, NextTypes, PTL DEF Spec

-----------------------------------------------------------------------------
\* A team that has taken the ingredients out is about to cook a product.
Cooked == \A t \in Teams :
  pc[t] \in {"claim", "protect", "pot", "result"} => batch[t] \in {"good", "dark", "spiced"}

LEMMA NextCooked == TypeOK /\ Cooked /\ [Next]_vars => Cooked'
<1> SUFFICES ASSUME TypeOK, Cooked, [Next]_vars, NEW u \in Teams,
                    pc'[u] \in {"claim", "protect", "pot", "result"}
             PROVE  batch'[u] \in {"good", "dark", "spiced"}
  BY DEF Cooked
<1> USE CookerAssumption DEF Cooked, TypeOK, Goto, Threads, fields, timers, history
<1>1. CASE UNCHANGED vars
  BY <1>1 DEF vars
<1>2. CASE Tick \/ FireProtect \/ EndProtection \/ \E food \in Foods : Fill(food)
  BY <1>2 DEF Tick, FireProtect, EndProtection, Fill
<1>3. ASSUME NEW t \in Teams, Gather(t) PROVE batch'[u] \in {"good", "dark", "spiced"}
  BY <1>3 DEF Gather, Product
<1>4. ASSUME NEW t \in Teams, Use(t) \/ Pick(t) \/ PickStep(t)
      PROVE  batch'[u] \in {"good", "dark", "spiced"}
  BY <1>4 DEF Use, Pick, PickStep, See, Reset, StopCooking, Unprotect, Take, Clear
<1>5. ASSUME NEW t \in Teams, UseStep(t), ~ Gather(t)
      PROVE  batch'[u] \in {"good", "dark", "spiced"}
  <2>1. CASE Claim(t) \/ Protect(t) \/ FillPot(t)
    BY <2>1 DEF Claim, Protect, FillPot
  <2>2. CASE SetResult(t) \/ CheckResult(t) \/ NameResult(t)
    BY <2>2 DEF SetResult, CheckResult, NameResult
  <2>3. CASE Arm(t) \/ ArmProtect(t) \/ ArmThrows(t)
    BY <2>3 DEF Arm, ArmProtect, ArmThrows
  <2>4. QED
    BY <1>5, <2>1, <2>2, <2>3 DEF UseStep
<1>6. ASSUME NEW c \in Pool, CookStep(c) PROVE batch'[u] \in {"good", "dark", "spiced"}
  <2>1. u # c /\ batch'[u] = batch[u] /\ pc'[u] = pc[u]
    BY <1>6 DEF CookStep, FireCook, Cook, ReadResult, Serve, NotEmpty, Edible, KeepFresh,
                Crash, Overcook
  <2>2. QED
    BY <2>1
<1>7. QED
  BY <1>1, <1>2, <1>3, <1>4, <1>5, <1>6 DEF Next

-----------------------------------------------------------------------------
\* A step of thread th that leaves isCooking and cookingTimer alone, and keeps
\* th where it matters, loses nothing; of the others it may disturb whoever
\* will look up a cooking time.
LEMMA StepKeeps ==
  ASSUME TypeOK, NeverStuck, NEW th \in Threads, NEW to,
         pc' = [pc EXCEPT ![th] = to],
         th \in Pool => pc[th] # "cook",
         \/ th \in Teams /\ pc[th] # "stop" /\ (Arming(th) => Arming(th)')
         \/ th \in Pool,
         cookingResult' = cookingResult \/ cookingResult' \in Timed,
         \A t \in Teams : t # th => batch'[t] = batch[t],
         UNCHANGED <<isCooking, cookingTimer>>
  PROVE  NeverStuck'
<1> SUFFICES ASSUME isCooking, cookingTimer = Off PROVE NeverStuck'
  BY DEF NeverStuck
<1>1. CASE \E c \in Pool : pc[c] = "cook"
  BY <1>1, CookerAssumption DEF NeverStuck, TypeOK, Threads
<1>2. ASSUME NEW t \in Teams, Arming(t) \/ pc[t] = "stop" PROVE Arming(t)' \/ pc'[t] = "stop"
  <2>1. CASE t = th
    <3>1. th \in Teams /\ th \notin Pool
      BY <2>1, CookerAssumption
    <3>2. pc[th] # "stop" /\ (Arming(th) => Arming(th)')
      BY <3>1
    <3>3. QED
      BY <1>2, <2>1, <3>2
  <2>2. CASE t # th
    <3>1. pc'[t] = pc[t] /\ batch'[t] = batch[t]
      BY <2>2 DEF TypeOK, Threads
    <3>2. QED
      BY <1>2, <3>1 DEF Arming, TimeFound
  <2>3. QED
    BY <2>1, <2>2
<1>3. QED
  BY <1>1, <1>2 DEF NeverStuck

\* UseCooker as far as it concerns the cooking time.
LEMMA UseNeverStuck ==
  ASSUME TypeOK, Cooked, NeverStuck, NEW t \in Teams, UseStep(t)
  PROVE  NeverStuck'
<1> USE CookerAssumption DEF Goto, Arming, TimeFound, Threads, fields, timers
<1>1. CASE Gather(t)
  BY <1>1, StepKeeps DEF Gather, TypeOK
<1>2. CASE Claim(t)
  BY <1>2 DEF Claim, NeverStuck, TypeOK
<1>3. CASE Protect(t)
  BY <1>3, StepKeeps DEF Protect, TypeOK
<1>4. CASE FillPot(t)
  BY <1>4, StepKeeps DEF FillPot, TypeOK
<1>5. CASE SetResult(t)
  <2>1. batch[t] \in {"good", "dark", "spiced"}
    BY <1>5 DEF SetResult, Cooked
  <2>2. CASE batch[t] = "spiced"
    BY <1>5, <2>1, <2>2 DEF SetResult, NeverStuck, TypeOK
  <2>3. CASE batch[t] \in {"dark", "good"}
    BY <1>5, <2>1, <2>3 DEF SetResult, NeverStuck, TypeOK, Timed
  <2>4. QED
    BY <2>1, <2>2, <2>3
<1>6. CASE CheckResult(t)
  <2>1. Arming(t) => Arming(t)'
    BY <1>6 DEF CheckResult, TypeOK, Timed
  <2>2. QED
    BY <1>6, <2>1, StepKeeps DEF CheckResult
<1>7. CASE NameResult(t)
  BY <1>7, StepKeeps DEF NameResult, TypeOK, Timed
<1>8. CASE Arm(t)
  BY <1>8, Times DEF Arm, NeverStuck, Off
<1>9. CASE ArmProtect(t)
  BY <1>9, StepKeeps DEF ArmProtect, TypeOK
<1>10. CASE ArmThrows(t)
  BY <1>10, StepKeeps DEF ArmThrows, TypeOK
<1>11. QED
  BY <1>1, <1>2, <1>3, <1>4, <1>5, <1>6, <1>7, <1>8, <1>9, <1>10 DEF UseStep

LEMMA PickNeverStuck ==
  ASSUME TypeOK, NeverStuck, NEW t \in Teams, Use(t) \/ Pick(t) \/ PickStep(t)
  PROVE  NeverStuck'
<1> USE CookerAssumption DEF Goto, Arming, TimeFound, Threads, fields, timers
<1>1. CASE Use(t) \/ Pick(t) \/ See(t)
  BY <1>1, StepKeeps DEF Use, Pick, See, TypeOK
<1>2. CASE Reset(t)
  BY <1>2 DEF Reset, NeverStuck, TypeOK
<1>3. CASE StopCooking(t)
  BY <1>3 DEF StopCooking, NeverStuck
<1>4. CASE Unprotect(t) \/ Take(t) \/ Clear(t)
  BY <1>4, StepKeeps DEF Unprotect, Take, Clear, TypeOK
<1>5. QED
  BY <1>1, <1>2, <1>3, <1>4 DEF PickStep

LEMMA CookNeverStuck ==
  ASSUME TypeOK, NeverStuck, NEW c \in Pool, CookStep(c)
  PROVE  NeverStuck'
<1> USE CookerAssumption DEF Goto, Threads, fields, timers
<1>1. CASE FireCook(c)
  BY <1>1 DEF FireCook, NeverStuck, TypeOK
<1>2. CASE Cook(c)
  BY <1>2 DEF Cook, NeverStuck
<1>3. CASE KeepFresh(c)
  BY <1>3, Times DEF KeepFresh, NeverStuck, Off
<1>4. CASE ReadResult(c) \/ Serve(c)
  BY <1>4, StepKeeps DEF ReadResult, Serve, TypeOK
<1>5. CASE NotEmpty(c) \/ Edible(c) \/ Crash(c)
  <2>1. CASE NotEmpty(c) \/ Edible(c)
    BY <2>1, StepKeeps DEF NotEmpty, Edible
  <2>2. CASE Crash(c)
    <3>1. /\ pc' = [pc EXCEPT ![c] = "idle"] /\ pc[c] # "cook"
          /\ UNCHANGED <<isCooking, cookingTimer, cookingResult, batch>>
      BY <2>2 DEF Crash
    <3>2. QED
      BY <3>1, StepKeeps
  <2>3. QED
    BY <1>5, <2>1, <2>2
<1>6. CASE Overcook(c)
  BY <1>6, StepKeeps DEF Overcook, Timed
<1>7. QED
  BY <1>1, <1>2, <1>3, <1>4, <1>5, <1>6 DEF CookStep

LEMMA NextNeverStuck == TypeOK /\ Cooked /\ NeverStuck /\ [Next]_vars => NeverStuck'
<1> SUFFICES ASSUME TypeOK, Cooked, NeverStuck, [Next]_vars PROVE NeverStuck'
  OBVIOUS
<1>1. CASE Tick
  BY <1>1 DEF Tick, Down, fields, NeverStuck, Arming, TimeFound, TypeOK, Off
<1>2. ASSUME NEW food \in Foods, Fill(food) PROVE NeverStuck'
  BY <1>2 DEF Fill, fields, timers, NeverStuck, Arming, TimeFound
<1>3. CASE FireProtect \/ EndProtection
  BY <1>3 DEF FireProtect, EndProtection, fields, NeverStuck, Arming, TimeFound
<1>4. CASE UNCHANGED vars
  BY <1>4 DEF vars, fields, timers, NeverStuck, Arming, TimeFound
<1>5. QED
  BY <1>1, <1>2, <1>3, <1>4, UseNeverStuck, PickNeverStuck, CookNeverStuck, CookerAssumption
  DEF Next

\* A cooker that is cooking has its timer armed, its callback under way, a
\* UseCooker about to arm it or a pick about to release it: no interleaving
\* leaves it unusable for ever.
THEOREM CookerNeverStuck == Spec => []NeverStuck
<1>1. Init => NeverStuck /\ Cooked
  BY DEF Init, NeverStuck, Cooked, Threads
<1>2. QED
  BY <1>1, InitTypes, NextTypes, NextCooked, NextNeverStuck, PTL DEF Spec

-----------------------------------------------------------------------------
\* A step of a thread that keeps the timer and makes no fresh dish.
LEMMA StepBurns ==
  ASSUME TypeOK, FreshWillBurn, NEW th \in Threads, NEW from, NEW to, Goto(th, from, to),
         th \in Pool /\ Keeping(th) => Keeping(th)' \/ crashed' \/ dish' \notin Fresh,
         dish' = dish \/ dish' \notin Fresh, crashed => crashed', UNCHANGED cookingTimer
  PROVE  FreshWillBurn'
<1> SUFFICES ASSUME dish' \in Fresh, ~ crashed' PROVE FreshWillBurn'
  BY DEF FreshWillBurn
<1>1. dish \in Fresh /\ ~ crashed
  OBVIOUS
<1>2. CASE cookingTimer # Off
  BY <1>2 DEF FreshWillBurn
<1>3. ASSUME NEW c \in Pool, Keeping(c) PROVE Keeping(c)'
  <2>1. CASE c = th
    BY <1>3, <2>1
  <2>2. CASE c # th
    BY <1>3, <2>2 DEF Keeping, Goto, TypeOK, Threads
  <2>3. QED
    BY <2>1, <2>2
<1>4. QED
  BY <1>1, <1>2, <1>3 DEF FreshWillBurn

LEMMA TeamBurns ==
  ASSUME TypeOK, FreshWillBurn, NEW t \in Teams,
         Use(t) \/ UseStep(t) \/ Pick(t) \/ PickStep(t)
  PROVE  FreshWillBurn'
<1> USE CookerAssumption DEF Threads, fields, timers
<1>1. CASE Use(t) \/ Gather(t) \/ Claim(t) \/ Protect(t) \/ Pick(t) \/ See(t)
  <2>1. CASE Use(t) \/ Claim(t)
    BY <2>1, StepBurns DEF Use, Claim
  <2>2. CASE Gather(t)
    <3>1. Goto(t, "gather", IF Product(cell[1], cell[2]) = "empty" THEN "idle" ELSE "claim")
          /\ UNCHANGED <<dish, crashed, cookingTimer>>
      BY <2>2 DEF Gather
    <3>2. t \notin Pool
      OBVIOUS
    <3>3. QED
      BY <3>1, <3>2, StepBurns
  <2>3. CASE Pick(t) \/ See(t)
    BY <2>3, StepBurns DEF Pick, See
  <2>4. CASE Protect(t)
    BY <2>4, StepBurns DEF Protect
  <2>5. QED
    BY <1>1, <2>1, <2>2, <2>3, <2>4
<1>2. CASE FillPot(t) \/ Clear(t)
  BY <1>2, StepBurns DEF FillPot, Clear, Fresh
<1>3. CASE SetResult(t) \/ CheckResult(t) \/ NameResult(t) \/ ArmProtect(t)
  BY <1>3, StepBurns DEF SetResult, CheckResult, NameResult, ArmProtect
<1>4. CASE Arm(t)
  BY <1>4, Times DEF Arm, FreshWillBurn, Off
<1>5. CASE ArmThrows(t)
  BY <1>5 DEF ArmThrows, Goto, FreshWillBurn, Keeping, TypeOK
<1>6. CASE Reset(t) \/ StopCooking(t) \/ Unprotect(t) \/ Take(t)
  BY <1>6, StepBurns DEF Reset, StopCooking, Unprotect, Take
<1>7. QED
  BY <1>1, <1>2, <1>3, <1>4, <1>5, <1>6 DEF UseStep, PickStep

LEMMA CookBurns ==
  ASSUME TypeOK, FreshWillBurn, NEW c \in Pool, CookStep(c)
  PROVE  FreshWillBurn'
<1> USE CookerAssumption DEF Threads, fields, timers
<1>1. CASE FireCook(c) \/ Serve(c)
  BY <1>1 DEF FireCook, Serve, Goto, FreshWillBurn, Keeping, TypeOK
<1>2. CASE Cook(c) \/ ReadResult(c) \/ NotEmpty(c) \/ Edible(c)
  <2>1. pc[c] \in Labels
    BY DEF TypeOK
  <2>2. CASE Cook(c) \/ ReadResult(c)
    BY <2>2, StepBurns DEF Cook, ReadResult, Goto, Keeping, TypeOK
  <2>3. CASE NotEmpty(c) \/ Edible(c)
    BY <2>3, StepBurns DEF NotEmpty, Edible, Goto, Keeping, Fresh, TypeOK
  <2>4. QED
    BY <1>2, <2>2, <2>3
<1>3. CASE KeepFresh(c)
  BY <1>3, Times DEF KeepFresh, FreshWillBurn, Off
<1>4. CASE Crash(c)
  BY <1>4 DEF Crash, FreshWillBurn
<1>5. CASE Overcook(c)
  BY <1>5, StepBurns DEF Overcook, Goto, Keeping
<1>6. QED
  BY <1>1, <1>2, <1>3, <1>4, <1>5 DEF CookStep

LEMMA NextBurns == TypeOK /\ FreshWillBurn /\ [Next]_vars => FreshWillBurn'
<1> SUFFICES ASSUME TypeOK, FreshWillBurn, [Next]_vars PROVE FreshWillBurn'
  OBVIOUS
<1>1. CASE Tick
  BY <1>1 DEF Tick, Down, fields, FreshWillBurn, Keeping, TypeOK, Off
<1>2. ASSUME NEW food \in Foods, Fill(food) PROVE FreshWillBurn'
  BY <1>2 DEF Fill, fields, timers, FreshWillBurn, Keeping
<1>3. CASE FireProtect \/ EndProtection
  BY <1>3 DEF FireProtect, EndProtection, fields, FreshWillBurn, Keeping
<1>4. CASE UNCHANGED vars
  BY <1>4 DEF vars, fields, timers, FreshWillBurn, Keeping
<1>5. QED
  BY <1>1, <1>2, <1>3, <1>4, TeamBurns, CookBurns, CookerAssumption DEF Next

\* A fresh dish has its timer armed or a callback that will arm it or sees it
\* gone: no interleaving of teams and callbacks leaves a dish fresh for ever,
\* unless a callback's exception ends the process.
THEOREM FreshDishWillBurn == Spec => []FreshWillBurn
<1>1. Init => FreshWillBurn
  BY DEF Init, FreshWillBurn, Fresh
<1>2. QED
  BY <1>1, InitTypes, NextTypes, NextBurns, PTL DEF Spec
=============================================================================
