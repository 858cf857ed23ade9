---------------------------- MODULE HandInProofs ----------------------------
(***************************************************************************)
(* No score is lost: the locks of Player.Use, of the Condiment and of      *)
(* Player.TouchTrigger suffice, for any number of teams and players.       *)
(***************************************************************************)
EXTENDS HandIn, TLAPS

\* Every scorer belongs to a team, and is none of the other threads.
LEMMA ScorerTeam ==
  ASSUME NEW th \in Scorers
  PROVE  Team(th) \in Teams /\ th \in Threads /\ th # Free /\ (th \in Teams => Team(th) = th)
  BY ThreadsAssumption DEF Scorers, Threads, Team

LEMMA InitEstablishes == Init => LockInv
<1> SUFFICES ASSUME Init PROVE LockInv
  OBVIOUS
<1>1. (CHOOSE t \in DishTypes : TRUE) \in DishTypes
  BY BoardAssumption
<1>2. BoardTypeOK(Threads, BoardLabels \cup {"enter", "score"})
  <2>1. task \in [Threads -> DishTypes]
    BY <1>1, Zenon DEF Init, BoardInit
  <2>2. taskQueue \in [DishTypes -> Counts]
    BY BoardAssumption DEF Init, BoardInit, Counts, Absent
  <2>3. pc \in [Threads -> BoardLabels \cup {"enter", "score"}]
    BY DEF Init, BoardInit, BoardLabels
  <2>4. read \in [Threads -> 0 .. UIntMax] /\ published \in [DishTypes -> Nat]
    BY BoardAssumption DEF Init, BoardInit
  <2>5. QED
    BY <2>1, <2>2, <2>3, <2>4 DEF BoardTypeOK
<1>3. /\ condiment \in [Teams -> BOOLEAN] /\ hands \in [Teams -> BOOLEAN]
      /\ crashed \in BOOLEAN
  BY Zenon DEF Init
<1>4. TypeOK
  BY <1>2, <1>3 DEF Init, TypeOK
<1>5. \A th \in Threads : pc[th] = "idle"
  BY DEF Init, BoardInit
<1>6. QED
  BY <1>4, <1>5 DEF Init, LockInv, Inside, ScoresAdd, Scorers, Threads

\* A step of one thread that neither enters nor leaves a lock, nor scores.
LEMMA StepInPlace ==
  ASSUME LockInv, NEW th \in Threads, NEW to,
         pc' = [pc EXCEPT ![th] = to],
         th \in Scorers => (Inside(th)' => Inside(th)),
         th \in Movers => to \in {"idle", "enter", "score"},
         \A t \in Teams : t # th => condiment'[t] = condiment[t],
         UNCHANGED <<lock, score, base, earned>>,
         TypeOK'
  PROVE  LockInv'
<1>1. ASSUME NEW x \in Scorers, Inside(x)' PROVE Inside(x)
  <2>1. CASE x = th
    BY <2>1, <1>1
  <2>2. CASE x # th
    <3>1. pc'[x] = pc[x]
      BY <2>2 DEF LockInv, TypeOK, Scorers, Threads
    <3>2. QED
      BY <2>2, <3>1, <1>1 DEF Inside
  <2>3. QED
    BY <2>1, <2>2
<1>2. \A x \in Scorers : Inside(x)' => lock'[Team(x)] = x /\ base'[x] = score'[Team(x)]
  BY <1>1 DEF LockInv
<1>3. \A m \in Movers : pc'[m] \in {"idle", "enter", "score"}
  BY DEF LockInv, TypeOK, BoardTypeOK, Threads
<1>4. ScoresAdd'
  BY DEF LockInv, ScoresAdd
<1>5. QED
  BY <1>2, <1>3, <1>4 DEF LockInv, Inside

-----------------------------------------------------------------------------
\* What the steps on the board leave as it is.
LEMMA BoardTypes ==
  ASSUME TypeOK, NEW th \in Threads,
         \/ \E t \in DishTypes : BeginAdd(th, t)
         \/ \E next \in {"idle", "score"} : LookUp(th, next)
         \/ AddTask(th) \/ AddTaskThrows(th) \/ RemoveTask(th) \/ RemoveTaskThrows(th)
  PROVE  BoardTypeOK(Threads, BoardLabels \cup {"enter", "score"})'
<1> USE BoardAssumption
    DEF TypeOK, BoardTypeOK, BoardLabels, Counts, Absent, Goto, Asked, Minus1, Plus1
<1>1. ASSUME NEW t \in DishTypes, BeginAdd(th, t)
      PROVE  BoardTypeOK(Threads, BoardLabels \cup {"enter", "score"})'
  BY <1>1 DEF BeginAdd
<1>2. ASSUME NEW next \in {"idle", "score"}, LookUp(th, next)
      PROVE  BoardTypeOK(Threads, BoardLabels \cup {"enter", "score"})'
  BY <1>2 DEF LookUp
<1>3. CASE TryAdd(th)
  BY <1>3 DEF TryAdd
<1>4. CASE Read(th)
  BY <1>4 DEF Read
<1>5. CASE Write(th)
  BY <1>5 DEF Write
<1>6. CASE Publish(th)
  BY <1>6 DEF Publish
<1>7. CASE AddTaskThrows(th)
  BY <1>7 DEF AddTaskThrows
<1>8. CASE Load(th)
  BY <1>8 DEF Load
<1>9. CASE Store(th)
  BY <1>9 DEF Store
<1>10. CASE Test(th)
  BY <1>10 DEF Test
<1>11. CASE TryRemove(th)
  BY <1>11 DEF TryRemove
<1>12. CASE Unpublish(th)
  BY <1>12 DEF Unpublish
<1>13. CASE RemoveTaskThrows(th)
  BY <1>13 DEF RemoveTaskThrows
<1>14. QED
  BY <1>1, <1>2, <1>3, <1>4, <1>5, <1>6, <1>7, <1>8, <1>9, <1>10, <1>11, <1>12, <1>13
  DEF AddTask, RemoveTask

LEMMA TypePreserved == TypeOK /\ [Next]_vars => TypeOK'
<1> SUFFICES ASSUME TypeOK, [Next]_vars PROVE TypeOK'
  OBVIOUS
<1> USE ThreadsAssumption, ScoresAssumption DEF Scorers, Threads, Team, counters
<1>1. ASSUME NEW t \in Teams, NEW d \in DishTypes, NEW c \in BOOLEAN, Bring(t, d, c)
      PROVE  TypeOK'
  BY <1>1 DEF Bring, Goto, TypeOK, BoardTypeOK, BoardLabels
<1>2. ASSUME NEW m \in Movers, Hit(m) PROVE TypeOK'
  BY <1>2 DEF Hit, Pass, Goto, TypeOK, BoardTypeOK, BoardLabels
<1>3. ASSUME NEW th \in Scorers, Enter(th) PROVE TypeOK'
  BY <1>3 DEF Enter, AfterEnter, Pass, Goto, TypeOK, BoardTypeOK, BoardLabels
<1>4. ASSUME NEW t \in Teams, Look(t) PROVE TypeOK'
  <2>1. \E next \in {"idle", "score"} : LookUp(t, next)
    BY <1>4 DEF Look
  <2>2. BoardTypeOK(Threads, BoardLabels \cup {"enter", "score"})'
    BY <2>1, BoardTypes
  <2>3. gain' \in [Scorers -> Int] /\ UNCHANGED <<lock, score, base, condiment, hands,
                                             crashed, counters, earned>>
    BY <1>4 DEF Look, TypeOK
  <2>4. QED
    BY <2>2, <2>3 DEF TypeOK
<1>5. ASSUME NEW th \in Scorers, AddScore(th) PROVE TypeOK'
  BY <1>5 DEF AddScore, Pass, Goto, TypeOK, BoardTypeOK, BoardLabels
<1>6. ASSUME NEW th \in Threads, TakeOff(th) PROVE TypeOK'
  BY <1>6, BoardTypes DEF TakeOff, scoreVars, TypeOK
<1>7. ASSUME NEW th \in Threads, Throw(th) PROVE TypeOK'
  BY <1>7, BoardTypes DEF Throw, TypeOK
<1>8. ASSUME NEW t \in Teams, Return(t) PROVE TypeOK'
  BY <1>8 DEF Return, Pass, Goto, TypeOK, BoardTypeOK, BoardLabels
<1>9. ASSUME NEW t \in DishTypes, ExpiryStart(t) PROVE TypeOK'
  BY <1>9 DEF ExpiryStart, Goto, TypeOK, BoardTypeOK, BoardLabels
<1>10. CASE ExpiryEnd
  BY <1>10 DEF ExpiryEnd, Pass, Goto, scoreVars, TypeOK, BoardTypeOK, BoardLabels
<1>11. ASSUME NEW t \in DishTypes, Post(t) PROVE TypeOK'
  <2>1. Producer \in Threads /\ BeginAdd(Producer, t)
    BY <1>11 DEF Post
  <2>2. BoardTypeOK(Threads, BoardLabels \cup {"enter", "score"})'
    BY <2>1, BoardTypes
  <2>3. QED
    BY <1>11, <2>2 DEF Post, TypeOK
<1>12. CASE PutUp
  BY <1>12, BoardTypes DEF PutUp, scoreVars, TypeOK
<1>13. CASE Crash
  BY <1>13, BoardTypes DEF Crash, TypeOK
<1>14. CASE Posted
  BY <1>14 DEF Posted, Pass, Goto, TypeOK, BoardTypeOK, BoardLabels
<1>15. CASE UNCHANGED vars
  BY <1>15 DEF vars, boardVars, scoreVars, TypeOK, BoardTypeOK
<1> HIDE DEF Team, counters
<1>16. QED
  BY <1>1, <1>2, <1>3, <1>4, <1>5, <1>6, <1>7, <1>8, <1>9, <1>10, <1>11, <1>12,
     <1>13, <1>14, <1>15
  DEF Next, TeamStep, MoverStep, Produce, Expire

-----------------------------------------------------------------------------
\* Taking the lock: nobody of the team was inside.
LEMMA EnterPreserves ==
  ASSUME LockInv, TypeOK', NEW th \in Scorers, Enter(th)
  PROVE  LockInv'
<1>1. Team(th) \in Teams /\ lock[Team(th)] = Free /\ pc[th] = "enter"
  BY ScorerTeam DEF Enter, Pass, Goto
<1>2. ASSUME NEW x \in Scorers, Inside(x)'
      PROVE  lock'[Team(x)] = x /\ base'[x] = score'[Team(x)]
  <2>1. CASE x = th
    BY <2>1, <1>1 DEF Enter, LockInv, TypeOK
  <2>2. CASE x # th
    <3>1. Inside(x)
      BY <2>2, <1>2, ScorerTeam DEF Inside, Enter, Pass, Goto, LockInv, TypeOK, BoardTypeOK
    <3>2. lock[Team(x)] = x /\ base[x] = score[Team(x)] /\ Team(x) # Team(th)
      BY <3>1, <1>1, ScorerTeam DEF LockInv
    <3>3. QED
      BY <2>2, <3>2, <1>1, ScorerTeam DEF Enter, LockInv, TypeOK
  <2>3. QED
    BY <2>1, <2>2
<1>3. \A m \in Movers : pc'[m] \in {"idle", "enter", "score"}
  BY ThreadsAssumption DEF Enter, Pass, Goto, AfterEnter, LockInv, TypeOK, BoardTypeOK, Threads, Scorers
<1>4. ScoresAdd'
  BY DEF Enter, LockInv, ScoresAdd
<1>5. QED
  BY <1>2, <1>3, <1>4 DEF LockInv

\* Adding to a score that was read inside the lock.
LEMMA AddScorePreserves ==
  ASSUME LockInv, TypeOK', NEW th \in Scorers, AddScore(th)
  PROVE  LockInv'
<1>1. /\ Team(th) \in Teams
      /\ lock[Team(th)] = th /\ base[th] = score[Team(th)]
  BY ScorerTeam DEF AddScore, Pass, Goto, LockInv, Inside
<1>2. ASSUME NEW x \in Scorers, Inside(x)'
      PROVE  lock'[Team(x)] = x /\ base'[x] = score'[Team(x)]
  <2>1. x # th
    BY <1>2, ScorerTeam DEF Inside, AddScore, Pass, Goto, LockInv, TypeOK, BoardTypeOK
  <2>2. Inside(x)
    BY <2>1, <1>2, ScorerTeam DEF Inside, AddScore, Pass, Goto, LockInv, TypeOK, BoardTypeOK
  <2>3. lock[Team(x)] = x /\ base[x] = score[Team(x)] /\ Team(x) # Team(th)
    BY <2>1, <2>2, <1>1, ScorerTeam DEF LockInv
  <2>4. QED
    BY <2>3, <1>1, ScorerTeam DEF AddScore, LockInv, TypeOK
<1>3. \A m \in Movers : pc'[m] \in {"idle", "enter", "score"}
  BY DEF AddScore, Pass, Goto, LockInv, TypeOK, BoardTypeOK, Threads, Scorers
<1>4. ScoresAdd'
  BY <1>1 DEF AddScore, LockInv, ScoresAdd, TypeOK
<1>5. QED
  BY <1>2, <1>3, <1>4 DEF LockInv

\* An exception gives the lock back.
LEMMA ThrowPreserves ==
  ASSUME LockInv, TypeOK', NEW th \in Threads, Throw(th)
  PROVE  LockInv'
<1>1. ASSUME NEW x \in Scorers, Inside(x)'
      PROVE  lock'[Team(x)] = x /\ base'[x] = score'[Team(x)]
  <2>1. x # th
    BY <1>1, ScorerTeam DEF Inside, Throw, RemoveTaskThrows, Goto, LockInv, TypeOK, BoardTypeOK
  <2>2. Inside(x)
    BY <2>1, <1>1, ScorerTeam DEF Inside, Throw, RemoveTaskThrows, Goto, LockInv, TypeOK, BoardTypeOK
  <2>3. QED
    BY <2>1, <2>2, ScorerTeam DEF Throw, LockInv, TypeOK
<1>2. \A m \in Movers : pc'[m] \in {"idle", "enter", "score"}
  BY DEF Throw, RemoveTaskThrows, Goto, LockInv, TypeOK, BoardTypeOK, Threads, Scorers
<1>3. ScoresAdd'
  BY DEF Throw, LockInv, ScoresAdd
<1>4. QED
  BY <1>1, <1>2, <1>3 DEF LockInv

\* Every other step.
LEMMA OtherStepsPreserve ==
  ASSUME LockInv, TypeOK',
         \/ \E t \in Teams : \/ Look(t) \/ Return(t)
                            \/ \E d \in DishTypes, c \in BOOLEAN : Bring(t, d, c)
         \/ \E m \in Movers : Hit(m)
         \/ \E th \in Teams \cup {Expiry} : TakeOff(th)
         \/ \E t \in DishTypes : ExpiryStart(t) \/ Post(t)
         \/ ExpiryEnd \/ PutUp \/ Crash \/ Posted
  PROVE  LockInv'
<1> USE ThreadsAssumption DEF Goto, Pass, Threads, Scorers, Inside
<1>1. ASSUME NEW t \in Teams, Look(t) PROVE LockInv'
  BY <1>1, StepInPlace DEF Look, LookUp, LockInv, TypeOK, BoardTypeOK
<1>2. ASSUME NEW t \in Teams, Return(t) PROVE LockInv'
  BY <1>2, StepInPlace DEF Return, LockInv, TypeOK, BoardTypeOK
<1>3. ASSUME NEW t \in Teams, NEW d \in DishTypes, NEW c \in BOOLEAN, Bring(t, d, c)
      PROVE  LockInv'
  <2>1. /\ pc' = [pc EXCEPT ![t] = IF c THEN "look" ELSE "enter"]
        /\ condiment' = [condiment EXCEPT ![t] = c]
        /\ UNCHANGED <<lock, score, base, earned>>
    BY <1>3 DEF Bring
  <2>2. condiment'[t] = c /\ \A x \in Teams : x # t => condiment'[x] = condiment[x]
    BY <2>1 DEF LockInv, TypeOK
  <2>3. pc'[t] = IF c THEN "look" ELSE "enter"
    BY <2>1 DEF LockInv, TypeOK, BoardTypeOK
  <2>4. ~ Inside(t)'
    BY <2>2, <2>3
  <2>5. QED
    BY <2>1, <2>2, <2>4, StepInPlace
<1>4. ASSUME NEW m \in Movers, Hit(m) PROVE LockInv'
  BY <1>4, StepInPlace DEF Hit, LockInv, TypeOK, BoardTypeOK
<1>5. ASSUME NEW th \in Teams \cup {Expiry}, TakeOff(th) PROVE LockInv'
  <2>1. UNCHANGED <<lock, score, base, earned, condiment>>
    BY <1>5 DEF TakeOff, scoreVars
  <2>2. CASE Load(th)
    BY <2>1, <2>2, StepInPlace DEF Load, LockInv, TypeOK, BoardTypeOK
  <2>3. CASE Store(th)
    BY <2>1, <2>3, StepInPlace DEF Store, LockInv, TypeOK, BoardTypeOK
  <2>4. CASE Test(th)
    BY <2>1, <2>4, StepInPlace DEF Test, LockInv, TypeOK, BoardTypeOK
  <2>5. CASE TryRemove(th)
    BY <2>1, <2>5, StepInPlace DEF TryRemove, LockInv, TypeOK, BoardTypeOK
  <2>6. CASE Unpublish(th)
    BY <2>1, <2>6, StepInPlace DEF Unpublish, LockInv, TypeOK, BoardTypeOK
  <2>7. QED
    BY <1>5, <2>2, <2>3, <2>4, <2>5, <2>6 DEF TakeOff, RemoveTask
<1>6. ASSUME NEW t \in DishTypes, ExpiryStart(t) PROVE LockInv'
  BY <1>6, StepInPlace DEF ExpiryStart
<1>7. CASE ExpiryEnd
  BY <1>7, StepInPlace DEF ExpiryEnd, scoreVars
<1>8. ASSUME NEW t \in DishTypes, Post(t) PROVE LockInv'
  BY <1>8, StepInPlace DEF Post, BeginAdd
<1>9. CASE PutUp
  <2>1. UNCHANGED <<lock, score, base, earned, condiment>>
    BY <1>9 DEF PutUp, scoreVars
  <2>2. \E to : pc' = [pc EXCEPT ![Producer] = to]
    BY <1>9 DEF PutUp, AddTask, TryAdd, Read, Write, Publish
  <2>3. QED
    BY <2>1, <2>2, StepInPlace
<1>10. CASE Crash
  BY <1>10, StepInPlace DEF Crash, AddTaskThrows
<1>11. CASE Posted
  BY <1>11, StepInPlace DEF Posted
<1> HIDE DEF Inside, Goto, Pass, Threads, Scorers
<1>12. QED
  BY <1>1, <1>2, <1>3, <1>4, <1>5, <1>6, <1>7, <1>8, <1>9, <1>10, <1>11

LEMMA NextPreserves == LockInv /\ [Next]_vars => LockInv'
<1> SUFFICES ASSUME LockInv, [Next]_vars PROVE LockInv'
  OBVIOUS
<1>1. TypeOK'
  BY TypePreserved DEF LockInv
<1>2. CASE UNCHANGED vars
  BY <1>1, <1>2 DEF vars, boardVars, scoreVars, LockInv, Inside, ScoresAdd
<1>3. ASSUME NEW th \in Scorers, Enter(th) \/ AddScore(th) PROVE LockInv'
  BY <1>1, <1>3, EnterPreserves, AddScorePreserves
<1>4. ASSUME NEW th \in Teams \cup {Expiry}, Throw(th) PROVE LockInv'
  BY <1>1, <1>4, ThrowPreserves DEF Threads
<1>5. QED
  BY <1>1, <1>2, <1>3, <1>4, OtherStepsPreserve
  DEF Next, TeamStep, MoverStep, Produce, Expire, Scorers

\* Whoever is inside a team's lock has read the team's current score, in every
\* reachable state.
THEOREM LockInvariant == Spec => []LockInv
  BY InitEstablishes, NextPreserves, PTL DEF Spec

\* No gain and no loss of a team is overwritten by a concurrent one.
THEOREM NoScoreLost == Spec => []ScoresAdd
<1>1. LockInv => ScoresAdd
  BY DEF LockInv
<1>2. QED
  BY <1>1, LockInvariant, PTL
=============================================================================
