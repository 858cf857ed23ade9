--------------------------- MODULE PlayersProofs ---------------------------
(***************************************************************************)
(* What runs on a player's machine.  First the limit on commands, then what *)
(* the programs 88, 92, 87, 85, 79 and 105 are relied on for, for any faults, *)
(* tasks and plans; and the picture of the game the client keeps, for any    *)
(* number of objects, cells and reading threads and any messages.           *)
(***************************************************************************)
EXTENDS Players, WaysProofs

-----------------------------------------------------------------------------
(* The limit on commands.                                                   *)

LEMMA ShortLength ==
  ASSUME NEW S, NEW s \in Seq(S), Len(s) <= 3
  PROVE  Len(s) \in {0, 1, 2, 3}
<1>1. PICK n \in Nat : n = Len(s)
  OBVIOUS
<1> QED
  BY <1>1

LEMMA Shift ==
  ASSUME NEW S, NEW s \in Seq(S), Len(s) <= 3, NEW x \in S, NEW t,
         t = <<x>> \o SubSeq(s, 1, IF Len(s) > 2 THEN 2 ELSE Len(s))
  PROVE  /\ t \in Seq(S) /\ Len(t) \in 1 .. 3 /\ t[1] = x
         /\ Len(t) >= 2 => Len(s) >= 1 /\ t[2] = s[1]
         /\ Len(t) = 3 => Len(s) >= 2 /\ t[3] = s[2]
<1> DEFINE n == IF Len(s) > 2 THEN 2 ELSE Len(s)
           k == SubSeq(s, 1, n)
<1>0. Len(s) \in {0, 1, 2, 3}
  BY ShortLength
<1>1. n \in 0 .. 2 /\ n <= Len(s)
  BY <1>0
<1>2. k \in Seq(S) /\ Len(k) = n /\ \A i \in 1 .. n : k[i] = s[i]
  <2> HIDE DEF n
  <2> QED
    BY <1>1
<1>3. t = <<x>> \o k
  OBVIOUS
<1> HIDE DEF k, n
<1> QED
  BY <1>1, <1>2, <1>3

LEMMA CapLater ==
  ASSUME NEW a \in Nat, NEW b \in Nat
  PROVE  Cap(Cap(a + b) + 1) = Cap(Cap(a + 1) + b)
BY LimitAssumption DEF Cap, Window

LEMMA LimitInvariant == LimitSpec => []LimitInv
<1> USE LimitAssumption DEF LimitInv, Ages, Window, Cap
<1>1. LimitInit => LimitInv
  BY DEF LimitInit
<1>2. LimitInv /\ [Tick \/ SendCommandMessage]_limitVars => LimitInv'
  <2> SUFFICES ASSUME LimitInv, [Tick \/ SendCommandMessage]_limitVars PROVE LimitInv'
    OBVIOUS
  <2>1. CASE Tick
    <3>1. /\ recent' \in Seq(Ages) /\ Len(recent') = Len(recent)
          /\ \A i \in 1 .. Len(recent) : recent'[i] = Cap(recent[i] + 1)
      <4>1. recent' = [i \in 1 .. Len(recent) |-> Cap(recent[i] + 1)]
        BY <2>1 DEF Tick
      <4>2. \A i \in 1 .. Len(recent) : Cap(recent[i] + 1) \in Ages
        OBVIOUS
      <4>3. Len(recent) \in Nat
        OBVIOUS
      <4> HIDE DEF Cap, Ages, LimitInv
      <4> QED
        BY <4>1, <4>2, <4>3
    <3>2. since \in 0 .. Window /\ deltaSendTime[0] \in 0 .. Window /\ deltaSendTime[1] \in 0 .. Window
      OBVIOUS
    <3>3. /\ Len(recent) \in 0 .. 3
          /\ \A i \in 1 .. 3 : i <= Len(recent) => recent'[i] = Cap(recent[i] + 1)
      <4>1. Len(recent) \in Nat /\ Len(recent) <= 3
        OBVIOUS
      <4> HIDE DEF Cap, Ages, LimitInv
      <4> QED
        BY <3>1, <4>1
    <3>4. /\ Len(recent) >= 1 => recent'[1] = since'
          /\ Len(recent) >= 2 => recent'[2] = Cap(since' + deltaSendTime[1])
          /\ Len(recent) = 3 => recent'[3] = Cap(since' + deltaSendTime[0] + deltaSendTime[1])
      <4>1. /\ Len(recent) >= 1 => recent'[1] = Cap(recent[1] + 1)
            /\ Len(recent) >= 2 => recent'[2] = Cap(recent[2] + 1)
            /\ Len(recent) = 3 => recent'[3] = Cap(recent[3] + 1)
        <5> HIDE DEF Cap, Ages, LimitInv
        <5> QED
          BY <3>3
      <4>2. since' = Cap(since + 1)
        BY <2>1 DEF Tick
      <4>3. /\ Len(recent) >= 1 => recent[1] = since
            /\ Len(recent) >= 2 => recent[2] = Cap(since + deltaSendTime[1])
            /\ Len(recent) = 3 => recent[3] = Cap(since + deltaSendTime[0] + deltaSendTime[1])
        OBVIOUS
      <4>4. /\ since \in Nat /\ deltaSendTime[1] \in Nat
            /\ deltaSendTime[0] + deltaSendTime[1] \in Nat
            /\ since + deltaSendTime[0] + deltaSendTime[1] =
                 since + (deltaSendTime[0] + deltaSendTime[1])
            /\ since' + deltaSendTime[0] + deltaSendTime[1] =
                 since' + (deltaSendTime[0] + deltaSendTime[1])
        BY <3>2, <4>2
      <4> HIDE DEF LimitInv, Window, Ages, Cap
      <4>5. Cap(Cap(since + deltaSendTime[1]) + 1) = Cap(since' + deltaSendTime[1])
        BY <4>2, <4>4, CapLater
      <4>6. Cap(Cap(since + (deltaSendTime[0] + deltaSendTime[1])) + 1) =
              Cap(since' + (deltaSendTime[0] + deltaSendTime[1]))
        BY <4>2, <4>4, CapLater
      <4> QED
        BY <4>1, <4>2, <4>3, <4>4, <4>5, <4>6
    <3> QED
      BY <2>1, <3>1, <3>4 DEF Tick
  <2>2. CASE Accept
    <3>1. since' = 0 /\ deltaSendTime'[0] = deltaSendTime[1] /\ deltaSendTime'[1] = since
          /\ deltaSendTime' \in [0 .. 1 -> Ages]
      BY <2>2 DEF Accept
    <3>2. recent' = <<0>> \o SubSeq(recent, 1, IF Len(recent) > 2 THEN 2 ELSE Len(recent))
      BY <2>2 DEF Accept
    <3>3. recent \in Seq(Ages) /\ Len(recent) <= 3 /\ 0 \in Ages
      OBVIOUS
    <3>4. /\ recent' \in Seq(Ages) /\ Len(recent') \in 1 .. 3 /\ recent'[1] = 0
          /\ Len(recent') >= 2 => Len(recent) >= 1 /\ recent'[2] = recent[1]
          /\ Len(recent') = 3 => Len(recent) >= 2 /\ recent'[3] = recent[2]
      <4> HIDE DEF LimitInv, Ages
      <4> QED
        BY <3>2, <3>3, Shift
    <3>5. Len(recent) >= 1 => recent[1] = since /\ since \in Ages
      OBVIOUS
    <3>6. Len(recent) >= 2 => recent[2] = Cap(since + deltaSendTime[1])
      OBVIOUS
    <3>7. Len(recent') >= 2 => recent'[2] = Cap(since' + deltaSendTime'[1])
      <4> HIDE DEF LimitInv
      <4> QED
        BY <3>1, <3>4, <3>5
    <3>8. Len(recent') = 3 => recent'[3] = Cap(since' + deltaSendTime'[0] + deltaSendTime'[1])
      <4>1. deltaSendTime[1] \in Ages /\ since \in Ages
        OBVIOUS
      <4>2. since' + deltaSendTime'[0] + deltaSendTime'[1] = since + deltaSendTime[1]
        BY <3>1, <4>1
      <4> HIDE DEF LimitInv, Cap, Ages
      <4> QED
        BY <3>4, <3>6, <4>2
    <3>9. since' \in Ages
      BY <3>1
    <3>10. LimitInv'
      <4>1. Len(recent') <= 3 /\ Len(recent') >= 1
        <5>1. PICK n \in 1 .. 3 : n = Len(recent')
          BY <3>4
        <5> HIDE DEF LimitInv, Ages, Window, Cap
        <5> QED
          BY <5>1
      <4> HIDE DEF Cap, Ages, Window, LimitInv
      <4> QED
        BY <3>1, <3>4, <3>7, <3>8, <3>9, <4>1 DEF LimitInv
    <3> QED
      BY <3>10
  <2>3. CASE Refuse \/ UNCHANGED limitVars
    BY <2>3 DEF Refuse, limitVars
  <2> QED
    BY <2>1, <2>2, <2>3 DEF SendCommandMessage
<1> QED
  BY <1>1, <1>2, PTL DEF LimitSpec

\* Whenever a program calls, no four commands are sent within three limits.
THEOREM CommandsAreLimited == LimitSpec => AtMostThree
<1> USE LimitAssumption DEF LimitInv, Ages, Window, Cap
<1>1. LimitInv /\ [Tick \/ SendCommandMessage]_limitVars =>
        [recent' # recent /\ since' = 0 /\ Len(recent) = 3 => recent[3] = Window]_limitVars
  <2> SUFFICES ASSUME LimitInv, Tick \/ SendCommandMessage, recent' # recent, since' = 0,
                      Len(recent) = 3
               PROVE  recent[3] = Window
    OBVIOUS
  <2>1. ~ Tick
    <3>1. since \in Nat /\ SendTimeLimit \in Nat \ {0}
      OBVIOUS
    <3>2. Cap(since + 1) # 0
      BY <3>1
    <3> QED
      BY <3>2 DEF Tick
  <2>2. ~ Refuse
    BY DEF Refuse, limitVars
  <2>3. since + deltaSendTime[0] + deltaSendTime[1] >= Window
    <3>1. ~ TooSoon
      BY <2>1, <2>2 DEF SendCommandMessage, Accept
    <3>2. since \in Int /\ deltaSendTime[0] \in Int /\ deltaSendTime[1] \in Int
      <4>1. \A n \in 0 .. 3 * SendTimeLimit : n \in Int
        OBVIOUS
      <4>2. deltaSendTime[0] \in Ages /\ deltaSendTime[1] \in Ages /\ since \in Ages
        OBVIOUS
      <4> QED
        BY <4>1, <4>2
    <3> QED
      BY <3>1, <3>2 DEF TooSoon
  <2>4. recent[3] = Cap(since + deltaSendTime[0] + deltaSendTime[1])
    OBVIOUS
  <2> QED
    <3>1. since + deltaSendTime[0] + deltaSendTime[1] = Window
            \/ since + deltaSendTime[0] + deltaSendTime[1] > Window
      <4>1. since \in Int /\ deltaSendTime[0] \in Int /\ deltaSendTime[1] \in Int
        <5>1. \A n \in 0 .. 3 * SendTimeLimit : n \in Int
          OBVIOUS
        <5>2. deltaSendTime[0] \in Ages /\ deltaSendTime[1] \in Ages /\ since \in Ages
          OBVIOUS
        <5> QED
          BY <5>1, <5>2
      <4> DEFINE sum == since + deltaSendTime[0] + deltaSendTime[1]
      <4>2. sum \in Int /\ Window \in Int
        BY <4>1
      <4>3. sum >= Window
        BY <2>3
      <4> HIDE DEF LimitInv, Ages, Window, Cap, sum
      <4>4. sum = Window \/ sum > Window
        BY <4>2, <4>3
      <4> QED
        BY <4>4 DEF sum
    <3> QED
      BY <2>4, <3>1
<1> QED
  BY <1>1, LimitInvariant, PTL DEF LimitSpec, AtMostThree

-----------------------------------------------------------------------------
(* Program 88: which commands of the cook change what its partner is told. *)

Talks(w) == {"recieveText", "late"} \subseteq DOMAIN w
Silent(v, w) == Talks(v) /\ v.late = w.late /\ v.recieveText = w.recieveText

\* Nothing in the kitchen does.
LEMMA FaultSilent ==
  ASSUME NEW w, Talks(w) PROVE \A v \in P88!Fault(w) : Silent(v, w)
BY DEF P88!Fault, Silent, Talks

LEMMA KitchenSilent ==
  ASSUME NEW w, Talks(w), NEW p, NEW d
  PROVE  /\ \A v \in P88!Go(w, p) \cup P88!GoWrong(w) : Silent(v, w)
         /\ \A v \in P88!PickFood(w, d) \cup P88!PickDish(w, d) \cup P88!PickBlock(w, p) : Silent(v, w)
         /\ \A v \in P88!Put(w, p) \cup P88!ThrowAway(w) \cup P88!HandIn(w) : Silent(v, w)
         /\ \A v \in P88!UseCooker(w, p) : Silent(v, w)
         /\ Silent(P88!Ready(w, p), w) /\ \A v \in P88!Taken(w) : Silent(v, w)
<1> USE FaultSilent DEF P88!Or, Silent, Talks
<1>1. \A v \in P88!Go(w, p) : Silent(v, w)
  BY DEF P88!Go
<1>2. \A v \in P88!GoWrong(w) : Silent(v, w)
  BY DEF P88!GoWrong
<1>3. \A v \in P88!PickFood(w, d) : Silent(v, w)
  BY DEF P88!PickFood
<1>4. \A v \in P88!PickDish(w, d) : Silent(v, w)
  BY DEF P88!PickDish
<1>5. \A v \in P88!PickBlock(w, p) : Silent(v, w)
  BY DEF P88!PickBlock
<1>6. \A v \in P88!Put(w, p) : Silent(v, w)
  BY DEF P88!Put
<1>7. \A v \in P88!ThrowAway(w) \cup P88!HandIn(w) : Silent(v, w)
  BY DEF P88!ThrowAway, P88!HandIn
<1>8. \A v \in P88!UseCooker(w, p) : Silent(v, w)
  BY DEF P88!UseCooker
<1>9. Silent(P88!Ready(w, p), w)
  BY DEF P88!Ready
<1>10. ASSUME NEW v \in P88!Taken(w) PROVE Silent(v, w)
  <2> DEFINE lay(u, e) == {[u EXCEPT !.floor[q] = @ \ {e}] : q \in {r \in DOMAIN w.floor : e \in w.floor[r]}}
             floors == UNION {w.floor[q] : q \in DOMAIN w.floor}
             cooked == {q \in DOMAIN w.pot : ~ w.pot[q].cooking /\ w.pot[q].dish # P88!None}
  <2> DEFINE floored == UNION {lay(u, e) : u \in P88!Fault(w), e \in floors}
             potted == {[u EXCEPT !.pot[q].dish = P88!None] : u \in P88!Fault(w), q \in cooked}
  <2>0. P88!Taken(w) = floored \cup potted
    BY DEF P88!Taken
  <2>1. v \in floored \/ v \in potted
    <3> HIDE DEF floored, potted
    <3> QED BY <2>0
  <2>2. CASE v \in floored
    <3>1. PICK u \in P88!Fault(w), e \in floors : v \in lay(u, e)
      <4> HIDE DEF lay, floors
      <4> QED BY <2>2
    <3>2. PICK q \in DOMAIN w.floor : v = [u EXCEPT !.floor[q] = @ \ {e}]
      BY <3>1
    <3> QED BY <3>1, <3>2
  <2>3. CASE v \in potted
    <3>1. PICK u \in P88!Fault(w), q \in cooked : v = [u EXCEPT !.pot[q].dish = P88!None]
      BY <2>3
    <3> QED BY <3>1
  <2> QED BY <2>1, <2>2, <2>3
<1> HIDE DEF P88!Or, Silent, Talks
<1> QED BY <1>1, <1>2, <1>3, <1>4, <1>5, <1>6, <1>7, <1>8, <1>9, <1>10

\* A text is said, and then no command is late yet; or it is not.
LEMMA Spoken ==
  ASSUME NEW w, Talks(w), NEW text, NEW v \in P88!speakToFriend(w, text)
  PROVE  Talks(v) /\ (v.late = "nothing" \/ Silent(v, w))
BY FaultSilent DEF P88!speakToFriend, P88!Or, Silent, Talks

\* The cook counts and goes on: what its partner has seen is not its business.
LEMMA Counted88 ==
  ASSUME NEW m, "sawM" \in DOMAIN m, NEW d, NEW n
  PROVE  "sawM" \in DOMAIN P88!Count(m, d, n) /\ P88!Count(m, d, n).sawM = m.sawM
BY DEF P88!Count

LEMMA Goes88 ==
  ASSUME NEW m, "sawM" \in DOMAIN m, NEW n,
         P88!Stop(m) \/ P88!Jump(n, m) \/ P88!Advance(m)
  PROVE  /\ "sawM" \in DOMAIN my' /\ my'.sawM = m.sawM
         /\ DOMAIN pc = {1, 2} => DOMAIN pc' = {1, 2} /\ pc'[2] = pc[2]
BY DEF P88!Stop, P88!Jump, P88!Advance, P88!Goto

\* The partner is where it was.
Partner88 == DOMAIN pc' = {1, 2} /\ pc'[2] = pc[2]

Same88 == /\ Talks(world') /\ (world'.late = "nothing" \/ Silent(world', world))
          /\ "sawM" \in DOMAIN my' /\ my'.sawM = my.sawM
          /\ Partner88

LEMMA Executes88 ==
  ASSUME P88!LateOnce, P88!Execute
  PROVE  Same88
<1> DEFINE i == P88!Instr
<1>0. Talks(world) /\ "sawM" \in DOMAIN my /\ Silent(world, world) /\ DOMAIN pc = {1, 2}
  BY DEF P88!LateOnce, Talks, Silent
<1> HIDE DEF i
<1>1. CASE P88!MoveNear(i) \/ P88!MovePlayer(i)
  BY <1>0, <1>1, KitchenSilent, Goes88 DEF P88!MoveNear, P88!MovePlayer, Same88, Partner88, Silent
<1>2. CASE P88!PickAtSpawn(i) \/ P88!PickOnce(i)
  BY <1>0, <1>2, KitchenSilent, Goes88 DEF P88!PickAtSpawn, P88!PickOnce, Same88, Partner88, Silent
<1>3. CASE P88!PutBeside(i) \/ P88!PutInPot(i)
  BY <1>0, <1>3, KitchenSilent, Goes88, Counted88 DEF P88!PutBeside, P88!PutInPot, Same88, Partner88, Silent
<1>4. CASE P88!Skip(i)
  BY <1>0, <1>4, Goes88 DEF P88!Skip, Same88, Partner88
<1>5. CASE P88!TakeStored(i)
  <2> DEFINE m == [my EXCEPT !.taskWait = @ - 1]
  <2>1. "sawM" \in DOMAIN m /\ m.sawM = my.sawM
    BY <1>0
  <2>2. P88!Advance(m)
    BY <1>5 DEF P88!TakeStored
  <2> HIDE DEF m
  <2>3. "sawM" \in DOMAIN my' /\ my'.sawM = my.sawM /\ Partner88
    BY <1>0, <2>1, <2>2, Goes88 DEF Partner88
  <2>4. Silent(world', world)
    BY <1>0, <1>5, KitchenSilent DEF P88!TakeStored
  <2> QED BY <2>3, <2>4 DEF Same88, Silent
<1>6. CASE P88!ClearPot(i)
  BY <1>0, <1>6, FaultSilent, Goes88 DEF P88!ClearPot, P88!Or, Same88, Partner88, Silent, Talks
<1>7. CASE P88!LoadPot(i)
  <2>1. PICK w \in P88!PickDish(world, i.dish) :
          \/ world' = w /\ P88!Stop(P88!Count(my, i.forgets, 0))
          \/ world' \in P88!Put(w, i.pot) /\ P88!Advance(P88!Count(my, i.dish, -1))
    BY <1>7 DEF P88!LoadPot
  <2>2. Silent(w, world) /\ Talks(w)
    BY <1>0, KitchenSilent DEF Silent
  <2>3. Silent(world', w) \/ world' = w
    BY <2>1, <2>2, KitchenSilent
  <2>4. "sawM" \in DOMAIN my' /\ my'.sawM = my.sawM /\ Partner88
    BY <1>0, <2>1, Counted88, Goes88 DEF Partner88
  <2> QED BY <2>2, <2>3, <2>4 DEF Silent, Same88
<1>8. CASE P88!Hold(i) \/ P88!Unstage(i)
  <2>1. Silent(world', world)
    BY <1>0, <1>8, KitchenSilent DEF P88!Hold, P88!Unstage
  <2>2. "sawM" \in DOMAIN my' /\ my'.sawM = my.sawM /\ Partner88
    BY <1>0, <1>8, Goes88, Counted88 DEF P88!Hold, P88!Unstage, Partner88
  <2> QED BY <2>1, <2>2 DEF Same88, Silent
<1>9. CASE P88!StartCooking(i)
  <2>1. PICK w \in P88!UseCooker(world, i.pot) : world' \in P88!speakToFriend(w, "m")
    BY <1>9 DEF P88!StartCooking
  <2>2. Silent(w, world) /\ Talks(w)
    BY <1>0, KitchenSilent DEF Silent
  <2>3. Talks(world') /\ (world'.late = "nothing" \/ Silent(world', w))
    BY <2>1, <2>2, Spoken
  <2>4. "sawM" \in DOMAIN my' /\ my'.sawM = my.sawM /\ Partner88
    BY <1>0, <1>9, Goes88 DEF P88!StartCooking, Partner88
  <2> QED BY <2>2, <2>3, <2>4 DEF Silent, Same88
<1>10. CASE P88!AwaitDish(i)
  <2> DEFINE w == P88!Ready(world, i.pot)
  <2>1. world' \in P88!speakToFriend(w, "p")
    BY <1>10 DEF P88!AwaitDish
  <2>2. Silent(w, world) /\ Talks(w)
    BY <1>0, KitchenSilent DEF Silent
  <2>3. Talks(world') /\ (world'.late = "nothing" \/ Silent(world', w))
    BY <2>1, <2>2, Spoken
  <2>4. "sawM" \in DOMAIN my' /\ my'.sawM = my.sawM /\ Partner88
    BY <1>0, <1>10, Goes88 DEF P88!AwaitDish, Partner88
  <2> QED BY <2>2, <2>3, <2>4 DEF Silent, Same88
<1>11. CASE P88!TakeProduct(i)
  <2>1. PICK w \in P88!PickBlock(world, i.pot) :
          \/ world' \in P88!ThrowAway(w) /\ P88!Stop(my)
          \/ world' = w /\ P88!Advance(my)
    BY <1>11 DEF P88!TakeProduct
  <2>2. Silent(w, world) /\ Talks(w)
    BY <1>0, KitchenSilent DEF Silent
  <2>3. Silent(world', w) \/ world' = w
    BY <2>1, <2>2, KitchenSilent
  <2>4. "sawM" \in DOMAIN my' /\ my'.sawM = my.sawM /\ Partner88
    BY <1>0, <2>1, Goes88 DEF Partner88
  <2> QED BY <2>2, <2>3, <2>4 DEF Silent, Same88
<1>12. CASE P88!SubmitTask(i)
  BY <1>0, <1>12, KitchenSilent, Goes88 DEF P88!SubmitTask, Same88, Partner88, Silent
<1>13. CASE P88!StoreDish(i)
  <2> DEFINE m == IF my.task # "TomatoFriedEgg" \/ my.taskWait = 2 THEN my
                  ELSE [my EXCEPT !.taskWait = @ + 1]
  <2>1. "sawM" \in DOMAIN m /\ m.sawM = my.sawM
    BY <1>0
  <2>2. P88!Stop(m)
    BY <1>13 DEF P88!StoreDish
  <2> HIDE DEF m
  <2>3. "sawM" \in DOMAIN my' /\ my'.sawM = my.sawM /\ Partner88
    BY <1>0, <2>1, <2>2, Goes88 DEF Partner88
  <2>4. Silent(world', world)
    BY <1>0, <1>13, KitchenSilent DEF P88!StoreDish
  <2> QED BY <2>3, <2>4 DEF Same88, Silent
<1>14. CASE P88!SpeakAgain(i)
  <2>1. Talks(world') /\ (world'.late = "nothing" \/ Silent(world', world))
    BY <1>0, <1>14, Spoken DEF P88!SpeakAgain
  <2>2. "sawM" \in DOMAIN my' /\ my'.sawM = my.sawM /\ Partner88
    BY <1>0, <1>14, Goes88 DEF P88!SpeakAgain, Partner88
  <2> QED BY <2>1, <2>2 DEF Same88
<1> QED
  BY <1>1, <1>2, <1>3, <1>4, <1>5, <1>6, <1>7, <1>8, <1>9, <1>10, <1>11, <1>12, <1>13, <1>14
  DEF P88!Execute, i

LEMMA Cooks88 ==
  ASSUME P88!LateOnce, P88!Cooks \/ P88!LastSeconds \/ P88!Theft
  PROVE  Same88
<1>0. Talks(world) /\ "sawM" \in DOMAIN my /\ Silent(world, world) /\ DOMAIN pc = {1, 2}
  BY DEF P88!LateOnce, Talks, Silent
<1>5. /\ \A l : P88!Goto(1, l) => Partner88
      /\ pc' = pc => Partner88
  BY <1>0 DEF P88!Goto, Partner88
<1>1. CASE P88!LastSeconds \/ P88!Play \/ P88!PlayLast
  <2>1. world' = world /\ "sawM" \in DOMAIN my' /\ my'.sawM = my.sawM
    BY <1>0, <1>1 DEF P88!LastSeconds, P88!Play, P88!PlayLast, P88!Finish
  <2>2. Partner88
    BY <1>1, <1>5 DEF P88!LastSeconds, P88!Play, P88!PlayLast, P88!Finish
  <2> QED BY <1>0, <2>1, <2>2 DEF Same88
<1>2. CASE P88!GoToStore \/ P88!Theft
  <2>1. Silent(world', world) /\ my' = my
    BY <1>0, <1>2, KitchenSilent DEF P88!GoToStore, P88!Theft
  <2>2. Partner88
    BY <1>2, <1>5 DEF P88!GoToStore, P88!Theft
  <2> QED BY <1>0, <2>1, <2>2 DEF Same88, Silent
<1>3. CASE P88!LookInStore
  <2>1. Silent(world', world)
    BY <1>0, <1>3, KitchenSilent DEF P88!LookInStore
  <2>2. "sawM" \in DOMAIN my' /\ my'.sawM = my.sawM
    BY <1>0, <1>3 DEF P88!LookInStore, P88!Finish
  <2>3. Partner88
    BY <1>3, <1>5 DEF P88!LookInStore, P88!Finish
  <2> QED BY <2>1, <2>2, <2>3 DEF Same88, Silent
<1>4. CASE P88!Deliver
  <2>1. Silent(world', world)
    <3> DEFINE there(p) == [world EXCEPT !.at = p]
    <3>1. \A p : Talks(there(p)) /\ Silent(there(p), world)
      BY <1>0 DEF Talks, Silent
    <3>2. world' \in P88!HandIn(there("commit")) \/ world' \in P88!Put(there("store"), "store")
      BY <1>4 DEF P88!Deliver
    <3> HIDE DEF there
    <3>3. Silent(world', there("commit")) \/ Silent(world', there("store"))
      BY <3>1, <3>2, KitchenSilent
    <3> QED BY <3>1, <3>3 DEF Silent
  <2>2. "sawM" \in DOMAIN my' /\ my'.sawM = my.sawM /\ Partner88
    BY <1>0, <1>4 DEF P88!Deliver, P88!Goto, Partner88
  <2> QED BY <2>1, <2>2 DEF Same88, Silent
<1> QED BY <1>1, <1>2, <1>3, <1>4, Executes88 DEF P88!Cooks

\* Only a text that has been read lets the partner act, and one that begins
\* with 'p' is never read as one with 'm'.
LEMMA Program88Keeps ==
  ASSUME P88!LateOnce, P88!Next
  PROVE  P88!LateOnce'
<1>1. CASE P88!Friend
  <2>1. CASE P88!SeeText
    <3>1. /\ world.late = "nothing" /\ UNCHANGED <<pc, world>> /\ "sawM" \in DOMAIN my'
          /\ pc[2] # "walk"
      BY <2>1 DEF P88!SeeText, P88!LateOnce
    <3> QED BY <3>1 DEF P88!LateOnce
  <2>2. CASE P88!FriendLooks
    BY <2>2 DEF P88!FriendLooks, P88!Goto, P88!LateOnce
  <2>3. CASE P88!FriendWalks
    <3>1. /\ pc[2] = "walk" /\ UNCHANGED my /\ DOMAIN pc' = {1, 2} /\ ~ my.sawM
          /\ world.late = "nothing" \/ (world.late = "walk" /\ world.recieveText = "p")
          /\ {"recieveText", "late"} \subseteq DOMAIN world /\ "sawM" \in DOMAIN my
      BY <2>3 DEF P88!FriendWalks, P88!Goto, P88!LateOnce
    <3>2. /\ DOMAIN world' = DOMAIN world /\ world'.recieveText = world.recieveText
          /\ world'.late \in {world.late, "walk"}
          /\ world'.late # "nothing" => world.recieveText = "p" /\ world'.late = "walk"
      BY <2>3, <3>1 DEF P88!FriendWalks, P88!Does
    <3> QED BY <3>1, <3>2 DEF P88!LateOnce
  <2>4. CASE P88!FriendSetsOut
    BY <2>4 DEF P88!FriendSetsOut, P88!Goto, P88!LateOnce
  <2>5. ASSUME NEW from \in {"go", "pick", "put", "use"}, P88!Gated(from),
               NEW to \in {"go", "pick", "set out", "use"}, P88!Goto(2, to)
        PROVE  P88!LateOnce'
    BY <2>5 DEF P88!Gated, P88!Does, P88!Goto, P88!LateOnce
  <2> QED
    BY <1>1, <2>1, <2>2, <2>3, <2>4, <2>5
    DEF P88!Friend, P88!FriendMoves, P88!FriendPicks, P88!FriendPuts, P88!FriendUses
<1>2. CASE P88!Cooks \/ P88!LastSeconds \/ P88!Theft
  BY <1>2, Cooks88 DEF Same88, Partner88, Silent, Talks, P88!LateOnce
<1> QED BY <1>1, <1>2 DEF P88!Next

\* Program 88 as part of what runs on a player's machine.
Kept88 == prog = "88" => P88!LateOnce

LEMMA Begins88 ==
  ASSUME PlayersInit PROVE Kept88
<1> SUFFICES ASSUME prog = "88" PROVE P88!LateOnce
  BY DEF Kept88
<1>1. P88!Init
  BY DEF PlayersInit
<1> QED BY <1>1 DEF P88!Init, P88!LateOnce, P88!With, P88!NewWorld

LEMMA Continues88 ==
  ASSUME Kept88, [PlayersNext]_playersVars PROVE Kept88'
<1> SUFFICES ASSUME prog' = "88" PROVE P88!LateOnce'
  BY DEF Kept88
<1>1. prog = "88" /\ P88!LateOnce
  BY DEF Kept88, PlayersNext, playersVars
<1>2. P88!Next \/ UNCHANGED <<pc, my, world>>
  BY <1>1 DEF PlayersNext, playersVars, Program
<1>3. CASE UNCHANGED <<pc, my, world>>
  BY <1>1, <1>3 DEF P88!LateOnce
<1> QED BY <1>1, <1>2, <1>3, Program88Keeps

\* Member 2 of program 88 does one thing at most after it is told to stop: a
\* command, or its walk to the cooker.
THEOREM Program88FriendStops == PlayersSpec => []FriendStops
<1>1. Kept88 => FriendStops
  BY DEF Kept88, FriendStops, P88!LateOnce, P88!FriendStops
<1> QED BY <1>1, Begins88, Continues88, PTL DEF PlayersSpec, Plays

-----------------------------------------------------------------------------
(* Program 92: what the runner believes to hold and what it holds.         *)

Tooled(w) == {"tool", "faults"} \subseteq DOMAIN w /\ w.faults \in Nat
Alike(v, w) == Tooled(v) /\ v.tool = w.tool /\ v.faults \in {w.faults, w.faults + 1}

\* Nothing in the kitchen takes or gives a tool, and it fails one at a time.
LEMMA FaultAlike ==
  ASSUME NEW w, Tooled(w) PROVE \A v \in P92b!Fault(w) : Alike(v, w) /\ v.faults = w.faults + 1
BY DEF P92b!Fault, Alike, Tooled

LEMMA KitchenAlike ==
  ASSUME NEW w, Tooled(w), NEW p
  PROVE  /\ \A v \in P92b!PickBlock(w, p) \cup P92b!UseCooker(w, p) : Alike(v, w)
         /\ \A v \in P92b!ThrowAway(w) \cup P92b!HandIn(w) \cup P92b!Taken(w) : Alike(v, w)
         /\ Alike(P92b!Ready(w, p), w)
<1>1. Alike(w, w)
  BY DEF Alike, Tooled
<1> USE FaultAlike, <1>1 DEF P92b!Or, Alike, Tooled
<1>2. \A v \in P92b!PickBlock(w, p) : Alike(v, w)
  BY DEF P92b!PickBlock
<1>3. \A v \in P92b!UseCooker(w, p) : Alike(v, w)
  BY DEF P92b!UseCooker
<1>4. \A v \in P92b!ThrowAway(w) \cup P92b!HandIn(w) : Alike(v, w)
  BY DEF P92b!ThrowAway, P92b!HandIn
<1>5. Alike(P92b!Ready(w, p), w)
  BY DEF P92b!Ready
<1>6. ASSUME NEW v \in P92b!Taken(w) PROVE Alike(v, w)
  <2> DEFINE lay(u, e) == {[u EXCEPT !.floor[q] = @ \ {e}] : q \in {r \in DOMAIN w.floor : e \in w.floor[r]}}
             floors == UNION {w.floor[q] : q \in DOMAIN w.floor}
             cooked == {q \in DOMAIN w.pot : ~ w.pot[q].cooking /\ w.pot[q].dish # P92b!None}
  <2> DEFINE floored == UNION {lay(u, e) : u \in P92b!Fault(w), e \in floors}
             potted == {[u EXCEPT !.pot[q].dish = P92b!None] : u \in P92b!Fault(w), q \in cooked}
  <2>0. P92b!Taken(w) = floored \cup potted
    BY DEF P92b!Taken
  <2>1. v \in floored \/ v \in potted
    <3> HIDE DEF floored, potted
    <3> QED BY <2>0
  <2>2. CASE v \in floored
    <3>1. PICK u \in P92b!Fault(w), e \in floors : v \in lay(u, e)
      <4> HIDE DEF lay, floors
      <4> QED BY <2>2
    <3>2. PICK q \in DOMAIN w.floor : v = [u EXCEPT !.floor[q] = @ \ {e}]
      BY <3>1
    <3> QED BY <3>1, <3>2
  <2>3. CASE v \in potted
    <3>1. PICK u \in P92b!Fault(w), q \in cooked : v = [u EXCEPT !.pot[q].dish = P92b!None]
      BY <2>3
    <3> QED BY <3>1
  <2> QED BY <2>1, <2>2, <2>3
<1> HIDE DEF P92b!Or, Alike, Tooled
<1> QED BY <1>2, <1>3, <1>4, <1>5, <1>6

\* A step that leaves both alone keeps what is known.
LEMMA Untouched92 ==
  ASSUME P92b!KnowsItsTool, Alike(world', world), "istool" \in DOMAIN my', my'.istool = my.istool
  PROVE  P92b!KnowsItsTool'
BY DEF P92b!KnowsItsTool, Alike, Tooled

LEMMA Program92Keeps ==
  ASSUME P92b!KnowsItsTool, P92b!Next
  PROVE  P92b!KnowsItsTool'
<1>0. Tooled(world) /\ "istool" \in DOMAIN my /\ Alike(world, world)
  BY DEF P92b!KnowsItsTool, Tooled, Alike
<1>1. ASSUME NEW l, P92b!gettool(l) PROVE P92b!KnowsItsTool'
  <2>1. PICK t \in P92b!Tools :
          /\ world' \in P92b!Or([world EXCEPT !.tool = t], world)
          /\ my' = [my EXCEPT !.istool = t] /\ my.istool = P92b!None
    BY <1>1 DEF P92b!gettool
  <2>2. world' = [world EXCEPT !.tool = t] \/ world' \in P92b!Fault(world)
    BY <2>1 DEF P92b!Or
  <2>3. CASE world' = [world EXCEPT !.tool = t]
    BY <1>0, <2>1, <2>3 DEF P92b!KnowsItsTool, Tooled
  <2>4. CASE world' \in P92b!Fault(world)
    <3>1. Alike(world', world) /\ world'.faults = world.faults + 1
      BY <1>0, <2>4, FaultAlike
    <3> QED BY <1>0, <2>1, <3>1 DEF P92b!KnowsItsTool, Tooled, Alike
  <2> QED BY <2>2, <2>3, <2>4
<1>2. ASSUME NEW l, P92b!usetool(l) PROVE P92b!KnowsItsTool'
  <2>1. /\ world' \in P92b!Or([world EXCEPT !.tool = P92b!None], world)
        /\ my' = [my EXCEPT !.istool = P92b!None]
    BY <1>2 DEF P92b!usetool
  <2>2. world' = [world EXCEPT !.tool = P92b!None] \/ world' \in P92b!Fault(world)
    BY <2>1 DEF P92b!Or
  <2>3. CASE world' = [world EXCEPT !.tool = P92b!None]
    BY <1>0, <2>1, <2>3 DEF P92b!KnowsItsTool, Tooled
  <2>4. CASE world' \in P92b!Fault(world)
    <3>1. Alike(world', world) /\ world'.faults = world.faults + 1
      BY <1>0, <2>4, FaultAlike
    <3> QED BY <1>0, <2>1, <3>1 DEF P92b!KnowsItsTool, Tooled, Alike
  <2> QED BY <2>2, <2>3, <2>4
<1>3. CASE P92b!PassTool \/ P92b!UseSelf \/ P92b!Throw
  BY <1>1, <1>2, <1>3 DEF P92b!PassTool, P92b!UseSelf, P92b!Throw
<1>4. CASE P92b!Arrive \/ P92b!Play \/ P92b!Look
  <2>1. world' = world /\ "istool" \in DOMAIN my' /\ my'.istool = my.istool
    BY <1>0, <1>4 DEF P92b!Arrive, P92b!Play, P92b!Look, P92b!Walk
  <2> QED BY <1>0, <2>1, Untouched92
<1>5. CASE P92b!Near
  <2>1. P92b!usetool(P92b!After) \/ (world' = world /\ my' = my)
    BY <1>5 DEF P92b!Near
  <2> QED BY <1>0, <1>2, <2>1, Untouched92
<1>6. CASE P92b!Use \/ P92b!jiancai \/ P92b!Theft
  <2>1. my' = my /\ Alike(world', world)
    BY <1>0, <1>6, KitchenAlike DEF P92b!Use, P92b!jiancai, P92b!Theft
  <2> QED BY <1>0, <2>1, Untouched92
<1>7. CASE P92b!Judge \/ P92b!submit
  <2>1. "istool" \in DOMAIN my' /\ my'.istool = my.istool /\ Alike(world', world)
    BY <1>0, <1>7, KitchenAlike DEF P92b!Judge, P92b!submit, P92b!Walk
  <2> QED BY <2>1, Untouched92
<1>8. CASE P92b!Gift \/ P92b!Cooking
  <2>1. my' = my /\ Alike(world', world)
    BY <1>0, <1>8, KitchenAlike DEF P92b!Gift, P92b!Cooking, Alike, Tooled
  <2> QED BY <1>0, <2>1, Untouched92
<1> QED
  BY <1>3, <1>4, <1>5, <1>6, <1>7, <1>8 DEF P92b!Next, P92b!Runs

\* Program 92 as part of what runs on a player's machine.
Kept92 == prog = "92b" => P92b!KnowsItsTool

LEMMA Begins92 ==
  ASSUME PlayersInit PROVE Kept92
<1> SUFFICES ASSUME prog = "92b" PROVE P92b!KnowsItsTool
  BY DEF Kept92
<1>1. P92b!Init
  BY DEF PlayersInit
<1> QED BY <1>1 DEF P92b!Init, P92b!KnowsItsTool, P92b!With, P92b!NewWorld

LEMMA Continues92 ==
  ASSUME Kept92, [PlayersNext]_playersVars PROVE Kept92'
<1> SUFFICES ASSUME prog' = "92b" PROVE P92b!KnowsItsTool'
  BY DEF Kept92
<1>1. prog = "92b" /\ P92b!KnowsItsTool
  BY DEF Kept92, PlayersNext, playersVars
<1>2. P92b!Next \/ UNCHANGED <<pc, my, world>>
  BY <1>1 DEF PlayersNext, playersVars, Program
<1>3. CASE UNCHANGED <<pc, my, world>>
  BY <1>1, <1>3 DEF P92b!KnowsItsTool
<1> QED BY <1>1, <1>2, <1>3, Program92Keeps

\* One lost command never makes the runner of program 92 use another tool than
\* it means to.
THEOREM Program92UsesWhatItMeans ==
  PlayersSpec => [](prog = "92b" => P92b!UsesWhatItMeans)
<1>1. Kept92 => (prog = "92b" => P92b!UsesWhatItMeans)
  BY DEF Kept92, P92b!KnowsItsTool, P92b!UsesWhatItMeans, P92b!Using, P92b!Steps, P92b!None
<1> QED BY <1>1, Begins92, Continues92, PTL DEF PlayersSpec, Plays

-----------------------------------------------------------------------------
(* Program 87: what lies on the stove when it is used.                      *)

\* How deep the recipes are: food is made of nothing, a dish of what is less deep.
Second == {"Noodle", "Bread", "FrenchFries"}
Third == {"BeefNoodle", "TomatoFriedEggNoodle", "Hamburger"}
First87 == {"Flour", "Ketchup", "CookedRice", "TomatoFriedEgg", "OverRice", "Barbecue"}
Rank(d) == IF d \in Third THEN 3 ELSE IF d \in Second THEN 2 ELSE IF d \in First87 THEN 1 ELSE 0

\* What a dish is made of is less deep than the dish.
LEMMA PartsRank ==
  ASSUME NEW d, NEW p \in P87!Parts(d)
  PROVE  Rank(p) < Rank(d) /\ p \in P87!Dishes
<1>1. PICK r \in P87!CookingTable : r[2] = d /\ p \in r[1]
  BY DEF P87!Parts
<1>2. Rank(p) < Rank(d)
  BY <1>1 DEF P87!CookingTable, Rank, First87, Second, Third
<1>3. p \in P87!Dishes
  BY <1>1 DEF P87!Dishes
<1> QED BY <1>2, <1>3

\* One round of get_synchronized_dish, which is a solution of g = Made(bag, g).
Made(bag, g) ==
  [d \in P87!Dishes |->
     IF P87!is_synchronized(d, bag) THEN {d}
     ELSE LET found == UNION {g[p] : p \in P87!Parts(d)}
          IN IF found \subseteq bag THEN found ELSE found \ bag]

\* One round tells what is one deeper.
LEMMA MadeAgrees ==
  ASSUME NEW bag, NEW g, NEW h, NEW k \in Nat,
         \A d \in P87!Dishes : Rank(d) < k => g[d] = h[d]
  PROVE  \A d \in P87!Dishes : Rank(d) < k + 1 => Made(bag, g)[d] = Made(bag, h)[d]
<1> SUFFICES ASSUME NEW d \in P87!Dishes, Rank(d) < k + 1
             PROVE  Made(bag, g)[d] = Made(bag, h)[d]
  OBVIOUS
<1>1. \A p \in P87!Parts(d) : g[p] = h[p]
  <2> SUFFICES ASSUME NEW p \in P87!Parts(d) PROVE g[p] = h[p]
    OBVIOUS
  <2>1. Rank(p) < Rank(d) /\ p \in P87!Dishes
    BY PartsRank
  <2>2. Rank(p) \in Nat /\ Rank(d) \in Nat
    BY DEF Rank
  <2> QED BY <2>1, <2>2
<1>2. UNION {g[p] : p \in P87!Parts(d)} = UNION {h[p] : p \in P87!Parts(d)}
  BY <1>1
<1> QED BY <1>2 DEF Made

\* As recipes are at most three deep, four rounds end the recursion.
LEMMA MadeExists ==
  ASSUME NEW bag PROVE \E g : g = Made(bag, g)
<1>0. \A d : Rank(d) \in 0 .. 3
  BY DEF Rank
<1>1. ASSUME NEW k \in Nat, NEW g, NEW h, NEW n \in Nat, n = k + 1,
             \A d \in P87!Dishes : Rank(d) < k => g[d] = h[d]
      PROVE  \A d \in P87!Dishes : Rank(d) < n => Made(bag, g)[d] = Made(bag, h)[d]
  BY <1>1, MadeAgrees
<1> DEFINE g0 == [d \in P87!Dishes |-> {}]
<1>2. PICK g1 : g1 = Made(bag, g0)
  OBVIOUS
<1>3. PICK g2 : g2 = Made(bag, g1)
  OBVIOUS
<1>4. PICK g3 : g3 = Made(bag, g2)
  OBVIOUS
<1>5. PICK g4 : g4 = Made(bag, g3)
  OBVIOUS
<1> HIDE DEF g0
<1>6. \A d \in P87!Dishes : Rank(d) < 0 => g0[d] = g1[d]
  BY <1>0
<1>7. \A d \in P87!Dishes : Rank(d) < 1 => g1[d] = g2[d]
  BY <1>1, <1>2, <1>3, <1>6
<1>8. \A d \in P87!Dishes : Rank(d) < 2 => g2[d] = g3[d]
  BY <1>1, <1>3, <1>4, <1>7
<1>9. \A d \in P87!Dishes : Rank(d) < 3 => g3[d] = g4[d]
  BY <1>1, <1>4, <1>5, <1>8
<1>10. \A d \in P87!Dishes : Rank(d) < 4 => g4[d] = Made(bag, g4)[d]
  BY <1>1, <1>5, <1>9
<1>11. \A d \in P87!Dishes : g4[d] = Made(bag, g4)[d]
  BY <1>0, <1>10
<1>12. g4 = Made(bag, g4)
  BY <1>5, <1>11 DEF Made
<1> QED BY <1>12

\* What the search finds can be made of what is in the bag.
LEMMA MadeSynchronized ==
  ASSUME NEW bag, NEW goal \in P87!Dishes, NEW d \in P87!get_synchronized_dish(goal, bag)
  PROVE  P87!is_synchronized(d, bag)
<1>0. \A e : Rank(e) \in 0 .. 3
  BY DEF Rank
<1>1. PICK g : g = Made(bag, g) /\ P87!get_synchronized_dish(goal, bag) = g[goal]
  <2>1. P87!get_synchronized_dish(goal, bag) = (CHOOSE g : g = Made(bag, g))[goal]
    BY DEF P87!get_synchronized_dish, Made
  <2>2. (CHOOSE g : g = Made(bag, g)) = Made(bag, CHOOSE g : g = Made(bag, g))
    BY MadeExists
  <2> QED BY <2>1, <2>2
<1> DEFINE Good(k) == \A e \in P87!Dishes : Rank(e) < k => \A x \in g[e] : P87!is_synchronized(x, bag)
<1>2. ASSUME NEW k \in Nat, Good(k), NEW n \in Nat, n = k + 1 PROVE Good(n)
  <2> SUFFICES ASSUME NEW e \in P87!Dishes, Rank(e) < n, NEW x \in g[e],
                      ~ P87!is_synchronized(e, bag)
               PROVE  P87!is_synchronized(x, bag)
    BY <1>1 DEF Made
  <2>1. PICK p \in P87!Parts(e) : x \in g[p]
    <3>1. Made(bag, g)[e] \subseteq UNION {g[p] : p \in P87!Parts(e)}
      BY DEF Made
    <3>2. g[e] = Made(bag, g)[e]
      BY <1>1
    <3> HIDE <1>1
    <3> QED BY <3>1, <3>2
  <2>2. Rank(p) < Rank(e) /\ p \in P87!Dishes
    BY PartsRank
  <2>3. Rank(p) < k
    BY <1>0, <1>2, <2>2
  <2> QED BY <1>2, <2>1, <2>2, <2>3
<1>3. Good(0)
  BY <1>0
<1> HIDE DEF Good
<1>4. Good(1) /\ Good(2)
  <2>1. Good(1)
    BY <1>2, <1>3
  <2> QED BY <1>2, <2>1
<1>5. Good(3)
  BY <1>2, <1>4
<1>6. Good(4)
  BY <1>2, <1>5
<1> QED BY <1>0, <1>1, <1>6 DEF Good

\* Nothing is made of a dish that does not exist.
LEMMA NoSuchPart ==
  ASSUME NEW d PROVE "unknown" \notin P87!Parts(d)
<1>1. \A r \in P87!CookingTable : "unknown" \notin r[1]
  BY DEF P87!CookingTable
<1> QED BY <1>1 DEF P87!Parts

\* What a command does not touch; the dish d may be gone from the floor.
Shaped87(w) == P87!Fields \subseteq DOMAIN w /\ DOMAIN w.floor = P87!Places
Alike87(v, w) == Shaped87(v) /\ v.orders = w.orders /\ v.meddled = w.meddled
Keeps87(v, w, d) ==
  Alike87(v, w) /\ v.at = w.at /\ \A q \in P87!Places : w.floor[q] \ {d} \subseteq v.floor[q]

\* What commands do to what the program relies on.
LEMMA Fault87 ==
  ASSUME NEW w, Shaped87(w), NEW d
  PROVE  Keeps87(w, w, d) /\ \A v \in P87!Fault(w) : Keeps87(v, w, d)
BY DEF P87!Fault, Keeps87, Alike87, Shaped87, P87!Fields

LEMMA Kitchen87 ==
  ASSUME NEW w, Shaped87(w), NEW d
  PROVE  /\ \A p : \A v \in P87!Put(w, p) \cup P87!PickBlock(w, p) : Keeps87(v, w, d)
         /\ \A v \in P87!PickDish(w, d) : Keeps87(v, w, d)
         /\ \A p : Keeps87(P87!Ready(w, p), w, d)
         /\ \A v \in P87!ThrowAway(w) \cup P87!HandIn(w) : Alike87(v, w)
         /\ \A f : \A v \in P87!PickFood(w, f) : Alike87(v, w)
         /\ \A p : \A v \in P87!UseCooker(w, p) : Alike87(v, w)
         /\ \A p : Alike87([w EXCEPT !.at = p], w)
<1> USE Fault87 DEF P87!Or, Keeps87, Alike87, Shaped87, P87!Fields
<1>1. ASSUME NEW p, NEW v \in P87!Put(w, p) PROVE Keeps87(v, w, d)
  <2>1. v \in P87!Fault(w) \/ v = [w EXCEPT !.hand = P87!None, !.floor[p] = @ \cup P87!Held(w)]
    BY <1>1 DEF P87!Put
  <2>2. CASE v = [w EXCEPT !.hand = P87!None, !.floor[p] = @ \cup P87!Held(w)]
    <3>1. /\ DOMAIN v = DOMAIN w /\ DOMAIN v.floor = DOMAIN w.floor
          /\ v.orders = w.orders /\ v.meddled = w.meddled /\ v.at = w.at
          /\ \A q \in P87!Places : v.floor[q] = IF q = p THEN w.floor[q] \cup P87!Held(w) ELSE w.floor[q]
      BY <2>2
    <3>2. ASSUME NEW q \in P87!Places, NEW x \in w.floor[q] \ {d} PROVE x \in v.floor[q]
      <4>1. \/ v.floor[q] = w.floor[q] \cup P87!Held(w)
            \/ v.floor[q] = w.floor[q]
        BY <3>1
      <4> QED BY <4>1, <3>2
    <3>3. Shaped87(v)
      BY <3>1
    <3>4. \A q \in P87!Places : w.floor[q] \ {d} \subseteq v.floor[q]
      BY <3>2
    <3> QED BY <3>1, <3>3, <3>4
  <2> QED BY <2>1, <2>2, Fault87
<1>2. ASSUME NEW p, NEW v \in P87!PickBlock(w, p) PROVE Keeps87(v, w, d)
  <2>1. \/ v \in P87!Fault(w) \/ v = w
        \/ v = [w EXCEPT !.hand = P87!Shows(w, p), !.pot[p].dish = P87!None, !.pot[p].cooking = FALSE]
    BY <1>2 DEF P87!PickBlock
  <2> QED BY <2>1, Fault87
<1>3. ASSUME NEW v \in P87!PickDish(w, d) PROVE Keeps87(v, w, d)
  <2>1. \/ v \in P87!Fault(w) \/ v = w
        \/ v = [w EXCEPT !.hand = d, !.floor[w.at] = (@ \ {d}) \cup P87!Held(w)]
    BY <1>3 DEF P87!PickDish
  <2>2. CASE v = [w EXCEPT !.hand = d, !.floor[w.at] = (@ \ {d}) \cup P87!Held(w)]
    <3>1. /\ DOMAIN v = DOMAIN w /\ DOMAIN v.floor = DOMAIN w.floor
          /\ v.orders = w.orders /\ v.meddled = w.meddled /\ v.at = w.at
          /\ \A q \in P87!Places :
               v.floor[q] = IF q = w.at THEN (w.floor[q] \ {d}) \cup P87!Held(w) ELSE w.floor[q]
      BY <2>2
    <3>2. ASSUME NEW q \in P87!Places, NEW x \in w.floor[q] \ {d} PROVE x \in v.floor[q]
      BY <3>1, <3>2, Zenon
    <3>3. Shaped87(v)
      BY <3>1
    <3>4. \A q \in P87!Places : w.floor[q] \ {d} \subseteq v.floor[q]
      BY <3>2
    <3> QED BY <3>1, <3>3, <3>4
  <2> QED BY <2>1, <2>2, Fault87
<1>4. ASSUME NEW p PROVE Keeps87(P87!Ready(w, p), w, d)
  BY DEF P87!Ready
<1>5. \A v \in P87!ThrowAway(w) \cup P87!HandIn(w) : Alike87(v, w)
  BY DEF P87!ThrowAway, P87!HandIn
<1>6. ASSUME NEW f PROVE \A v \in P87!PickFood(w, f) : Alike87(v, w)
  BY DEF P87!PickFood
<1>7. ASSUME NEW p, NEW v \in P87!UseCooker(w, p) PROVE Alike87(v, w)
  <2>1. \/ v \in P87!Fault(w) \/ v = w
        \/ v = [w EXCEPT !.pot[p] = [dish |-> P87!Product(w.floor[p]), cooking |-> TRUE],
                         !.floor[p] = {}]
    BY <1>7 DEF P87!UseCooker
  <2> QED BY <2>1, Fault87
<1>8. ASSUME NEW p PROVE Alike87([w EXCEPT !.at = p], w)
  OBVIOUS
<1> HIDE DEF P87!Or, Keeps87, Alike87, Shaped87, P87!Fields
<1> QED BY <1>1, <1>2, <1>3, <1>4, <1>5, <1>6, <1>7, <1>8

\* Nor does a dish that somebody else takes change more.
LEMMA Taken87 ==
  ASSUME NEW w, Shaped87(w), NEW v \in P87!Taken(w)
  PROVE  Alike87(v, w)
<1> DEFINE lay(u, e) == {[u EXCEPT !.floor[q] = @ \ {e}] : q \in {r \in DOMAIN w.floor : e \in w.floor[r]}}
           floors == UNION {w.floor[q] : q \in DOMAIN w.floor}
           cooked == {q \in DOMAIN w.pot : ~ w.pot[q].cooking /\ w.pot[q].dish # P87!None}
<1> DEFINE floored == UNION {lay(u, e) : u \in P87!Fault(w), e \in floors}
           potted == {[u EXCEPT !.pot[q].dish = P87!None] : u \in P87!Fault(w), q \in cooked}
<1>0. P87!Taken(w) = floored \cup potted
  BY DEF P87!Taken
<1>1. v \in floored \/ v \in potted
  <2> HIDE DEF floored, potted
  <2> QED BY <1>0
<1>2. \A u \in P87!Fault(w) : Alike87(u, w)
  BY Fault87 DEF Keeps87
<1>3. CASE v \in floored
  <2>1. PICK u \in P87!Fault(w), e \in floors : v \in lay(u, e)
    <3> HIDE DEF lay, floors
    <3> QED BY <1>3
  <2>2. PICK q \in DOMAIN w.floor : v = [u EXCEPT !.floor[q] = @ \ {e}]
    BY <2>1
  <2>3. Shaped87(u) /\ u.orders = w.orders /\ u.meddled = w.meddled
    BY <1>2 DEF Alike87
  <2>4. Shaped87(v) /\ v.orders = u.orders /\ v.meddled = u.meddled
    <3> HIDE DEF lay, floors, cooked, floored, potted
    <3> QED BY <2>2, <2>3 DEF Shaped87, P87!Fields
  <2> QED BY <2>3, <2>4 DEF Alike87
<1>4. CASE v \in potted
  <2>1. PICK u \in P87!Fault(w), q \in cooked : v = [u EXCEPT !.pot[q].dish = P87!None]
    BY <1>4
  <2>2. Shaped87(u) /\ u.orders = w.orders /\ u.meddled = w.meddled
    BY <1>2 DEF Alike87
  <2>3. Shaped87(v) /\ v.orders = u.orders /\ v.meddled = u.meddled
    <3> HIDE DEF lay, floors, cooked, floored, potted
    <3> QED BY <2>1, <2>2 DEF Shaped87, P87!Fields
  <2> QED BY <2>2, <2>3 DEF Alike87
<1> HIDE DEF floored, potted
<1> QED BY <1>1, <1>3, <1>4

\* What it does when it looks around.
LEMMA Looks87 ==
  ASSUME P87!HasItsParts
  PROVE  /\ {"dish", "target", "bag", "cook_time"} \subseteq DOMAIN P87!Seen
         /\ P87!Seen.target = my.target /\ P87!Seen.dish = my.dish
         /\ DOMAIN P87!Seen.bag = P87!Stoves
         /\ world.at = my.target => P87!Seen.bag[my.target] = world.floor[my.target]
BY DEF P87!HasItsParts, P87!Seen

\* Where it is not about to cook, or others meddled, only the shape matters.
LEMMA Elsewhere87 ==
  ASSUME P87!HasItsParts, Alike87(world', world) \/ (Shaped87(world') /\ world'.orders \in Orders /\ world'.meddled),
         {"dish", "target", "bag", "cook_time"} \subseteq DOMAIN my', DOMAIN my'.bag = P87!Stoves,
         my'.target \in P87!Stoves,
         pc' # "cookFood" \/ my'.dish \in {"unknown", P87!None} \/ world'.meddled
  PROVE  P87!HasItsParts'
BY DEF P87!HasItsParts, Alike87, Shaped87

\* At the stove, what is done there leaves what the dish needs.
LEMMA AtStove87 ==
  ASSUME P87!HasItsParts, NEW d, Keeps87(world', world, d),
         {"dish", "target", "bag", "cook_time"} \subseteq DOMAIN my', DOMAIN my'.bag = P87!Stoves,
         my'.target = my.target,
         pc' = "cookFood" /\ my'.dish \notin {"unknown", P87!None} /\ ~ world'.meddled =>
           /\ world.at = my.target
           /\ P87!Parts(my'.dish) \subseteq world.floor[my.target] /\ d \notin P87!Parts(my'.dish)
  PROVE  P87!HasItsParts'
<1>1. my.target \in P87!Places
  BY DEF P87!HasItsParts, P87!Places
<1>2. P87!HasItsParts => Shaped87(world') /\ world'.orders \in Orders
  BY DEF P87!HasItsParts, Keeps87, Alike87
<1>3. ASSUME pc' = "cookFood", my'.dish \notin {"unknown", P87!None}, ~ world'.meddled
      PROVE  world'.at = my'.target /\ P87!Parts(my'.dish) \subseteq world'.floor[my'.target]
  BY <1>1, <1>3 DEF Keeps87
<1> QED BY <1>2, <1>3 DEF P87!HasItsParts, Shaped87

\* Every step keeps what the dish in mind needs on the stove.
LEMMA Program87Keeps ==
  ASSUME P87!HasItsParts, P87!Next
  PROVE  P87!HasItsParts'
<1> DEFINE mine(m) == /\ {"dish", "target", "bag", "cook_time"} \subseteq DOMAIN m
                      /\ DOMAIN m.bag = P87!Stoves /\ m.target \in P87!Stoves
<1>0. Shaped87(world) /\ my.target \in P87!Stoves /\ mine(my) /\ mine(P87!Seen) /\ world.orders \in Orders
  BY Looks87 DEF P87!HasItsParts, Shaped87
<1>1. CASE P87!PutAway
  <2>1. CASE pc = "cookFood"
    <3>1. my' = P87!Seen /\ world' \in P87!Put(world, "about")
      BY <1>1, <2>1 DEF P87!PutAway
    <3>2. PICK d : d \notin P87!Parts(my.dish)
      BY NoSuchPart
    <3>3. Keeps87(world', world, d)
      BY <1>0, <3>1, Kitchen87
    <3> QED BY <1>0, <2>1, <3>1, <3>2, <3>3, Looks87, AtStove87 DEF P87!HasItsParts, Keeps87, Alike87
  <2>2. CASE pc # "cookFood"
    BY <1>0, <1>1, <2>2, Kitchen87, Elsewhere87 DEF P87!PutAway
  <2> QED BY <2>1, <2>2
<1>2. CASE P87!pendMission
  <2>1. PICK w : w = [world EXCEPT !.at = "task"] /\ world' \in P87!HandIn(w)
    BY <1>2 DEF P87!pendMission
  <2>2. Alike87(w, world)
    BY <1>0, <2>1, Kitchen87
  <2>3. Alike87(world', world)
    <3>1. Shaped87(w)
      BY <2>2 DEF Alike87
    <3>2. Alike87(world', w)
      BY <2>1, <3>1, Kitchen87
    <3> QED BY <2>2, <3>2 DEF Alike87
  <2> QED BY <1>0, <1>2, <2>3, Elsewhere87 DEF P87!pendMission
<1>3. CASE P87!setFood
  <2>1. PICK w : w = [world EXCEPT !.at = my.target] /\ world' \in P87!Put(w, my.target)
    BY <1>3 DEF P87!setFood
  <2>2. Alike87(w, world)
    BY <1>0, <2>1, Kitchen87
  <2>3. Alike87(world', world)
    <3>1. Shaped87(w)
      BY <2>2 DEF Alike87
    <3>2. Alike87(world', w)
      BY <2>1, <3>1, Kitchen87 DEF Keeps87
    <3> QED BY <2>2, <3>2 DEF Alike87
  <2>4. mine(my') /\ my'.dish = "unknown"
    BY <1>0, <1>3 DEF P87!setFood
  <2> QED BY <2>3, <2>4, Elsewhere87
<1>4. CASE P87!Approach
  <2>1. world' = [world EXCEPT !.at = my.target]
        \/ world' = P87!Ready([world EXCEPT !.at = my.target], my.target)
    BY <1>4 DEF P87!Approach, P87!Go
  <2>2. /\ pc' = pc /\ mine(my') /\ my'.target = my.target /\ my'.dish = my.dish
    BY <1>0, <1>4, Looks87 DEF P87!Approach
  <2>3. /\ Shaped87(world') /\ world'.orders = world.orders /\ world'.meddled = world.meddled
        /\ world'.floor = world.floor /\ world'.at = my.target
    BY <1>0, <2>1 DEF P87!Ready, Shaped87, P87!Fields
  <2> QED BY <1>0, <2>2, <2>3 DEF P87!HasItsParts, Shaped87
<1>5. CASE P87!Choose
  <2>1. /\ pc' = pc /\ world.at = my.target
        /\ \E w \in P87!PickBlock(world, my.target) : world' = [w EXCEPT !.meddled = FALSE]
    BY <1>5 DEF P87!Choose, P87!AtStove
  <2>2. PICK d : /\ my' = [P87!Seen EXCEPT !.dish = d, !.cook_time[my.target] = 0]
                 /\ \/ d = P87!None
                    \/ \E o \in world.orders :
                         d \in P87!get_synchronized_dish(o, P87!Seen.bag[my.target])
    <3> DEFINE can == UNION {P87!get_synchronized_dish(o, P87!Seen.bag[my.target]) : o \in world.orders}
    <3>1. PICK d \in IF can = {} THEN {P87!None} ELSE can :
            my' = [P87!Seen EXCEPT !.dish = d, !.cook_time[my.target] = 0]
      BY <1>5 DEF P87!Choose
    <3>2. d = P87!None \/ d \in can
      <4> HIDE DEF can
      <4> QED BY <3>1
    <3>3. d \in can => \E o \in world.orders :
                         d \in P87!get_synchronized_dish(o, P87!Seen.bag[my.target])
      OBVIOUS
    <3> QED BY <3>1, <3>2, <3>3
  <2>3. mine(my') /\ my'.target = my.target /\ my'.dish = d
    BY <1>0, <2>2, Looks87
  <2>4. d = P87!None \/ P87!Parts(d) \subseteq world.floor[my.target]
    <3> SUFFICES ASSUME NEW o \in world.orders,
                        d \in P87!get_synchronized_dish(o, P87!Seen.bag[my.target])
                 PROVE  P87!Parts(d) \subseteq world.floor[my.target]
      BY <2>2
    <3>1. o \in P87!Dishes
      BY <1>0 DEF P87!Dishes
    <3>2. P87!is_synchronized(d, P87!Seen.bag[my.target])
      BY <3>1, MadeSynchronized
    <3> QED BY <2>1, <3>2, Looks87 DEF P87!is_synchronized
  <2>5. PICK e : e \notin P87!Parts(d)
    BY NoSuchPart
  <2>6. PICK w : Keeps87(w, world, e) /\ world' = [w EXCEPT !.meddled = FALSE]
    BY <1>0, <2>1, Kitchen87
  <2>7. /\ Shaped87(world') /\ world'.orders = world.orders /\ world'.at = world.at
        /\ world'.floor = w.floor
    BY <2>6 DEF Keeps87, Alike87, Shaped87, P87!Fields
  <2>8. d = P87!None \/ P87!Parts(d) \subseteq world'.floor[my.target]
    <3>1. my.target \in P87!Places /\ \A q \in P87!Places : world.floor[q] \ {e} \subseteq w.floor[q]
      BY <1>0, <2>6 DEF Keeps87, P87!Places
    <3> QED BY <2>4, <2>5, <2>7, <3>1
  <2> QED BY <1>0, <2>1, <2>3, <2>7, <2>8 DEF P87!HasItsParts, Shaped87
<1>6. CASE P87!NothingToCook
  BY <1>0, <1>6, Fault87, Elsewhere87 DEF P87!NothingToCook, Keeps87
<1>7. CASE P87!RemoveRedundant
  <2>1. PICK d : d \notin P87!Parts(my.dish) /\ world' \in P87!PickDish(world, d)
    BY <1>7 DEF P87!RemoveRedundant, P87!get_what_is_redundant
  <2>2. Keeps87(world', world, d)
    BY <1>0, <2>1, Kitchen87
  <2>3. my' = P87!Seen /\ pc' = pc
    BY <1>7 DEF P87!RemoveRedundant
  <2> QED BY <1>0, <2>1, <2>2, <2>3, Looks87, AtStove87 DEF P87!HasItsParts, Keeps87, Alike87
<1>8. CASE P87!Cook
  <2>1. Alike87(world', world) /\ pc' = "findFood" /\ mine(my')
    BY <1>0, <1>8, Kitchen87 DEF P87!Cook
  <2> QED BY <2>1, Elsewhere87
<1>9. CASE P87!PickUp
  <2>1. PICK w, d : w = [world EXCEPT !.at = "about"] /\ world' \in P87!PickDish(w, d)
    BY <1>9 DEF P87!PickUp
  <2>2. Alike87(w, world)
    BY <1>0, <2>1, Kitchen87
  <2>3. Alike87(world', world)
    <3>1. Shaped87(w)
      BY <2>2 DEF Alike87
    <3>2. Alike87(world', w)
      BY <2>1, <3>1, Kitchen87 DEF Keeps87
    <3> QED BY <2>2, <3>2 DEF Alike87
  <2> QED BY <1>0, <1>9, <2>3, Elsewhere87 DEF P87!PickUp, P87!CalledBack
<1>10. CASE P87!Fetch
  <2>1. PICK w, f : w = [world EXCEPT !.at = "road"] /\ world' \in P87!PickFood(w, f)
    BY <1>10 DEF P87!Fetch
  <2>2. Alike87(w, world)
    BY <1>0, <2>1, Kitchen87
  <2>3. Alike87(world', world)
    <3>1. Shaped87(w)
      BY <2>2 DEF Alike87
    <3>2. Alike87(world', w)
      BY <2>1, <3>1, Kitchen87
    <3> QED BY <2>2, <3>2 DEF Alike87
  <2> QED BY <1>0, <1>10, <2>3, Elsewhere87 DEF P87!Fetch, P87!CalledBack
<1>11. CASE P87!Emergency
  <2>1. PICK w \in P87!Fault(world) : world' = [w EXCEPT !.at = "road"]
    BY <1>11 DEF P87!Emergency, P87!GoWrong
  <2>2. Alike87(w, world)
    BY <1>0, Fault87 DEF Keeps87
  <2>3. Alike87(world', world)
    <3>1. Shaped87(w)
      BY <2>2 DEF Alike87
    <3>2. Alike87(world', w)
      BY <2>1, <3>1, Kitchen87
    <3> QED BY <2>2, <3>2 DEF Alike87
  <2> QED BY <1>0, <1>11, <2>3, Elsewhere87 DEF P87!Emergency
<1>12. CASE P87!change_target
  <2>1. PICK s \in P87!Stoves, w \in P87!Fault(world) :
          my' = [P87!Seen EXCEPT !.target = s] /\ world' = [w EXCEPT !.meddled = TRUE]
    BY <1>12 DEF P87!change_target
  <2>2. Alike87(w, world)
    BY <1>0, Fault87 DEF Keeps87
  <2>3. Shaped87(world') /\ world'.orders \in Orders /\ world'.meddled
    BY <1>0, <2>1, <2>2 DEF Alike87, Shaped87, P87!Fields
  <2>4. mine(my')
    BY <1>0, <2>1
  <2> QED BY <2>3, <2>4, Elsewhere87
<1>13. CASE P87!NewTasks
  <2>1. PICK o \in Orders, w \in P87!Fault(world) : world' = [w EXCEPT !.orders = o]
    BY <1>13 DEF P87!NewTasks
  <2>2. w.meddled = world.meddled /\ w.at = world.at /\ w.floor = world.floor /\ Shaped87(w)
    BY <1>0 DEF P87!Fault, Shaped87, P87!Fields
  <2> QED BY <1>13, <2>1, <2>2 DEF P87!NewTasks, P87!HasItsParts, Shaped87, P87!Fields
<1>14. CASE P87!Others
  <2>1. PICK w : /\ world' = [w EXCEPT !.meddled = TRUE]
                 /\ Shaped87(w) /\ w.orders = world.orders
    <3>1. CASE \E w \in P87!Taken(world) : world' = [w EXCEPT !.meddled = TRUE]
      <4>1. PICK w \in P87!Taken(world) : world' = [w EXCEPT !.meddled = TRUE]
        BY <3>1
      <4>2. Alike87(w, world)
        BY <1>0, Taken87
      <4> QED BY <4>1, <4>2 DEF Alike87
    <3>2. CASE \E w \in P87!Fault(world), s \in P87!Stoves, f \in P87!Foods :
                 world' = [w EXCEPT !.floor[s] = @ \cup {f}, !.meddled = TRUE]
      <4>1. PICK w \in P87!Fault(world), s \in P87!Stoves, f \in P87!Foods :
                 world' = [w EXCEPT !.floor[s] = @ \cup {f}, !.meddled = TRUE]
        BY <3>2
      <4>2. Shaped87(w) /\ w.orders = world.orders
        BY <1>0, Fault87 DEF Keeps87, Alike87
      <4>3. PICK v : v = [w EXCEPT !.floor[s] = @ \cup {f}]
        OBVIOUS
      <4>4. world' = [v EXCEPT !.meddled = TRUE] /\ Shaped87(v) /\ v.orders = w.orders
        BY <4>1, <4>2, <4>3 DEF Shaped87, P87!Fields
      <4> QED BY <4>2, <4>4
    <3> QED BY <1>14, <3>1, <3>2 DEF P87!Others
  <2>2. Shaped87(world') /\ world'.orders \in Orders /\ world'.meddled
    BY <1>0, <2>1 DEF Shaped87, P87!Fields
  <2> QED BY <1>0, <1>14, <2>2, Elsewhere87 DEF P87!Others
<1>15. CASE P87!Done
  <2>1. PICK s : world' = P87!Ready(world, s)
    BY <1>15 DEF P87!Done
  <2>2. PICK d : d \notin P87!Parts(my.dish)
    BY NoSuchPart
  <2>3. Keeps87(world', world, d)
    BY <1>0, <2>1, Kitchen87
  <2> QED BY <1>0, <1>15, <2>2, <2>3, AtStove87 DEF P87!Done, P87!HasItsParts, Keeps87, Alike87
<1> QED
  BY <1>1, <1>2, <1>3, <1>4, <1>5, <1>6, <1>7, <1>8, <1>9, <1>10, <1>11, <1>12, <1>13, <1>14, <1>15
  DEF P87!Next, P87!Acts

\* Program 87 as part of what runs on a player's machine.
Kept87 == prog = "87" => P87!HasItsParts

LEMMA Begins87 ==
  ASSUME PlayersInit PROVE Kept87
<1> SUFFICES ASSUME prog = "87" PROVE P87!HasItsParts
  BY DEF Kept87
<1>1. P87!initialize
  BY DEF PlayersInit
<1>2. PICK o \in Orders :
        world = P87!With([orders |-> o, meddled |-> FALSE], P87!NewWorld(P87!Places, P87!Stoves))
  BY <1>1 DEF P87!initialize
<1>3. P87!Fields \subseteq DOMAIN world /\ DOMAIN world.floor = P87!Places /\ world.orders = o
  BY <1>2 DEF P87!With, P87!NewWorld, P87!Fields
<1> QED BY <1>1, <1>3 DEF P87!initialize, P87!HasItsParts, P87!Stoves

LEMMA Continues87 ==
  ASSUME Kept87, [PlayersNext]_playersVars PROVE Kept87'
<1> SUFFICES ASSUME prog' = "87" PROVE P87!HasItsParts'
  BY DEF Kept87
<1>1. prog = "87" /\ P87!HasItsParts
  BY DEF Kept87, PlayersNext, playersVars
<1>2. P87!Next \/ UNCHANGED <<pc, my, world>>
  BY <1>1 DEF PlayersNext, playersVars, Program
<1>3. CASE UNCHANGED <<pc, my, world>>
  BY <1>1, <1>3 DEF P87!HasItsParts
<1> QED BY <1>1, <1>2, <1>3, Program87Keeps

\* What is on the stove when program 87 uses it is what the dish it chose is made
\* of, unless somebody else threw or took, or the stove was changed, however
\* deep the search for a part that can be made went.
THEOREM Program87CooksWhatItMeans ==
  PlayersSpec => [](prog = "87" => P87!CooksWhatItMeans)
<1>1. Kept87 => (prog = "87" => P87!CooksWhatItMeans)
  <2> SUFFICES ASSUME P87!HasItsParts, P87!MayCook, P87!get_what_is_redundant = {},
                      ~ world.meddled
               PROVE  world.floor[my.target] = P87!Parts(my.dish)
    BY DEF Kept87, P87!CooksWhatItMeans
  <2>1. pc = "cookFood" /\ my.dish \notin {"unknown", P87!None}
    BY DEF P87!MayCook, P87!AtStove, P87!Now
  <2>2. world.at = my.target /\ P87!Parts(my.dish) \subseteq world.floor[my.target]
    BY <2>1 DEF P87!HasItsParts
  <2>3. world.floor[my.target] \subseteq P87!Parts(my.dish)
    BY <2>2, Looks87 DEF P87!get_what_is_redundant
  <2> QED BY <2>2, <2>3
<1> QED BY <1>1, Begins87, Continues87, PTL DEF PlayersSpec, Plays

-----------------------------------------------------------------------------
(* Program 85: what lies on the cooker when it is used.                     *)

\* Two or three things in a list are a set of two or three.
LEMMA ElementsOf ==
  /\ \A a : P85!Elements(<<a>>) = {a}
  /\ \A a, b : P85!Elements(<<a, b>>) = {a, b}
  /\ \A a, b, c : P85!Elements(<<a, b, c>>) = {a, b, c}
<1>1. \A a : DOMAIN <<a>> = {1}
  OBVIOUS
<1>2. \A a, b : DOMAIN <<a, b>> = {1, 2}
  OBVIOUS
<1>3. \A a, b, c : DOMAIN <<a, b, c>> = {1, 2, 3}
  OBVIOUS
<1> QED BY <1>1, <1>2, <1>3 DEF P85!Elements

\* What is in each list of program 85 is a line of the cooking table.
LEMMA NeedsInTable ==
  ASSUME NEW s \in P85!Needs
  PROVE  \E r \in P85!CookingTable : r[1] = s
<1>1. PICK i \in DOMAIN P85!Recipes : s = P85!Elements(P85!Recipes[i].need)
  BY DEF P85!Needs
<1>2. i \in 1 .. 12
  BY DEF P85!Recipes
<1>3. \/ P85!Recipes[i].need \in {<<"Wheat">>, <<"Tomato">>, <<"Rice">>, <<"Flour">>}
      \/ P85!Recipes[i].need \in {<<"Tomato", "Egg">>, <<"TomatoFriedEgg", "Noodle">>,
           <<"Beef", "Noodle">>, <<"Lettuce", "Pork">>, <<"Potato", "Ketchup">>, <<"Flour", "Egg">>}
      \/ P85!Recipes[i].need \in {<<"Pork", "Potato", "Rice">>, <<"Beef", "Lettuce", "Bread">>}
  BY <1>2 DEF P85!Recipes
<1>4. s \in {{"Wheat"}, {"Tomato"}, {"Rice"}, {"Flour"}, {"Tomato", "Egg"},
             {"TomatoFriedEgg", "Noodle"}, {"Beef", "Noodle"}, {"Lettuce", "Pork"},
             {"Potato", "Ketchup"}, {"Flour", "Egg"}, {"Pork", "Potato", "Rice"},
             {"Beef", "Lettuce", "Bread"}}
  BY <1>1, <1>3, ElementsOf
<1>5. s \in {{"Wheat"}, {"Tomato"}, {"Rice"}, {"Flour"}, {"Tomato", "Egg"},
             {"Noodle", "TomatoFriedEgg"}, {"Beef", "Noodle"}, {"Pork", "Lettuce"},
             {"Potato", "Ketchup"}, {"Egg", "Flour"}, {"Rice", "Pork", "Potato"},
             {"Beef", "Lettuce", "Bread"}}
  BY <1>4
<1> HIDE <1>1, <1>3, <1>4
<1> QED BY <1>5 DEF P85!CookingTable

\* A cooker always makes something, and of what is needed a dish.
LEMMA Product85 ==
  ASSUME NEW s
  PROVE  /\ P85!Product(s) # P85!None
         /\ s \in P85!Needs => P85!Product(s) # "DarkDish" /\ s # {}
<1>1. \A r \in P85!CookingTable : r[2] # P85!None /\ r[2] # "DarkDish" /\ r[1] # {}
  BY DEF P85!CookingTable, P85!None
<1>2. CASE \E r \in P85!CookingTable : r[1] = s
  <2>1. P85!Product(s) = (CHOOSE r \in P85!CookingTable : r[1] = s)[2]
    BY <1>2 DEF P85!Product
  <2>2. PICK r \in P85!CookingTable : r[1] = s /\ r = CHOOSE q \in P85!CookingTable : q[1] = s
    BY <1>2
  <2> QED BY <1>1, <2>1, <2>2
<1>3. CASE ~ \E r \in P85!CookingTable : r[1] = s
  BY <1>3, NeedsInTable DEF P85!Product, P85!None
<1> QED BY <1>2, <1>3

\* What the world is like throughout, and what a command does not touch: that a
\* command failed is counted.
Shaped85(w) ==
  /\ P85!Fields \subseteq DOMAIN w /\ w.faults \in Nat
  /\ DOMAIN w.floor = {"spot", "pot"} /\ DOMAIN w.pot = {"pot"}
  /\ DOMAIN w.pot["pot"] = {"dish", "cooking"}
  /\ w.pot["pot"].cooking => w.pot["pot"].dish # P85!None
Failed85(v, w) == Shaped85(v) /\ v.faults > w.faults
Leaves85(v, w) ==
  /\ Shaped85(v) /\ v.faults = w.faults
  /\ v.floor["pot"] = w.floor["pot"] /\ v.pot = w.pot
After85(v, w) == Shaped85(v) /\ v.faults >= w.faults

\* What commands do at the cooker.
LEMMA Fault85 ==
  ASSUME NEW w, Shaped85(w), NEW v \in P85!Fault(w)
  PROVE  Failed85(v, w)
BY DEF P85!Fault, Failed85, Shaped85, P85!Fields

LEMMA Leaves85After ==
  ASSUME NEW v, NEW w, Shaped85(w), Failed85(v, w) \/ Leaves85(v, w)
  PROVE  After85(v, w)
BY DEF Failed85, Leaves85, After85, Shaped85

LEMMA Kitchen85 ==
  ASSUME NEW w, Shaped85(w)
  PROVE  /\ \A p : Leaves85([w EXCEPT !.at = p], w)
         /\ \A t : Leaves85([w EXCEPT !.tool = t], w)
         /\ \A d : \A v \in P85!PickDish(w, d) : After85(v, w)
         /\ \A p : \A v \in P85!Put(w, p) : After85(v, w)
         /\ \A v \in P85!PickBlock(w, "pot") : After85(v, w)
         /\ \A v \in P85!ThrowAway(w) \cup P85!HandIn(w) : After85(v, w)
<1>1. \A p : Leaves85([w EXCEPT !.at = p], w)
  BY DEF Leaves85, Shaped85, P85!Fields
<1>2. \A t : Leaves85([w EXCEPT !.tool = t], w)
  BY DEF Leaves85, Shaped85, P85!Fields
<1>3. \A v \in P85!Fault(w) : After85(v, w)
  BY Fault85, Leaves85After
<1>4. ASSUME NEW d, NEW v \in P85!PickDish(w, d) PROVE After85(v, w)
  <2>1. \/ v \in P85!Fault(w) \/ v = w
        \/ v = [w EXCEPT !.hand = d, !.floor[w.at] = (@ \ {d}) \cup P85!Held(w)]
    BY <1>4 DEF P85!PickDish, P85!Or
  <2>2. CASE v = w
    BY <2>2 DEF After85, Shaped85
  <2>3. CASE v = [w EXCEPT !.hand = d, !.floor[w.at] = (@ \ {d}) \cup P85!Held(w)]
    <3>1. /\ DOMAIN v = DOMAIN w /\ DOMAIN v.floor = DOMAIN w.floor
          /\ v.faults = w.faults /\ v.pot = w.pot
      BY <2>3
    <3> QED BY <3>1 DEF After85, Shaped85
  <2> QED BY <1>3, <2>1, <2>2, <2>3
<1>5. ASSUME NEW p, NEW v \in P85!Put(w, p) PROVE After85(v, w)
  <2>1. v \in P85!Fault(w) \/ v = [w EXCEPT !.hand = P85!None, !.floor[p] = @ \cup P85!Held(w)]
    BY <1>5 DEF P85!Put, P85!Or
  <2>2. CASE v = [w EXCEPT !.hand = P85!None, !.floor[p] = @ \cup P85!Held(w)]
    <3>1. /\ DOMAIN v = DOMAIN w /\ DOMAIN v.floor = DOMAIN w.floor
          /\ v.faults = w.faults /\ v.pot = w.pot
      BY <2>2
    <3> QED BY <3>1 DEF After85, Shaped85
  <2> QED BY <1>3, <2>1, <2>2
<1>6. ASSUME NEW v \in P85!PickBlock(w, "pot") PROVE After85(v, w)
  <2>1. \/ v \in P85!Fault(w) \/ v = w
        \/ v = [w EXCEPT !.hand = P85!Shows(w, "pot"), !.pot["pot"].dish = P85!None,
                         !.pot["pot"].cooking = FALSE]
    BY <1>6 DEF P85!PickBlock, P85!Or
  <2>2. CASE v = w
    BY <2>2 DEF After85, Shaped85
  <2>3. CASE v = [w EXCEPT !.hand = P85!Shows(w, "pot"), !.pot["pot"].dish = P85!None,
                          !.pot["pot"].cooking = FALSE]
    <3>1. /\ DOMAIN v = DOMAIN w /\ v.floor = w.floor /\ v.faults = w.faults
          /\ DOMAIN v.pot = DOMAIN w.pot
          /\ DOMAIN v.pot["pot"] = DOMAIN w.pot["pot"] /\ v.pot["pot"].cooking = FALSE
      BY <2>3 DEF Shaped85, P85!Fields
    <3> QED BY <3>1 DEF After85, Shaped85
  <2> QED BY <1>3, <2>1, <2>2, <2>3
<1>7. ASSUME NEW v \in P85!ThrowAway(w) \cup P85!HandIn(w) PROVE After85(v, w)
  <2>1. v \in P85!Fault(w) \/ v = [w EXCEPT !.hand = P85!None]
    BY <1>7 DEF P85!ThrowAway, P85!HandIn, P85!Or
  <2>2. CASE v = [w EXCEPT !.hand = P85!None]
    BY <2>2 DEF After85, Shaped85, P85!Fields
  <2> QED BY <1>3, <2>1, <2>2
<1> QED BY <1>1, <1>2, <1>4, <1>5, <1>6, <1>7

\* A cooker that is started on something shows it, also when it is done.
LEMMA Cooker85 ==
  ASSUME NEW w, Shaped85(w)
  PROVE  /\ \A v \in P85!UseCooker(w, "pot") :
              /\ After85(v, w)
              /\ v.faults > w.faults \/ w.floor["pot"] = {} \/ P85!isCooking(v)
         /\ w.pot["pot"].cooking =>
              /\ After85(P85!Ready(w, "pot"), w)
              /\ P85!isCooking(P85!Ready(w, "pot"))
<1>1. ASSUME NEW v \in P85!UseCooker(w, "pot")
      PROVE  /\ After85(v, w)
             /\ v.faults > w.faults \/ w.floor["pot"] = {} \/ P85!isCooking(v)
  <2>1. \/ v \in P85!Fault(w)
        \/ v = w /\ (w.pot["pot"].cooking \/ w.floor["pot"] = {})
        \/ v = [w EXCEPT !.pot["pot"] = [dish |-> P85!Product(w.floor["pot"]), cooking |-> TRUE],
                         !.floor["pot"] = {}]
    BY <1>1 DEF P85!UseCooker, P85!Or
  <2>2. CASE v \in P85!Fault(w)
    BY <2>2, Fault85, Leaves85After DEF Failed85
  <2>3. CASE v = w /\ (w.pot["pot"].cooking \/ w.floor["pot"] = {})
    BY <2>3 DEF After85, Shaped85, P85!isCooking, P85!Shows, P85!None
  <2>4. CASE v = [w EXCEPT !.pot["pot"] = [dish |-> P85!Product(w.floor["pot"]), cooking |-> TRUE],
                          !.floor["pot"] = {}]
    <3>1. /\ DOMAIN v = DOMAIN w /\ DOMAIN v.floor = DOMAIN w.floor /\ v.faults = w.faults
          /\ DOMAIN v.pot = DOMAIN w.pot
          /\ v.pot["pot"] = [dish |-> P85!Product(w.floor["pot"]), cooking |-> TRUE]
      BY <2>4 DEF Shaped85, P85!Fields
    <3>2. P85!Product(w.floor["pot"]) # P85!None
      BY Product85
    <3> QED BY <3>1, <3>2 DEF After85, Shaped85, P85!isCooking, P85!Shows, P85!None
  <2> QED BY <2>1, <2>2, <2>3, <2>4
<1>2. ASSUME w.pot["pot"].cooking
      PROVE  After85(P85!Ready(w, "pot"), w) /\ P85!isCooking(P85!Ready(w, "pot"))
  <2>1. PICK v : v = P85!Ready(w, "pot")
    OBVIOUS
  <2>2. /\ DOMAIN v = DOMAIN w /\ v.floor = w.floor /\ v.faults = w.faults
        /\ DOMAIN v.pot = DOMAIN w.pot /\ DOMAIN v.pot["pot"] = DOMAIN w.pot["pot"]
        /\ v.pot["pot"].cooking = FALSE /\ v.pot["pot"].dish = w.pot["pot"].dish
    BY <2>1 DEF P85!Ready, Shaped85, P85!Fields
  <2> QED BY <1>2, <2>1, <2>2 DEF After85, Shaped85, P85!isCooking, P85!Shows
<1> QED BY <1>1, <1>2

\* Who takes a dish is counted as well.
LEMMA Taken85 ==
  ASSUME NEW w, Shaped85(w), NEW v \in P85!Taken(w)
  PROVE  Failed85(v, w)
<1> DEFINE lay(u, e) == {[u EXCEPT !.floor[q] = @ \ {e}] : q \in {r \in DOMAIN w.floor : e \in w.floor[r]}}
           floors == UNION {w.floor[q] : q \in DOMAIN w.floor}
           cooked == {q \in DOMAIN w.pot : ~ w.pot[q].cooking /\ w.pot[q].dish # P85!None}
<1> DEFINE floored == UNION {lay(u, e) : u \in P85!Fault(w), e \in floors}
           potted == {[u EXCEPT !.pot[q].dish = P85!None] : u \in P85!Fault(w), q \in cooked}
<1>0. P85!Taken(w) = floored \cup potted
  BY DEF P85!Taken
<1>1. v \in floored \/ v \in potted
  <2> HIDE DEF floored, potted
  <2> QED BY <1>0
<1>3. CASE v \in floored
  <2>1. PICK u \in P85!Fault(w), e \in floors : v \in lay(u, e)
    <3> HIDE DEF lay, floors
    <3> QED BY <1>3
  <2>2. PICK q \in DOMAIN w.floor : v = [u EXCEPT !.floor[q] = @ \ {e}]
    BY <2>1
  <2>3. Failed85(u, w)
    BY Fault85
  <2>4. /\ DOMAIN v = DOMAIN u /\ DOMAIN v.floor = DOMAIN u.floor
        /\ v.faults = u.faults /\ v.pot = u.pot
    <3> HIDE DEF lay, floors, cooked, floored, potted
    <3> QED BY <2>2
  <2> QED BY <2>3, <2>4 DEF Failed85, Shaped85
<1>4. CASE v \in potted
  <2>1. PICK u \in P85!Fault(w), q \in cooked : v = [u EXCEPT !.pot[q].dish = P85!None]
    BY <1>4
  <2>2. q = "pot" /\ ~ w.pot["pot"].cooking
    BY <2>1 DEF Shaped85
  <2>3. Failed85(u, w) /\ u.pot = w.pot
    <3>1. Failed85(u, w)
      BY Fault85
    <3>2. u = [w EXCEPT !.faults = @ + 1]
      BY <2>1 DEF P85!Fault
    <3> QED BY <3>1, <3>2
  <2>4. /\ DOMAIN v = DOMAIN u /\ v.floor = u.floor /\ v.faults = u.faults
        /\ DOMAIN v.pot = DOMAIN u.pot /\ DOMAIN v.pot["pot"] = DOMAIN u.pot["pot"]
        /\ v.pot["pot"].cooking = u.pot["pot"].cooking
    <3> HIDE DEF lay, floors, cooked, floored, potted
    <3> QED BY <2>1, <2>2, <2>3 DEF Failed85, Shaped85, P85!Fields
  <2> QED BY <2>2, <2>3, <2>4 DEF Failed85, Shaped85
<1> HIDE DEF floored, potted
<1> QED BY <1>1, <1>3, <1>4

\* Its own variables: a flag to come back to is never one of the preparation.
Mine85(m) ==
  /\ {"stop", "last_flag", "error", "wait_time", "needThings", "needThings_back", "aim", "dish"}
       \subseteq DOMAIN m
  /\ m.last_flag \notin P85!Preparing

\* It goes on with something else, or it has what it needs.
LEMMA Elsewhere85 ==
  ASSUME P85!PreparesADish, After85(world', world), Mine85(my'),
         pc' \in P85!Preparing => my'.needThings_back \in P85!Needs,
         \/ pc' \notin {"Cooking", "using"} \/ world'.faults # 0 \/ P85!isCooking(world')
         \/ world'.floor["pot"] = my'.needThings_back
  PROVE  P85!PreparesADish'
BY DEF P85!PreparesADish, After85, Shaped85, Mine85, P85!isCooking, P85!Shows

\* What it does on the way changes nothing at the cooker.
LEMMA OnTheWay85 ==
  ASSUME P85!PreparesADish, Failed85(world', world) \/ Leaves85(world', world), UNCHANGED <<pc, my>>
  PROVE  P85!PreparesADish'
<1>1. After85(world', world) /\ Mine85(my')
  BY Leaves85After DEF P85!PreparesADish, Shaped85, Mine85
<1>2. CASE Failed85(world', world)
  <2>1. world'.faults # 0
    BY <1>2 DEF Failed85, P85!PreparesADish
  <2> QED BY <1>1, <2>1, Elsewhere85 DEF P85!PreparesADish
<1>3. CASE Leaves85(world', world)
  BY <1>1, <1>3, Elsewhere85 DEF Leaves85, P85!PreparesADish, P85!isCooking, P85!Shows
<1> QED BY <1>2, <1>3

\* A tool has nothing to do with cooking.
LEMMA UsesTool85 ==
  ASSUME NEW w, Shaped85(w), NEW v \in P85!useTool(w)
  PROVE  Failed85(v, w) \/ Leaves85(v, w)
<1>1. v \in P85!Fault(w) \/ v = w \/ v = [w EXCEPT !.tool = P85!ToolEmpty]
  BY DEF P85!useTool, P85!Or
<1>2. CASE v = w
  BY <1>2 DEF Leaves85, Shaped85
<1> QED BY <1>1, <1>2, Fault85, Kitchen85

\* A set of places in a list of twelve has a first one.
LEMMA Smallest85 ==
  ASSUME NEW S \in SUBSET (1 .. 12), S # {}
  PROVE  \E k \in S : \A j \in S : k <= j
<1> SUFFICES ASSUME \A k \in S : \E j \in S : ~ k <= j PROVE FALSE
  OBVIOUS
<1> DEFINE Above(n) == \A k \in S : n < k
<1>1. \A n \in 0 .. 11 : Above(n) => Above(n + 1)
  OBVIOUS
<1>2. Above(0) /\ ~ Above(12)
  <2>1. PICK k \in S : TRUE
    OBVIOUS
  <2>2. k \in 1 .. 12
    OBVIOUS
  <2> QED BY <2>2
<1> HIDE DEF Above
<1>3. ASSUME NEW n \in {0, 3, 6, 9}, Above(n) PROVE Above(n + 3)
  <2>1. Above(n + 1)
    BY <1>1, <1>3
  <2>2. Above((n + 1) + 1)
    BY <1>1, <2>1
  <2>3. Above(((n + 1) + 1) + 1)
    BY <1>1, <2>2
  <2> QED BY <2>3
<1>4. Above(0 + 3)
  BY <1>2, <1>3
<1>5. Above(3 + 3)
  BY <1>3, <1>4
<1>6. Above(6 + 3)
  BY <1>3, <1>5
<1>7. Above(9 + 3)
  BY <1>3, <1>6
<1> QED BY <1>2, <1>7

\* Every step keeps what it decided on, and that there is nothing else.
LEMMA Program85Keeps ==
  ASSUME P85!PreparesADish, P85!Next
  PROVE  P85!PreparesADish'
<1>0. Shaped85(world) /\ Mine85(my) /\ After85(world, world)
  BY DEF P85!PreparesADish, Shaped85, Mine85, After85
<1> USE DEF P85!Goto
<1>1. CASE P85!FindTaskDish
  BY <1>0, <1>1, Elsewhere85 DEF P85!FindTaskDish, P85!Preparing, Mine85
<1>2. CASE P85!FindTool
  BY <1>0, <1>2, Elsewhere85 DEF P85!FindTool, P85!Interrupted, P85!Preparing, Mine85
<1>3. CASE P85!Attack
  <2>1. world' \in P85!Fault(world) \/ world' = [world EXCEPT !.tool = P85!ToolEmpty]
    BY <1>3 DEF P85!Attack, P85!Or
  <2>2. Failed85(world', world) \/ Leaves85(world', world)
    BY <1>0, <2>1, Fault85, Kitchen85
  <2> QED BY <1>3, <2>2, OnTheWay85 DEF P85!Attack
<1>4. CASE P85!UseAgain
  BY <1>0, <1>4, UsesTool85, OnTheWay85 DEF P85!UseAgain
<1>5. ASSUME NEW f, NEW p, P85!GoTo(f, p) PROVE P85!PreparesADish'
  BY <1>0, <1>5, Kitchen85, OnTheWay85 DEF P85!GoTo, P85!Go
<1>6. CASE P85!GoToCooker
  BY <1>0, <1>6, Elsewhere85 DEF P85!GoToCooker, P85!Preparing, Mine85
<1>7. CASE P85!DecideWhichToCook
  <2>1. After85(world', world)
    <3>1. world' \in P85!put(world, "spot")
      BY <1>7 DEF P85!DecideWhichToCook
    <3> QED BY <1>0, <3>1, Kitchen85 DEF P85!put
  <2>2. \/ /\ pc' = "DecideWhichToCook"
           /\ my' = [my EXCEPT !.error = 0, !.stop = FALSE]
        \/ \E i \in DOMAIN P85!Recipes :
             /\ pc' = "DecideWhichToPut"
             /\ my' = [my EXCEPT !.error = 0, !.stop = TRUE, !.needThings = P85!Recipes[i].need,
                                 !.needThings_back = P85!Elements(P85!Recipes[i].need)]
    <3>1. PICK w : /\ world' = w
                   /\ IF P85!CanDo(w) = {}
                      THEN P85!Goto("DecideWhichToCook", [my EXCEPT !.error = 0, !.stop = FALSE])
                      ELSE LET r == P85!Recipes[CHOOSE i \in P85!CanDo(w) : \A j \in P85!CanDo(w) : i <= j] IN
                           P85!Goto("DecideWhichToPut",
                                [my EXCEPT !.error = 0, !.stop = TRUE, !.needThings = r.need,
                                           !.needThings_back = P85!Elements(r.need)])
      BY <1>7 DEF P85!DecideWhichToCook
    <3>2. CASE P85!CanDo(w) = {}
      BY <3>1, <3>2
    <3>3. CASE P85!CanDo(w) # {}
      <4>1. PICK i : i = CHOOSE k \in P85!CanDo(w) : \A j \in P85!CanDo(w) : k <= j
        OBVIOUS
      <4>2. i \in P85!CanDo(w)
        <5>1. P85!CanDo(w) \subseteq 1 .. 12
          BY DEF P85!CanDo, P85!Recipes
        <5> HIDE DEF P85!Goto
        <5>2. \E k \in P85!CanDo(w) : \A j \in P85!CanDo(w) : k <= j
          BY <3>3, <5>1, Smallest85
        <5> QED BY <4>1, <5>2
      <4>3. i \in DOMAIN P85!Recipes
        BY <4>2 DEF P85!CanDo
      <4> QED BY <3>1, <3>3, <4>1, <4>3
    <3> QED BY <3>2, <3>3
  <2>3. CASE pc' = "DecideWhichToCook" /\ my' = [my EXCEPT !.error = 0, !.stop = FALSE]
    BY <1>0, <2>1, <2>3, Elsewhere85 DEF P85!Preparing, Mine85
  <2>4. ASSUME NEW i \in DOMAIN P85!Recipes, pc' = "DecideWhichToPut",
               my' = [my EXCEPT !.error = 0, !.stop = TRUE, !.needThings = P85!Recipes[i].need,
                                !.needThings_back = P85!Elements(P85!Recipes[i].need)]
        PROVE  P85!PreparesADish'
    <3>1. Mine85(my') /\ my'.needThings_back = P85!Elements(P85!Recipes[i].need)
      BY <1>0, <2>4 DEF Mine85
    <3>2. my'.needThings_back \in P85!Needs
      BY <3>1 DEF P85!Needs
    <3> QED BY <2>1, <2>4, <3>1, <3>2, Elsewhere85
  <2> QED BY <2>2, <2>3, <2>4
<1>8. CASE P85!DecideWhichToPut
  <2>1. /\ pc = "DecideWhichToPut" /\ UNCHANGED world
        /\ pc' \in {"CheckCooker", "DecideWhichToCook", "GoToPutDishToCooker"}
    BY <1>8 DEF P85!DecideWhichToPut, P85!At
  <2>2. Mine85(my') /\ my'.needThings_back = my.needThings_back
    BY <1>0, <1>8 DEF P85!DecideWhichToPut, Mine85
  <2> QED BY <1>0, <2>1, <2>2, Elsewhere85 DEF P85!PreparesADish, P85!Preparing
<1>9. CASE P85!GoToPutDishToCooker
  BY <1>0, <1>9, Elsewhere85 DEF P85!GoToPutDishToCooker, P85!At, P85!Preparing, P85!PreparesADish, Mine85
<1>10. ASSUME NEW w, NEW l, NEW q, P85!Try(w, l, q)
       PROVE  /\ world' = w /\ pc' \in {l, q} /\ my'.needThings_back = my.needThings_back
              /\ Mine85(my')
  BY <1>0, <1>10 DEF P85!Try, Mine85
<1>11. ASSUME NEW f, NEW g, NEW h, P85!PickLoop(f, g, h),
              <<f, g, h>> \in {<<"pickToPut", "PutDishToCooker", "DecideWhichToCook">>,
                               <<"pickToHand", "GoingToTaskPoint", my.last_flag>>}
       PROVE  P85!PreparesADish'
  <2>1. After85(world', world) /\ Mine85(my') /\ pc' \in {f, g, h} /\ pc = f
        /\ my'.needThings_back = my.needThings_back
    <3>1. CASE world.hand = my.dish
      BY <1>0, <1>11, <3>1 DEF P85!PickLoop, Mine85
    <3>2. CASE world.hand # my.dish
      BY <1>0, <1>10, <1>11, <3>2, Kitchen85 DEF P85!PickLoop
    <3> QED BY <3>1, <3>2
  <2>2. /\ pc' \notin {"Cooking", "using"}
        /\ pc' \in P85!Preparing => pc \in P85!Preparing
    BY <1>0, <1>11, <2>1 DEF Mine85, P85!Preparing
  <2> QED BY <2>1, <2>2, Elsewhere85 DEF P85!PreparesADish
<1>12. CASE P85!PutDishToCooker
  <2>1. /\ pc \in P85!Preparing /\ pc' \in {"DecideWhichToPut", "putting", "DecideWhichToCook"}
        /\ After85(world', world) /\ Mine85(my') /\ my'.needThings_back = my.needThings_back
    <3>1. pc \in P85!Preparing
      BY <1>12 DEF P85!PutDishToCooker, P85!At, P85!Preparing
    <3>2. CASE world.hand = P85!None
      BY <1>0, <1>12, <3>1, <3>2 DEF P85!PutDishToCooker, Mine85
    <3>3. CASE world.hand # P85!None
      BY <1>0, <1>10, <1>12, <3>1, <3>3, Kitchen85 DEF P85!PutDishToCooker, P85!put
    <3> QED BY <3>2, <3>3
  <2> QED BY <2>1, Elsewhere85 DEF P85!PreparesADish
<1>13. CASE P85!CheckCooker
  <2>1. /\ pc = "CheckCooker" /\ my' = my
        /\ pc' = IF my.needThings_back \subseteq world'.floor["pot"] THEN "Cooking" ELSE "DecideWhichToCook"
        /\ world' \in IF P85!Others(world) = {} THEN {world} ELSE P85!Cleared(world)
    BY <1>13 DEF P85!CheckCooker, P85!At
  <2>2. /\ After85(world', world)
        /\ world'.faults # 0 \/ world'.floor["pot"] \subseteq my.needThings_back
    <3>1. CASE world' = world
      <4>1. CASE P85!Others(world) = {}
        BY <1>0, <3>1, <4>1 DEF P85!Others
      <4>2. CASE P85!Others(world) # {}
        <5>1. \/ world' \in P85!Fault(world)
              \/ world' = [world EXCEPT !.floor["pot"] = @ \cap my.needThings_back,
                                        !.floor["spot"] = @ \cup P85!Others(world)]
          BY <2>1, <4>2 DEF P85!Cleared, P85!Or
        <5>2. ~ world' \in P85!Fault(world)
          BY <1>0, <3>1, Fault85 DEF Failed85, Shaped85
        <5>3. world' = [world EXCEPT !.floor["pot"] = @ \cap my.needThings_back,
                                     !.floor["spot"] = @ \cup P85!Others(world)]
          BY <5>1, <5>2
        <5>4. world'.floor["pot"] = world.floor["pot"] \cap my.needThings_back
          BY <1>0, <5>3 DEF Shaped85, P85!Fields
        <5> QED BY <1>0, <3>1, <5>4
      <4> QED BY <4>1, <4>2
    <3>2. CASE world' \in P85!Fault(world)
      BY <1>0, <3>2, Fault85, Leaves85After DEF Failed85, Shaped85
    <3>3. CASE world' = [world EXCEPT !.floor["pot"] = @ \cap my.needThings_back,
                                     !.floor["spot"] = @ \cup P85!Others(world)]
      <4>1. /\ DOMAIN world' = DOMAIN world /\ DOMAIN world'.floor = DOMAIN world.floor
            /\ world'.faults = world.faults /\ world'.pot = world.pot
            /\ world'.floor["pot"] = world.floor["pot"] \cap my.needThings_back
        BY <1>0, <3>3 DEF Shaped85, P85!Fields
      <4> QED BY <1>0, <4>1 DEF After85, Shaped85
    <3> QED BY <2>1, <3>1, <3>2, <3>3 DEF P85!Cleared, P85!Or
  <2>3. my.needThings_back \in P85!Needs
    BY <2>1 DEF P85!PreparesADish, P85!Preparing
  <2>4. pc' # "using" /\ (pc' = "Cooking" => my.needThings_back \subseteq world'.floor["pot"])
    BY <2>1
  <2> QED BY <1>0, <2>1, <2>2, <2>3, <2>4, Elsewhere85 DEF P85!Preparing
<1>14. CASE P85!Cooking
  <2>1. pc \in {"Cooking", "using"} /\ pc \in P85!Preparing /\ my.needThings_back \in P85!Needs
    BY <1>14 DEF P85!Cooking, P85!At, P85!Preparing, P85!PreparesADish
  <2>2. CASE P85!isCooking(world)
    <3>1. /\ pc' = "WaitCookFinish" /\ my' = [my EXCEPT !.error = 0] /\ UNCHANGED world
      BY <1>14, <2>2 DEF P85!Cooking
    <3> QED BY <1>0, <3>1, Elsewhere85 DEF P85!Preparing, Mine85
  <2>3. CASE ~ P85!isCooking(world)
    <3>1. /\ world' \in P85!UseCooker(world, "pot") /\ pc' \in {"using", "DecideWhichToCook"}
          /\ my'.needThings_back = my.needThings_back /\ Mine85(my')
      BY <1>10, <1>14, <2>3 DEF P85!Cooking
    <3>2. /\ After85(world', world)
          /\ world'.faults > world.faults \/ world.floor["pot"] = {} \/ P85!isCooking(world')
      BY <1>0, <3>1, Cooker85
    <3>3. world.faults = 0 => world.floor["pot"] # {}
      BY <2>1, <2>3, Product85 DEF P85!PreparesADish
    <3>4. world'.faults # 0 \/ P85!isCooking(world')
      BY <1>0, <3>2, <3>3 DEF After85, Shaped85
    <3> QED BY <2>1, <3>1, <3>2, <3>4, Elsewhere85
  <2> QED BY <2>2, <2>3
<1>15. CASE P85!WaitCookFinish
  <2>1. /\ pc' \in {"DecideWhichToCook", "takeDish", "WaitCookFinish", "ThrowToDustbin"}
        /\ world' = world \/ world' \in P85!PickBlock(world, "pot")
    BY <1>15 DEF P85!WaitCookFinish
  <2>2. Mine85(my')
    BY <1>0, <1>15 DEF P85!WaitCookFinish, Mine85
  <2> QED BY <1>0, <2>1, <2>2, Kitchen85, Elsewhere85 DEF P85!Preparing
<1>16. CASE P85!TakeDish
  <2>1. /\ pc' \in {"DecideWhichToCook", "takeDish", "GoingToTaskPoint", "dropDish"}
        /\ world' = world \/ world' \in P85!PickBlock(world, "pot")
        /\ Mine85(my')
    <3>1. CASE \E w \in P85!PickBlock(world, "pot") :
                 /\ world' = w
                 /\ IF my.error + 1 >= P85!max_error
                    THEN P85!Goto("DecideWhichToCook", [my EXCEPT !.error = 0, !.wait_time = 0])
                    ELSE P85!Goto("takeDish", [my EXCEPT !.error = @ + 1])
      BY <1>0, <3>1 DEF Mine85
    <3>2. CASE /\ P85!Goto("GoingToTaskPoint", [my EXCEPT !.wait_time = 0, !.last_flag = "GoToCooker",
                                                          !.dish = world.hand])
               /\ UNCHANGED world
      BY <1>0, <3>2 DEF Mine85, P85!Preparing
    <3>3. CASE P85!Goto("dropDish", my) /\ UNCHANGED world
      BY <1>0, <3>3
    <3> QED BY <1>16, <3>1, <3>2, <3>3 DEF P85!TakeDish
  <2> QED BY <1>0, <2>1, Kitchen85, Elsewhere85 DEF P85!Preparing
<1>17. CASE P85!DropDish
  <2>1. /\ pc' \in {"DecideWhichToCook", "dropDish"}
        /\ world' = world \/ world' \in P85!put(world, "spot")
    BY <1>17 DEF P85!DropDish
  <2>2. Mine85(my')
    BY <1>0, <1>17 DEF P85!DropDish, Mine85
  <2>3. After85(world', world)
    BY <1>0, <2>1, Kitchen85 DEF P85!put
  <2> QED BY <2>1, <2>2, <2>3, Elsewhere85 DEF P85!Preparing
<1>18. CASE P85!ThrowToDustbin
  <2>1. /\ pc' \in {"GoToCooker", "ThrowToDustbin"} /\ my' = my
        /\ world' = world \/ world' \in P85!ThrowAway(world)
    BY <1>18 DEF P85!ThrowToDustbin
  <2> QED BY <1>0, <2>1, Kitchen85, Elsewhere85 DEF P85!Preparing
<1>19. CASE P85!GoingToPickDishToHand
  BY <1>0, <1>19, Elsewhere85 DEF P85!GoingToPickDishToHand, P85!Preparing
<1>20. CASE P85!GoingToTaskPoint
  <2>1. world' = [world EXCEPT !.at = "road"] /\ pc' = "HandingTask" /\ my' = my
    BY <1>20 DEF P85!GoingToTaskPoint, P85!Go
  <2>2. After85(world', world)
    BY <1>0, <2>1, Kitchen85, Leaves85After
  <2> QED BY <1>0, <2>1, <2>2, Elsewhere85 DEF P85!Preparing
<1>21. CASE P85!HandingTask
  <2>1. /\ pc' \in {"HandingTask", my.last_flag} /\ Mine85(my')
        /\ world' = world \/ world' \in P85!HandIn(world)
    <3>1. CASE world.hand = P85!None
      BY <1>0, <1>21, <3>1 DEF P85!HandingTask
    <3>2. CASE world.hand # P85!None
      BY <1>10, <1>21, <3>2 DEF P85!HandingTask
    <3> QED BY <3>1, <3>2
  <2>2. pc' \notin P85!Preparing
    BY <1>0, <2>1 DEF Mine85, P85!Preparing
  <2> QED BY <1>0, <2>1, <2>2, Kitchen85, Elsewhere85 DEF P85!Preparing
<1>22. CASE P85!ReturnToWait
  BY <1>0, <1>22, Elsewhere85 DEF P85!ReturnToWait, P85!Preparing
<1>23. CASE P85!PickAndUseTool
  <2>1. pc' = my.last_flag /\ my' = my
    BY <1>23 DEF P85!PickAndUseTool
  <2>2. PICK w : /\ w \in P85!Or([world EXCEPT !.tool = world.lies, !.lies = P85!ToolEmpty], world)
                 /\ world' \in P85!useTool(w)
    BY <1>23 DEF P85!PickAndUseTool
  <2>3. After85(w, world)
    <3>1. CASE w \in P85!Fault(world)
      BY <1>0, <3>1, Fault85, Leaves85After
    <3>2. CASE w = [world EXCEPT !.tool = world.lies, !.lies = P85!ToolEmpty]
      BY <1>0, <3>2 DEF After85, Shaped85, P85!Fields
    <3> QED BY <2>2, <3>1, <3>2 DEF P85!Or
  <2>4. After85(world', w)
    BY <2>2, <2>3, UsesTool85, Leaves85After DEF After85
  <2>5. After85(world', world)
    BY <1>0, <2>3, <2>4 DEF After85, Shaped85
  <2>6. pc' \notin P85!Preparing
    BY <1>0, <2>1 DEF Mine85
  <2> QED BY <1>0, <2>1, <2>5, <2>6, Elsewhere85 DEF P85!Preparing
<1>24. CASE P85!Done
  <2>1. /\ world.pot["pot"].cooking /\ world' = P85!Ready(world, "pot") /\ UNCHANGED <<pc, my>>
    BY <1>24 DEF P85!Done
  <2>2. After85(world', world) /\ P85!isCooking(world')
    BY <1>0, <2>1, Cooker85
  <2> QED BY <1>0, <2>1, <2>2, Elsewhere85 DEF P85!PreparesADish
<1>25. CASE P85!Supply
  <2>1. PICK f : world' = [world EXCEPT !.floor["spot"] = @ \cup {f}]
    BY <1>25 DEF P85!Supply
  <2>2. Leaves85(world', world)
    BY <1>0, <2>1 DEF Leaves85, Shaped85, P85!Fields
  <2> QED BY <1>25, <2>2, OnTheWay85 DEF P85!Supply
<1>26. CASE P85!Disturb
  <2>1. Failed85(world', world)
    <3>1. CASE world' \in P85!Taken(world)
      BY <1>0, <3>1, Taken85
    <3>2. ASSUME NEW w \in P85!Fault(world), NEW t,
                 world' = [w EXCEPT !.lies = t] \/ world' = [w EXCEPT !.task_list = t]
          PROVE  Failed85(world', world)
      BY <1>0, <3>2, Fault85 DEF Failed85, Shaped85, P85!Fields
    <3> QED BY <1>26, <3>1, <3>2 DEF P85!Disturb
  <2> QED BY <1>26, <2>1, OnTheWay85 DEF P85!Disturb
<1> HIDE DEF P85!Goto
<1> QED
  BY <1>1, <1>2, <1>3, <1>4, <1>5, <1>6, <1>7, <1>8, <1>9, <1>11, <1>12, <1>13, <1>14, <1>15, <1>16,
     <1>17, <1>18, <1>19, <1>20, <1>21, <1>22, <1>23, <1>24, <1>25, <1>26
  DEF P85!Next, P85!play

\* Program 85 as part of what runs on a player's machine.
Kept85 == prog = "85" => P85!PreparesADish

LEMMA Begins85 ==
  ASSUME PlayersInit PROVE Kept85
<1> SUFFICES ASSUME prog = "85" PROVE P85!PreparesADish
  BY DEF Kept85
<1>1. P85!Init
  BY DEF PlayersInit
<1>2. PICK w : /\ w = P85!NewWorld({"spot", "pot"}, {"pot"})
               /\ \E stray, task_list, lies :
                    world = [at |-> w.at, hand |-> w.hand, faults |-> w.faults, pot |-> w.pot,
                             floor |-> [w.floor EXCEPT !["pot"] = stray],
                             task_list |-> task_list, lies |-> lies, tool |-> P85!ToolEmpty]
  BY <1>1 DEF P85!Init
<1>3. /\ w.faults = 0 /\ DOMAIN w.floor = {"spot", "pot"} /\ w.pot = [p \in {"pot"} |-> P85!Idle]
  BY <1>2 DEF P85!NewWorld
<1>4. /\ P85!Fields \subseteq DOMAIN world /\ world.faults = 0
      /\ DOMAIN world.floor = {"spot", "pot"} /\ DOMAIN world.pot = {"pot"}
      /\ world.pot["pot"] = P85!Idle
  BY <1>2, <1>3 DEF P85!Fields
<1> QED BY <1>1, <1>4 DEF P85!Init, P85!PreparesADish, P85!Idle, P85!Preparing

LEMMA Continues85 ==
  ASSUME Kept85, [PlayersNext]_playersVars PROVE Kept85'
<1> SUFFICES ASSUME prog' = "85" PROVE P85!PreparesADish'
  BY DEF Kept85
<1>1. prog = "85" /\ P85!PreparesADish
  BY DEF Kept85, PlayersNext, playersVars
<1>2. P85!Next \/ UNCHANGED <<pc, my, world>>
  BY <1>1 DEF PlayersNext, playersVars, Program
<1>3. CASE UNCHANGED <<pc, my, world>>
  BY <1>1, <1>3 DEF P85!PreparesADish, P85!isCooking, P85!Shows
<1> QED BY <1>1, <1>2, <1>3, Program85Keeps

\* Where nothing went wrong program 85 uses the cooker on all and only what it
\* decided on, and that is a line of the cooking table.
THEOREM Program85CooksWhatItMeans ==
  PlayersSpec => [](prog = "85" => P85!CooksWhatItMeans)
<1>1. Kept85 => (prog = "85" => P85!CooksWhatItMeans)
  BY Product85 DEF Kept85, P85!PreparesADish, P85!CooksWhatItMeans, P85!Preparing
<1> QED BY <1>1, Begins85, Continues85, PTL DEF PlayersSpec, Plays

-----------------------------------------------------------------------------
(* Program 79: what the cook brings.                                        *)

\* Step by step what is written down for a dish.
LEMMA StepKinds79 ==
  /\ F79!put[1] = "put" /\ F79!use[1] = "use" /\ F79!wait[1] = "Sleep" /\ F79!pick[1] = "pick"
  /\ \A f : F79!fetch(f) = <<"fetch", f>>
  /\ \A p : F79!to(p) = <<"moveto", p>>
BY DEF F79!put, F79!use, F79!wait, F79!pick, F79!fetch, F79!to

LEMMA StepsOfCookedRice79 ==
  LET s == F79!CookedRice IN
    /\ Len(s) = 5 /\ s[1] = <<"fetch", "Rice">> /\ s[2] = <<"moveto", F79!pot>>
    /\ s[3][1] = "put" /\ s[4][1] = "use" /\ s[5][1] = "Sleep"
<1> DEFINE s == F79!CookedRice
<1>1. /\ Len(s) = 5 /\ s[1] = F79!fetch("Rice") /\ s[2] = F79!to(F79!pot) /\ s[3] = F79!put
      /\ s[4] = F79!use /\ s[5] = F79!wait
  BY DEF F79!CookedRice, F79!cook
<1> HIDE DEF s
<1> QED BY <1>1, StepKinds79 DEF s

LEMMA StepsOfTomatoFriedEgg79 ==
  LET s == F79!TomatoFriedEgg IN
    /\ Len(s) = 8 /\ s[1] = <<"fetch", "Tomato">> /\ s[2] = <<"moveto", F79!pot>>
    /\ s[3][1] = "put" /\ s[4] = <<"fetch", "Egg">> /\ s[5] = <<"moveto", F79!pot>>
    /\ s[6][1] = "put" /\ s[7][1] = "use" /\ s[8][1] = "Sleep"
<1> DEFINE s == F79!TomatoFriedEgg
<1>1. /\ Len(s) = 8 /\ s[1] = F79!fetch("Tomato") /\ s[2] = F79!to(F79!pot) /\ s[3] = F79!put
      /\ s[4] = F79!fetch("Egg") /\ s[5] = F79!to(F79!pot) /\ s[6] = F79!put /\ s[7] = F79!use
      /\ s[8] = F79!wait
  BY DEF F79!TomatoFriedEgg, F79!cook
<1> HIDE DEF s
<1> QED BY <1>1, StepKinds79 DEF s

LEMMA StepsOfBarbecue79 ==
  LET s == F79!Barbecue IN
    /\ Len(s) = 8 /\ s[1] = <<"fetch", "Pork">> /\ s[2] = <<"moveto", F79!pot>>
    /\ s[3][1] = "put" /\ s[4] = <<"fetch", "Lettuce">> /\ s[5] = <<"moveto", F79!pot>>
    /\ s[6][1] = "put" /\ s[7][1] = "use" /\ s[8][1] = "Sleep"
<1> DEFINE s == F79!Barbecue
<1>1. /\ Len(s) = 8 /\ s[1] = F79!fetch("Pork") /\ s[2] = F79!to(F79!pot) /\ s[3] = F79!put
      /\ s[4] = F79!fetch("Lettuce") /\ s[5] = F79!to(F79!pot) /\ s[6] = F79!put
      /\ s[7] = F79!use /\ s[8] = F79!wait
  BY DEF F79!Barbecue, F79!cook
<1> HIDE DEF s
<1> QED BY <1>1, StepKinds79 DEF s

LEMMA StepsOfFrenchFries79 ==
  LET s == F79!FrenchFries IN
    /\ Len(s) = 12 /\ s[1] = <<"fetch", "Tomato">> /\ s[2] = <<"moveto", F79!pot>>
    /\ s[3][1] = "put" /\ s[4][1] = "use" /\ s[5][1] = "Sleep" /\ s[6][1] = "pick"
    /\ s[7][1] = "put" /\ s[8] = <<"fetch", "Potato">> /\ s[9] = <<"moveto", F79!pot>>
    /\ s[10][1] = "put" /\ s[11][1] = "use" /\ s[12][1] = "Sleep"
<1> DEFINE s == F79!FrenchFries
<1>1. /\ Len(s) = 12 /\ s[1] = F79!fetch("Tomato") /\ s[2] = F79!to(F79!pot) /\ s[3] = F79!put
      /\ s[4] = F79!use /\ s[5] = F79!wait /\ s[6] = F79!pick /\ s[7] = F79!put
      /\ s[8] = F79!fetch("Potato") /\ s[9] = F79!to(F79!pot) /\ s[10] = F79!put
      /\ s[11] = F79!use /\ s[12] = F79!wait
  BY DEF F79!FrenchFries, F79!cook
<1> HIDE DEF s
<1> QED BY <1>1, StepKinds79 DEF s

LEMMA StepsOfTomatoFriedEggNoodle79 ==
  LET s == F79!TomatoFriedEggNoodle IN
    /\ Len(s) = 28 /\ s[1] = <<"fetch", "Tomato">> /\ s[2] = <<"moveto", F79!pot>>
    /\ s[3][1] = "put" /\ s[4] = <<"fetch", "Egg">> /\ s[5] = <<"moveto", F79!pot>>
    /\ s[6][1] = "put" /\ s[7][1] = "use" /\ s[8][1] = "Sleep" /\ s[9][1] = "pick"
    /\ s[10] = <<"moveto", F79!table>> /\ s[11][1] = "put" /\ s[12] = <<"fetch", "Wheat">>
    /\ s[13] = <<"moveto", F79!pot>> /\ s[14][1] = "put" /\ s[15][1] = "use"
    /\ s[16][1] = "Sleep" /\ s[17][1] = "pick" /\ s[18][1] = "put" /\ s[19][1] = "use"
    /\ s[20][1] = "Sleep" /\ s[21][1] = "pick" /\ s[22][1] = "put"
    /\ s[23] = <<"moveto", F79!table>> /\ s[24][1] = "pick" /\ s[25] = <<"moveto", F79!pot>>
    /\ s[26][1] = "put" /\ s[27][1] = "use" /\ s[28][1] = "Sleep"
<1> DEFINE s == F79!TomatoFriedEggNoodle
<1>1. /\ Len(s) = 28 /\ s[1] = F79!fetch("Tomato") /\ s[2] = F79!to(F79!pot) /\ s[3] = F79!put
      /\ s[4] = F79!fetch("Egg") /\ s[5] = F79!to(F79!pot) /\ s[6] = F79!put /\ s[7] = F79!use
      /\ s[8] = F79!wait /\ s[9] = F79!pick /\ s[10] = F79!to(F79!table) /\ s[11] = F79!put
      /\ s[12] = F79!fetch("Wheat") /\ s[13] = F79!to(F79!pot) /\ s[14] = F79!put
      /\ s[15] = F79!use /\ s[16] = F79!wait /\ s[17] = F79!pick /\ s[18] = F79!put
      /\ s[19] = F79!use /\ s[20] = F79!wait /\ s[21] = F79!pick /\ s[22] = F79!put
      /\ s[23] = F79!to(F79!table) /\ s[24] = F79!pick /\ s[25] = F79!to(F79!pot)
      /\ s[26] = F79!put /\ s[27] = F79!use /\ s[28] = F79!wait
  BY DEF F79!TomatoFriedEggNoodle, F79!cook, F79!TomatoFriedEgg
<1> HIDE DEF s
<1> QED BY <1>1, StepKinds79 DEF s

LEMMA StepsOfBeefNoodle79 ==
  LET s == F79!BeefNoodle IN
    /\ Len(s) = 15 /\ s[1] = <<"fetch", "Wheat">> /\ s[2] = <<"moveto", F79!pot>>
    /\ s[3][1] = "put" /\ s[4][1] = "use" /\ s[5][1] = "Sleep" /\ s[6][1] = "pick"
    /\ s[7][1] = "put" /\ s[8][1] = "use" /\ s[9][1] = "Sleep" /\ s[10][1] = "pick"
    /\ s[11][1] = "put" /\ s[12] = <<"fetch", "Beef">> /\ s[13] = <<"moveto", F79!pot>>
    /\ s[14][1] = "put" /\ s[15][1] = "use"
<1> DEFINE s == F79!BeefNoodle
<1>1. /\ Len(s) = 15 /\ s[1] = F79!fetch("Wheat") /\ s[2] = F79!to(F79!pot) /\ s[3] = F79!put
      /\ s[4] = F79!use /\ s[5] = F79!wait /\ s[6] = F79!pick /\ s[7] = F79!put
      /\ s[8] = F79!use /\ s[9] = F79!wait /\ s[10] = F79!pick /\ s[11] = F79!put
      /\ s[12] = F79!fetch("Beef") /\ s[13] = F79!to(F79!pot) /\ s[14] = F79!put
      /\ s[15] = F79!use
  BY DEF F79!BeefNoodle, F79!cook
<1> HIDE DEF s
<1> QED BY <1>1, StepKinds79 DEF s

LEMMA StepsOfOverRice79 ==
  LET s == F79!OverRice IN
    /\ Len(s) = 15 /\ s[1] = <<"fetch", "Rice">> /\ s[2] = <<"moveto", F79!pot>>
    /\ s[3][1] = "put" /\ s[4][1] = "use" /\ s[5][1] = "Sleep" /\ s[6][1] = "pick"
    /\ s[7][1] = "put" /\ s[8] = <<"fetch", "Pork">> /\ s[9] = <<"moveto", F79!pot>>
    /\ s[10][1] = "put" /\ s[11] = <<"fetch", "Potato">> /\ s[12] = <<"moveto", F79!pot>>
    /\ s[13][1] = "put" /\ s[14][1] = "use" /\ s[15][1] = "Sleep"
<1> DEFINE s == F79!OverRice
<1>1. /\ Len(s) = 15 /\ s[1] = F79!fetch("Rice") /\ s[2] = F79!to(F79!pot) /\ s[3] = F79!put
      /\ s[4] = F79!use /\ s[5] = F79!wait /\ s[6] = F79!pick /\ s[7] = F79!put
      /\ s[8] = F79!fetch("Pork") /\ s[9] = F79!to(F79!pot) /\ s[10] = F79!put
      /\ s[11] = F79!fetch("Potato") /\ s[12] = F79!to(F79!pot) /\ s[13] = F79!put
      /\ s[14] = F79!use /\ s[15] = F79!wait
  BY DEF F79!OverRice, F79!cook
<1> HIDE DEF s
<1> QED BY <1>1, StepKinds79 DEF s

\* Whatever is written down for a dish: every use is at the cooker and followed by
\* a sleep, and it ends there with a use or a sleep.
InOrder79(s, facing) ==
  /\ Len(s) \in Nat /\ 1 \notin facing
  /\ \A i \in 1 .. Len(s) :
       /\ i + 1 \in facing =>
            \/ s[i][1] = "moveto" /\ s[i][2] = F79!pot
            \/ i \in facing /\ s[i][1] \notin {"fetch", "moveto"}
       /\ s[i][1] = "use" => i \in facing /\ (i < Len(s) => s[i + 1][1] = "Sleep")
       /\ s[i][1] = "Sleep" => i > 1 /\ s[i - 1][1] = "use"
  /\ Len(s) > 0 => Len(s) + 1 \in facing /\ s[Len(s)][1] \in {"use", "Sleep"}

\* So it is written down, for every object.
LEMMA StepsInOrder79 ==
  ASSUME NEW o
  PROVE  InOrder79(F79!Steps(o), F79!Facing(o))
<1>1. CASE o = "CookedRice"
  <2>1. F79!Steps(o) = F79!CookedRice /\ F79!Facing(o) = 3 .. 6
    BY <1>1 DEF F79!Steps, F79!Facing
  <2>2. ASSUME NEW s, s = F79!CookedRice PROVE InOrder79(s, 3 .. 6)
    BY <2>2, StepsOfCookedRice79 DEF InOrder79
  <2> QED BY <2>1, <2>2
<1>2. CASE o = "TomatoFriedEgg"
  <2>1. F79!Steps(o) = F79!TomatoFriedEgg /\ F79!Facing(o) = {3, 4} \cup 6 .. 9
    BY <1>2 DEF F79!Steps, F79!Facing
  <2>2. ASSUME NEW s, s = F79!TomatoFriedEgg PROVE InOrder79(s, {3, 4} \cup 6 .. 9)
    BY <2>2, StepsOfTomatoFriedEgg79 DEF InOrder79
  <2> QED BY <2>1, <2>2
<1>3. CASE o = "Barbecue"
  <2>1. F79!Steps(o) = F79!Barbecue /\ F79!Facing(o) = {3, 4} \cup 6 .. 9
    BY <1>3 DEF F79!Steps, F79!Facing
  <2>2. ASSUME NEW s, s = F79!Barbecue PROVE InOrder79(s, {3, 4} \cup 6 .. 9)
    BY <2>2, StepsOfBarbecue79 DEF InOrder79
  <2> QED BY <2>1, <2>2
<1>4. CASE o = "FrenchFries"
  <2>1. F79!Steps(o) = F79!FrenchFries /\ F79!Facing(o) = 3 .. 8 \cup 10 .. 13
    BY <1>4 DEF F79!Steps, F79!Facing
  <2>2. ASSUME NEW s, s = F79!FrenchFries PROVE InOrder79(s, 3 .. 8 \cup 10 .. 13)
    BY <2>2, StepsOfFrenchFries79 DEF InOrder79
  <2> QED BY <2>1, <2>2
<1>5. CASE o = "TomatoFriedEggNoodle"
  <2>1. /\ F79!Steps(o) = F79!TomatoFriedEggNoodle
        /\ F79!Facing(o) = 6 .. 10 \cup 14 .. 23 \cup 26 .. 29
    BY <1>5 DEF F79!Steps, F79!Facing
  <2>2. ASSUME NEW s, s = F79!TomatoFriedEggNoodle
        PROVE  InOrder79(s, 6 .. 10 \cup 14 .. 23 \cup 26 .. 29)
    BY <2>2, StepsOfTomatoFriedEggNoodle79 DEF InOrder79
  <2> QED BY <2>1, <2>2
<1>6. CASE o = "BeefNoodle"
  <2>1. F79!Steps(o) = F79!BeefNoodle /\ F79!Facing(o) = 3 .. 12 \cup 14 .. 16
    BY <1>6 DEF F79!Steps, F79!Facing
  <2>2. ASSUME NEW s, s = F79!BeefNoodle PROVE InOrder79(s, 3 .. 12 \cup 14 .. 16)
    BY <2>2, StepsOfBeefNoodle79 DEF InOrder79
  <2> QED BY <2>1, <2>2
<1>7. CASE o = "OverRice"
  <2>1. F79!Steps(o) = F79!OverRice /\ F79!Facing(o) = 3 .. 8 \cup 13 .. 16
    BY <1>7 DEF F79!Steps, F79!Facing
  <2>2. ASSUME NEW s, s = F79!OverRice PROVE InOrder79(s, 3 .. 8 \cup 13 .. 16)
    BY <2>2, StepsOfOverRice79 DEF InOrder79
  <2> QED BY <2>1, <2>2
<1>8. CASE o \notin {"CookedRice", "TomatoFriedEgg", "Barbecue", "FrenchFries",
                     "TomatoFriedEggNoodle", "BeefNoodle", "OverRice"}
  <2>1. F79!Steps(o) = <<>> /\ F79!Facing(o) = {}
    BY <1>8 DEF F79!Steps, F79!Facing
  <2> QED BY <2>1 DEF InOrder79
<1> QED BY <1>1, <1>2, <1>3, <1>4, <1>5, <1>6, <1>7, <1>8

\* What the right steps lead to.
Charted79(s, facing, c, o) ==
  /\ Len(s) > 0 /\ s[Len(s)][1] = "Sleep" /\ c.made[Len(s) + 1] = o
  /\ c.hand[1] = "?" /\ c.lies[1] = {} /\ c.made[1] = "?"
  /\ \A i \in 1 .. Len(s) :
       /\ s[i][1] \in {"put", "pick"} => i \in facing
       /\ c.hand[i + 1] \in CASE s[i][1] = "fetch" -> {s[i][2]}
                              [] s[i][1] = "put" -> {"?", F79!None}
                              [] s[i][1] = "pick" -> {"?", c.made[i]}
                              [] OTHER -> {"?", c.hand[i]}
       /\ c.lies[i + 1] = CASE s[i][1] = "put" -> c.lies[i] \cup ({c.hand[i]} \ {F79!None})
                            [] s[i][1] = "use" -> {}
                            [] OTHER -> c.lies[i]
       /\ c.made[i + 1] \in CASE s[i][1] = "use" -> {"?", F79!Product(c.lies[i])}
                              [] s[i][1] = "pick" -> {"?"}
                              [] OTHER -> {"?", c.made[i]}
       /\ s[i][1] = "put" => c.hand[i] # "?"
       /\ s[i][1] = "use" => c.lies[i] # {}
       /\ s[i][1] = "pick" => c.made[i] \notin {"?", F79!None} /\ i > 1 /\ s[i - 1][1] = "Sleep"

\* What is made of the food of the right steps.
LEMMA Products79 ==
  /\ F79!Product({"Rice"}) = "CookedRice" /\ F79!Product({"Tomato"}) = "Ketchup"
  /\ F79!Product({"Tomato", "Egg"}) = "TomatoFriedEgg"
  /\ F79!Product({"Pork", "Lettuce"}) = "Barbecue"
  /\ F79!Product({"Ketchup", "Potato"}) = "FrenchFries"
<1>1. ASSUME NEW r \in F79!CookingTable
      PROVE  F79!Product(r[1]) = r[2]
  <2>1. \A q \in F79!CookingTable : q[1] = r[1] => q[2] = r[2]
    BY DEF F79!CookingTable
  <2>2. PICK q : q = CHOOSE p \in F79!CookingTable : p[1] = r[1]
    OBVIOUS
  <2>3. q \in F79!CookingTable /\ q[1] = r[1]
    BY <2>2
  <2> QED BY <2>1, <2>2, <2>3 DEF F79!Product
<1>2. /\ <<{"Rice"}, "CookedRice">> \in F79!CookingTable
      /\ <<{"Tomato"}, "Ketchup">> \in F79!CookingTable
      /\ <<{"Tomato", "Egg"}, "TomatoFriedEgg">> \in F79!CookingTable
      /\ <<{"Pork", "Lettuce"}, "Barbecue">> \in F79!CookingTable
      /\ <<{"Potato", "Ketchup"}, "FrenchFries">> \in F79!CookingTable
  BY DEF F79!CookingTable
<1>3. {"Ketchup", "Potato"} = {"Potato", "Ketchup"}
  OBVIOUS
<1> QED BY <1>1, <1>2, <1>3

\* So it is for the dishes whose steps are right.
LEMMA RightStepsCharted79 ==
  ASSUME NEW o \in F79!Right
  PROVE  Charted79(F79!Steps(o), F79!Facing(o), F79!Course(o), o)
<1>0. o = "CookedRice" \/ o = "TomatoFriedEgg" \/ o = "Barbecue" \/ o = "FrenchFries"
  BY DEF F79!Right
<1>1. CASE o = "CookedRice"
  <2>1. F79!Steps(o) = F79!CookedRice /\ F79!Facing(o) = 3 .. 6
    BY <1>1 DEF F79!Steps, F79!Facing
  <2>2. PICK c : c = F79!Course(o)
    OBVIOUS
  <2>3. /\ c.hand = <<"?", "Rice", "Rice", F79!None, F79!None, F79!None>>
        /\ c.lies = <<{}, {}, {}, {"Rice"}, {}, {}>>
        /\ c.made = <<"?", "?", "?", "?", "CookedRice", "CookedRice">>
    BY <1>1, <2>2 DEF F79!Course
  <2>4. ASSUME NEW s, s = F79!CookedRice PROVE Charted79(s, 3 .. 6, c, "CookedRice")
    BY <2>3, <2>4, StepsOfCookedRice79, Products79 DEF Charted79, F79!None
  <2> QED BY <1>1, <2>1, <2>2, <2>4
<1>2. ASSUME NEW a, NEW b, NEW s, a # F79!None, b # F79!None, a # "?", b # "?", a # b, o # "?",
             Len(s) = 8 /\ s[1] = <<"fetch", a>> /\ s[2] = <<"moveto", F79!pot>>,
             s[3][1] = "put" /\ s[4] = <<"fetch", b>> /\ s[5] = <<"moveto", F79!pot>>,
             s[6][1] = "put" /\ s[7][1] = "use" /\ s[8][1] = "Sleep",
             F79!Product({a, b}) = o
      PROVE  Charted79(s, {3, 4} \cup 6 .. 9, F79!OfTwo(a, b, o), o)
  <2>1. PICK c : c = F79!OfTwo(a, b, o)
    OBVIOUS
  <2>2. /\ c.hand = <<"?", a, a, F79!None, b, b, F79!None, F79!None, F79!None>>
        /\ c.lies = <<{}, {}, {}, {a}, {a}, {a}, {a, b}, {}, {}>>
        /\ c.made = <<"?", "?", "?", "?", "?", "?", "?", o, o>>
    BY <2>1 DEF F79!OfTwo
  <2>3. Charted79(s, {3, 4} \cup 6 .. 9, c, o)
    BY <1>2, <2>2 DEF Charted79
  <2> QED BY <2>1, <2>3
<1>3. CASE o = "TomatoFriedEgg"
  <2>1. F79!Steps(o) = F79!TomatoFriedEgg /\ F79!Facing(o) = {3, 4} \cup 6 .. 9
        /\ F79!Course(o) = F79!OfTwo("Tomato", "Egg", o)
    BY <1>3 DEF F79!Steps, F79!Facing, F79!Course
  <2>2. ASSUME NEW s, s = F79!TomatoFriedEgg
        PROVE  /\ Len(s) = 8 /\ s[1] = <<"fetch", "Tomato">> /\ s[2] = <<"moveto", F79!pot>>
               /\ s[3][1] = "put" /\ s[4] = <<"fetch", "Egg">> /\ s[5] = <<"moveto", F79!pot>>
               /\ s[6][1] = "put" /\ s[7][1] = "use" /\ s[8][1] = "Sleep"
               /\ F79!Product({"Tomato", "Egg"}) = o
    BY <1>3, <2>2, StepsOfTomatoFriedEgg79, Products79
  <2>3. ASSUME NEW s, s = F79!TomatoFriedEgg
        PROVE  Charted79(s, {3, 4} \cup 6 .. 9, F79!OfTwo("Tomato", "Egg", o), o)
    <3> HIDE DEF Charted79
    <3> QED BY <1>2, <1>3, <2>2, <2>3 DEF F79!None
  <2> QED BY <2>1, <2>3
<1>4. CASE o = "Barbecue"
  <2>1. F79!Steps(o) = F79!Barbecue /\ F79!Facing(o) = {3, 4} \cup 6 .. 9
        /\ F79!Course(o) = F79!OfTwo("Pork", "Lettuce", o)
    BY <1>4 DEF F79!Steps, F79!Facing, F79!Course
  <2>2. ASSUME NEW s, s = F79!Barbecue
        PROVE  /\ Len(s) = 8 /\ s[1] = <<"fetch", "Pork">> /\ s[2] = <<"moveto", F79!pot>>
               /\ s[3][1] = "put" /\ s[4] = <<"fetch", "Lettuce">> /\ s[5] = <<"moveto", F79!pot>>
               /\ s[6][1] = "put" /\ s[7][1] = "use" /\ s[8][1] = "Sleep"
               /\ F79!Product({"Pork", "Lettuce"}) = o
    BY <1>4, <2>2, StepsOfBarbecue79, Products79
  <2>3. ASSUME NEW s, s = F79!Barbecue
        PROVE  Charted79(s, {3, 4} \cup 6 .. 9, F79!OfTwo("Pork", "Lettuce", o), o)
    <3> HIDE DEF Charted79
    <3> QED BY <1>2, <1>4, <2>2, <2>3 DEF F79!None
  <2> QED BY <2>1, <2>3
<1>5. CASE o = "FrenchFries"
  <2>1. F79!Steps(o) = F79!FrenchFries /\ F79!Facing(o) = 3 .. 8 \cup 10 .. 13
    BY <1>5 DEF F79!Steps, F79!Facing
  <2>2. PICK c : c = F79!Course(o)
    OBVIOUS
  <2>3. /\ c.hand = <<"?", "Tomato", "Tomato", F79!None, F79!None, F79!None, "Ketchup",
                      F79!None, "Potato", "Potato", F79!None, F79!None, F79!None>>
        /\ c.lies = <<{}, {}, {}, {"Tomato"}, {}, {}, {},
                      {"Ketchup"}, {"Ketchup"}, {"Ketchup"}, {"Ketchup", "Potato"}, {}, {}>>
        /\ c.made = <<"?", "?", "?", "?", "Ketchup", "Ketchup", "?", "?", "?", "?", "?",
                      "FrenchFries", "FrenchFries">>
    BY <1>5, <2>2 DEF F79!Course
  <2>4. ASSUME NEW s, s = F79!FrenchFries PROVE Charted79(s, 3 .. 8 \cup 10 .. 13, c, "FrenchFries")
    BY <2>3, <2>4, StepsOfFrenchFries79, Products79 DEF Charted79, F79!None
  <2> QED BY <1>5, <2>1, <2>2, <2>4
<1> QED BY <1>0, <1>1, <1>3, <1>4, <1>5

\* What the world is like throughout; a command that failed is counted, so that
\* where none is counted each has done what it should.
Shaped79(w) ==
  /\ {"at", "hand", "faults", "floor", "pot"} \subseteq DOMAIN w /\ w.faults \in Nat
  /\ F79!pot \in DOMAIN w.floor /\ DOMAIN w.pot = {F79!pot}
  /\ DOMAIN w.pot[F79!pot] = {"dish", "cooking"}
After79(v, w) == Shaped79(v) /\ v.faults >= w.faults

\* What commands do to what the cook relies on.
LEMMA Fault79 ==
  ASSUME NEW w, Shaped79(w), NEW v \in F79!Fault(w)
  PROVE  Shaped79(v) /\ v.faults > w.faults
BY DEF F79!Fault, Shaped79

LEMMA Done79 ==
  ASSUME NEW w, Shaped79(w), NEW d, NEW v \in F79!Or(d, w)
  PROVE  /\ After79(d, w) => After79(v, w)
         /\ v.faults = 0 => v = d
BY Fault79 DEF F79!Or, After79, Shaped79

LEMMA Kitchen79 ==
  ASSUME NEW w, Shaped79(w)
  PROVE  /\ \A h : After79([w EXCEPT !.hand = h], w)
         /\ \A p : After79([w EXCEPT !.at = p], w)
         /\ \A p, s : After79([w EXCEPT !.hand = F79!None, !.floor[p] = @ \cup s], w)
         /\ \A h : After79([w EXCEPT !.hand = h, !.pot[F79!pot].dish = F79!None,
                                    !.pot[F79!pot].cooking = FALSE], w)
         /\ \A d : After79([w EXCEPT !.pot[F79!pot] = [dish |-> d, cooking |-> TRUE],
                                    !.floor[F79!pot] = {}], w)
         /\ After79(F79!Ready(w, F79!pot), w)
         /\ After79(w, w)
<1>1. \A h : After79([w EXCEPT !.hand = h], w)
  BY DEF After79, Shaped79
<1>2. \A p : After79([w EXCEPT !.at = p], w)
  BY DEF After79, Shaped79
<1>3. ASSUME NEW p, NEW s, NEW v, v = [w EXCEPT !.hand = F79!None, !.floor[p] = @ \cup s]
      PROVE  After79(v, w)
  <2>1. /\ DOMAIN v = DOMAIN w /\ DOMAIN v.floor = DOMAIN w.floor
        /\ v.faults = w.faults /\ v.pot = w.pot
    BY <1>3
  <2> QED BY <2>1 DEF After79, Shaped79
<1>4. ASSUME NEW h, NEW v, v = [w EXCEPT !.hand = h, !.pot[F79!pot].dish = F79!None,
                                         !.pot[F79!pot].cooking = FALSE]
      PROVE  After79(v, w)
  <2>1. /\ DOMAIN v = DOMAIN w /\ v.floor = w.floor /\ v.faults = w.faults
        /\ DOMAIN v.pot = DOMAIN w.pot /\ DOMAIN v.pot[F79!pot] = DOMAIN w.pot[F79!pot]
    BY <1>4 DEF Shaped79
  <2> QED BY <2>1 DEF After79, Shaped79
<1>5. ASSUME NEW d, NEW v, v = [w EXCEPT !.pot[F79!pot] = [dish |-> d, cooking |-> TRUE],
                                         !.floor[F79!pot] = {}]
      PROVE  After79(v, w)
  <2>1. /\ DOMAIN v = DOMAIN w /\ DOMAIN v.floor = DOMAIN w.floor /\ v.faults = w.faults
        /\ DOMAIN v.pot = DOMAIN w.pot /\ v.pot[F79!pot] = [dish |-> d, cooking |-> TRUE]
    BY <1>5 DEF Shaped79
  <2> QED BY <2>1 DEF After79, Shaped79
<1>6. ASSUME NEW v, v = F79!Ready(w, F79!pot) PROVE After79(v, w)
  <2>1. /\ DOMAIN v = DOMAIN w /\ v.floor = w.floor /\ v.faults = w.faults
        /\ DOMAIN v.pot = DOMAIN w.pot /\ DOMAIN v.pot[F79!pot] = DOMAIN w.pot[F79!pot]
    BY <1>6 DEF Shaped79, F79!Ready
  <2> QED BY <2>1 DEF After79, Shaped79
<1> QED BY <1>1, <1>2, <1>3, <1>4, <1>5, <1>6 DEF After79, Shaped79

\* Who takes a dish is counted as well.
LEMMA Taken79 ==
  ASSUME NEW w, Shaped79(w), NEW v \in F79!Taken(w)
  PROVE  Shaped79(v) /\ v.faults > w.faults
<1> DEFINE lay(u, e) == {[u EXCEPT !.floor[q] = @ \ {e}] : q \in {r \in DOMAIN w.floor : e \in w.floor[r]}}
           floors == UNION {w.floor[q] : q \in DOMAIN w.floor}
           cooked == {q \in DOMAIN w.pot : ~ w.pot[q].cooking /\ w.pot[q].dish # F79!None}
<1> DEFINE floored == UNION {lay(u, e) : u \in F79!Fault(w), e \in floors}
           potted == {[u EXCEPT !.pot[q].dish = F79!None] : u \in F79!Fault(w), q \in cooked}
<1>0. F79!Taken(w) = floored \cup potted
  BY DEF F79!Taken
<1>1. v \in floored \/ v \in potted
  <2> HIDE DEF floored, potted
  <2> QED BY <1>0
<1>2. CASE v \in floored
  <2>1. PICK u \in F79!Fault(w), e \in floors : v \in lay(u, e)
    <3> HIDE DEF lay, floors
    <3> QED BY <1>2
  <2>2. PICK q \in DOMAIN w.floor : v = [u EXCEPT !.floor[q] = @ \ {e}]
    BY <2>1
  <2>3. Shaped79(u) /\ u.faults > w.faults
    BY Fault79
  <2>4. /\ DOMAIN v = DOMAIN u /\ DOMAIN v.floor = DOMAIN u.floor
        /\ v.faults = u.faults /\ v.pot = u.pot
    <3> HIDE DEF lay, floors, cooked, floored, potted
    <3> QED BY <2>2
  <2> QED BY <2>3, <2>4 DEF Shaped79
<1>3. CASE v \in potted
  <2>1. PICK u \in F79!Fault(w), q \in cooked : v = [u EXCEPT !.pot[q].dish = F79!None]
    BY <1>3
  <2>2. Shaped79(u) /\ u.faults > w.faults
    BY Fault79
  <2>3. q \in DOMAIN w.pot
    OBVIOUS
  <2>4. q = F79!pot
    <3> HIDE DEF lay, floors, cooked, floored, potted
    <3> QED BY <2>3 DEF Shaped79
  <2>5. /\ DOMAIN v = DOMAIN u /\ v.floor = u.floor /\ v.faults = u.faults
        /\ DOMAIN v.pot = DOMAIN u.pot /\ DOMAIN v.pot[F79!pot] = DOMAIN u.pot[F79!pot]
    <3> HIDE DEF lay, floors, cooked, floored, potted
    <3> QED BY <2>1, <2>2, <2>4 DEF Shaped79
  <2> QED BY <2>2, <2>5 DEF Shaped79
<1> HIDE DEF floored, potted
<1> QED BY <1>1, <1>2, <1>3

\* Where a command failed nothing more is claimed.
LEMMA Missed79 ==
  ASSUME Shaped79(world'), DOMAIN my' = {"object", "step"}, world'.faults # 0
  PROVE  F79!GoesByItsSteps'
BY DEF F79!GoesByItsSteps, F79!BringsWhatItMeans, Shaped79

\* It is not at its steps.
LEMMA Between79 ==
  ASSUME Shaped79(world'), DOMAIN my' = {"object", "step"}, pc' # "cook",
         world'.faults = 0 =>
           /\ world'.floor[F79!pot] = {} /\ ~ world'.pot[F79!pot].cooking
           /\ pc' = "hand in" /\ my'.object \in F79!Right => world'.hand = my'.object
  PROVE  F79!GoesByItsSteps'
BY DEF F79!GoesByItsSteps, F79!BringsWhatItMeans, Shaped79

\* It is, and step i comes next.
LEMMA AtItsSteps79 ==
  ASSUME Shaped79(world'), DOMAIN my' = {"object", "step"}, pc' = "cook",
         NEW o, NEW i \in 1 .. Len(F79!Steps(o)) + 1, my'.object = o, my'.step = i,
         world'.faults = 0 =>
           /\ i \in F79!Facing(o) => world'.at = F79!pot
           /\ world'.pot[F79!pot].cooking => i > 1 /\ F79!Steps(o)[i - 1][1] = "use"
           /\ i = 1 \/ (i > 1 /\ F79!Steps(o)[i - 1][1] \in {"use", "Sleep"}) =>
                world'.floor[F79!pot] = {}
           /\ o \in F79!Right =>
                /\ F79!Course(o).hand[i] \in {"?", world'.hand}
                /\ F79!Course(o).lies[i] = world'.floor[F79!pot]
                /\ F79!Course(o).made[i] \in {"?", world'.pot[F79!pot].dish}
  PROVE  F79!GoesByItsSteps'
<1>1. pc' # "hand in"
  OBVIOUS
<1>2. world'.faults = 0 =>
        /\ my'.step \in 1 .. Len(F79!Steps(my'.object)) + 1
        /\ my'.step \in F79!Facing(my'.object) => world'.at = F79!pot
        /\ world'.pot[F79!pot].cooking =>
             my'.step > 1 /\ F79!Steps(my'.object)[my'.step - 1][1] \in {"use"}
        /\ \/ my'.step = 1
           \/ my'.step > 1 /\ F79!Steps(my'.object)[my'.step - 1][1] \in {"use", "Sleep"}
           => world'.floor[F79!pot] = {}
        /\ my'.object \in F79!Right =>
             /\ F79!Course(my'.object).hand[my'.step] \in {"?", world'.hand}
             /\ F79!Course(my'.object).lies[my'.step] = world'.floor[F79!pot]
             /\ F79!Course(my'.object).made[my'.step] \in {"?", world'.pot[F79!pot].dish}
  OBVIOUS
<1> QED
  BY <1>1, <1>2
  DEF F79!GoesByItsSteps, F79!BringsWhatItMeans, F79!Before, F79!OnCourse, Shaped79

\* What is picked at the cooker, and what handing in three times leaves.
LEMMA PicksBlock79 ==
  ASSUME NEW w, Shaped79(w), NEW v \in F79!AtBlock(w)
  PROVE  /\ After79(v, w)
         /\ v.faults = 0 =>
              /\ v.floor = w.floor /\ v.at = w.at
              /\ v.pot[F79!pot].cooking => w.pot[F79!pot].cooking /\ w.at # F79!pot
              /\ w.at = F79!pot /\ ~ w.pot[F79!pot].cooking /\ w.pot[F79!pot].dish # F79!None =>
                   v.hand = w.pot[F79!pot].dish
<1>1. CASE w.at # F79!pot
  BY <1>1, Kitchen79 DEF F79!AtBlock
<1>2. CASE w.at = F79!pot /\ F79!Shows(w, F79!pot) = F79!None
  <2>1. v \in F79!Or(w, w)
    BY <1>2 DEF F79!AtBlock, F79!PickBlock
  <2>2. ~ w.pot[F79!pot].cooking /\ w.pot[F79!pot].dish = F79!None
    BY <1>2 DEF F79!Shows, F79!None
  <2> QED BY <2>1, <2>2, Kitchen79, Done79
<1>3. CASE w.at = F79!pot /\ F79!Shows(w, F79!pot) # F79!None
  <2>1. PICK u : u = [w EXCEPT !.hand = F79!Shows(w, F79!pot), !.pot[F79!pot].dish = F79!None,
                              !.pot[F79!pot].cooking = FALSE]
    OBVIOUS
  <2>2. v \in F79!Or(u, w)
    BY <1>3, <2>1 DEF F79!AtBlock, F79!PickBlock
  <2>3. /\ u.floor = w.floor /\ u.at = w.at /\ u.hand = F79!Shows(w, F79!pot)
        /\ u.pot[F79!pot].cooking = FALSE
    BY <2>1 DEF Shaped79
  <2>4. After79(u, w)
    BY <2>1, Kitchen79
  <2> QED BY <2>2, <2>3, <2>4, Done79 DEF F79!Shows
<1> QED BY <1>1, <1>2, <1>3

\* Handing in changes nothing but the hand.
LEMMA Uses79 ==
  ASSUME NEW w, Shaped79(w), NEW W,
         \A u \in W : After79(u, w) /\ (u.faults = 0 => u.floor = w.floor /\ u.pot = w.pot),
         NEW v \in F79!Uses(W)
  PROVE  After79(v, w) /\ (v.faults = 0 => v.floor = w.floor /\ v.pot = w.pot)
<1>1. PICK u \in W : v \in F79!Or([u EXCEPT !.hand = F79!None], u)
  BY DEF F79!Uses, F79!HandIn
<1>2. Shaped79(u) /\ u.faults >= w.faults
  BY DEF After79
<1>3. PICK d : d = [u EXCEPT !.hand = F79!None]
  OBVIOUS
<1>4. After79(d, u) /\ d.floor = u.floor /\ d.pot = u.pot /\ d.faults = u.faults
  BY <1>2, <1>3, Kitchen79 DEF Shaped79
<1>5. After79(v, u) /\ (v.faults = 0 => v = d)
  BY <1>1, <1>2, <1>3, <1>4, Done79
<1>6. After79(v, w)
  BY <1>2, <1>5 DEF After79, Shaped79
<1> QED BY <1>4, <1>5, <1>6

\* Every step keeps to the chart of the dish, until a command fails.
LEMMA Program79Keeps ==
  ASSUME F79!GoesByItsSteps, F79!Next
  PROVE  F79!GoesByItsSteps'
<1> DEFINE o == my.object
           s == F79!Steps(o)
           i == my.step
           c == F79!Course(o)
<1>0. Shaped79(world) /\ DOMAIN my = {"object", "step"}
  BY DEF F79!GoesByItsSteps, Shaped79
<1>1. InOrder79(s, F79!Facing(o))
  BY StepsInOrder79
<1>2. o \in F79!Right => Charted79(s, F79!Facing(o), c, o)
  BY RightStepsCharted79
<1>3. ASSUME pc = "cook", world.faults = 0
      PROVE  /\ i \in 1 .. Len(s) + 1
             /\ i \in F79!Facing(o) => world.at = F79!pot
             /\ world.pot[F79!pot].cooking => i > 1 /\ s[i - 1][1] = "use"
             /\ i = 1 \/ (i > 1 /\ s[i - 1][1] \in {"use", "Sleep"}) => world.floor[F79!pot] = {}
             /\ o \in F79!Right =>
                  /\ c.hand[i] \in {"?", world.hand}
                  /\ c.lies[i] = world.floor[F79!pot]
                  /\ c.made[i] \in {"?", world.pot[F79!pot].dish}
  BY <1>3 DEF F79!GoesByItsSteps, F79!Before, F79!OnCourse
<1>4. ASSUME pc # "cook", world.faults = 0
      PROVE  world.floor[F79!pot] = {} /\ ~ world.pot[F79!pot].cooking
  BY <1>4 DEF F79!GoesByItsSteps
\* It sleeps before it does anything else while the cooker is on.
<1>5. ASSUME pc = "cook", world.faults = 0, i \in 1 .. Len(s), s[i][1] # "Sleep"
      PROVE  ~ world.pot[F79!pot].cooking
  <2> SUFFICES ASSUME world.pot[F79!pot].cooking PROVE FALSE
    OBVIOUS
  <2>1. i > 1 /\ s[i - 1][1] = "use" /\ i - 1 \in 1 .. Len(s) /\ i - 1 < Len(s) /\ Len(s) \in Nat
    BY <1>1, <1>3, <1>5 DEF InOrder79
  <2>2. s[(i - 1) + 1][1] = "Sleep"
    BY <1>1, <2>1 DEF InOrder79
  <2> QED BY <1>5, <2>1, <2>2
<1> HIDE DEF s, c
<1>6. ASSUME F79!GoOn, pc = "cook", i <= Len(s), After79(world', world),
             world'.faults = 0 /\ world.faults = 0 /\ i \in 1 .. Len(s) =>
               /\ i + 1 \in F79!Facing(o) => world'.at = F79!pot
               /\ world'.pot[F79!pot].cooking => s[i][1] = "use"
               /\ s[i][1] \in {"use", "Sleep"} => world'.floor[F79!pot] = {}
               /\ o \in F79!Right =>
                    /\ c.hand[i + 1] \in {"?", world'.hand}
                    /\ c.lies[i + 1] = world'.floor[F79!pot]
                    /\ c.made[i + 1] \in {"?", world'.pot[F79!pot].dish}
      PROVE  F79!GoesByItsSteps'
  <2>1. /\ pc' = "cook" /\ DOMAIN my' = {"object", "step"} /\ my'.object = o /\ my'.step = i + 1
    BY <1>0, <1>6 DEF F79!GoOn
  <2>2. Shaped79(world')
    BY <1>6 DEF After79
  <2>3. CASE world'.faults # 0
    BY <2>1, <2>2, <2>3, Missed79
  <2>4. CASE world'.faults = 0
    <3>1. world.faults = 0
      BY <1>0, <1>6, <2>4 DEF After79, Shaped79
    <3>2. PICK n : n = i + 1
      OBVIOUS
    <3>3. i \in 1 .. Len(s) /\ n \in 1 .. Len(F79!Steps(o)) + 1 /\ n > 1 /\ n - 1 = i
      BY <1>1, <1>3, <1>6, <3>1, <3>2 DEF s, InOrder79
    <3> HIDE DEF o, i
    <3> QED BY <1>6, <2>1, <2>2, <2>4, <3>1, <3>2, <3>3, AtItsSteps79 DEF s, c
  <2> QED BY <2>3, <2>4
<1>7. CASE F79!TakeTask
  <2>1. PICK p \in TaskList : my' = [object |-> p, step |-> 1]
    BY <1>7 DEF F79!TakeTask
  <2>2. pc = "play" /\ pc' = "cook" /\ world' = world
    BY <1>7 DEF F79!TakeTask
  <2>3. Len(F79!Steps(p)) \in Nat /\ 1 \notin F79!Facing(p)
    BY StepsInOrder79 DEF InOrder79
  <2>4. p \in F79!Right => /\ F79!Course(p).hand[1] = "?" /\ F79!Course(p).lies[1] = {}
                           /\ F79!Course(p).made[1] = "?"
    BY RightStepsCharted79 DEF Charted79
  <2>5. 1 \in 1 .. Len(F79!Steps(p)) + 1
    BY <2>3
  <2>6. DOMAIN my' = {"object", "step"} /\ my'.object = p /\ my'.step = 1
    BY <2>1
  <2>7. /\ Shaped79(world')
        /\ world'.faults = 0 => world'.floor[F79!pot] = {} /\ ~ world'.pot[F79!pot].cooking
    BY <1>0, <1>4, <2>2
  <2> HIDE DEF o, i
  <2> QED BY <2>2, <2>3, <2>4, <2>5, <2>6, <2>7, AtItsSteps79
<1>8. ASSUME NEW kind, F79!Now(kind)
      PROVE  pc = "cook" /\ i <= Len(s) /\ s[i][1] = kind
  BY <1>8 DEF F79!Now, s
<1>9. ASSUME NEW kind, F79!Now(kind), world.faults = 0
      PROVE  i \in 1 .. Len(s) /\ Len(s) \in Nat /\ s[i][1] = kind
  BY <1>1, <1>3, <1>8, <1>9 DEF InOrder79
<1>10. CASE F79!Fetch
  <2>1. pc = "cook" /\ i <= Len(s) /\ s[i][1] = "fetch"
    BY <1>8, <1>10 DEF F79!Fetch
  <2>2. PICK f : f = F79!Thing /\ f = s[i][2]
    BY DEF F79!Thing, s
  <2>3. PICK w, d : /\ w = [world EXCEPT !.at = "food"] /\ d = [w EXCEPT !.hand = f]
    OBVIOUS
  <2>4. /\ world' \in F79!Or(d, w)
        /\ IF world'.hand = f THEN F79!GoOn ELSE UNCHANGED <<my, pc>>
    BY <1>10, <2>2, <2>3 DEF F79!Fetch, F79!PickFood
  <2>5. /\ Shaped79(w) /\ w.faults = world.faults
        /\ After79(d, w) /\ d.hand = f /\ d.floor = world.floor /\ d.pot = world.pot
    <3>1. Shaped79(w) /\ w.faults = world.faults /\ w.floor = world.floor /\ w.pot = world.pot
      BY <1>0, <2>3 DEF Shaped79
    <3>2. After79(d, w)
      BY <2>3, <3>1, Kitchen79
    <3>3. d.hand = f /\ d.floor = w.floor /\ d.pot = w.pot
      BY <2>3, <3>1 DEF Shaped79
    <3> QED BY <3>1, <3>2, <3>3
  <2>6. After79(world', world) /\ (world'.faults = 0 => world' = d)
    BY <2>4, <2>5, Done79 DEF After79
  <2>7. CASE world'.hand = f
    <3>1. ASSUME world'.faults = 0, world.faults = 0, i \in 1 .. Len(s)
          PROVE  /\ i + 1 \notin F79!Facing(o) /\ ~ world'.pot[F79!pot].cooking
                 /\ o \in F79!Right =>
                      /\ c.hand[i + 1] \in {"?", world'.hand}
                      /\ c.lies[i + 1] = world'.floor[F79!pot]
                      /\ c.made[i + 1] \in {"?", world'.pot[F79!pot].dish}
      <4>1. i + 1 \notin F79!Facing(o)
        BY <1>1, <2>1, <3>1 DEF InOrder79
      <4>2. ~ world'.pot[F79!pot].cooking
        BY <1>5, <2>1, <2>5, <2>6, <3>1
      <4>3. o \in F79!Right =>
              c.hand[i + 1] = s[i][2] /\ c.lies[i + 1] = c.lies[i] /\ c.made[i + 1] \in {"?", c.made[i]}
        BY <1>2, <2>1, <3>1 DEF Charted79
      <4> QED BY <1>3, <2>1, <2>2, <2>5, <2>6, <2>7, <3>1, <4>1, <4>2, <4>3
    <3> HIDE DEF o, i
    <3> QED BY <1>6, <2>1, <2>4, <2>6, <2>7, <3>1
  <2>8. CASE world'.hand # f
    <3>1. world'.faults # 0
      BY <2>5, <2>6, <2>8
    <3> QED BY <1>0, <2>4, <2>6, <2>8, <3>1, Missed79 DEF After79
  <2> QED BY <2>7, <2>8
<1>11. CASE F79!Walk
  <2>1. pc = "cook" /\ i <= Len(s) /\ s[i][1] = "moveto" /\ F79!GoOn
    BY <1>8, <1>11 DEF F79!Walk
  <2>2. world' = [world EXCEPT !.at = s[i][2]]
    BY <1>11 DEF F79!Walk, F79!Thing, F79!Go, s
  <2>3. /\ After79(world', world) /\ world'.at = s[i][2] /\ world'.hand = world.hand
        /\ world'.floor = world.floor /\ world'.pot = world.pot
    <3>1. After79(world', world)
      BY <1>0, <2>2, Kitchen79
    <3> QED BY <1>0, <2>2, <3>1 DEF Shaped79
  <2>4. ASSUME world.faults = 0, i \in 1 .. Len(s)
        PROVE  /\ i + 1 \in F79!Facing(o) => world'.at = F79!pot
               /\ ~ world'.pot[F79!pot].cooking
               /\ o \in F79!Right =>
                    /\ c.hand[i + 1] \in {"?", world'.hand}
                    /\ c.lies[i + 1] = world'.floor[F79!pot]
                    /\ c.made[i + 1] \in {"?", world'.pot[F79!pot].dish}
    <3>1. i + 1 \in F79!Facing(o) => s[i][2] = F79!pot
      BY <1>1, <2>1, <2>4 DEF InOrder79
    <3>2. ~ world.pot[F79!pot].cooking
      BY <1>5, <2>1, <2>4
    <3>3. o \in F79!Right =>
            /\ c.hand[i + 1] \in {"?", c.hand[i]} /\ c.lies[i + 1] = c.lies[i]
            /\ c.made[i + 1] \in {"?", c.made[i]}
      BY <1>2, <2>1, <2>4 DEF Charted79
    <3> QED BY <1>3, <2>1, <2>3, <2>4, <3>1, <3>2, <3>3
  <2> HIDE DEF o, i
  <2> QED BY <1>6, <2>1, <2>3, <2>4
<1>12. CASE F79!Throw
  <2>1. pc = "cook" /\ i <= Len(s) /\ s[i][1] = "put" /\ F79!GoOn
    BY <1>8, <1>12 DEF F79!Throw
  <2>2. PICK d : d = [world EXCEPT !.hand = F79!None, !.floor[world.at] = @ \cup F79!Held(world)]
    OBVIOUS
  <2>3. world' \in F79!Or(d, world)
    BY <1>12, <2>2 DEF F79!Throw, F79!Put
  <2>4. /\ After79(d, world) /\ d.at = world.at /\ d.hand = F79!None /\ d.pot = world.pot
        /\ world.at = F79!pot => d.floor[F79!pot] = world.floor[F79!pot] \cup F79!Held(world)
    <3>1. After79(d, world)
      BY <1>0, <2>2, Kitchen79
    <3> QED BY <1>0, <2>2, <3>1 DEF Shaped79
  <2>5. After79(world', world) /\ (world'.faults = 0 => world' = d)
    BY <1>0, <2>3, <2>4, Done79
  <2>6. ASSUME world'.faults = 0, world.faults = 0, i \in 1 .. Len(s)
        PROVE  /\ i + 1 \in F79!Facing(o) => world'.at = F79!pot
               /\ ~ world'.pot[F79!pot].cooking
               /\ o \in F79!Right =>
                    /\ c.hand[i + 1] \in {"?", world'.hand}
                    /\ c.lies[i + 1] = world'.floor[F79!pot]
                    /\ c.made[i + 1] \in {"?", world'.pot[F79!pot].dish}
    <3>1. i + 1 \in F79!Facing(o) => i \in F79!Facing(o)
      BY <1>1, <2>1, <2>6 DEF InOrder79
    <3>2. ~ world.pot[F79!pot].cooking
      BY <1>5, <2>1, <2>6
    <3>3. o \in F79!Right =>
            /\ i \in F79!Facing(o) /\ c.hand[i] # "?"
            /\ c.hand[i + 1] \in {"?", F79!None} /\ c.made[i + 1] \in {"?", c.made[i]}
            /\ c.lies[i + 1] = c.lies[i] \cup ({c.hand[i]} \ {F79!None})
      BY <1>2, <2>1, <2>6 DEF Charted79
    <3>4. o \in F79!Right => c.hand[i] = world.hand /\ c.lies[i] = world.floor[F79!pot]
      BY <1>3, <2>1, <2>6, <3>3
    <3> QED BY <1>3, <2>1, <2>4, <2>5, <2>6, <3>1, <3>2, <3>3, <3>4 DEF F79!Held
  <2> HIDE DEF o, i
  <2> QED BY <1>6, <2>1, <2>5, <2>6
<1>13. CASE F79!Start
  <2>1. pc = "cook" /\ i <= Len(s) /\ s[i][1] = "use" /\ F79!GoOn
    BY <1>8, <1>13 DEF F79!Start
  <2>2. PICK d : d = IF world.pot[F79!pot].cooking \/ world.floor[F79!pot] = {} THEN world
                     ELSE [world EXCEPT !.pot[F79!pot] =
                                 [dish |-> F79!Product(world.floor[F79!pot]), cooking |-> TRUE],
                               !.floor[F79!pot] = {}]
    OBVIOUS
  <2>3. world' \in F79!Or(d, world) \/ (world.at # F79!pot /\ world' = world)
    BY <1>13, <2>2 DEF F79!Start, F79!UseCooker
  <2>4. After79(d, world) /\ After79(world, world)
    BY <1>0, <2>2, Kitchen79
  <2>5. After79(world', world) /\ (world'.faults = 0 /\ world.at = F79!pot => world' = d)
    BY <1>0, <2>3, <2>4, Done79
  <2>6. ASSUME world'.faults = 0, world.faults = 0, i \in 1 .. Len(s)
        PROVE  /\ world'.at = F79!pot /\ world'.floor[F79!pot] = {}
               /\ o \in F79!Right =>
                    /\ c.hand[i + 1] \in {"?", world'.hand}
                    /\ c.lies[i + 1] = {}
                    /\ c.made[i + 1] \in {"?", world'.pot[F79!pot].dish}
    <3>1. world.at = F79!pot
      BY <1>1, <1>3, <2>1, <2>6 DEF InOrder79
    <3>2. ~ world.pot[F79!pot].cooking
      BY <1>5, <2>1, <2>6
    <3>3. o \in F79!Right =>
            /\ c.lies[i] # {} /\ c.lies[i + 1] = {}
            /\ c.hand[i + 1] \in {"?", c.hand[i]} /\ c.made[i + 1] \in {"?", F79!Product(c.lies[i])}
      BY <1>2, <2>1, <2>6 DEF Charted79
    <3>4. /\ d.at = world.at /\ d.hand = world.hand /\ d.floor[F79!pot] = {}
          /\ world.floor[F79!pot] # {} => d.pot[F79!pot].dish = F79!Product(world.floor[F79!pot])
      BY <1>0, <2>2, <3>2 DEF Shaped79
    <3> QED BY <1>3, <2>1, <2>5, <2>6, <3>1, <3>3, <3>4
  <2> HIDE DEF o, i
  <2> QED BY <1>6, <2>1, <2>5, <2>6
<1>14. CASE F79!Sleep
  <2>1. pc = "cook" /\ i <= Len(s) /\ s[i][1] = "Sleep" /\ F79!GoOn /\ world' = F79!Ready(world, F79!pot)
    BY <1>8, <1>14 DEF F79!Sleep
  <2>2. /\ After79(world', world) /\ world'.at = world.at /\ world'.hand = world.hand
        /\ world'.floor = world.floor /\ world'.pot[F79!pot].cooking = FALSE
        /\ world'.pot[F79!pot].dish = world.pot[F79!pot].dish
    <3>1. After79(world', world)
      BY <1>0, <2>1, Kitchen79
    <3> QED BY <1>0, <2>1, <3>1 DEF F79!Ready, Shaped79
  <2>3. ASSUME world.faults = 0, i \in 1 .. Len(s)
        PROVE  /\ i + 1 \in F79!Facing(o) => world'.at = F79!pot
               /\ world'.floor[F79!pot] = {}
               /\ o \in F79!Right =>
                    /\ c.hand[i + 1] \in {"?", world'.hand}
                    /\ c.lies[i + 1] = world'.floor[F79!pot]
                    /\ c.made[i + 1] \in {"?", world'.pot[F79!pot].dish}
    <3>1. /\ i + 1 \in F79!Facing(o) => i \in F79!Facing(o)
          /\ i > 1 /\ s[i - 1][1] = "use"
      BY <1>1, <2>1, <2>3 DEF InOrder79
    <3>2. o \in F79!Right =>
            /\ c.hand[i + 1] \in {"?", c.hand[i]} /\ c.lies[i + 1] = c.lies[i]
            /\ c.made[i + 1] \in {"?", c.made[i]}
      BY <1>2, <2>1, <2>3 DEF Charted79
    <3> QED BY <1>3, <2>1, <2>2, <2>3, <3>1, <3>2
  <2> HIDE DEF o, i
  <2> QED BY <1>6, <2>1, <2>2, <2>3
<1>15. CASE F79!Pick
  <2>1. pc = "cook" /\ i <= Len(s) /\ s[i][1] = "pick" /\ F79!GoOn /\ world' \in F79!AtBlock(world)
    BY <1>8, <1>15 DEF F79!Pick
  <2>2. /\ After79(world', world)
        /\ world'.faults = 0 =>
             /\ world'.floor = world.floor /\ world'.at = world.at
             /\ world'.pot[F79!pot].cooking => world.pot[F79!pot].cooking
             /\ world.at = F79!pot /\ ~ world.pot[F79!pot].cooking /\ world.pot[F79!pot].dish # F79!None =>
                  world'.hand = world.pot[F79!pot].dish
    BY <1>0, <2>1, PicksBlock79
  <2>3. ASSUME world'.faults = 0, world.faults = 0, i \in 1 .. Len(s)
        PROVE  /\ i + 1 \in F79!Facing(o) => world'.at = F79!pot
               /\ ~ world'.pot[F79!pot].cooking
               /\ o \in F79!Right =>
                    /\ c.hand[i + 1] \in {"?", world'.hand}
                    /\ c.lies[i + 1] = world'.floor[F79!pot]
                    /\ c.made[i + 1] \in {"?", world'.pot[F79!pot].dish}
    <3>1. i + 1 \in F79!Facing(o) => i \in F79!Facing(o)
      BY <1>1, <2>1, <2>3 DEF InOrder79
    <3>2. ~ world.pot[F79!pot].cooking
      BY <1>5, <2>1, <2>3
    <3>3. o \in F79!Right =>
            /\ i \in F79!Facing(o) /\ c.made[i] \notin {"?", F79!None}
            /\ c.hand[i + 1] \in {"?", c.made[i]} /\ c.lies[i + 1] = c.lies[i] /\ c.made[i + 1] = "?"
      BY <1>2, <2>1, <2>3 DEF Charted79
    <3> QED BY <1>3, <2>1, <2>2, <2>3, <3>1, <3>2, <3>3
  <2> HIDE DEF o, i
  <2> QED BY <1>6, <2>1, <2>2, <2>3
<1>16. CASE F79!Take
  <2>1. /\ pc = "cook" /\ i = Len(s) + 1 /\ my' = my /\ world' \in F79!AtBlock(world)
        /\ pc' \in {"drop", "hand in"}
    BY <1>16 DEF F79!Take, F79!Done, s
  <2>0. i = Len(s) + 1
    BY <2>1
  <2>2. /\ After79(world', world)
        /\ world'.faults = 0 =>
             /\ world'.floor = world.floor
             /\ world'.pot[F79!pot].cooking => world.pot[F79!pot].cooking /\ world.at # F79!pot
             /\ world.at = F79!pot /\ ~ world.pot[F79!pot].cooking /\ world.pot[F79!pot].dish # F79!None =>
                  world'.hand = world.pot[F79!pot].dish
    BY <1>0, <2>1, PicksBlock79
  <2>3. ASSUME world'.faults = 0
        PROVE  /\ world'.floor[F79!pot] = {} /\ ~ world'.pot[F79!pot].cooking
               /\ o \in F79!Right => world'.hand = o
    <3>1. world.faults = 0
      BY <1>0, <2>2, <2>3 DEF After79, Shaped79
    <3>2. CASE Len(s) = 0
      <4>1. i = 1 /\ o \notin F79!Right
        BY <1>2, <2>0, <3>2 DEF Charted79
      <4>2. world.floor[F79!pot] = {} /\ ~ world.pot[F79!pot].cooking
        <5>1. ~ i > 1
          BY <4>1
        <5> QED BY <1>3, <2>1, <3>1, <4>1, <5>1
      <4> QED BY <2>2, <2>3, <4>1, <4>2
    <3>3. CASE Len(s) # 0
      <4>1. /\ Len(s) \in Nat /\ i > 1 /\ i - 1 = Len(s)
            /\ i \in F79!Facing(o) /\ s[i - 1][1] \in {"use", "Sleep"}
        <5>1. Len(s) \in Nat /\ Len(s) > 0
          BY <1>1, <3>3 DEF InOrder79
        <5>2. Len(s) + 1 \in F79!Facing(o) /\ s[Len(s)][1] \in {"use", "Sleep"}
          BY <1>1, <5>1 DEF InOrder79
        <5>3. i > 1 /\ i - 1 = Len(s)
          BY <2>0, <5>1
        <5> QED BY <2>0, <5>1, <5>2, <5>3
      <4>2. world.at = F79!pot /\ world.floor[F79!pot] = {}
        BY <1>3, <2>1, <3>1, <4>1
      <4>3. ASSUME o \in F79!Right
            PROVE  ~ world.pot[F79!pot].cooking /\ world.pot[F79!pot].dish = o /\ o # F79!None
        <5>1. s[i - 1][1] = "Sleep" /\ c.made[i] = o
          BY <1>2, <2>1, <4>1, <4>3 DEF Charted79
        <5>2. o # "?" /\ o # F79!None
          BY <4>3 DEF F79!Right, F79!None
        <5> QED BY <1>3, <2>1, <3>1, <4>3, <5>1, <5>2
      <4> QED BY <2>2, <2>3, <4>2, <4>3
    <3> QED BY <3>2, <3>3
  <2> QED BY <1>0, <2>1, <2>2, <2>3, Between79 DEF After79
<1>17. CASE F79!Drop
  <2>1. /\ pc = "drop" /\ pc' = "play" /\ my' = my
        /\ world' \in F79!Or([world EXCEPT !.hand = F79!None], world)
    BY <1>17 DEF F79!Drop, F79!ThrowAway
  <2>2. PICK d : d = [world EXCEPT !.hand = F79!None]
    OBVIOUS
  <2>3. After79(d, world) /\ d.floor = world.floor /\ d.pot = world.pot /\ d.faults = world.faults
    <3>1. After79(d, world)
      BY <1>0, <2>2, Kitchen79
    <3> QED BY <1>0, <2>2, <3>1 DEF Shaped79
  <2>4. After79(world', world) /\ (world'.faults = 0 => world' = d)
    BY <1>0, <2>1, <2>2, <2>3, Done79
  <2> QED BY <1>0, <1>4, <2>1, <2>3, <2>4, Between79 DEF After79
<1>18. CASE F79!Deliver
  <2>1. PICK w \in F79!Uses(F79!Uses(F79!Uses({world}))) : world' = [w EXCEPT !.at = "task point"]
    BY <1>18 DEF F79!Deliver
  <2>2. pc = "hand in" /\ pc' = "play" /\ my' = my
    BY <1>18 DEF F79!Deliver
  <2> DEFINE Served(W) == \A u \in W : After79(u, world) /\ (u.faults = 0 => u.floor = world.floor /\ u.pot = world.pot)
  <2>3. \A W : Served(W) => Served(F79!Uses(W))
    BY <1>0, Uses79
  <2>4. Served({world})
    BY <1>0, Kitchen79
  <2> HIDE DEF Served
  <2>5. Served(F79!Uses({world}))
    BY <2>3, <2>4
  <2>6. Served(F79!Uses(F79!Uses({world})))
    BY <2>3, <2>5
  <2>7. Served(F79!Uses(F79!Uses(F79!Uses({world}))))
    BY <2>3, <2>6
  <2>8. After79(w, world) /\ (w.faults = 0 => w.floor = world.floor /\ w.pot = world.pot)
    BY <2>1, <2>7 DEF Served
  <2>9. /\ Shaped79(world') /\ world'.faults = w.faults
        /\ world'.floor = w.floor /\ world'.pot = w.pot
    <3>1. Shaped79(w)
      BY <2>8 DEF After79
    <3>2. Shaped79(world')
      BY <2>1, <3>1, Kitchen79 DEF After79
    <3> QED BY <2>1, <3>1, <3>2 DEF Shaped79
  <2>10. world'.faults = 0 => world.faults = 0
    BY <1>0, <2>8, <2>9 DEF After79, Shaped79
  <2> QED BY <1>0, <1>4, <2>2, <2>8, <2>9, <2>10, Between79
<1>19. CASE F79!Theft
  <2>1. Shaped79(world') /\ world'.faults > world.faults
    BY <1>0, <1>19, Taken79 DEF F79!Theft
  <2>2. world'.faults # 0
    BY <1>0, <2>1 DEF Shaped79
  <2> QED BY <1>0, <1>19, <2>1, <2>2, Missed79 DEF F79!Theft
<1> HIDE DEF o, i
<1> QED
  BY <1>7, <1>10, <1>11, <1>12, <1>13, <1>14, <1>15, <1>16, <1>17, <1>18, <1>19
  DEF F79!Next, F79!play

\* The cook of program 79 as part of what runs on a player's machine.
Kept79 == prog = "79partner" => F79!GoesByItsSteps

LEMMA Begins79 ==
  ASSUME PlayersInit PROVE Kept79
<1> SUFFICES ASSUME prog = "79partner" PROVE F79!GoesByItsSteps
  BY DEF Kept79
<1>1. pc = "play" /\ my = [object |-> F79!None, step |-> 1]
      /\ world = F79!NewWorld({F79!pot, F79!table}, {F79!pot})
  BY DEF PlayersInit, F79!Init
<1>2. /\ {"at", "hand", "faults", "floor", "pot"} \subseteq DOMAIN world /\ world.faults = 0
      /\ F79!pot \in DOMAIN world.floor /\ world.floor[F79!pot] = {}
      /\ DOMAIN world.pot = {F79!pot} /\ world.pot[F79!pot] = F79!Idle
  BY <1>1 DEF F79!NewWorld
<1>3. DOMAIN F79!Idle = {"dish", "cooking"} /\ F79!Idle.cooking = FALSE
  BY DEF F79!Idle
<1>4. DOMAIN my = {"object", "step"} /\ pc # "cook" /\ pc # "hand in"
  BY <1>1
<1>5. /\ world.faults \in Nat /\ DOMAIN world.pot[F79!pot] = {"dish", "cooking"}
      /\ ~ world.pot[F79!pot].cooking
  BY <1>2, <1>3
<1>6. F79!BringsWhatItMeans
  BY <1>4 DEF F79!BringsWhatItMeans
<1> QED BY <1>2, <1>4, <1>5, <1>6 DEF F79!GoesByItsSteps

LEMMA Continues79 ==
  ASSUME Kept79, [PlayersNext]_playersVars PROVE Kept79'
<1> SUFFICES ASSUME prog' = "79partner" PROVE F79!GoesByItsSteps'
  BY DEF Kept79
<1>1. prog = "79partner" /\ F79!GoesByItsSteps
  BY DEF Kept79, PlayersNext, playersVars
<1>2. F79!Next \/ UNCHANGED <<pc, my, world>>
  BY <1>1 DEF PlayersNext, playersVars, Program
<1>3. CASE UNCHANGED <<pc, my, world>>
  BY <1>1, <1>3 DEF F79!GoesByItsSteps, F79!BringsWhatItMeans, F79!Before, F79!OnCourse
<1> QED BY <1>1, <1>2, <1>3, Program79Keeps

\* Where nothing went wrong the cook of program 79 brings the dish it means to,
\* whatever tasks there are and whatever it has cooked before.
THEOREM Program79BringsWhatItMeans ==
  PlayersSpec => [](prog = "79partner" => F79!BringsWhatItMeans)
<1>1. Kept79 => (prog = "79partner" => F79!BringsWhatItMeans)
  BY DEF Kept79, F79!GoesByItsSteps
<1> QED BY <1>1, Begins79, Continues79, PTL DEF PlayersSpec, Plays

-----------------------------------------------------------------------------
\* The cooker is used on what is meant and the tool that is meant is used, and the
\* dish that is meant is brought, in the programs that look before they act.
THEOREM ProgramsUseWhatTheyMean == PlayersSpec => []UsesWhatItMeans
<1>1. UsesWhatItMeans <=>
        /\ prog = "92b" => P92b!UsesWhatItMeans
        /\ prog = "87" => P87!CooksWhatItMeans
        /\ prog = "85" => P85!CooksWhatItMeans
        /\ prog = "79partner" => F79!BringsWhatItMeans
  BY DEF UsesWhatItMeans
<1> QED
  BY <1>1, Program92UsesWhatItMeans, Program87CooksWhatItMeans, Program85CooksWhatItMeans,
     Program79BringsWhatItMeans, PTL

-----------------------------------------------------------------------------
(* Program 105. *)

Visits105 == [place : Int \X Int, act : {"pick", "use"}]
Mine105 == [todo : Seq(Visits105), to : Int \X Int, act : {"pick", "use"}, h : {1, -1},
            v : {1, -1}, at0 : Int \X Int]
World105 == [x : P105!Coordinates, y : P105!Coordinates, fast : BOOLEAN]

\* Its lists of places are lists of visits.
LEMMA Visits105Typed ==
  P105!MoveToFood \in Seq(Visits105) /\ P105!MoveToCook \in Seq(Visits105)
<1>1. ASSUME NEW places \in Seq(Int \X Int), NEW act \in {"pick", "use"}
      PROVE  P105!Visits(places, act) \in Seq(Visits105)
  <2>1. DOMAIN places = 1 .. Len(places) /\ Len(places) \in Nat
    OBVIOUS
  <2>2. \A i \in 1 .. Len(places) : [place |-> places[i], act |-> act] \in Visits105
    BY DEF Visits105
  <2>3. P105!Visits(places, act) = [i \in 1 .. Len(places) |-> [place |-> places[i], act |-> act]]
    BY <2>1 DEF P105!Visits
  <2> QED BY <2>1, <2>2, <2>3
<1> QED BY <1>1, PlansAssumption DEF P105!MoveToFood, P105!MoveToCook

\* Where a move may end; nearer to the aim, unless it is too fast.
LEMMA Ends105 ==
  ASSUME NEW a \in P105!Coordinates, NEW b \in Int, NEW d \in {1, -1}
  PROVE  /\ P105!Ends(a, b, d) \subseteq P105!Coordinates
         /\ P105!Within(a, b) \subseteq P105!Coordinates
         /\ \A e \in P105!Within(a, b) : (a <= b => e <= b) /\ (b <= a => e <= a)
         /\ ~ world.fast => P105!Ends(a, b, d) = P105!Within(a, b)
BY PlansAssumption DEF P105!Ends, P105!Within, P105!Coordinates

LEMMA NotPast105 ==
  ASSUME NEW a \in P105!Coordinates, NEW b \in Int, NEW d, P105!Past(a, b, d)
  PROVE  ~ (d = 1 /\ a <= b)
<1> SUFFICES ASSUME d = 1, a <= b PROVE FALSE
  OBVIOUS
<1>1. a \in Int
  BY PlansAssumption DEF P105!Coordinates
<1>2. (b - a) * 1 < 0
  BY DEF P105!Past
<1> QED BY <1>1, <1>2

\* The way round leads back along x and, to the upper right, two up along y.
LEMMA Round105 ==
  ASSUME NEW h \in {1, -1}, NEW v \in {1, -1}
  PROVE  /\ h * P105!Back(h) \in Int /\ v * P105!Onward(h, v) \in Int
         /\ h = 1 => h * P105!Back(h) = 4
         /\ h = 1 /\ v = 1 => v * P105!Onward(h, v) = 2
<1>1. P105!Back(h) \in {4, 8} /\ P105!Onward(h, v) \in {2, 4, 6}
  BY DEF P105!Back, P105!Onward
<1>2. CASE h = 1
  BY <1>2 DEF P105!Back, P105!Onward
<1>3. CASE h = -1
  BY <1>1, <1>3
<1> QED BY <1>2, <1>3

LEMMA Program105Keeps ==
  ASSUME P105!AimInv, P105!Next
  PROVE  P105!AimInv'
<1>0. /\ my \in Mine105 /\ world \in World105
      /\ P105!Coordinates \subseteq Int
  BY PlansAssumption DEF P105!AimInv, P105!Typed, Mine105, World105, Visits105, P105!Coordinates
<1>1. SUFFICES /\ my' \in Mine105 /\ world' \in World105 /\ P105!AimAhead'
               /\ P105!ActsOnWholeCells' /\ P105!NeverPastItsAim'
  BY DEF P105!AimInv, P105!Typed, Mine105, World105, Visits105
<1> USE DEF P105!AimAhead, P105!ActsOnWholeCells, P105!NeverPastItsAim
<1>2. P105!AimAhead /\ P105!NeverPastItsAim
  BY DEF P105!AimInv
<1>3. CASE P105!Key \/ P105!MoveToTask
  <2>1. my' = my /\ pc' \notin {"right", "up", "stuck?", "back", "act", "asleep"}
    BY <1>3 DEF P105!Key, P105!MoveToTask
  <2>2. \/ world' = world
        \/ \E x, y \in P105!Coordinates : world' = [world EXCEPT !.x = x, !.y = y]
    BY <1>0, <1>3 DEF P105!Key, P105!MoveToTask, World105
  <2>3. world' \in World105
    BY <1>0, <2>2 DEF World105
  <2> QED BY <1>0, <2>1, <2>3
<1>4. CASE P105!DecideToDo
  <2>1. PICK list \in {<<>>, P105!MoveToFood, P105!MoveToCook} :
          my' = [my EXCEPT !.todo = list \o P105!MoveToFood \o P105!MoveToCook]
    BY <1>4 DEF P105!DecideToDo
  <2>4. list \in Seq(Visits105)
    <3>1. <<>> \in Seq(Visits105)
      OBVIOUS
    <3> QED BY <3>1, Visits105Typed
  <2>2. list \o P105!MoveToFood \o P105!MoveToCook \in Seq(Visits105)
    <3> HIDE DEF Visits105
    <3> QED BY <2>4, Visits105Typed
  <2>3. my' \in Mine105
    BY <1>0, <2>1, <2>2 DEF Mine105
  <2> QED BY <1>0, <1>4, <2>3 DEF P105!DecideToDo
<1>5. CASE P105!MoveTo \/ P105!MoveTo1
  <2> DEFINE visit == Head(my.todo)
             h == IF visit.place[1] >= world.x THEN 1 ELSE -1
             v == IF visit.place[2] >= world.y THEN 1 ELSE -1
  <2>1. /\ my.todo \in Seq(Visits105) /\ my.todo # <<>> /\ pc' = "right" /\ world' = world
        /\ my' = [my EXCEPT !.todo = Tail(@), !.to = visit.place, !.act = visit.act,
                            !.h = h, !.v = v]
    BY <1>0, <1>5 DEF P105!MoveTo, P105!MoveTo1, P105!Begin, Mine105
  <2>2. visit \in Visits105 /\ Tail(my.todo) \in Seq(Visits105)
    BY <2>1
  <2>3. visit.place \in Int \X Int /\ visit.act \in {"pick", "use"}
    BY <2>2 DEF Visits105
  <2>4. h \in {1, -1} /\ v \in {1, -1}
    OBVIOUS
  <2>5. world.x \in Int /\ world.y \in Int
    BY <1>0 DEF World105
  <2>6. /\ h = 1 => world.x <= visit.place[1]
        /\ v = 1 => world.y <= visit.place[2]
    BY <2>3, <2>5
  <2> HIDE DEF visit, h, v
  <2>7. my' \in Mine105 /\ my'.to = visit.place /\ my'.h = h /\ my'.v = v
    BY <1>0, <2>1, <2>2, <2>3, <2>4 DEF Mine105
  <2> QED BY <1>0, <2>1, <2>6, <2>7
<1>6. CASE P105!Right
  <2>1. my' = [my EXCEPT !.at0 = <<world.x, world.y>>] /\ pc = "right"
    BY <1>6 DEF P105!Right
  <2>2. my' \in Mine105 /\ my'.to = my.to /\ my'.h = my.h /\ my'.v = my.v
    BY <1>0, <2>1 DEF Mine105, World105
  <2>3. my.to[1] \in Int /\ my.to[2] \in Int /\ my.h \in {1, -1} /\ world.x \in P105!Coordinates
    BY <1>0 DEF Mine105, World105
  <2>4. CASE P105!Past(world.x, my.to[1], my.h)
    <3>1. world' = world /\ pc' = "asleep"
      BY <1>6, <2>4 DEF P105!Right
    <3>2. ~ (my.h = 1 /\ world.x <= my.to[1])
      BY <2>3, <2>4, NotPast105
    <3> QED BY <1>0, <1>2, <2>1, <2>2, <3>1, <3>2
  <2>5. CASE ~ P105!Past(world.x, my.to[1], my.h)
    <3>1. PICK x \in P105!Ends(world.x, my.to[1], my.h) :
            world' = [world EXCEPT !.x = x] /\ pc' = "up"
      BY <1>6, <2>5 DEF P105!Right
    <3>2. x \in P105!Coordinates
      BY <2>3, <3>1, Ends105
    <3>3. ~ world.fast /\ world.x <= my.to[1] => x <= my.to[1]
      BY <2>3, <3>1, Ends105
    <3>4. world' \in World105 /\ world'.x = x /\ world'.y = world.y /\ world'.fast = world.fast
      BY <1>0, <3>1, <3>2 DEF World105
    <3> QED BY <1>2, <2>1, <2>2, <3>1, <3>3, <3>4
  <2> QED BY <2>4, <2>5
<1>7. CASE P105!Up
  <2>1. my' = my /\ pc = "up"
    BY <1>7 DEF P105!Up
  <2>3. my.to[1] \in Int /\ my.to[2] \in Int /\ my.v \in {1, -1} /\ world.y \in P105!Coordinates
    BY <1>0 DEF Mine105, World105
  <2>4. CASE P105!Past(world.y, my.to[2], my.v)
    <3>1. world' = world /\ pc' = "asleep"
      BY <1>7, <2>4 DEF P105!Up
    <3>2. ~ (my.v = 1 /\ world.y <= my.to[2])
      BY <2>3, <2>4, NotPast105
    <3> QED BY <1>0, <1>2, <2>1, <3>1, <3>2
  <2>5. CASE ~ P105!Past(world.y, my.to[2], my.v)
    <3>1. PICK y \in P105!Ends(world.y, my.to[2], my.v) :
            world' = [world EXCEPT !.y = y] /\ pc' = "stuck?"
      BY <1>7, <2>5 DEF P105!Up
    <3>2. y \in P105!Coordinates
      BY <2>3, <3>1, Ends105
    <3>3. ~ world.fast /\ world.y <= my.to[2] => y <= my.to[2]
      BY <2>3, <3>1, Ends105
    <3>4. world' \in World105 /\ world'.y = y /\ world'.x = world.x /\ world'.fast = world.fast
      BY <1>0, <3>1, <3>2 DEF World105
    <3> QED BY <1>0, <1>2, <2>1, <3>1, <3>3, <3>4
  <2> QED BY <2>4, <2>5
<1>8. CASE P105!Stuck
  <2>1. my' = my /\ world' = world /\ pc = "stuck?" /\ pc' \in {"right", "back", "act"}
    BY <1>8 DEF P105!Stuck
  <2>2. /\ my.at0[1] \in Int /\ my.at0[2] \in Int /\ my.to[2] \in Int /\ world.y \in Int
        /\ my.to[1] \in Int /\ world.x \in Int
    BY <1>0 DEF Mine105, World105
  <2>3. pc' = "act" => world.x % 2 = 0 /\ world.y % 2 = 0
    <3>1. pc' = "act" => P105!SamePlace
      BY <1>8 DEF P105!Stuck
    <3> QED BY <2>2, <3>1 DEF P105!SamePlace
  <2>4. pc' = "back" /\ my.v = 1 => world.y + 2 < my.to[2]
    <3>1. pc' = "back" => P105!Far(world.y, my.to[2], my.v)
      BY <1>8 DEF P105!Stuck
    <3> QED BY <2>2, <3>1 DEF P105!Far
  <2> QED BY <1>0, <1>2, <2>1, <2>3, <2>4
<1>9. CASE P105!BackOff
  <2>1. my' = my /\ pc = "back" /\ pc' = "right"
    BY <1>9 DEF P105!BackOff
  <2>2. PICK x \in P105!Within(world.x, world.x - my.h * P105!Back(my.h)),
             y \in P105!Within(world.y, world.y + my.v * P105!Onward(my.h, my.v)) :
          world' = [world EXCEPT !.x = x, !.y = y]
    BY <1>9 DEF P105!BackOff
  <2>3. /\ world.x \in P105!Coordinates /\ world.y \in P105!Coordinates
        /\ my.h \in {1, -1} /\ my.v \in {1, -1} /\ my.to[1] \in Int /\ my.to[2] \in Int
    BY <1>0 DEF World105, Mine105
  <2>4. /\ world.x - my.h * P105!Back(my.h) \in Int
        /\ world.y + my.v * P105!Onward(my.h, my.v) \in Int
        /\ my.h = 1 /\ my.v = 1 => /\ world.x - my.h * P105!Back(my.h) <= world.x
                                   /\ world.y <= world.y + my.v * P105!Onward(my.h, my.v)
                                   /\ world.y + my.v * P105!Onward(my.h, my.v) = world.y + 2
    <3> DEFINE b == my.h * P105!Back(my.h)
               o == my.v * P105!Onward(my.h, my.v)
    <3>1. b \in Int /\ o \in Int /\ (my.h = 1 => b = 4) /\ (my.h = 1 /\ my.v = 1 => o = 2)
      BY <2>3, Round105
    <3>2. world.x \in Int /\ world.y \in Int
      BY <1>0, <2>3
    <3> HIDE DEF b, o
    <3>3. /\ world.x - b \in Int /\ world.y + o \in Int
          /\ my.h = 1 /\ my.v = 1 => /\ world.x - b <= world.x /\ world.y <= world.y + o
                                     /\ world.y + o = world.y + 2
      BY <3>1, <3>2
    <3> QED BY <3>3 DEF b, o
  <2>5. x \in P105!Coordinates /\ y \in P105!Coordinates
    BY <2>2, <2>3, <2>4, Ends105
  <2>6. my.h = 1 /\ my.v = 1 => x <= world.x /\ y <= world.y + 2
    BY <2>2, <2>3, <2>4, Ends105
  <2>7. world' \in World105 /\ world'.x = x /\ world'.y = y /\ world'.fast = world.fast
    BY <1>0, <2>2, <2>5 DEF World105
  <2>8. world.x \in Int /\ world.y \in Int /\ x \in Int /\ y \in Int
    BY <1>0, <2>3, <2>5
  <2> HIDE DEF P105!ActsOnWholeCells, P105!NeverPastItsAim
  <2>9. P105!AimAhead'
    BY <1>2, <2>1, <2>3, <2>6, <2>7, <2>8
  <2>10. P105!ActsOnWholeCells' /\ P105!NeverPastItsAim'
    BY <2>1 DEF P105!ActsOnWholeCells, P105!NeverPastItsAim
  <2> QED BY <1>0, <2>1, <2>7, <2>9, <2>10
<1>10. CASE P105!Act
  BY <1>0, <1>10 DEF P105!Act
<1> QED
  BY <1>3, <1>4, <1>5, <1>6, <1>7, <1>8, <1>9, <1>10 DEF P105!Next


\* Program 105 as part of what runs on a player's machine.
Kept105 == prog = "105" => P105!AimInv

LEMMA Begins105 ==
  ASSUME PlayersInit PROVE Kept105
<1> SUFFICES ASSUME prog = "105" PROVE P105!AimInv
  BY DEF Kept105
<1>1. P105!Init
  BY DEF PlayersInit
<1>2. my \in Mine105
  <2>1. <<>> \in Seq(Visits105) /\ <<0, 0>> \in Int \X Int
    OBVIOUS
  <2> HIDE DEF Visits105
  <2> QED BY <1>1, <2>1 DEF P105!Init, Mine105
<1>3. world \in World105
  BY <1>1 DEF P105!Init, World105
<1> QED
  BY <1>1, <1>2, <1>3
  DEF P105!Init, P105!AimInv, P105!Typed, P105!AimAhead, P105!ActsOnWholeCells,
      P105!NeverPastItsAim, Mine105, World105, Visits105

LEMMA Continues105 ==
  ASSUME Kept105, [PlayersNext]_playersVars PROVE Kept105'
<1> SUFFICES ASSUME prog' = "105" PROVE P105!AimInv'
  BY DEF Kept105
<1>1. prog = "105" /\ P105!AimInv
  BY DEF Kept105, PlayersNext, playersVars
<1>2. P105!Next \/ UNCHANGED <<pc, my, world>>
  BY <1>1 DEF PlayersNext, playersVars, Program
<1>3. CASE UNCHANGED <<pc, my, world>>
  BY <1>1, <1>3 DEF P105!AimInv, P105!Typed, P105!AimAhead, P105!ActsOnWholeCells,
                    P105!NeverPastItsAim
<1> QED BY <1>1, <1>2, <1>3, Program105Keeps

\* Upwards to the right, program 105 never sends a leg past its aim, unless its
\* player is faster than it reckons (105/player1.cpp:18-31).
THEOREM Program105NeverPast == PlayersSpec => []NeverPastItsAim
<1>1. Kept105 => NeverPastItsAim
  BY DEF Kept105, NeverPastItsAim, P105!AimInv
<1> QED BY <1>1, Begins105, Continues105, PTL DEF PlayersSpec, Plays

\* Program 105 picks or uses only where the player lies on whole cells, whatever
\* the plan of places and however it was pushed (105/player1.cpp:21).
THEOREM Program105ActsOnWholeCells == PlayersSpec => []ActsOnWholeCells
<1>1. Kept105 => ActsOnWholeCells
  BY DEF Kept105, ActsOnWholeCells, P105!AimInv
<1> QED BY <1>1, Begins105, Continues105, PTL DEF PlayersSpec, Plays

-----------------------------------------------------------------------------
(* The ways of programs 92, 87 and 85, from WaysProofs.                      *)

Kept92a == prog = "92a" => Inv92a

LEMMA Begins92a ==
  ASSUME PlayersInit PROVE Kept92a
<1> SUFFICES ASSUME prog = "92a" PROVE Inv92a
  BY DEF Kept92a
<1>1. P92a!Init
  BY DEF PlayersInit
<1> QED BY <1>1, Init92a

LEMMA Continues92a ==
  ASSUME Kept92a, [PlayersNext]_playersVars PROVE Kept92a'
<1> SUFFICES ASSUME prog' = "92a" PROVE Inv92a'
  BY DEF Kept92a
<1>1. prog = "92a" /\ Inv92a
  BY DEF Kept92a, PlayersNext, playersVars
<1>2. P92a!Next \/ UNCHANGED <<pc, my, world>>
  BY <1>1 DEF PlayersNext, playersVars, Program
<1>3. CASE UNCHANGED <<pc, my, world>>
  BY <1>1, <1>3 DEF Inv92a
<1> QED BY <1>1, <1>2, <1>3, Next92a

\* Unless the cook of program 92 is stopped late, no leg of its routes begins
\* beyond its aim, whichever way it has come to where it is.
THEOREM Program92RoutesMeet == PlayersSpec => [](prog = "92a" => P92a!RoutesMeet)
<1>1. Kept92a => (prog = "92a" => P92a!RoutesMeet)
  BY Inv92aMeets DEF Kept92a
<1> QED BY <1>1, Begins92a, Continues92a, PTL DEF PlayersSpec, Plays

Kept87Paths == prog = "87path" => Inv87Paths

LEMMA Begins87Paths ==
  ASSUME PlayersInit PROVE Kept87Paths
<1> SUFFICES ASSUME prog = "87path" PROVE Inv87Paths
  BY DEF Kept87Paths
<1>1. B87!Init
  BY DEF PlayersInit
<1> QED BY <1>1, Init87Paths

LEMMA Continues87Paths ==
  ASSUME Kept87Paths, [PlayersNext]_playersVars PROVE Kept87Paths'
<1> SUFFICES ASSUME prog' = "87path" PROVE Inv87Paths'
  BY DEF Kept87Paths
<1>1. prog = "87path" /\ Inv87Paths
  BY DEF Kept87Paths, PlayersNext, playersVars
<1>2. B87!Next \/ UNCHANGED <<pc, my, world>>
  BY <1>1 DEF PlayersNext, playersVars, Program
<1>3. CASE UNCHANGED <<pc, my, world>>
  BY <1>1, <1>3 DEF Inv87Paths
<1> QED BY <1>1, <1>2, <1>3, Next87Paths

\* Program 87 finds a way through every map that has one, and there is none that
\* is shorter; it gives up where there is none.
THEOREM Program87FindsShortest == PlayersSpec => [](prog = "87path" => B87!ShortestPath)
<1>1. Kept87Paths => (prog = "87path" => B87!ShortestPath)
  BY Paths87Shortest DEF Kept87Paths
<1> QED BY <1>1, Begins87Paths, Continues87Paths, PTL DEF PlayersSpec, Plays

Kept85Walk == prog = "85walk" => StandsFree

LEMMA Begins85Walk ==
  ASSUME PlayersInit PROVE Kept85Walk
<1> SUFFICES ASSUME prog = "85walk" PROVE StandsFree
  BY DEF Kept85Walk
<1>1. W85!Init
  BY DEF PlayersInit
<1> QED BY <1>1, Init85Free, GridsAssumption

LEMMA Continues85Walk ==
  ASSUME Kept85Walk, [PlayersNext]_playersVars PROVE Kept85Walk'
<1> SUFFICES ASSUME prog' = "85walk" PROVE StandsFree'
  BY DEF Kept85Walk
<1>1. prog = "85walk" /\ StandsFree
  BY DEF Kept85Walk, PlayersNext, playersVars
<1>2. W85!GoTo \/ UNCHANGED <<pc, my, world>>
  BY <1>1 DEF PlayersNext, playersVars, Program
<1>3. CASE UNCHANGED <<pc, my, world>>
  BY <1>1, <1>3 DEF StandsFree, W85!Free, W85!isBlock, W85!Covered
<1> QED BY <1>1, <1>2, <1>3, GoTo85Free

\* Where program 85 sees the way free it can step, whatever the map and whoever
\* stands in its way.
THEOREM Program85StepsAreFree == PlayersSpec => [](prog = "85walk" => W85!StepsAreFree)
<1>1. Kept85Walk => (prog = "85walk" => W85!StepsAreFree)
  BY FreeSteps DEF Kept85Walk
<1> QED BY <1>1, Begins85Walk, Continues85Walk, PTL DEF PlayersSpec, Plays

\* So the ways of the programs are right, but for that of program 79, which walks
\* by a map it has learnt by heart.
THEOREM WaysWithoutMapAreRight == PlayersSpec => [](prog # "79walk" => WaysAreRight)
<1>1. (prog = "92a" => P92a!RoutesMeet) /\ (prog = "87path" => B87!ShortestPath)
      /\ (prog = "85walk" => W85!StepsAreFree)
      => (prog # "79walk" => WaysAreRight)
  BY DEF WaysAreRight
<1> QED
  BY <1>1, Program92RoutesMeet, Program87FindsShortest, Program85StepsAreFree, PTL

-----------------------------------------------------------------------------
(* The mirrored map.                                                         *)

ApplyActions ==
  \/ \E m \in Messages : SelfX(m)
  \/ SelfY \/ LockOld \/ LeaveCell \/ WriteFields \/ WriteRest \/ LockNew \/ EnterCell
  \/ ClearTasks \/ FillTasks
  \/ \E o \in Objects : BeginMove(o) \/ Delete(o)

\* What is left of Notify when only the map is looked at.
Rest ==
  /\ Goto("notify", "idle")
  /\ UNCHANGED <<objList, objMap, mutexMap, selfId, position, message, current, todo,
                 objectsToDelete, reader>>

MapNext ==
  \/ ApplyActions \/ Rest
  \/ \E r \in Readers : ReadStep(r) \/ ComeBack(r) \/ \E c \in Cells : Look(r, c)

\* The packets on their way hold messages the server sends.
InboxType == inbox \in Seq([type : {"IdAllocate", "Disconnected"}] \cup
                           [type : {"ProtoPacket"}, message : Messages])

USE MapAssumption, ClientAssumption

-----------------------------------------------------------------------------
LEMMA InitMap == Init => MapInv
BY DEF Init, MapInit, MapInv, MapType, Known, Out, Cells, Moving, AsSent, ReceiverHolds, Taken

LEMMA InboxTyped == Spec => []InboxType
<1>1. Init => InboxType
  BY DEF Init, InboxType
<1>2. InboxType /\ [Next]_vars => InboxType'
  <2> SUFFICES ASSUME InboxType, [Next]_vars PROVE InboxType'
    OBVIOUS
  <2>1. CASE inbox' = inbox
    BY <2>1 DEF InboxType
  <2>2. CASE inbox' = Tail(inbox) /\ inbox # <<>>
    BY <2>2 DEF InboxType
  <2>3. CASE inbox' = <<>>
    BY <2>3 DEF InboxType
  <2>4. ASSUME NEW p \in [type : {"IdAllocate", "Disconnected"}] \cup
                           [type : {"ProtoPacket"}, message : Messages],
               inbox' = Append(inbox, p)
        PROVE  InboxType'
    BY <2>4 DEF InboxType
  <2>5. CASE AgentAnswers
    BY <2>5, <2>1, <2>4 DEF AgentAnswers, Packet
  <2>6. CASE ServerStops
    BY <2>6, <2>4 DEF ServerStops, Packet
  <2>7. CASE Break
    BY <2>7, <2>3 DEF Break
  <2>8. ASSUME NEW m \in Messages, ServerSends(m) PROVE InboxType'
    BY <2>8, <2>1, <2>4 DEF ServerSends, Proto
  <2>9. CASE SocketStep
    BY <2>9, <2>1, <2>2
    DEF SocketStep, OnClose, Ignore, ReceiveId, ReceiveDisconnected, ReceiveMessage,
        Receives, Apply, Notify, clientVars, linkVars
  <2>10. CASE MainStep \/ WakeUp \/ PauseCommunication \/ UNCHANGED vars
    BY <2>10, <2>1
    DEF MainStep, Connect, Spin, Check, Start, Wait, WakeUp, GetMapcell, PauseCommunication,
        Return, vars, clientVars, linkVars
  <2> QED
    BY <2>5, <2>6, <2>7, <2>8, <2>9, <2>10 DEF Next
<1> QED
  BY <1>1, <1>2, PTL DEF Spec

\* Every step of the client is a step of the map or leaves it alone.
LEMMA ClientStepsMap ==
  ASSUME InboxType, [Next]_vars
  PROVE  MapNext \/ UNCHANGED mapVars
<1>1. CASE AgentAnswers \/ ServerStops \/ Break \/ \E m \in Messages : ServerSends(m)
  BY <1>1 DEF AgentAnswers, ServerStops, Break, ServerSends
<1>2. CASE SocketStep
  <2>1. ASSUME ReceiveMessage PROVE MapNext
    <3>1. Head(inbox).message \in Messages
      BY <2>1 DEF InboxType, ReceiveMessage, Receives
    <3> QED
      BY <2>1, <3>1 DEF ReceiveMessage, MapNext, ApplyActions
  <2>2. ASSUME Apply PROVE MapNext
    BY <2>2 DEF Apply, ApplyStep, MapNext, ApplyActions
  <2>3. ASSUME Notify PROVE MapNext
    BY <2>3 DEF Notify, MapNext, Rest
  <2> QED
    BY <1>2, <2>1, <2>2, <2>3
    DEF SocketStep, OnClose, Ignore, ReceiveId, ReceiveDisconnected
<1>3. CASE MainStep
  BY <1>3
  DEF MainStep, Connect, Spin, Check, Start, Wait, GetMapcell, Return, MapNext
<1>4. CASE WakeUp \/ PauseCommunication \/ UNCHANGED vars
  BY <1>4 DEF WakeUp, PauseCommunication, vars
<1> QED
  BY <1>1, <1>2, <1>3, <1>4 DEF Next

-----------------------------------------------------------------------------
LEMMA SelfKeepsMap ==
  ASSUME MapInv, SelfY \/ \E m \in Messages : SelfX(m) PROVE MapInv'
BY DEF MapInv, MapType, SelfX, SelfY, Goto, Known, Moving, AsSent, ReceiverHolds, Taken, Cells

LEMMA BeginKeepsMap ==
  ASSUME MapInv, NEW o \in Objects, BeginMove(o) PROVE MapInv'
BY DEF MapInv, MapType, BeginMove, Goto, Known, Moving, AsSent, ReceiverHolds, Taken, Cells

LEMMA LocksKeepMap ==
  ASSUME MapInv, LockOld \/ LockNew PROVE MapInv'
BY DEF MapInv, MapType, LockOld, LockNew, Lock, Goto, Known, Moving, AsSent, ReceiverHolds,
       Taken, Cells

LEMMA LeaveKeepsMap ==
  ASSUME MapInv, LeaveCell PROVE MapInv'
BY DEF MapInv, MapType, LeaveCell, Unlock, Goto, Known, Moving, AsSent, ReceiverHolds, Taken, Cells

LEMMA WritesKeepMap ==
  ASSUME MapInv, WriteFields \/ WriteRest PROVE MapInv'
BY DEF MapInv, MapType, WriteFields, WriteRest, Goto, Known, Moving, AsSent, ReceiverHolds,
       Taken, Cells

LEMMA EnterKeepsMap ==
  ASSUME MapInv, EnterCell PROVE MapInv'
BY DEF MapInv, MapType, EnterCell, Unlock, Goto, Known, Moving, AsSent, ReceiverHolds, Taken, Cells

ReaderStates == [pc : {"out", "lock", "copy", "astray"}, cell : Cells,
                 left : SUBSET Objects, copied : SUBSET (Objects \X Cells)]

LEMMA DeleteKeepsMap ==
  ASSUME MapInv, NEW o \in Objects, Delete(o) PROVE MapInv'
<1> USE DEF MapInv, MapType, Delete, Goto, Known, Moving, AsSent, ReceiverHolds, Taken, Cells
<1> DEFINE c == objList[o]
<1>1. c \in Cells /\ rpc = "objects" /\ rpc' = "objects" /\ current = Absent /\ current' = Absent
  OBVIOUS
<1>2. PICK list \in [Readers -> SUBSET (Objects \X Cells)] :
        reader' = [r \in Readers |->
          IF Within(r, c)
            THEN [pc |-> "astray", cell |-> c, left |-> {}, copied |-> list[r]]
            ELSE reader[r]]
  BY DEF Delete
<1> HIDE DEF MapInv, MapType, Delete
<1> HIDE DEF c
<1>r. reader \in [Readers -> ReaderStates]
  BY DEF MapInv, MapType, ReaderStates
<1>3. ASSUME NEW r \in Readers
      PROVE  /\ reader'[r].pc \in {"copy", "astray"} <=> reader[r].pc \in {"copy", "astray"}
             /\ reader'[r].cell = reader[r].cell
             /\ reader'[r].left # {} => reader'[r] = reader[r] /\ reader[r].cell # c
             /\ reader'[r] \in ReaderStates
  <2>1. CASE Within(r, c)
    <3>1. reader'[r] = [pc |-> "astray", cell |-> c, left |-> {}, copied |-> list[r]]
      BY <1>2, <2>1
    <3>2. list[r] \in SUBSET (Objects \X Cells)
      OBVIOUS
    <3> QED
      BY <1>1, <1>r, <2>1, <3>1, <3>2 DEF Within, ReaderStates
  <2>2. CASE ~ Within(r, c)
    <3>1. reader'[r] = reader[r]
      BY <1>2, <2>2
    <3>2. reader[r].left # {} => reader[r].pc = "copy"
      BY DEF MapInv
    <3> QED
      BY <1>r, <2>2, <3>1, <3>2 DEF Within
  <2> QED
    BY <2>1, <2>2
<1>9. reader' \in [Readers -> ReaderStates]
  BY <1>2, <1>3
<1> USE DEF MapInv, MapType, Delete, c
<1>4. MapType'
  BY <1>1, <1>9 DEF ReaderStates
<1>5. \A r \in Readers :
       /\ reader'[r].left # {} => reader'[r].pc = "copy"
       /\ reader'[r].left \subseteq objMap'[reader'[r].cell]
  <2> SUFFICES ASSUME NEW r \in Readers, reader'[r].left # {}
               PROVE  /\ reader'[r].pc = "copy"
                      /\ reader'[r].left \subseteq objMap'[reader'[r].cell]
    OBVIOUS
  <2>1. reader'[r] = reader[r] /\ reader[r].cell # objList[o]
    BY <1>3
  <2>2. reader[r].pc = "copy" /\ reader[r].left \subseteq objMap[reader[r].cell]
    BY <2>1
  <2>3. reader[r].cell \in Cells
    BY <1>r DEF ReaderStates
  <2>4. objMap'[reader[r].cell] = objMap[reader[r].cell]
    BY <2>1, <2>3
  <2> QED
    BY <2>1, <2>2, <2>4
<1>6. \A e \in Cells, r \in Readers :
       mutexMap'[e] = r <=> reader'[r].pc \in {"copy", "astray"} /\ reader'[r].cell = e
  BY <1>3
<1>7. \A e \in Cells : \A p \in objMap'[e] : objList'[p] = e /\ ~ (Taken' /\ p = current')
  BY <1>1
<1>8. \A p \in Objects : Known(p)' /\ p # current' => p \in objMap'[objList'[p]]
  BY <1>1
<1> QED
  BY <1>1, <1>4, <1>5, <1>6, <1>7, <1>8

LEMMA EndKeepsMap ==
  ASSUME MapInv, ClearTasks \/ FillTasks \/ Rest PROVE MapInv'
BY DEF MapInv, MapType, ClearTasks, FillTasks, Rest, Goto, Known, Moving, AsSent,
       ReceiverHolds, Taken, Cells

LEMMA ReadersKeepMap ==
  ASSUME MapInv, NEW r \in Readers, NEW c \in Cells, ReadStep(r) \/ ComeBack(r) \/ Look(r, c)
  PROVE  MapInv'
<1> USE DEF MapInv, MapType, SetReader, Out, Lock, Unlock, Known, Moving, AsSent,
            ReceiverHolds, Taken, Cells
<1>1. CASE Look(r, c)
  BY <1>1 DEF Look
<1>r. reader[r] \in ReaderStates
  BY DEF ReaderStates
<1>2. CASE LockCell(r)
  <2> DEFINE e == reader[r].cell
             l == objMap[e]
  <2>1. [reader[r] EXCEPT !.pc = "copy", !.left = l] \in ReaderStates
    <3>1. l \subseteq Objects
      BY <1>r DEF ReaderStates
    <3> HIDE DEF l, MapInv, MapType
    <3> QED
      BY <3>1, <1>r DEF ReaderStates
  <2>2. /\ reader' \in [Readers -> ReaderStates]
        /\ reader'[r] = [reader[r] EXCEPT !.pc = "copy", !.left = l]
        /\ \A q \in Readers \ {r} : reader'[q] = reader[q]
    BY <1>2, <2>1 DEF LockCell, ReaderStates
  <2>3. reader'[r].pc = "copy" /\ reader'[r].cell = e /\ reader'[r].left = l
    BY <2>2, <1>r DEF ReaderStates
  <2>4. /\ e \in Cells /\ mutexMap[e] = Nobody
        /\ mutexMap' = [mutexMap EXCEPT ![e] = r]
    BY <1>2, <1>r DEF LockCell, ReaderStates
  <2> QED
    BY <1>2, <2>2, <2>3, <2>4 DEF LockCell, ReaderStates
<1>3. CASE UnlockCell(r) \/ ComeBack(r)
  BY <1>3 DEF UnlockCell, ComeBack
<1>4. ASSUME NEW o \in Objects, CopyObject(r, o) PROVE MapInv'
  <2> DEFINE e == reader[r].cell
             l == reader[r].left \ {o}
             k == reader[r].copied \cup {<<o, objList[o]>>}
  <2>0. e \in Cells /\ objList[o] = e /\ reader[r].pc = "copy" /\ o \in reader[r].left
    BY <1>4, <1>r DEF CopyObject, ReaderStates
  <2>1. [reader[r] EXCEPT !.left = l, !.copied = k] \in ReaderStates
    <3>1. l \subseteq Objects /\ k \subseteq Objects \X Cells
      BY <1>r, <2>0 DEF ReaderStates
    <3> HIDE DEF l, k, MapInv, MapType
    <3> QED
      BY <3>1, <1>r DEF ReaderStates
  <2>2. /\ reader' \in [Readers -> ReaderStates]
        /\ reader'[r] = [reader[r] EXCEPT !.left = l, !.copied = k]
        /\ \A q \in Readers \ {r} : reader'[q] = reader[q]
    BY <1>4, <2>1 DEF CopyObject, ReaderStates
  <2>3. reader'[r].pc = "copy" /\ reader'[r].cell = e /\ reader'[r].left = l
    BY <2>0, <2>2, <1>r DEF ReaderStates
  <2> QED
    BY <1>4, <2>0, <2>2, <2>3 DEF CopyObject, ReaderStates
<1> QED
  BY <1>1, <1>2, <1>3, <1>4 DEF ReadStep

LEMMA MapStepKeepsInv ==
  ASSUME MapInv, MapNext \/ UNCHANGED mapVars PROVE MapInv'
<1>1. CASE ApplyActions
  BY <1>1, SelfKeepsMap, BeginKeepsMap, LocksKeepMap, LeaveKeepsMap, WritesKeepMap,
     EnterKeepsMap, DeleteKeepsMap, EndKeepsMap DEF ApplyActions
<1>2. CASE Rest
  BY <1>2, EndKeepsMap
<1>3. ASSUME NEW r \in Readers, ReadStep(r) \/ ComeBack(r) \/ \E c \in Cells : Look(r, c)
      PROVE  MapInv'
  <2>1. <<0, 0>> \in Cells
    BY DEF Cells
  <2> QED
    BY <1>3, <2>1, ReadersKeepMap
<1>4. CASE UNCHANGED mapVars
  BY <1>4 DEF mapVars, MapInv, MapType, Known, Moving, AsSent, ReceiverHolds, Taken
<1> QED
  BY <1>1, <1>2, <1>3, <1>4 DEF MapNext

\* Cells are changed under their lock but for deletions, and every object is
\* in the one cell it says it is in, or being moved by the thread that
\* receives.
THEOREM MapInvariant == Spec => []MapInv
<1>1. InboxType /\ MapInv /\ [Next]_vars => MapInv'
  BY ClientStepsMap, MapStepKeepsInv
<1> QED
  BY <1>1, InitMap, InboxTyped, PTL DEF Spec

\* Between two messages the cells show the last one: nothing stays behind and
\* nothing is in two places.
THEOREM CellsShowTheMessage == Spec => []Shown
<1>1. MapInv => Shown
  BY DEF MapInv, MapType, Shown, Known, Moving, AsSent
<1> QED
  BY <1>1, MapInvariant, PTL

\* A reader never copies an object whose fields are being written, so each
\* copy shows it in the cell that was asked for, as long as no deletion has led
\* the reader astray.
THEOREM ReadersCopyWhole == Spec => []CopiesAgree
<1>1. Init => CopiesAgree
  BY DEF Init, MapInit, Out, CopiesAgree
<1>2. MapInv /\ CopiesAgree /\ (MapNext \/ UNCHANGED mapVars) => CopiesAgree'
  <2> SUFFICES ASSUME MapInv, CopiesAgree, MapNext \/ UNCHANGED mapVars,
                      NEW r \in Readers, reader'[r].pc # "astray",
                      NEW k \in reader'[r].copied
               PROVE  k[2] = reader'[r].cell
    BY DEF CopiesAgree
  <2>r. reader \in [Readers -> ReaderStates]
    BY DEF MapInv, MapType, ReaderStates
  <2>0. reader'[r].pc # "astray"
    OBVIOUS
  <2>1. CASE reader'[r] = reader[r]
    BY <2>0, <2>1 DEF CopiesAgree
  <2>2. ASSUME NEW o \in Objects, Delete(o) PROVE k[2] = reader'[r].cell
    <3>1. PICK list \in [Readers -> SUBSET (Objects \X Cells)] :
            reader' = [q \in Readers |->
              IF Within(q, objList[o])
                THEN [pc |-> "astray", cell |-> objList[o], left |-> {}, copied |-> list[q]]
                ELSE reader[q]]
      BY <2>2 DEF Delete
    <3>2. ~ Within(r, objList[o])
      BY <2>0, <3>1
    <3>3. reader'[r] = reader[r]
      BY <3>1, <3>2
    <3> QED
      BY <2>1, <3>3
  <2>3. ASSUME NEW o \in Objects, NEW q \in Readers, CopyObject(q, o)
        PROVE  k[2] = reader'[r].cell
    <3>1. CASE q # r
      BY <3>1, <2>3, <2>1, <2>r DEF CopyObject, SetReader
    <3>2. CASE q = r
      <4>1. /\ reader'[r].cell = reader[r].cell
            /\ reader'[r].copied = reader[r].copied \cup {<<o, objList[o]>>}
            /\ o \in reader[r].left
        BY <3>2, <2>3, <2>r DEF CopyObject, SetReader, ReaderStates
      <4>2. objList[o] = reader[r].cell
        BY <4>1, <2>r DEF MapInv, ReaderStates
      <4>3. reader[r].pc # "astray"
        BY <3>2, <2>3 DEF CopyObject
      <4> QED
        BY <4>1, <4>2, <4>3 DEF CopiesAgree
    <3> QED
      BY <3>1, <3>2
  <2>4. ASSUME NEW q \in Readers, LockCell(q) PROVE k[2] = reader'[r].cell
    BY <2>4, <2>r DEF LockCell, SetReader, CopiesAgree, ReaderStates
  <2>5. ASSUME NEW q \in Readers, NEW c \in Cells, UnlockCell(q) \/ ComeBack(q) \/ Look(q, c)
        PROVE  k[2] = reader'[r].cell
    BY <2>5, <2>r DEF UnlockCell, ComeBack, Look, SetReader, Out, CopiesAgree, ReaderStates
  <2>6. CASE ApplyActions
    BY <2>6, <2>1, <2>2
    DEF ApplyActions, SelfX, SelfY, LockOld, LeaveCell, WriteFields, WriteRest, LockNew,
        EnterCell, ClearTasks, FillTasks, BeginMove
  <2>7. CASE Rest \/ UNCHANGED mapVars
    BY <2>7, <2>1 DEF Rest, mapVars
  <2>8. <<0, 0>> \in Cells
    BY DEF Cells
  <2> QED
    BY <2>3, <2>4, <2>5, <2>6, <2>7, <2>8 DEF MapNext, ReadStep
<1>3. InboxType /\ MapInv /\ CopiesAgree /\ [Next]_vars => CopiesAgree'
  BY <1>2, ClientStepsMap
<1> QED
  BY <1>1, <1>3, MapInvariant, InboxTyped, PTL DEF Spec

-----------------------------------------------------------------------------
(* The client knows itself: what the queue of packets begins with. *)

Packets == [type : {"IdAllocate", "Disconnected"}] \cup
           [type : {"ProtoPacket"}, message : Messages]

\* What comes later changes nothing of what comes first.
LEMMA BegunAppend ==
  ASSUME NEW s \in Seq(Packets), NEW p \in Packets
  PROVE  /\ Begun(s) => Begun(Append(s, p))
         /\ OnlyIds(s) /\ p.type = "ProtoPacket" /\ First(p.message) => Begun(Append(s, p))
         /\ OnlyIds(s) /\ p.type = "IdAllocate" => OnlyIds(Append(s, p))
<1> DEFINE t == Append(s, p)
<1>1. /\ Len(s) \in Nat /\ Len(t) = Len(s) + 1 /\ t[Len(s) + 1] = p
      /\ \A i \in 1 .. Len(s) : t[i] = s[i]
  OBVIOUS
<1> HIDE DEF t
<1>2. Begun(s) => Begun(t)
  <2> SUFFICES ASSUME Begun(s) PROVE Begun(t)
    OBVIOUS
  <2>1. PICK j \in 1 .. Len(s) :
          /\ s[j].type = "ProtoPacket" /\ First(s[j].message)
          /\ \A k \in 1 .. j - 1 : s[k].type = "IdAllocate"
    BY DEF Begun
  <2>2. j \in 1 .. Len(t) /\ t[j] = s[j] /\ \A k \in 1 .. j - 1 : t[k] = s[k]
    BY <1>1
  <2> QED BY <2>1, <2>2 DEF Begun
<1>3. OnlyIds(s) /\ p.type = "ProtoPacket" /\ First(p.message) => Begun(t)
  <2> SUFFICES ASSUME OnlyIds(s), p.type = "ProtoPacket", First(p.message) PROVE Begun(t)
    OBVIOUS
  <2> DEFINE j == Len(s) + 1
  <2>1. j \in 1 .. Len(t) /\ t[j] = p /\ \A k \in 1 .. j - 1 : t[k] = s[k] /\ k \in 1 .. Len(s)
    BY <1>1
  <2>2. \A k \in 1 .. j - 1 : t[k].type = "IdAllocate"
    BY <2>1 DEF OnlyIds
  <2> HIDE DEF j
  <2> QED BY <2>1, <2>2 DEF Begun
<1>4. OnlyIds(s) /\ p.type = "IdAllocate" => OnlyIds(t)
  <2> SUFFICES ASSUME OnlyIds(s), p.type = "IdAllocate", NEW i \in 1 .. Len(t)
               PROVE  t[i].type = "IdAllocate"
    BY DEF OnlyIds
  <2>1. i \in 1 .. Len(s) \/ i = Len(s) + 1
    BY <1>1
  <2> QED BY <1>1, <2>1 DEF OnlyIds
<1> QED BY <1>2, <1>3, <1>4 DEF t

\* The first of all is an id or the first message; an id can be taken away.
LEMMA BegunTail ==
  ASSUME NEW s \in Seq(Packets), s # <<>>
  PROVE  /\ Begun(s) => \/ Head(s).type = "IdAllocate"
                        \/ Head(s).type = "ProtoPacket" /\ First(Head(s).message)
         /\ Begun(s) /\ Head(s).type = "IdAllocate" => Begun(Tail(s))
         /\ OnlyIds(s) => Head(s).type = "IdAllocate" /\ OnlyIds(Tail(s))
<1> DEFINE t == Tail(s)
<1>1. /\ Len(s) \in Nat \ {0} /\ Len(t) = Len(s) - 1 /\ Head(s) = s[1]
      /\ \A i \in 1 .. Len(t) : t[i] = s[i + 1]
  OBVIOUS
<1> HIDE DEF t
<1>2. ASSUME Begun(s)
      PROVE  /\ \/ Head(s).type = "IdAllocate"
                \/ Head(s).type = "ProtoPacket" /\ First(Head(s).message)
             /\ Head(s).type = "IdAllocate" => Begun(t)
  <2>1. PICK j \in 1 .. Len(s) :
          /\ s[j].type = "ProtoPacket" /\ First(s[j].message)
          /\ \A k \in 1 .. j - 1 : s[k].type = "IdAllocate"
    BY <1>2 DEF Begun
  <2>2. CASE j = 1
    <3>1. Head(s).type = "ProtoPacket" /\ First(Head(s).message)
      BY <1>1, <2>1, <2>2
    <3> QED BY <3>1
  <2>3. CASE j # 1
    <3>1. 1 \in 1 .. j - 1 /\ Head(s).type = "IdAllocate"
      BY <1>1, <2>1, <2>3
    <3> DEFINE i == j - 1
    <3>2. i \in 1 .. Len(t) /\ t[i] = s[j] /\ i \in Nat
      BY <1>1, <2>1, <2>3
    <3>3. \A k \in 1 .. i - 1 : t[k] = s[k + 1] /\ k + 1 \in 1 .. j - 1
      BY <1>1, <3>2
    <3>4. \A k \in 1 .. i - 1 : t[k].type = "IdAllocate"
      BY <2>1, <3>3
    <3> HIDE DEF i
    <3>5. Begun(t)
      BY <2>1, <3>2, <3>4 DEF Begun
    <3> QED BY <3>1, <3>5
  <2> QED BY <2>2, <2>3
<1>3. ASSUME OnlyIds(s) PROVE Head(s).type = "IdAllocate" /\ OnlyIds(t)
  <2>1. \A i \in 1 .. Len(t) : i + 1 \in 1 .. Len(s)
    BY <1>1
  <2>2. 1 \in 1 .. Len(s)
    BY <1>1
  <2> QED BY <1>1, <1>3, <2>1, <2>2 DEF OnlyIds
<1> QED BY <1>2, <1>3 DEF t

\* Each step keeps the first message first, and takes nobody else for itself.
LEMMA FirstKept ==
  ASSUME MapInv, InboxType, FirstComesFirst, KnowsItself, [Next]_vars
  PROVE  FirstComesFirst' /\ KnowsItself'
<1>0. inbox \in Seq(Packets) /\ Self \in Objects /\ Absent \notin Objects
  BY DEF InboxType, Packets
<1> USE DEF FirstComesFirst, KnowsItself
<1>1. CASE AgentAnswers
  <2>1. CASE hello = NoId
    <3>1. inbox' = Append(inbox, Packet("IdAllocate")) /\ Packet("IdAllocate") \in Packets
      BY <1>1, <2>1 DEF AgentAnswers, Packet, Packets
    <3>2. Packet("IdAllocate").type = "IdAllocate"
      BY DEF Packet
    <3>3. Waiting => Waiting'
      BY <1>0, <1>1, <3>1, <3>2, BegunAppend DEF AgentAnswers, Waiting
    <3> QED BY <1>1, <3>3 DEF AgentAnswers, mapVars, flags
  <2>2. CASE hello # NoId
    <3>1. Waiting => Waiting'
      BY <1>1, <2>2 DEF AgentAnswers, Waiting
    <3> QED BY <1>1, <2>2, <3>1 DEF AgentAnswers, mapVars, flags
  <2> QED BY <2>1, <2>2
<1>2. ASSUME NEW m \in Messages, ServerSends(m) PROVE FirstComesFirst' /\ KnowsItself'
  <2>1. Proto(m) \in Packets /\ Proto(m).type = "ProtoPacket" /\ Proto(m).message = m
    BY DEF Proto, Packets
  <2>2. link = "up" /\ hello = Absent /\ Waiting => Waiting'
    BY <1>0, <1>2, <2>1, BegunAppend DEF ServerSends, Waiting
  <2>3. ~ (link = "up" /\ hello = Absent) => drops > 0 \/ selfId # Absent
    BY <1>2 DEF ServerSends
  <2>4. UNCHANGED <<selfId, mpc, link, hello, drops, Closed, PlayerId, PauseUpdate, GameRunning>>
    BY <1>2 DEF ServerSends, mapVars, flags
  <2>5. mpc = "connect" => inbox' = inbox
    BY <1>2 DEF ServerSends
  <2>6. inbox' # inbox => hello = Absent
    BY <1>2 DEF ServerSends
  <2> QED BY <2>2, <2>3, <2>4, <2>5, <2>6
<1>3. CASE ServerStops
  <2>1. /\ inbox' = Append(inbox, Packet("Disconnected")) /\ Packet("Disconnected") \in Packets
        /\ served
    BY <1>3 DEF ServerStops, Packet, Packets
  <2>2. Waiting => Waiting'
    BY <1>0, <1>3, <2>1, BegunAppend DEF ServerStops, Waiting
  <2> QED BY <1>3, <2>2 DEF ServerStops, mapVars, flags
<1>4. CASE Break
  BY <1>4 DEF Break, mapVars, flags
<1>5. CASE OnClose
  <2>1. Waiting => Waiting'
    BY <1>5 DEF OnClose, Waiting
  <2> QED BY <1>5, <2>1 DEF OnClose, OnConnect, mapVars, flags
<1>6. CASE Ignore
  BY <1>6 DEF Ignore, Receives, mapVars, flags
<1>7. CASE ReceiveId
  <2>1. inbox # <<>> /\ Head(inbox).type = "IdAllocate" /\ inbox' = Tail(inbox)
    BY <1>7 DEF ReceiveId, Receives
  <2>2. Waiting => Waiting'
    BY <1>0, <1>7, <2>1, BegunTail DEF ReceiveId, Waiting
  <2> QED BY <1>7, <2>1, <2>2 DEF ReceiveId, mapVars
<1>8. CASE ReceiveDisconnected
  <2>1. inbox # <<>> /\ Head(inbox).type = "Disconnected"
    BY <1>8 DEF ReceiveDisconnected, Receives
  <2>2. ~ Waiting
    BY <1>0, <2>1, BegunTail DEF Waiting
  <2> QED BY <1>8, <2>1, <2>2 DEF ReceiveDisconnected, Receives, mapVars
<1>9. CASE ReceiveMessage
  <2> DEFINE m == Head(inbox).message
  <2>1. inbox # <<>> /\ Head(inbox).type = "ProtoPacket" /\ inbox' = Tail(inbox) /\ SelfX(m)
    BY <1>9 DEF ReceiveMessage, Receives
  <2>2. selfId' # Absent
    BY <1>0, <2>1 DEF SelfX
  <2>3. drops = 0 => selfId' = Self
    <3>1. CASE selfId # Absent
      BY <2>1, <3>1 DEF SelfX
    <3>2. CASE selfId = Absent /\ drops = 0
      <4>1. First(m)
        BY <1>0, <2>1, <3>2, BegunTail DEF Waiting
      <4> HIDE DEF m
      <4> QED BY <2>1, <3>2, <4>1 DEF SelfX, First
    <3> QED BY <3>1, <3>2
  <2>4. UNCHANGED <<link, hello, served, drops, Closed, PlayerId, PauseUpdate>>
    BY <1>9 DEF ReceiveMessage
  <2>5. mpc # "connect" /\ (mpc' = "connect" => mpc = "connect")
    BY <2>1, <1>9 DEF ReceiveMessage
  <2>6. mpc' \in {"loop", "wait", "play"} => mpc \in {"loop", "wait", "play"}
    BY <1>9 DEF ReceiveMessage
  <2> HIDE DEF m
  <2> QED BY <2>1, <2>2, <2>3, <2>4, <2>5, <2>6
<1>10. CASE Apply \/ Notify \/ MainStep \/ WakeUp \/ PauseCommunication \/ UNCHANGED vars
  <2>1. UNCHANGED <<selfId, inbox, served, drops, Closed, PlayerId, GameRunning>>
    BY <1>10 DEF Apply, ApplyStep, SelfY, LockOld, LeaveCell, WriteFields, WriteRest, LockNew,
         EnterCell, ClearTasks, FillTasks, BeginMove, Delete, Notify, MainStep, Connect, Spin,
         Check, Start, Wait, GetMapcell, ReadStep, ComeBack, Look, LockCell, UnlockCell, CopyObject, Return,
         WakeUp, PauseCommunication, vars, mapVars, clientVars, linkVars, flags
  <2>2. Waiting' = Waiting
    BY <2>1 DEF Waiting
  <2>3. PauseUpdate' => PauseUpdate \/ mpc = "play"
    BY <1>10 DEF Apply, Notify, MainStep, Connect, Spin, Check, Start, Wait, GetMapcell, Return,
         WakeUp, PauseCommunication, vars, clientVars, flags
  <2>4. mpc' \in {"loop", "wait", "play"} => mpc \in {"loop", "wait", "play"} \/ GameRunning
    BY <1>10 DEF Apply, Notify, MainStep, MainGoto, Connect, Spin, Check, Start, Wait, GetMapcell,
         Return, WakeUp, PauseCommunication, vars, clientVars
  <2>5. \/ UNCHANGED <<link, hello>> /\ (mpc' = "connect" <=> mpc = "connect")
        \/ mpc = "connect" /\ mpc' = "spin" /\ link' = "up" /\ hello' = PlayerId
    BY <1>10 DEF Apply, Notify, MainStep, MainGoto, Connect, OnConnect, Spin, Check, Start, Wait,
         GetMapcell, Return, WakeUp, PauseCommunication, vars, clientVars, linkVars
  <2> QED BY <2>1, <2>2, <2>3, <2>4, <2>5
<1> QED
  BY <1>1, <1>2, <1>3, <1>4, <1>5, <1>6, <1>7, <1>8, <1>9, <1>10 DEF Next, SocketStep

\* As long as the connection has held, the client goes by its own position.
THEOREM ClientKnowsItself == Spec => []KnowsItself
<1>1. Init => FirstComesFirst /\ KnowsItself
  BY DEF Init, MapInit, FirstComesFirst, KnowsItself, Waiting, OnlyIds
<1>2. MapInv /\ InboxType /\ FirstComesFirst /\ KnowsItself /\ [Next]_vars =>
        FirstComesFirst' /\ KnowsItself'
  BY FirstKept
<1> QED BY <1>1, <1>2, MapInvariant, InboxTyped, PTL DEF Spec

-----------------------------------------------------------------------------
(* The library and its limit as parts of what runs on a player's machine.   *)

\* Whatever program is run, the library's part is a behaviour of Client and of
\* SendLimit.
THEOREM PlayersUseTheLibrary == PlayersSpec => Spec /\ LimitSpec
<1>1. PlayersInit => Init /\ LimitInit
  BY DEF PlayersInit
<1>2. [PlayersNext]_playersVars => [Next]_vars /\ [Tick \/ SendCommandMessage]_limitVars
  BY DEF PlayersNext, playersVars
<1> QED BY <1>1, <1>2, PTL DEF PlayersSpec, Plays, Spec, LimitSpec

\* So all that is promised of the mirrored map and of the commands holds on a
\* player's machine.
THEOREM PlayersSeeTheGame ==
  PlayersSpec => [](MapInv /\ CopiesAgree /\ Shown /\ KnowsItself) /\ AtMostThree
BY PlayersUseTheLibrary, MapInvariant, ReadersCopyWhole, CellsShowTheMessage, ClientKnowsItself,
   CommandsAreLimited, PTL
=============================================================================
