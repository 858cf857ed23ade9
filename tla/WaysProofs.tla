----------------------------- MODULE WaysProofs -----------------------------
(***************************************************************************)
(* The ways of programs 92, 87 and 85, for any faults, food, map and maze: *)
(* for each what holds at first, what every step keeps, and what follows.  *)
(* PlayersProofs says it of the programs as Players runs them.             *)
(***************************************************************************)
EXTENDS Ways, Sequences, FiniteSets, TLAPS, FiniteSetTheorems, NaturalsInduction, WellFoundedInduction

\* A set of natural numbers has a least.
LEMMA LeastNumber ==
  ASSUME NEW T, T \subseteq Nat, T # {}
  PROVE  \E m \in T : \A k \in T : m <= k
<1> DEFINE Less == {ss \in Nat \X Nat : ss[1] < ss[2]}
<1>1. IsWellFoundedOn(Less, Nat)
  BY NatLessThanWellFounded, Zenon DEF OpToRel
<1>2. PICK m \in T : \A k \in T : ~ (<<k, m>> \in Less)
  <2> HIDE DEF Less
  <2> QED BY <1>1, WFMin
<1>3. \A k \in T : ~ (k < m)
  BY <1>2
<1> HIDE DEF Less
<1> QED BY <1>3

-----------------------------------------------------------------------------
(* Program 92: where each leg begins and ends.                              *)

Legs == [dir : {"Up", "Down", "Left", "Right"}, aim : Int, steps : BOOLEAN]
Spots == Int \X Int
\* A leg that is not begun beyond its aim, from a to b.
Takes(leg, a, b) ==
  \/ leg.dir = "Up" /\ a[2] <= leg.aim /\ b = <<a[1], leg.aim>>
  \/ leg.dir = "Down" /\ leg.aim <= a[2] /\ b = <<a[1], leg.aim>>
  \/ leg.dir = "Left" /\ leg.aim <= a[1] /\ b = <<leg.aim, a[2]>>
  \/ leg.dir = "Right" /\ a[1] <= leg.aim /\ b = <<leg.aim, a[2]>>
\* A route that leads from a to b, each leg beginning where the one before ends.
Via(route, a, b, at) ==
  /\ at[0] = a /\ at[Len(route)] = b
  /\ \A i \in 1 .. Len(route) : Takes(route[i], at[i - 1], at[i])
Leads(route, a, b) ==
  route \in Seq(Legs) /\ \E at \in [0 .. Len(route) -> Spots] : Via(route, a, b, at)
LEMMA LeadsByOne ==
  ASSUME NEW leg \in Legs, NEW a \in Spots, NEW b \in Spots, Takes(leg, a, b)
  PROVE  Leads(<<leg>>, a, b)
<1> DEFINE at == [i \in 0 .. 1 |-> IF i = 0 THEN a ELSE b]
<1>1. <<leg>> \in Seq(Legs) /\ Len(<<leg>>) = 1 /\ <<leg>>[1] = leg
  OBVIOUS
<1>2. at \in [0 .. 1 -> Spots] /\ at[0] = a /\ at[1] = b
  OBVIOUS
<1> HIDE DEF at
<1> QED BY <1>1, <1>2 DEF Leads, Via
LEMMA LeadsOn ==
  ASSUME NEW r, NEW s, NEW a, NEW b, NEW c, Leads(r, a, b), Leads(s, b, c)
  PROVE  Leads(r \o s, a, c)
<1>0. r \in Seq(Legs) /\ s \in Seq(Legs)
  BY DEF Leads
<1>1. PICK p \in [0 .. Len(r) -> Spots] : Via(r, a, b, p)
  BY DEF Leads
<1>2. PICK q \in [0 .. Len(s) -> Spots] : Via(s, b, c, q)
  BY DEF Leads
<1> DEFINE m == Len(r)
           n == Len(s)
           t == r \o s
           at == [i \in 0 .. m + n |-> IF i <= m THEN p[i] ELSE q[i - m]]
<1>3. /\ t \in Seq(Legs) /\ Len(t) = m + n /\ m \in Nat /\ n \in Nat
      /\ \A i \in 1 .. m : t[i] = r[i]
      /\ \A i \in 1 .. m + n : i > m => t[i] = s[i - m]
  BY <1>0
<1>4. /\ p[0] = a /\ p[m] = b /\ q[0] = b /\ q[n] = c
      /\ \A i \in 1 .. m : Takes(r[i], p[i - 1], p[i])
      /\ \A i \in 1 .. n : Takes(s[i], q[i - 1], q[i])
  BY <1>1, <1>2 DEF Via
<1> HIDE DEF m, n, t
<1>5. at \in [0 .. m + n -> Spots]
  <2>1. \A i \in 0 .. m + n : i <= m => i \in 0 .. m
    BY <1>3
  <2>2. \A i \in 0 .. m + n : ~ (i <= m) => i - m \in 0 .. n
    BY <1>3
  <2>3. p \in [0 .. m -> Spots] /\ q \in [0 .. n -> Spots]
    BY DEF m, n
  <2> HIDE DEF Spots
  <2> QED BY <2>1, <2>2, <2>3
<1>6. \A i \in 0 .. m : at[i] = p[i]
  BY <1>3
<1>7. \A i \in m .. m + n : at[i] = q[i - m]
  BY <1>3, <1>4
<1> HIDE DEF at
<1>8. at[0] = a /\ at[m + n] = c
  BY <1>3, <1>4, <1>6, <1>7
<1>9. ASSUME NEW i \in 1 .. m + n PROVE Takes(t[i], at[i - 1], at[i])
  <2>1. CASE i <= m
    <3>1. i \in 1 .. m /\ i \in 0 .. m /\ i - 1 \in 0 .. m
      BY <1>3, <2>1
    <3> QED BY <1>3, <1>4, <1>6, <3>1
  <2>2. CASE i > m
    <3>1. i \in m .. m + n /\ i - 1 \in m .. m + n /\ i - m \in 1 .. n /\ (i - 1) - m = (i - m) - 1
      BY <1>3, <2>2
    <3> QED BY <1>3, <1>4, <1>7, <2>2, <3>1
  <2> QED BY <1>3, <2>1, <2>2
<1>10. Via(t, a, c, at)
  BY <1>3, <1>8, <1>9 DEF Via
<1> QED BY <1>3, <1>5, <1>10 DEF Leads, t
\* One more leg.
LEMMA OneMore ==
  ASSUME NEW r, NEW a, NEW x \in Int, NEW y \in Int, Leads(r, a, <<x, y>>),
         NEW dir \in {"Up", "Down", "Left", "Right"}, NEW aim \in Int,
         /\ dir = "Up" => y <= aim
         /\ dir = "Down" => aim <= y
         /\ dir = "Left" => aim <= x
         /\ dir = "Right" => x <= aim
  PROVE  LET b == IF dir \in {"Up", "Down"} THEN <<x, aim>> ELSE <<aim, y>>
         IN Leads(r \o P92a!Do(dir, aim), a, b) /\ Leads(r \o P92a!Steps(dir, aim), a, b)
<1> DEFINE b == IF dir \in {"Up", "Down"} THEN <<x, aim>> ELSE <<aim, y>>
<1>1. ASSUME NEW steps \in BOOLEAN
      PROVE  Leads(r \o <<[dir |-> dir, aim |-> aim, steps |-> steps]>>, a, b)
  <2> DEFINE leg == [dir |-> dir, aim |-> aim, steps |-> steps]
  <2>1. leg \in Legs /\ <<x, y>> \in Spots /\ b \in Spots
    BY DEF Legs, Spots
  <2>2. Takes(leg, <<x, y>>, b)
    BY DEF Takes
  <2>3. Leads(<<leg>>, <<x, y>>, b)
    <3> HIDE DEF leg, b
    <3> QED BY <2>1, <2>2, LeadsByOne
  <2> HIDE DEF leg, b
  <2>4. Leads(r \o <<leg>>, a, b)
    BY <2>3, LeadsOn
  <2> QED BY <2>4 DEF leg
<1> HIDE DEF b
<1> QED BY <1>1 DEF P92a!Do, P92a!Steps, b
\* And the first.
LEMMA FirstLeg ==
  ASSUME NEW x \in Int, NEW y \in Int,
         NEW dir \in {"Up", "Down", "Left", "Right"}, NEW aim \in Int,
         /\ dir = "Up" => y <= aim
         /\ dir = "Down" => aim <= y
         /\ dir = "Left" => aim <= x
         /\ dir = "Right" => x <= aim
  PROVE  LET b == IF dir \in {"Up", "Down"} THEN <<x, aim>> ELSE <<aim, y>>
         IN Leads(P92a!Do(dir, aim), <<x, y>>, b) /\ Leads(P92a!Steps(dir, aim), <<x, y>>, b)
<1> DEFINE b == IF dir \in {"Up", "Down"} THEN <<x, aim>> ELSE <<aim, y>>
<1>1. ASSUME NEW steps \in BOOLEAN
      PROVE  Leads(<<[dir |-> dir, aim |-> aim, steps |-> steps]>>, <<x, y>>, b)
  <2> DEFINE leg == [dir |-> dir, aim |-> aim, steps |-> steps]
  <2>1. leg \in Legs /\ <<x, y>> \in Spots /\ b \in Spots
    BY DEF Legs, Spots
  <2>2. Takes(leg, <<x, y>>, b)
    BY DEF Takes
  <2> HIDE DEF leg, b
  <2>3. Leads(<<leg>>, <<x, y>>, b)
    BY <2>1, <2>2, LeadsByOne
  <2> QED BY <2>3 DEF leg
<1> HIDE DEF b
<1> QED BY <1>1 DEF P92a!Do, P92a!Steps, b
\* The routes of the program, each from where it is begun to where it is meant
\* to end.
LEMMA RoutesLead ==
  /\ \A x \in {35, 465}, low \in BOOLEAN :
       Leads(P92a!first(low), <<x, IF low THEN 35 ELSE 465>>, <<85, 275>>)
  /\ Leads(P92a!Shangjiao(1), <<85, 255>>, <<245, 233>>)
  /\ Leads(P92a!Shangjiao(2), <<245, 385>>, <<264, 255>>)
  /\ Leads(P92a!Return(1), <<245, 233>>, <<85, 275>>)
  /\ Leads(P92a!Return(2), <<264, 255>>, <<225, 385>>)
  /\ Leads(P92a!ToPot(1), <<85, 275>>, <<85, 255>>)
  /\ Leads(P92a!ToPot(2), <<225, 385>>, <<245, 385>>)
  /\ Leads(P92a!FromPot(1), <<85, 255>>, <<85, 275>>)
  /\ Leads(P92a!FromPot(2), <<245, 385>>, <<225, 385>>)
  /\ Leads(P92a!ToLeft, <<85, 275>>, <<73, 245>>)
  /\ Leads(P92a!FromLeft, <<73, 245>>, <<85, 275>>)
  /\ Leads(P92a!ToSecond, <<85, 275>>, <<225, 385>>)
  /\ Leads(P92a!ToFirst, <<225, 385>>, <<85, 275>>)
  /\ Leads(P92a!Do("Down", 255), <<85, 275>>, <<85, 255>>)
<1> USE FirstLeg, OneMore
<1>1. ASSUME NEW x \in {35, 465}
      PROVE  \A low \in BOOLEAN : Leads(P92a!first(low), <<x, IF low THEN 35 ELSE 465>>, <<85, 275>>)
  <2>1. Leads(P92a!Steps("Down", 15), <<x, 35>>, <<x, 15>>)
    OBVIOUS
  <2>2. Leads(P92a!Steps("Down", 15) \o P92a!Steps("Left", 15), <<x, 35>>, <<15, 15>>)
    BY <2>1
  <2>3. Leads(P92a!Steps("Down", 15) \o P92a!Steps("Left", 15) \o P92a!Steps("Up", 275), <<x, 35>>, <<15, 275>>)
    BY <2>2
  <2>4. Leads(P92a!Steps("Down", 15) \o P92a!Steps("Left", 15) \o P92a!Steps("Up", 275) \o P92a!Steps("Right", 85),
              <<x, 35>>, <<85, 275>>)
    BY <2>3
  <2>5. Leads(P92a!Steps("Up", 485), <<x, 465>>, <<x, 485>>)
    OBVIOUS
  <2>6. Leads(P92a!Steps("Up", 485) \o P92a!Steps("Left", 15), <<x, 465>>, <<15, 485>>)
    BY <2>5
  <2>7. Leads(P92a!Steps("Up", 485) \o P92a!Steps("Left", 15) \o P92a!Steps("Down", 275), <<x, 465>>, <<15, 275>>)
    BY <2>6
  <2>8. Leads(P92a!Steps("Up", 485) \o P92a!Steps("Left", 15) \o P92a!Steps("Down", 275) \o P92a!Steps("Right", 85),
              <<x, 465>>, <<85, 275>>)
    BY <2>7
  <2>9. ASSUME NEW low \in BOOLEAN
        PROVE  Leads(P92a!first(low), <<x, IF low THEN 35 ELSE 465>>, <<85, 275>>)
    <3>1. CASE low
      BY <2>4, <3>1 DEF P92a!first
    <3>2. CASE ~ low
      BY <2>8, <3>2 DEF P92a!first
    <3> QED BY <3>1, <3>2
  <2> QED BY <2>9
<1>2. Leads(P92a!Shangjiao(1), <<85, 255>>, <<245, 233>>)
  <2> DEFINE r1 == P92a!Do("Right", 115)
  <2>2. Leads(r1, <<85, 255>>, <<115, 255>>)
    OBVIOUS
  <2> HIDE DEF r1
  <2> DEFINE r2 == r1 \o P92a!Do("Down", 233)
  <2>4. Leads(r2, <<85, 255>>, <<115, 233>>)
    BY <2>2
  <2> HIDE DEF r2
  <2> DEFINE r3 == r2 \o P92a!Do("Right", 245)
  <2>6. Leads(r3, <<85, 255>>, <<245, 233>>)
    BY <2>4
  <2> HIDE DEF r3
  <2> QED BY <2>6 DEF P92a!Shangjiao, r1, r2, r3
<1>3. Leads(P92a!Shangjiao(2), <<245, 385>>, <<264, 255>>)
  <2> DEFINE r1 == P92a!Do("Down", 364)
  <2>2. Leads(r1, <<245, 385>>, <<245, 364>>)
    OBVIOUS
  <2> HIDE DEF r1
  <2> DEFINE r2 == r1 \o P92a!Do("Right", 285)
  <2>4. Leads(r2, <<245, 385>>, <<285, 364>>)
    BY <2>2
  <2> HIDE DEF r2
  <2> DEFINE r3 == r2 \o P92a!Do("Down", 255)
  <2>6. Leads(r3, <<245, 385>>, <<285, 255>>)
    BY <2>4
  <2> HIDE DEF r3
  <2> DEFINE r4 == r3 \o P92a!Do("Left", 264)
  <2>8. Leads(r4, <<245, 385>>, <<264, 255>>)
    BY <2>6
  <2> HIDE DEF r4
  <2> QED BY <2>8 DEF P92a!Shangjiao, r1, r2, r3, r4
<1>4. Leads(P92a!Return(1), <<245, 233>>, <<85, 275>>)
  <2> DEFINE r1 == P92a!Do("Left", 104)
  <2>2. Leads(r1, <<245, 233>>, <<104, 233>>)
    OBVIOUS
  <2> HIDE DEF r1
  <2> DEFINE r2 == r1 \o P92a!Do("Up", 275)
  <2>4. Leads(r2, <<245, 233>>, <<104, 275>>)
    BY <2>2
  <2> HIDE DEF r2
  <2> DEFINE r3 == r2 \o P92a!Do("Left", 104)
  <2>6. Leads(r3, <<245, 233>>, <<104, 275>>)
    BY <2>4
  <2> HIDE DEF r3
  <2> DEFINE r4 == r3 \o P92a!Do("Left", 85)
  <2>8. Leads(r4, <<245, 233>>, <<85, 275>>)
    BY <2>6
  <2> HIDE DEF r4
  <2> QED BY <2>8 DEF P92a!Return, r1, r2, r3, r4
<1>5. Leads(P92a!Return(2), <<264, 255>>, <<225, 385>>)
  <2> DEFINE r1 == P92a!Do("Right", 285)
  <2>2. Leads(r1, <<264, 255>>, <<285, 255>>)
    OBVIOUS
  <2> HIDE DEF r1
  <2> DEFINE r2 == r1 \o P92a!Do("Up", 367)
  <2>4. Leads(r2, <<264, 255>>, <<285, 367>>)
    BY <2>2
  <2> HIDE DEF r2
  <2> DEFINE r3 == r2 \o P92a!Do("Left", 225)
  <2>6. Leads(r3, <<264, 255>>, <<225, 367>>)
    BY <2>4
  <2> HIDE DEF r3
  <2> DEFINE r4 == r3 \o P92a!Do("Up", 385)
  <2>8. Leads(r4, <<264, 255>>, <<225, 385>>)
    BY <2>6
  <2> HIDE DEF r4
  <2> DEFINE r5 == r4 \o P92a!Steps("Down", 385)
  <2>10. Leads(r5, <<264, 255>>, <<225, 385>>)
    BY <2>8
  <2> HIDE DEF r5
  <2> QED BY <2>10 DEF P92a!Return, r1, r2, r3, r4, r5
<1>6. Leads(P92a!ToPot(1), <<85, 275>>, <<85, 255>>)
  BY DEF P92a!ToPot
<1>7. Leads(P92a!ToPot(2), <<225, 385>>, <<245, 385>>)
  BY DEF P92a!ToPot
<1>8. Leads(P92a!FromPot(1), <<85, 255>>, <<85, 275>>)
  BY DEF P92a!FromPot
<1>9. Leads(P92a!FromPot(2), <<245, 385>>, <<225, 385>>)
  BY DEF P92a!FromPot
<1>10. Leads(P92a!ToLeft, <<85, 275>>, <<73, 245>>)
  <2> DEFINE r1 == P92a!Do("Left", 73)
  <2>2. Leads(r1, <<85, 275>>, <<73, 275>>)
    OBVIOUS
  <2> HIDE DEF r1
  <2> DEFINE r2 == r1 \o P92a!Do("Down", 245)
  <2>4. Leads(r2, <<85, 275>>, <<73, 245>>)
    BY <2>2
  <2> HIDE DEF r2
  <2> QED BY <2>4 DEF P92a!ToLeft, r1, r2
<1>11. Leads(P92a!FromLeft, <<73, 245>>, <<85, 275>>)
  <2> DEFINE r1 == P92a!Do("Up", 275)
  <2>2. Leads(r1, <<73, 245>>, <<73, 275>>)
    OBVIOUS
  <2> HIDE DEF r1
  <2> DEFINE r2 == r1 \o P92a!Do("Right", 85)
  <2>4. Leads(r2, <<73, 245>>, <<85, 275>>)
    BY <2>2
  <2> HIDE DEF r2
  <2> QED BY <2>4 DEF P92a!FromLeft, r1, r2
<1>12. Leads(P92a!ToSecond, <<85, 275>>, <<225, 385>>)
  <2> DEFINE r1 == P92a!Do("Up", 305)
  <2>2. Leads(r1, <<85, 275>>, <<85, 305>>)
    OBVIOUS
  <2> HIDE DEF r1
  <2> DEFINE r2 == r1 \o P92a!Do("Left", 75)
  <2>4. Leads(r2, <<85, 275>>, <<75, 305>>)
    BY <2>2
  <2> HIDE DEF r2
  <2> DEFINE r3 == r2 \o P92a!Do("Up", 405)
  <2>6. Leads(r3, <<85, 275>>, <<75, 405>>)
    BY <2>4
  <2> HIDE DEF r3
  <2> DEFINE r4 == r3 \o P92a!Do("Right", 225)
  <2>8. Leads(r4, <<85, 275>>, <<225, 405>>)
    BY <2>6
  <2> HIDE DEF r4
  <2> DEFINE r5 == r4 \o P92a!Do("Down", 385)
  <2>10. Leads(r5, <<85, 275>>, <<225, 385>>)
    BY <2>8
  <2> HIDE DEF r5
  <2> DEFINE r6 == r5 \o P92a!Steps("Down", 385)
  <2>12. Leads(r6, <<85, 275>>, <<225, 385>>)
    BY <2>10
  <2> HIDE DEF r6
  <2> QED BY <2>12 DEF P92a!ToSecond, r1, r2, r3, r4, r5, r6
<1>13. Leads(P92a!ToFirst, <<225, 385>>, <<85, 275>>)
  <2> DEFINE r1 == P92a!Do("Up", 404)
  <2>2. Leads(r1, <<225, 385>>, <<225, 404>>)
    OBVIOUS
  <2> HIDE DEF r1
  <2> DEFINE r2 == r1 \o P92a!Do("Left", 85)
  <2>4. Leads(r2, <<225, 385>>, <<85, 404>>)
    BY <2>2
  <2> HIDE DEF r2
  <2> DEFINE r3 == r2 \o P92a!Do("Down", 395)
  <2>6. Leads(r3, <<225, 385>>, <<85, 395>>)
    BY <2>4
  <2> HIDE DEF r3
  <2> DEFINE r4 == r3 \o P92a!Do("Left", 75)
  <2>8. Leads(r4, <<225, 385>>, <<75, 395>>)
    BY <2>6
  <2> HIDE DEF r4
  <2> DEFINE r5 == r4 \o P92a!Do("Down", 305)
  <2>10. Leads(r5, <<225, 385>>, <<75, 305>>)
    BY <2>8
  <2> HIDE DEF r5
  <2> DEFINE r6 == r5 \o P92a!Do("Right", 85)
  <2>12. Leads(r6, <<225, 385>>, <<85, 305>>)
    BY <2>10
  <2> HIDE DEF r6
  <2> DEFINE r7 == r6 \o P92a!Do("Down", 275)
  <2>14. Leads(r7, <<225, 385>>, <<85, 275>>)
    BY <2>12
  <2> HIDE DEF r7
  <2> QED BY <2>14 DEF P92a!ToFirst, r1, r2, r3, r4, r5, r6, r7
<1>21. Leads(P92a!Do("Down", 255), <<85, 275>>, <<85, 255>>)
  BY FirstLeg
<1> QED
  BY <1>1, <1>2, <1>3, <1>4, <1>5, <1>6, <1>7, <1>8, <1>9, <1>10, <1>11, <1>12, <1>13, <1>21
\* What is walked leg by leg is what the definition by recursion says.
Stages(f, late) ==
  /\ P92a!Walked(late) = f[Len(my.route)] /\ f[0] = world
  /\ \A i \in 1 .. Len(my.route) :
       /\ i = late => f[i] = P92a!Leg(f[i - 1], my.route[i], TRUE)
       /\ i # late => f[i] = P92a!Leg(f[i - 1], my.route[i], FALSE)
LEMMA WalkedSteps ==
  ASSUME NEW late, my.route \in Seq(Legs)
  PROVE  \E f : Stages(f, late)
<1> DEFINE L == Len(my.route)
           Next1(f, n) == P92a!Leg(f[n - 1], my.route[n], n = late)
           Follows(f, n) == f[n] = IF n = 0 THEN world ELSE Next1(f, n)
           Good(k) == \E f : f = [n \in 0 .. k |-> f[n]] /\ \A n \in 0 .. k : Follows(f, n)
           T == {k \in 0 .. L : ~ Good(k)}
<1>0. L \in Nat
  OBVIOUS
<1> HIDE DEF L
<1>1. T = {}
  <2> SUFFICES ASSUME T # {} PROVE FALSE
    OBVIOUS
  <2>1. PICK k \in T : \A j \in T : k <= j
    <3>1. T \subseteq Nat
      OBVIOUS
    <3> HIDE DEF T
    <3> QED BY <3>1, LeastNumber
  <2>2. k \in 0 .. L /\ ~ Good(k)
    <3> HIDE DEF Good
    <3> QED OBVIOUS
  <2>3. CASE k = 0
    <3> DEFINE f == [n \in 0 .. 0 |-> world]
    <3>1. f = [n \in 0 .. 0 |-> f[n]] /\ \A n \in 0 .. 0 : Follows(f, n)
      <4> HIDE DEF Next1
      <4> QED OBVIOUS
    <3>2. Good(0)
      <4> HIDE DEF f, Follows
      <4> QED BY <3>1
    <3> QED BY <2>2, <2>3, <3>2
  <2>4. CASE k > 0
    <3>0. k \in 0 .. L
      BY <2>2
    <3>1. k - 1 \in 0 .. L /\ ~ (k <= k - 1)
      <4> HIDE DEF T
      <4> QED BY <1>0, <2>4, <3>0
    <3>2. Good(k - 1)
      <4>1. k - 1 \notin T
        <5> HIDE DEF T
        <5> QED BY <2>1, <3>1
      <4> HIDE DEF Good
      <4> QED BY <3>1, <4>1
    <3>3. PICK f : f = [n \in 0 .. k - 1 |-> f[n]] /\ \A n \in 0 .. k - 1 : Follows(f, n)
      <4> HIDE DEF Follows
      <4> QED BY <3>2
    <3> DEFINE v == Next1(f, k)
               g == [n \in 0 .. k |-> IF n = k THEN v ELSE f[n]]
    <3>4. ASSUME NEW n \in 0 .. k PROVE Follows(g, n)
      <4>1. n # 0 => n - 1 \in 0 .. k - 1 /\ g[n - 1] = f[n - 1]
        <5> HIDE DEF v
        <5> QED BY <2>2, <2>4
      <4>2. CASE n = k
        <5>1. g[n] = v
          <6> HIDE DEF v
          <6> QED BY <4>2
        <5> HIDE DEF g
        <5> QED BY <2>4, <4>1, <4>2, <5>1
      <4>3. CASE n # k
        <5>1. n \in 0 .. k - 1 /\ g[n] = f[n]
          <6> HIDE DEF v
          <6> QED BY <2>2, <4>3
        <5>2. Follows(f, n)
          <6> HIDE DEF Follows
          <6> QED BY <3>3, <5>1
        <5> HIDE DEF g
        <5> QED BY <4>1, <5>1, <5>2
      <4> QED BY <4>2, <4>3
    <3>5. g = [n \in 0 .. k |-> g[n]]
      OBVIOUS
    <3>6. Good(k)
      <4> HIDE DEF Follows, g
      <4> QED BY <3>4, <3>5
    <3> HIDE DEF Good
    <3> QED BY <2>2, <3>6
  <2> QED BY <2>2, <2>3, <2>4
<1>2. Good(L)
  <2> HIDE DEF Good
  <2> QED BY <1>0, <1>1
<1>3. PICK f : f = [n \in 0 .. L |-> f[n]] /\ \A n \in 0 .. L : Follows(f, n)
  <2> HIDE DEF Follows
  <2> QED BY <1>2
<1> DEFINE Solves(h) ==
             h = [i \in 0 .. L |-> IF i = 0 THEN world ELSE P92a!Leg(h[i - 1], my.route[i], i = late)]
           After == CHOOSE h : Solves(h)
           F == [i \in 0 .. L |-> IF i = 0 THEN world ELSE P92a!Leg(f[i - 1], my.route[i], i = late)]
<1>5. Solves(After)
  <2>1. \E h : Solves(h)
    <3>1. F = f
      BY <1>3, Zenon
    <3>2. Solves(F)
      BY <3>1, Zenon
    <3> HIDE DEF Solves, F
    <3> QED BY <3>2
  <2> HIDE DEF Solves
  <2> QED BY <2>1
<1>6. P92a!Walked(late) = After[L]
  BY DEF P92a!Walked, L
<1> HIDE DEF After
<1>7. \A n \in 0 .. L : Follows(After, n)
  BY <1>5, Zenon
<1>8. After[0] = world /\ \A n \in 1 .. L : After[n] = Next1(After, n)
  <2>1. 0 \in 0 .. L /\ \A n \in 1 .. L : n \in 0 .. L /\ n # 0
    BY <1>0
  <2> HIDE DEF Next1
  <2> QED BY <1>7, <2>1
<1>9. \A n \in 1 .. L :
        /\ n = late => After[n] = P92a!Leg(After[n - 1], my.route[n], TRUE)
        /\ n # late => After[n] = P92a!Leg(After[n - 1], my.route[n], FALSE)
  <2> SUFFICES ASSUME NEW n \in 1 .. L
               PROVE  /\ n = late => After[n] = P92a!Leg(After[n - 1], my.route[n], TRUE)
                      /\ n # late => After[n] = P92a!Leg(After[n - 1], my.route[n], FALSE)
    OBVIOUS
  <2>1. After[n] = P92a!Leg(After[n - 1], my.route[n], n = late)
    BY <1>8
  <2>2. (n = late) \in BOOLEAN
    OBVIOUS
  <2>3. CASE n = late
    <3>1. (n = late) = TRUE
      BY <2>3
    <3> QED BY <2>1, <3>1, Zenon
  <2>4. CASE n # late
    <3>1. (n = late) = FALSE
      BY <2>4
    <3> QED BY <2>1, <3>1, Zenon
  <2> QED BY <2>3, <2>4
<1> QED BY <1>6, <1>8, <1>9 DEF L, Stages
\* Fields that nobody takes away, and what only walking changes.
Fields92a == {"x", "y", "late", "lost", "faults", "hand", "at", "floor", "pot"}
Known92a(w) == Fields92a \subseteq DOMAIN w
Stays(v, w) ==
  Known92a(v) /\ v.x = w.x /\ v.y = w.y /\ v.late = w.late /\ v.lost = w.lost
LEMMA LegKeeps ==
  ASSUME NEW w, Known92a(w), NEW leg, NEW late
  PROVE  Known92a(P92a!Leg(w, leg, late)) /\ P92a!Leg(w, leg, late).late = w.late
BY DEF Known92a, Fields92a, P92a!Leg, P92a!Reach
\* A route keeps whether the player has ever been late ...
LEMMA WalkedKeeps ==
  ASSUME NEW late, my.route \in Seq(Legs), Known92a(world)
  PROVE  Known92a(P92a!Walked(late)) /\ P92a!Walked(late).late = world.late
<1>0. Len(my.route) \in Nat
  OBVIOUS
<1>1. PICK f : Stages(f, late)
  BY WalkedSteps
<1>4. /\ P92a!Walked(late) = f[Len(my.route)] /\ f[0] = world
      /\ \A i \in 1 .. Len(my.route) : \E l \in BOOLEAN : f[i] = P92a!Leg(f[i - 1], my.route[i], l)
  BY <1>1 DEF Stages
<1> DEFINE Good(k) == Known92a(f[k]) /\ f[k].late = world.late
           T == {k \in 0 .. Len(my.route) : ~ Good(k)}
<1>2. T = {}
  <2> SUFFICES ASSUME T # {} PROVE FALSE
    OBVIOUS
  <2>1. PICK k \in T : \A j \in T : k <= j
    <3>1. T \subseteq Nat
      OBVIOUS
    <3> HIDE DEF T
    <3> QED BY <3>1, LeastNumber
  <2>2. k \in 0 .. Len(my.route) /\ ~ Good(k)
    <3> HIDE DEF Good
    <3> QED OBVIOUS
  <2>3. k # 0
    BY <1>4, <2>2
  <2>4. k - 1 \in 0 .. Len(my.route) /\ ~ (k <= k - 1) /\ k \in 1 .. Len(my.route)
    BY <1>0, <2>2, <2>3
  <2>5. Good(k - 1)
    <3>1. k - 1 \notin T
      <4> HIDE DEF T
      <4> QED BY <2>1, <2>4
    <3> HIDE DEF Good
    <3> QED BY <2>4, <3>1
  <2>6. PICK l \in BOOLEAN : f[k] = P92a!Leg(f[k - 1], my.route[k], l)
    BY <1>4, <2>4
  <2>7. Good(k)
    BY <2>5, <2>6, LegKeeps
  <2> QED BY <2>2, <2>7
<1>3. Good(Len(my.route))
  <2> HIDE DEF Good
  <2> QED BY <1>0, <1>2
<1> QED BY <1>3, <1>4
\* ... and one that leads from where the player is takes it where it leads.
Stands(w, c) == w.x = c[1] /\ w.y = c[2] /\ w.lost = FALSE
LEMMA LegTakes ==
  ASSUME NEW w, Known92a(w), NEW leg \in Legs, NEW a \in Spots, NEW b \in Spots,
         Takes(leg, a, b), Stands(w, a)
  PROVE  Stands(P92a!Leg(w, leg, FALSE), b)
<1>1. w.x = a[1] /\ w.y = a[2] /\ a[1] \in Int /\ a[2] \in Int /\ leg.aim \in Int
  BY DEF Stands, Spots, Legs
<1>2. ~ P92a!Beyond(w, leg)
  BY <1>1 DEF Takes, P92a!Beyond, P92a!Vertical, P92a!Sign
<1>3. P92a!Leg(w, leg, FALSE) = P92a!Reach(w, leg, leg.aim)
  BY <1>1, <1>2 DEF P92a!Leg
<1>4. CASE P92a!Vertical(leg)
  <2>1. b = <<a[1], leg.aim>>
    BY <1>4 DEF Takes, P92a!Vertical
  <2> QED BY <1>1, <1>3, <1>4, <2>1 DEF P92a!Reach, Stands, Known92a, Fields92a
<1>5. CASE ~ P92a!Vertical(leg)
  <2>1. b = <<leg.aim, a[2]>>
    BY <1>5 DEF Takes, P92a!Vertical
  <2> QED BY <1>1, <1>3, <1>5, <2>1 DEF P92a!Reach, Stands, Known92a, Fields92a
<1> QED BY <1>4, <1>5
LEMMA WalkedLeads ==
  ASSUME NEW a, NEW b, Leads(my.route, a, b), Stands(world, a), Known92a(world)
  PROVE  Stands(P92a!Walked(0), b)
<1>0. my.route \in Seq(Legs) /\ Len(my.route) \in Nat
  BY DEF Leads
<1>1. PICK f : Stages(f, 0)
  BY <1>0, WalkedSteps
<1>6. /\ P92a!Walked(0) = f[Len(my.route)] /\ f[0] = world
      /\ \A i \in 1 .. Len(my.route) : i # 0 => f[i] = P92a!Leg(f[i - 1], my.route[i], FALSE)
  BY <1>1 DEF Stages
<1>2. PICK at \in [0 .. Len(my.route) -> Spots] : Via(my.route, a, b, at)
  BY DEF Leads
<1>3. /\ at[0] = a /\ at[Len(my.route)] = b
      /\ \A i \in 1 .. Len(my.route) : Takes(my.route[i], at[i - 1], at[i])
  BY <1>2 DEF Via
<1> DEFINE Good(k) == Known92a(f[k]) /\ Stands(f[k], at[k])
           T == {k \in 0 .. Len(my.route) : ~ Good(k)}
<1>4. T = {}
  <2> SUFFICES ASSUME T # {} PROVE FALSE
    OBVIOUS
  <2>1. PICK k \in T : \A j \in T : k <= j
    <3>1. T \subseteq Nat
      OBVIOUS
    <3> HIDE DEF T
    <3> QED BY <3>1, LeastNumber
  <2>2. k \in 0 .. Len(my.route) /\ ~ Good(k)
    <3> HIDE DEF Good
    <3> QED OBVIOUS
  <2>3. k # 0
    BY <1>6, <1>3, <2>2
  <2>4. k - 1 \in 0 .. Len(my.route) /\ ~ (k <= k - 1) /\ k \in 1 .. Len(my.route)
    BY <1>0, <2>2, <2>3
  <2>5. Good(k - 1)
    <3>1. k - 1 \notin T
      <4> HIDE DEF T
      <4> QED BY <2>1, <2>4
    <3> HIDE DEF Good
    <3> QED BY <2>4, <3>1
  <2>6. f[k] = P92a!Leg(f[k - 1], my.route[k], FALSE)
    BY <1>6, <2>3, <2>4
  <2>7. my.route[k] \in Legs /\ at[k - 1] \in Spots /\ at[k] \in Spots
    <3> HIDE DEF Legs, Spots
    <3> QED BY <1>0, <2>4
  <2>8. Takes(my.route[k], at[k - 1], at[k])
    BY <1>3, <2>4
  <2>9. Stands(f[k], at[k])
    BY <2>5, <2>6, <2>7, <2>8, LegTakes
  <2>10. Good(k)
    BY <2>5, <2>6, <2>9, LegKeeps
  <2> QED BY <2>2, <2>10
<1>5. Good(Len(my.route))
  <2> HIDE DEF Good
  <2> QED BY <1>0, <1>4
<1> QED BY <1>3, <1>5, <1>6

\* What is done at a cooker does not move the player.
LEMMA FaultStays ==
  ASSUME NEW w, Known92a(w) PROVE Stays(w, w) /\ \A v \in P92a!Fault(w) : Stays(v, w)
BY DEF P92a!Fault, Stays, Known92a, Fields92a

LEMMA OrStays ==
  ASSUME NEW w, Known92a(w), NEW done, Stays(done, w) PROVE \A v \in P92a!Or(done, w) : Stays(v, w)
BY FaultStays DEF P92a!Or

LEMMA KitchenStays ==
  ASSUME NEW w, Known92a(w), NEW p, NEW d
  PROVE  /\ \A v \in P92a!PickBlock(w, p) \cup P92a!PickDish(w, d) : Stays(v, w)
         /\ \A v \in P92a!Put(w, p) \cup P92a!ThrowAway(w) \cup P92a!HandIn(w) : Stays(v, w)
         /\ \A v \in P92a!UseCooker(w, p) \cup P92a!Taken(w) : Stays(v, w)
         /\ Stays(P92a!Ready(w, p), w)
<1>0. Stays(w, w)
  BY FaultStays
<1>1. \A v \in P92a!PickBlock(w, p) : Stays(v, w)
  <2>1. Stays([w EXCEPT !.hand = P92a!Shows(w, p), !.pot[p].dish = P92a!None, !.pot[p].cooking = FALSE], w)
    BY DEF Stays, Known92a, Fields92a
  <2> QED BY <1>0, <2>1, OrStays DEF P92a!PickBlock
<1>2. \A v \in P92a!PickDish(w, d) : Stays(v, w)
  <2>1. Stays([w EXCEPT !.hand = d, !.floor[w.at] = (@ \ {d}) \cup P92a!Held(w)], w)
    BY DEF Stays, Known92a, Fields92a
  <2> QED BY <1>0, <2>1, OrStays DEF P92a!PickDish
<1>3. \A v \in P92a!Put(w, p) : Stays(v, w)
  <2>1. Stays([w EXCEPT !.hand = P92a!None, !.floor[p] = @ \cup P92a!Held(w)], w)
    BY DEF Stays, Known92a, Fields92a
  <2> QED BY <2>1, OrStays DEF P92a!Put
<1>4. \A v \in P92a!ThrowAway(w) \cup P92a!HandIn(w) : Stays(v, w)
  <2>1. Stays([w EXCEPT !.hand = P92a!None], w)
    BY DEF Stays, Known92a, Fields92a
  <2> QED BY <2>1, OrStays DEF P92a!ThrowAway, P92a!HandIn
<1>5. \A v \in P92a!UseCooker(w, p) : Stays(v, w)
  <2>1. Stays([w EXCEPT !.pot[p] = [dish |-> P92a!Product(w.floor[p]), cooking |-> TRUE],
                        !.floor[p] = {}], w)
    BY DEF Stays, Known92a, Fields92a
  <2> QED BY <1>0, <2>1, OrStays DEF P92a!UseCooker
<1>6. Stays(P92a!Ready(w, p), w)
  BY DEF P92a!Ready, Stays, Known92a, Fields92a
<1>7. ASSUME NEW v \in P92a!Taken(w) PROVE Stays(v, w)
  <2> DEFINE lay(u, e) == {[u EXCEPT !.floor[q] = @ \ {e}] : q \in {r \in DOMAIN w.floor : e \in w.floor[r]}}
             floors == UNION {w.floor[q] : q \in DOMAIN w.floor}
             cooked == {q \in DOMAIN w.pot : ~ w.pot[q].cooking /\ w.pot[q].dish # P92a!None}
  <2> DEFINE floored == UNION {lay(u, e) : u \in P92a!Fault(w), e \in floors}
             potted == {[u EXCEPT !.pot[q].dish = P92a!None] : u \in P92a!Fault(w), q \in cooked}
  <2>0. P92a!Taken(w) = floored \cup potted
    BY DEF P92a!Taken
  <2>1. v \in floored \/ v \in potted
    <3> HIDE DEF floored, potted
    <3> QED BY <2>0
  <2>2. CASE v \in floored
    <3>1. PICK u \in P92a!Fault(w), e \in floors : v \in lay(u, e)
      <4> HIDE DEF lay, floors
      <4> QED BY <2>2
    <3>2. PICK q \in DOMAIN w.floor : v = [u EXCEPT !.floor[q] = @ \ {e}]
      BY <3>1
    <3>3. Stays(u, w)
      BY FaultStays
    <3> QED BY <3>2, <3>3 DEF Stays, Known92a, Fields92a
  <2>3. CASE v \in potted
    <3>1. PICK u \in P92a!Fault(w), q \in cooked : v = [u EXCEPT !.pot[q].dish = P92a!None]
      BY <2>3
    <3>2. Stays(u, w)
      BY FaultStays
    <3> QED BY <3>1, <3>2 DEF Stays, Known92a, Fields92a
  <2> HIDE DEF floored, potted
  <2> QED BY <2>1, <2>2, <2>3
<1> QED BY <1>1, <1>2, <1>3, <1>4, <1>5, <1>6, <1>7

LEMMA ThenStays ==
  ASSUME NEW u, NEW v, NEW w, Stays(v, w), Stays(u, v) PROVE Stays(u, w)
BY DEF Stays

\* Where it stands when it is not on its way.
AtPot == {"takeMeal", "load", "recheck", "use", "wait", "grab", "loadUp"}
Place(q, n) ==
  IF n = 1
  THEN IF q = "handIn" THEN <<245, 233>>
       ELSE IF q = "loadLeft" THEN <<73, 245>>
       ELSE IF q \in AtPot THEN <<85, 255>> ELSE <<85, 275>>
  ELSE IF q = "handIn" THEN <<264, 255>>
       ELSE IF q \in AtPot THEN <<245, 385>> ELSE <<225, 385>>

\* What it does at the first cooker only.
AtFirst == {"left", "up", "loadLeft", "loadUp", "recheck"}
Mine92a(m) ==
  {"n", "route", "next", "what", "ok"} \subseteq DOMAIN m /\ m.n \in {1, 2} /\ m.route \in Seq(Legs)

Inv92a ==
  /\ Known92a(world) /\ Mine92a(my)
  /\ pc \in AtFirst \/ (pc = "walk" /\ my.next \in AtFirst) => my.n = 1
  /\ pc = "asleep" => world.late
  /\ pc = "walk" => my.next \notin {"walk", "asleep"}
  /\ ~ world.late =>
       IF pc = "walk"
       THEN \E a : Stands(world, a) /\ Leads(my.route, a, Place(my.next, my.n))
       ELSE Stands(world, Place(pc, my.n))

\* It sets out on a route from where it stands, ...
LEMMA SetsOut ==
  ASSUME Inv92a, pc \notin {"walk", "asleep"}, Stays(world', world),
         NEW route, NEW next, NEW mine, P92a!Walk(route, next, mine), Mine92a(mine),
         Leads(route, Place(pc, my.n), Place(next, mine.n)), next \in AtFirst => mine.n = 1,
         next \notin {"walk", "asleep"}
  PROVE  Inv92a'
<1>1. /\ pc' = "walk" /\ my' = [mine EXCEPT !.route = route, !.next = next]
      /\ route \in Seq(Legs)
  BY DEF P92a!Walk, Leads
<1>2. Mine92a(my') /\ my'.route = route /\ my'.next = next /\ my'.n = mine.n
  BY <1>1 DEF Mine92a
<1>3. Known92a(world') /\ world'.late = world.late
  BY DEF Stays
<1>4. ~ world.late => Stands(world', Place(pc, my.n))
  BY DEF Inv92a, Stays, Stands
<1>5. ~ world'.late => \E a : Stands(world', a) /\ Leads(my'.route, a, Place(my'.next, my'.n))
  BY <1>2, <1>3, <1>4
<1>6. pc' \notin AtFirst /\ pc' # "asleep" /\ (my'.next \in AtFirst => my'.n = 1)
  BY <1>1, <1>2 DEF AtFirst
<1> QED BY <1>1, <1>2, <1>3, <1>5, <1>6 DEF Inv92a

\* ... or does something else where it is.
LEMMA StaysThere ==
  ASSUME Inv92a, Stays(world', world), Mine92a(my'), my'.n = my.n,
         \/ pc' = pc /\ my' = my
         \/ /\ {pc, pc'} \cap {"walk", "asleep"} = {}
            /\ Place(pc', my.n) = Place(pc, my.n)
            /\ pc' \in AtFirst => my.n = 1
  PROVE  Inv92a'
<1>1. Known92a(world') /\ world'.late = world.late /\ \A c : Stands(world, c) => Stands(world', c)
  BY DEF Stays, Stands
<1>2. CASE pc' = pc /\ my' = my
  BY <1>1, <1>2 DEF Inv92a
<1>3. CASE /\ {pc, pc'} \cap {"walk", "asleep"} = {}
           /\ Place(pc', my.n) = Place(pc, my.n)
           /\ pc' \in AtFirst => my.n = 1
  BY <1>1, <1>3 DEF Inv92a
<1> QED BY <1>2, <1>3

LEMMA Init92a == P92a!Init => Inv92a
<1> SUFFICES ASSUME P92a!Init PROVE Inv92a
  OBVIOUS
<1>0. PICK low \in BOOLEAN :
        /\ my = [n |-> 1, route |-> P92a!first(low), next |-> "scan", what |-> P92a!None, ok |-> FALSE]
        /\ \E x \in {35, 465}, on1, beside, left, on2 \in {{}, Given},
             dish \in {P92a!None} \cup P92a!Meals :
            world = P92a!With(
              [x |-> x, y |-> IF low THEN 35 ELSE 465, late |-> FALSE, lost |-> FALSE],
              [P92a!NewWorld({"pot1", "near1", "left1", "pot2", "near2"}, {"pot1", "pot2"})
                 EXCEPT !.floor["pot1"] = on1, !.floor["pot2"] = on2,
                        !.floor["near1"] = beside, !.floor["left1"] = left,
                        !.pot["pot2"].dish = dish])
  BY Zenon DEF P92a!Init
<1>1. PICK x \in {35, 465}, on1 \in {{}, Given}, beside \in {{}, Given}, left \in {{}, Given},
           on2 \in {{}, Given}, dish \in {P92a!None} \cup P92a!Meals :
        world = P92a!With(
              [x |-> x, y |-> IF low THEN 35 ELSE 465, late |-> FALSE, lost |-> FALSE],
              [P92a!NewWorld({"pot1", "near1", "left1", "pot2", "near2"}, {"pot1", "pot2"})
                 EXCEPT !.floor["pot1"] = on1, !.floor["pot2"] = on2,
                        !.floor["near1"] = beside, !.floor["left1"] = left,
                        !.pot["pot2"].dish = dish])
  BY <1>0, Zenon
<1> DEFINE kitchen == [P92a!NewWorld({"pot1", "near1", "left1", "pot2", "near2"}, {"pot1", "pot2"})
                EXCEPT !.floor["pot1"] = on1, !.floor["pot2"] = on2,
                       !.floor["near1"] = beside, !.floor["left1"] = left,
                       !.pot["pot2"].dish = dish]
           place == [x |-> x, y |-> IF low THEN 35 ELSE 465, late |-> FALSE, lost |-> FALSE]
<1>2. {"faults", "hand", "at", "floor", "pot"} \subseteq DOMAIN kitchen
  BY DEF P92a!NewWorld
<1>3. world = P92a!With(place, kitchen)
  BY <1>1, Zenon
<1>4. /\ DOMAIN place = {"x", "y", "late", "lost"}
      /\ place.x = x /\ place.y = (IF low THEN 35 ELSE 465) /\ place.late = FALSE /\ place.lost = FALSE
  OBVIOUS
<1> HIDE DEF kitchen, place
<1>5. /\ Known92a(world) /\ world.late = FALSE
      /\ world.x = x /\ world.y = (IF low THEN 35 ELSE 465) /\ world.lost = FALSE
  BY <1>2, <1>3, <1>4 DEF P92a!With, Known92a, Fields92a
<1>6. Stands(world, <<x, IF low THEN 35 ELSE 465>>)
  BY <1>5 DEF Stands
<1>7. Leads(P92a!first(low), <<x, IF low THEN 35 ELSE 465>>, <<85, 275>>)
  BY RoutesLead
<1>8. Mine92a(my) /\ my.n = 1 /\ my.route = P92a!first(low) /\ my.next = "scan"
  BY <1>0, <1>7 DEF Mine92a, Leads
<1>9. Place("scan", 1) = <<85, 275>>
  BY DEF Place, AtPot
<1>10. pc = "walk"
  BY DEF P92a!Init
<1>11. \E a : Stands(world, a) /\ Leads(my.route, a, Place(my.next, my.n))
  BY <1>6, <1>7, <1>8, <1>9
<1> QED BY <1>5, <1>8, <1>10, <1>11 DEF Inv92a, AtFirst

LEMMA Arrive92 ==
  ASSUME Inv92a, P92a!Arrive PROVE Inv92a'
<1>0. Known92a(world) /\ Mine92a(my) /\ pc = "walk" /\ my.route \in Seq(Legs)
  BY DEF Inv92a, P92a!Arrive, Mine92a
<1>1. /\ pc' = IF world'.lost THEN "asleep" ELSE my.next
      /\ my' = [my EXCEPT !.route = <<>>, !.next = ""]
  BY DEF P92a!Arrive
<1>2. Mine92a(my') /\ my'.n = my.n
  BY <1>0, <1>1 DEF Mine92a
<1>3. \/ world' = P92a!Walked(0)
      \/ \E i \in DOMAIN my.route :
           world' = [P92a!Walked(i) EXCEPT !.faults = @ + 1, !.late = TRUE]
  BY DEF P92a!Arrive
<1>4. my.next \in AtFirst => my.n = 1
  BY <1>0 DEF Inv92a
<1>5. Known92a(world') /\ (world.late => world'.late)
  <2>1. CASE world' = P92a!Walked(0)
    BY <1>0, <2>1, WalkedKeeps
  <2>2. ASSUME NEW i, world' = [P92a!Walked(i) EXCEPT !.faults = @ + 1, !.late = TRUE]
        PROVE  Known92a(world') /\ world'.late
    <3>1. Known92a(P92a!Walked(i))
      BY <1>0, WalkedKeeps
    <3> QED BY <2>2, <3>1 DEF Known92a, Fields92a
  <2> QED BY <1>3, <2>1, <2>2
<1>6. ASSUME ~ world'.late
      PROVE  Stands(world', Place(my.next, my.n))
  <2>1. world' = P92a!Walked(0)
    <3>1. ASSUME NEW i, world' = [P92a!Walked(i) EXCEPT !.faults = @ + 1, !.late = TRUE]
          PROVE  world'.late
      <4>1. Known92a(P92a!Walked(i))
        BY <1>0, WalkedKeeps
      <4> QED BY <3>1, <4>1 DEF Known92a, Fields92a
    <3> QED BY <1>3, <1>6, <3>1
  <2>2. ~ world.late
    BY <1>5, <1>6
  <2>3. PICK a : Stands(world, a) /\ Leads(my.route, a, Place(my.next, my.n))
    BY <1>0, <2>2 DEF Inv92a
  <2> QED BY <1>0, <2>1, <2>3, WalkedLeads
<1>7. CASE world'.lost
  <2>1. world'.late
    BY <1>6, <1>7 DEF Stands
  <2> QED BY <1>1, <1>2, <1>5, <1>7, <2>1 DEF Inv92a, AtFirst
<1>8. CASE ~ world'.lost
  <2>1. pc' = my.next /\ my.next \notin {"walk", "asleep"}
    BY <1>0, <1>1, <1>8 DEF Inv92a
  <2> QED BY <1>2, <1>4, <1>5, <1>6, <2>1 DEF Inv92a
<1> QED BY <1>7, <1>8

\* The routes it takes from where it is.
LEMMA WaysOn ==
  ASSUME NEW n \in {1, 2}
  PROVE  /\ \A q \in AtPot : Leads(P92a!Shangjiao(n), Place(q, n), Place("handIn", n))
         /\ Leads(P92a!Return(n), Place("handIn", n), Place("onward", n))
         /\ \A q \in {"scan", "onward", "left", "up"}, t \in AtPot :
              Leads(P92a!ToPot(n), Place(q, n), Place(t, n))
         /\ \A q \in AtPot, t \in {"scan", "onward", "left", "up"} :
              Leads(P92a!FromPot(n), Place(q, n), Place(t, n))
<1>1. CASE n = 1
  BY <1>1, RoutesLead DEF Place, AtPot
<1>2. CASE n = 2
  BY <1>2, RoutesLead DEF Place, AtPot
<1> QED BY <1>1, <1>2

LEMMA WaysOver ==
  /\ \A q \in {"scan", "onward", "left", "up"} :
       /\ Leads(P92a!ToSecond, Place(q, 1), Place("scan", 2))
       /\ Leads(P92a!ToFirst, Place(q, 2), Place("scan", 1))
       /\ Leads(P92a!ToLeft, Place(q, 1), Place("loadLeft", 1))
       /\ Leads(P92a!FromLeft, Place("loadLeft", 1), Place(q, 1))
       /\ Leads(P92a!Do("Down", 255), Place(q, 1), Place("loadUp", 1))
BY RoutesLead DEF Place, AtPot

LEMMA GoesOver ==
  ASSUME Inv92a, pc \in {"scan", "onward", "left", "up"}, Stays(world', world), P92a!Onward(my)
  PROVE  Inv92a'
<1>0. Mine92a(my)
  BY DEF Inv92a
<1>1. CASE my.n = 1
  <2> DEFINE mine == [my EXCEPT !.n = 2]
  <2>1. Mine92a(mine) /\ mine.n = 2 /\ P92a!Walk(P92a!ToSecond, "scan", mine)
    BY <1>0, <1>1 DEF Mine92a, P92a!Onward
  <2>2. Leads(P92a!ToSecond, Place(pc, my.n), Place("scan", mine.n))
    BY <1>1, <2>1, WaysOver
  <2> HIDE DEF mine
  <2> QED BY <2>1, <2>2, SetsOut DEF AtFirst
<1>2. CASE my.n = 2
  <2> DEFINE mine == [my EXCEPT !.n = 1]
  <2>1. Mine92a(mine) /\ mine.n = 1 /\ P92a!Walk(P92a!ToFirst, "scan", mine)
    BY <1>0, <1>2 DEF Mine92a, P92a!Onward
  <2>2. Leads(P92a!ToFirst, Place(pc, my.n), Place("scan", mine.n))
    BY <1>2, <2>1, WaysOver
  <2> HIDE DEF mine
  <2> QED BY <2>1, <2>2, SetsOut DEF AtFirst
<1> QED BY <1>0, <1>1, <1>2 DEF Mine92a

LEMMA ScanKeeps ==
  ASSUME Inv92a, P92a!Scan PROVE Inv92a'
<1>0. Mine92a(my) /\ Known92a(world) /\ pc = "scan" /\ my.n \in {1, 2}
  BY DEF Inv92a, P92a!Scan, Mine92a
<1>1. Stays(world', world)
  BY <1>0, FaultStays DEF P92a!Scan
<1>2. \/ P92a!Walk(P92a!ToPot(my.n), "takeMeal", my) \/ P92a!Walk(P92a!ToPot(my.n), "load", my)
      \/ \E d : P92a!Walk(P92a!ToPot(my.n), "grab", [my EXCEPT !.what = d])
      \/ P92a!Checked
  BY DEF P92a!Scan
<1>3. ASSUME NEW t \in AtPot, NEW mine, Mine92a(mine), mine.n = my.n, P92a!Walk(P92a!ToPot(my.n), t, mine),
             t \notin AtFirst
      PROVE  Inv92a'
  <2>1. Leads(P92a!ToPot(my.n), Place(pc, my.n), Place(t, mine.n))
    BY <1>0, <1>3, WaysOn
  <2>2. pc \notin {"walk", "asleep"} /\ t \notin {"walk", "asleep"}
    BY <1>0 DEF AtPot
  <2> QED BY <1>1, <1>3, <2>1, <2>2, SetsOut
<1>4. CASE P92a!Walk(P92a!ToPot(my.n), "takeMeal", my) \/ P92a!Walk(P92a!ToPot(my.n), "load", my)
  BY <1>0, <1>3, <1>4 DEF AtPot, AtFirst
<1>5. ASSUME NEW d, P92a!Walk(P92a!ToPot(my.n), "grab", [my EXCEPT !.what = d]) PROVE Inv92a'
  <2> DEFINE mine == [my EXCEPT !.what = d]
  <2>1. Mine92a(mine) /\ mine.n = my.n
    BY <1>0 DEF Mine92a
  <2>2. P92a!Walk(P92a!ToPot(my.n), "grab", mine)
    BY <1>5
  <2> HIDE DEF mine
  <2> QED BY <1>3, <2>1, <2>2 DEF AtPot, AtFirst
<1>6. CASE P92a!Checked
  <2>1. CASE my.n = 1
    <3>1. pc' = "left" /\ my' = my
      BY <1>6, <2>1 DEF P92a!Checked
    <3>2. Place(pc', my.n) = Place(pc, my.n)
      BY <1>0, <3>1 DEF Place, AtPot
    <3> QED BY <1>0, <1>1, <2>1, <3>1, <3>2, StaysThere
  <2>2. CASE my.n # 1
    BY <1>0, <1>1, <1>6, <2>2, GoesOver DEF P92a!Checked
  <2> QED BY <2>1, <2>2
<1> QED BY <1>2, <1>4, <1>5, <1>6

\* With a meal it goes to the task point, and without one back.
LEMMA WithAMeal ==
  ASSUME Inv92a, pc \in AtPot, Stays(world', world), P92a!Walk(P92a!Shangjiao(my.n), "handIn", my)
  PROVE  Inv92a'
<1>0. Mine92a(my) /\ my.n \in {1, 2}
  BY DEF Inv92a, Mine92a
<1>1. Leads(P92a!Shangjiao(my.n), Place(pc, my.n), Place("handIn", my.n))
  BY <1>0, WaysOn
<1> QED BY <1>0, <1>1, SetsOut DEF AtPot, AtFirst

LEMMA WithoutOne ==
  ASSUME Inv92a, pc \in AtPot, Stays(world', world), NEW mine, Mine92a(mine), mine.n = my.n,
         NEW next, next \in {"left", "onward"}, next = "left" => my.n = 1,
         P92a!Walk(P92a!FromPot(my.n), next, mine)
  PROVE  Inv92a'
<1>0. Mine92a(my) /\ my.n \in {1, 2}
  BY DEF Inv92a, Mine92a
<1>1. Leads(P92a!FromPot(my.n), Place(pc, my.n), Place(next, mine.n))
  BY <1>0, WaysOn
<1>2. pc \notin {"walk", "asleep"} /\ next \notin {"walk", "asleep"} /\ (next \in AtFirst => mine.n = 1)
  BY DEF AtPot, AtFirst
<1> QED BY <1>1, <1>2, SetsOut

LEMMA AtTheCooker ==
  ASSUME Inv92a, P92a!TakeMeal \/ P92a!LoadPot \/ P92a!Recheck \/ P92a!Use \/ P92a!Wait \/ P92a!Grab
  PROVE  Inv92a'
<1>0. Mine92a(my) /\ Known92a(world) /\ my.n \in {1, 2}
  BY DEF Inv92a, Mine92a
<1>01. \A w : Stays(w, world) => Known92a(w)
  BY DEF Stays
<1>1. CASE P92a!TakeMeal
  <2>0. pc \in AtPot
    BY <1>1 DEF P92a!TakeMeal, AtPot
  <2>1. PICK w \in P92a!PickBlock(world, P92a!Cooker) :
          IF w.hand \in P92a!Meals THEN world' = w /\ P92a!Walk(P92a!Shangjiao(my.n), "handIn", my)
          ELSE /\ world' \in (IF w.hand = "DarkDish" THEN P92a!ThrowAway(w) ELSE {w})
               /\ \/ w.faults > world.faults /\ UNCHANGED <<pc, my>>
                  \/ P92a!Walk(P92a!FromPot(my.n), "onward", my)
    BY <1>1 DEF P92a!TakeMeal
  <2>2. Stays(w, world) /\ Known92a(w)
    BY <1>0, <1>01, KitchenStays
  <2>3. Stays(world', world)
    BY <2>1, <2>2, KitchenStays, ThenStays
  <2> QED BY <1>0, <2>0, <2>1, <2>3, WithAMeal, WithoutOne, StaysThere
<1>2. CASE P92a!LoadPot
  <2>1. /\ Stays(world', world) /\ my' = my /\ pc = "load"
        /\ pc' = IF my.n = 1 THEN "recheck" ELSE "use"
    BY <1>0, <1>2, KitchenStays DEF P92a!LoadPot
  <2>2. Place(pc', my.n) = Place(pc, my.n) /\ pc' \notin {"walk", "asleep"}
        /\ (pc' \in AtFirst => my.n = 1)
    BY <2>1 DEF Place, AtPot, AtFirst
  <2> QED BY <1>0, <2>1, <2>2, StaysThere
<1>3. CASE P92a!Recheck
  <2>1. my' = my /\ pc = "recheck" /\ pc' \in {"recheck", "use"} /\ my.n = 1
    BY <1>3 DEF P92a!Recheck, Inv92a, AtFirst
  <2>2. Stays(world', world)
    <3>1. ASSUME NEW d, NEW w \in P92a!PickDish([world EXCEPT !.at = "near1"], d), world' \in P92a!Put(w, "pot1")
          PROVE  Stays(world', world)
      <4> DEFINE v == [world EXCEPT !.at = "near1"]
      <4>1. Stays(v, world)
        BY <1>0 DEF Stays, Known92a, Fields92a
      <4>2. w \in P92a!PickDish(v, d)
        BY <3>1
      <4> HIDE DEF v
      <4>3. Stays(w, v) /\ Known92a(w)
        BY <1>01, <4>1, <4>2, KitchenStays DEF Stays
      <4> QED BY <3>1, <4>1, <4>3, KitchenStays, ThenStays
    <3>2. CASE world' = world
      BY <1>0, <3>2, FaultStays
    <3> QED BY <1>3, <3>1, <3>2 DEF P92a!Recheck
  <2>3. Place(pc', my.n) = Place(pc, my.n) /\ {pc, pc'} \cap {"walk", "asleep"} = {}
    BY <2>1 DEF Place, AtPot
  <2> QED BY <1>0, <2>1, <2>2, <2>3, StaysThere
<1>4. CASE P92a!Use
  <2>1. /\ Stays(world', world) /\ pc = "use"
        /\ (pc' = "wait" /\ my' = my) \/ P92a!BackAndCheck
    BY <1>0, <1>4, KitchenStays DEF P92a!Use
  <2>2. CASE pc' = "wait" /\ my' = my
    <3>1. Place(pc', my.n) = Place(pc, my.n) /\ {pc, pc'} \cap {"walk", "asleep"} = {}
          /\ pc' \notin AtFirst
      BY <2>1, <2>2 DEF Place, AtPot, AtFirst
    <3> QED BY <1>0, <2>1, <2>2, <3>1, StaysThere
  <2>3. CASE P92a!BackAndCheck
    BY <1>0, <2>1, <2>3, WithoutOne DEF P92a!BackAndCheck, AtPot
  <2> QED BY <2>1, <2>2, <2>3
<1>5. CASE P92a!Wait
  <2>1. Stays(world', world) /\ pc = "wait"
    BY <1>0, <1>5, KitchenStays, FaultStays DEF P92a!Wait
  <2>2. \/ pc' = pc /\ my' = my
        \/ P92a!Walk(P92a!Shangjiao(my.n), "handIn", my)
        \/ P92a!BackAndCheck
    BY <1>5 DEF P92a!Wait
  <2>3. CASE pc' = pc /\ my' = my
    BY <1>0, <2>1, <2>3, StaysThere
  <2>4. CASE P92a!Walk(P92a!Shangjiao(my.n), "handIn", my)
    BY <1>0, <2>1, <2>4, WithAMeal DEF AtPot
  <2>5. CASE P92a!BackAndCheck
    BY <1>0, <2>1, <2>5, WithoutOne DEF P92a!BackAndCheck, AtPot
  <2> QED BY <2>2, <2>3, <2>4, <2>5
<1>6. CASE P92a!Grab
  <2> DEFINE mine == [my EXCEPT !.what = P92a!None]
             next == IF my.n = 1 THEN "left" ELSE "onward"
  <2>1. pc \in AtPot /\ P92a!Walk(P92a!FromPot(my.n), next, mine) /\ Mine92a(mine) /\ mine.n = my.n
    BY <1>0, <1>6 DEF P92a!Grab, AtPot, Mine92a
  <2>2. ASSUME NEW w, Stays(w, world), NEW q, NEW d, world' \in P92a!PickDish([w EXCEPT !.at = q], d)
        PROVE  Stays(world', world)
    <3> DEFINE v == [w EXCEPT !.at = q]
    <3>1. Stays(v, world)
      BY <2>2 DEF Stays, Known92a, Fields92a
    <3>2. world' \in P92a!PickDish(v, d)
      BY <2>2
    <3> HIDE DEF v
    <3> QED BY <1>01, <3>1, <3>2, KitchenStays, ThenStays
  <2>3. Stays(world, world) /\ \A w \in P92a!PickBlock(world, P92a!Cooker) : Stays(w, world)
    BY <1>0, KitchenStays, FaultStays
  <2>4. \/ world' \in P92a!PickDish([world EXCEPT !.at = P92a!Near(my.n)], my.what)
        \/ \E w \in P92a!PickBlock(world, P92a!Cooker) :
             world' \in IF w.hand = P92a!None THEN P92a!PickDish([w EXCEPT !.at = P92a!Cooker], my.what) ELSE {w}
    BY <1>6 DEF P92a!Grab
  <2>5. Stays(world', world)
    <3>1. CASE world' \in P92a!PickDish([world EXCEPT !.at = P92a!Near(my.n)], my.what)
      BY <2>2, <2>3, <3>1
    <3>2. ASSUME NEW w \in P92a!PickBlock(world, P92a!Cooker),
                 world' \in IF w.hand = P92a!None THEN P92a!PickDish([w EXCEPT !.at = P92a!Cooker], my.what) ELSE {w}
          PROVE  Stays(world', world)
      <4>1. CASE w.hand = P92a!None
        BY <2>2, <2>3, <3>2, <4>1
      <4>2. CASE w.hand # P92a!None
        BY <2>3, <3>2, <4>2
      <4> QED BY <4>1, <4>2
    <3> QED BY <2>4, <3>1, <3>2
  <2>6. next \in {"left", "onward"} /\ (next = "left" => my.n = 1)
    OBVIOUS
  <2> HIDE DEF mine, next
  <2> QED BY <2>1, <2>5, <2>6, WithoutOne
<1> QED BY <1>1, <1>2, <1>3, <1>4, <1>5, <1>6

LEMMA AtTheLeft ==
  ASSUME Inv92a, P92a!CheckLeft \/ P92a!LoadLeft \/ P92a!CheckUp \/ P92a!LoadUp
  PROVE  Inv92a'
<1>0. /\ Mine92a(my) /\ Known92a(world) /\ my.n = 1
      /\ pc \in AtFirst /\ pc \notin {"walk", "asleep"}
  BY DEF Inv92a, Mine92a, P92a!CheckLeft, P92a!LoadLeft, P92a!CheckUp, P92a!LoadUp, AtFirst
<1>01. \A w : Stays(w, world) => Known92a(w)
  BY DEF Stays
<1>02. ASSUME NEW w, Stays(w, world), NEW q, NEW d, NEW v \in P92a!PickDish([w EXCEPT !.at = q], d)
       PROVE  Stays(v, world)
  <2> DEFINE u == [w EXCEPT !.at = q]
  <2>1. Stays(u, world)
    BY <1>02 DEF Stays, Known92a, Fields92a
  <2>2. v \in P92a!PickDish(u, d)
    BY <1>02
  <2> HIDE DEF u
  <2> QED BY <1>01, <2>1, <2>2, KitchenStays, ThenStays
<1>03. Stays(world, world) /\ \A w \in P92a!Put(world, "pot1") : Stays(w, world)
  BY <1>0, KitchenStays, FaultStays
<1> DEFINE mine == [my EXCEPT !.ok = FALSE]
<1>04. Mine92a(mine) /\ mine.n = 1
  BY <1>0 DEF Mine92a
<1>1. CASE P92a!CheckLeft
  <2>1. Stays(world', world) /\ pc = "left"
    BY <1>03, <1>1 DEF P92a!CheckLeft
  <2>2. \/ P92a!Walk(P92a!ToLeft, "loadLeft", mine)
        \/ pc' = "up" /\ my' = my
    BY <1>1 DEF P92a!CheckLeft
  <2>3. CASE P92a!Walk(P92a!ToLeft, "loadLeft", mine)
    <3>1. Leads(P92a!ToLeft, Place(pc, my.n), Place("loadLeft", mine.n))
      BY <1>0, <1>04, <2>1, WaysOver
    <3> HIDE DEF mine
    <3> QED BY <1>0, <1>04, <2>1, <2>3, <3>1, SetsOut
  <2>4. CASE pc' = "up" /\ my' = my
    <3>1. Place(pc', my.n) = Place(pc, my.n)
      BY <1>0, <2>1, <2>4 DEF Place, AtPot
    <3> QED BY <1>0, <2>1, <2>4, <3>1, StaysThere
  <2> QED BY <2>2, <2>3, <2>4
<1>2. CASE P92a!LoadLeft
  <2>0. pc = "loadLeft"
    BY <1>2 DEF P92a!LoadLeft
  <2>1. \/ /\ \E d \in world.floor["left1"] : world' \in P92a!PickDish([world EXCEPT !.at = "left1"], d)
           /\ my' = [my EXCEPT !.ok = world'.floor["left1"] # {}] /\ pc' = pc
        \/ /\ \E d \in world.floor["left1"] : \E w \in P92a!Put(world, "pot1") :
                world' \in P92a!PickDish([w EXCEPT !.at = "left1"], d)
           /\ P92a!Walk(P92a!FromLeft, "scan", mine)
        \/ P92a!Walk(P92a!FromLeft, "up", my) /\ world' = world
    BY <1>2 DEF P92a!LoadLeft
  <2>2. Stays(world', world)
    BY <1>02, <1>03, <2>1
  <2>3. CASE my' = [my EXCEPT !.ok = world'.floor["left1"] # {}] /\ pc' = pc
    <3>1. Mine92a(my') /\ my'.n = my.n
      BY <1>0, <2>3 DEF Mine92a
    <3> QED BY <1>0, <2>2, <2>3, <3>1, StaysThere
  <2>4. CASE P92a!Walk(P92a!FromLeft, "scan", mine)
    <3>1. Leads(P92a!FromLeft, Place(pc, my.n), Place("scan", mine.n))
      BY <1>0, <1>04, <2>0, WaysOver
    <3> HIDE DEF mine
    <3> QED BY <1>0, <1>04, <2>2, <2>4, <3>1, SetsOut
  <2>5. CASE P92a!Walk(P92a!FromLeft, "up", my)
    <3>1. Leads(P92a!FromLeft, Place(pc, my.n), Place("up", my.n))
      BY <1>0, <2>0, WaysOver
    <3> QED BY <1>0, <2>2, <2>5, <3>1, SetsOut
  <2> QED BY <2>1, <2>3, <2>4, <2>5
<1>3. CASE P92a!CheckUp
  <2>1. Stays(world', world) /\ pc = "up"
    BY <1>03, <1>3 DEF P92a!CheckUp
  <2>2. P92a!Walk(P92a!Do("Down", 255), "loadUp", my) \/ P92a!Onward(my)
    BY <1>3 DEF P92a!CheckUp
  <2>3. CASE P92a!Walk(P92a!Do("Down", 255), "loadUp", my)
    <3>1. Leads(P92a!Do("Down", 255), Place(pc, my.n), Place("loadUp", my.n))
      BY <1>0, <2>1, WaysOver
    <3> QED BY <1>0, <2>1, <2>3, <3>1, SetsOut
  <2>4. CASE P92a!Onward(my)
    BY <2>1, <2>4, GoesOver
  <2> QED BY <2>2, <2>3, <2>4
<1>4. CASE P92a!LoadUp
  <2>1. pc = "loadUp" /\ pc' = "wait" /\ my' = my
    BY <1>4 DEF P92a!LoadUp
  <2>2. PICK w \in P92a!Put(world, "pot1") :
          \/ \E d \in w.floor["near1"] : \E v \in P92a!PickDish([w EXCEPT !.at = "near1"], d) :
               \E u \in P92a!Put(v, "pot1") : world' \in P92a!UseCooker(u, "pot1")
          \/ world' \in P92a!UseCooker(w, "pot1")
    BY <1>4 DEF P92a!LoadUp
  <2>3. Stays(w, world) /\ Known92a(w)
    BY <1>01, <1>03
  <2>4. ASSUME NEW d, NEW v \in P92a!PickDish([w EXCEPT !.at = "near1"], d), NEW u \in P92a!Put(v, "pot1"),
               world' \in P92a!UseCooker(u, "pot1")
        PROVE  Stays(world', world)
    <3>1. Stays(v, world) /\ Known92a(v)
      BY <1>01, <1>02, <2>3
    <3>2. Stays(u, world) /\ Known92a(u)
      BY <1>01, <3>1, KitchenStays, ThenStays
    <3> QED BY <2>4, <3>2, KitchenStays, ThenStays
  <2>5. Stays(world', world)
    BY <2>2, <2>3, <2>4, KitchenStays, ThenStays
  <2>6. Place(pc', my.n) = Place(pc, my.n) /\ pc' \notin AtFirst
    BY <2>1 DEF Place, AtPot, AtFirst
  <2> QED BY <1>0, <2>1, <2>5, <2>6, StaysThere
<1> QED BY <1>1, <1>2, <1>3, <1>4

LEMMA Next92a == ASSUME Inv92a, P92a!Next PROVE Inv92a'
<1>0. Mine92a(my) /\ Known92a(world) /\ my.n \in {1, 2}
  BY DEF Inv92a, Mine92a
<1>1. CASE P92a!Arrive
  BY <1>1, Arrive92
<1>2. CASE P92a!Scan
  BY <1>2, ScanKeeps
<1>3. CASE P92a!TakeMeal \/ P92a!LoadPot \/ P92a!Recheck \/ P92a!Use \/ P92a!Wait \/ P92a!Grab
  BY <1>3, AtTheCooker
<1>4. CASE P92a!CheckLeft \/ P92a!LoadLeft \/ P92a!CheckUp \/ P92a!LoadUp
  BY <1>4, AtTheLeft
<1>5. CASE P92a!HandInDish
  <2>1. pc = "handIn" /\ Stays(world', world) /\ P92a!Walk(P92a!Return(my.n), "onward", my)
    BY <1>0, <1>5, KitchenStays DEF P92a!HandInDish
  <2>2. Leads(P92a!Return(my.n), Place(pc, my.n), Place("onward", my.n))
    BY <1>0, <2>1, WaysOn
  <2> QED BY <1>0, <2>1, <2>2, SetsOut DEF AtFirst
<1>6. CASE P92a!GoOn
  BY <1>0, <1>6, GoesOver, FaultStays DEF P92a!GoOn
<1>7. CASE P92a!Gift
  <2>1. PICK v \in P92a!Fault(world), p \in {"pot1", "near1", "left1"}, f \in Given :
          world' = [v EXCEPT !.floor[p] = @ \cup {f}]
    BY <1>7 DEF P92a!Gift
  <2>2. Stays(v, world)
    BY <1>0, FaultStays
  <2>3. Stays(world', world) /\ pc' = pc /\ my' = my
    BY <1>7, <2>1, <2>2 DEF P92a!Gift, Stays, Known92a, Fields92a
  <2> QED BY <1>0, <2>3, StaysThere
<1>8. CASE P92a!Theft
  <2>1. Stays(world', world) /\ pc' = pc /\ my' = my
    BY <1>0, <1>8, KitchenStays DEF P92a!Theft
  <2> QED BY <1>0, <2>1, StaysThere
<1> QED BY <1>1, <1>2, <1>3, <1>4, <1>5, <1>6, <1>7, <1>8 DEF P92a!Next, P92a!Cooks

LEMMA Inv92aMeets == Inv92a => P92a!RoutesMeet
BY DEF Inv92a, P92a!RoutesMeet

-----------------------------------------------------------------------------
(* Program 87: what has been searched, and how far away it is.              *)

Size == B87!Cardinality(B87!Cells)

\* The operators of FiniteSets are the same in each of them.
LEMMA SameCardinality ==
  \A S : B87!Cardinality(S) = Cardinality(S) /\ W85!Cardinality(S) = Cardinality(S)
BY DEF B87!Cardinality, W85!Cardinality, Cardinality
LEMMA SizeIs == Size = Cardinality(B87!Cells)
BY SameCardinality DEF Size

LEMMA CellsFinite == IsFiniteSet(B87!Cells) /\ Size \in Nat
<1>1. IsFiniteSet(0 .. Columns - 1) /\ IsFiniteSet(0 .. Rows - 1)
  BY GridsAssumption, FS_Interval
<1>2. IsFiniteSet(B87!Cells)
  BY <1>1, FS_Product DEF B87!Cells
<1> QED BY <1>2, FS_CardinalityType, SizeIs

\* What is reached in n steps is what the definition by recursion says.
LEMMA ReachedSteps ==
  ASSUME NEW w
  PROVE  /\ B87!Reached(w)[0] = {w.start}
         /\ \A n \in 1 .. Size : B87!Reached(w)[n] = B87!Near(w, B87!Reached(w)[n - 1])
<1> DEFINE Follows(f, n) == f[n] = IF n = 0 THEN {w.start} ELSE B87!Near(w, f[n - 1])
           Good(k) == \E f : f = [n \in 0 .. k |-> f[n]] /\ \A n \in 0 .. k : Follows(f, n)
           T == {k \in 0 .. Size : ~ Good(k)}
<1>0. Size \in Nat
  BY CellsFinite
<1>1. T = {}
  <2> SUFFICES ASSUME T # {} PROVE FALSE
    OBVIOUS
  <2>1. PICK k \in T : \A j \in T : k <= j
    <3>1. T \subseteq Nat
      OBVIOUS
    <3> HIDE DEF T
    <3> QED BY <3>1, LeastNumber
  <2>2. k \in 0 .. Size /\ ~ Good(k)
    <3> HIDE DEF Good
    <3> QED OBVIOUS
  <2>3. CASE k = 0
    <3> DEFINE f == [n \in 0 .. 0 |-> {w.start}]
    <3>1. f = [n \in 0 .. 0 |-> f[n]] /\ \A n \in 0 .. 0 : Follows(f, n)
      OBVIOUS
    <3>2. Good(0)
      <4> HIDE DEF f, Follows
      <4> QED BY <3>1
    <3> QED BY <2>2, <2>3, <3>2
  <2>4. CASE k > 0
    <3>0. k \in 0 .. Size
      BY <2>2
    <3>1. k - 1 \in 0 .. Size /\ ~ (k <= k - 1)
      <4> HIDE DEF T
      <4> QED BY <1>0, <2>4, <3>0
    <3>2. Good(k - 1)
      <4>1. k - 1 \notin T
        <5> HIDE DEF T
        <5> QED BY <2>1, <3>1
      <4> HIDE DEF Good
      <4> QED BY <3>1, <4>1
    <3>3. PICK f : f = [n \in 0 .. k - 1 |-> f[n]] /\ \A n \in 0 .. k - 1 : Follows(f, n)
      <4> HIDE DEF Follows
      <4> QED BY <3>2
    <3> DEFINE v == B87!Near(w, f[k - 1])
               g == [n \in 0 .. k |-> IF n = k THEN v ELSE f[n]]
    <3>4. ASSUME NEW n \in 0 .. k PROVE Follows(g, n)
      <4>1. n # 0 => n - 1 \in 0 .. k - 1 /\ g[n - 1] = f[n - 1]
        <5> HIDE DEF v
        <5> QED BY <2>2, <2>4
      <4>2. CASE n = k
        <5>1. g[n] = v
          <6> HIDE DEF v
          <6> QED BY <4>2
        <5> HIDE DEF g
        <5> QED BY <2>4, <4>1, <4>2, <5>1
      <4>3. CASE n # k
        <5>1. n \in 0 .. k - 1 /\ g[n] = f[n]
          <6> HIDE DEF v
          <6> QED BY <2>2, <4>3
        <5>2. Follows(f, n)
          <6> HIDE DEF Follows
          <6> QED BY <3>3, <5>1
        <5> HIDE DEF g
        <5> QED BY <4>1, <5>1, <5>2
      <4> QED BY <4>2, <4>3
    <3>5. g = [n \in 0 .. k |-> g[n]]
      OBVIOUS
    <3>6. Good(k)
      <4> HIDE DEF Follows, g
      <4> QED BY <3>4, <3>5
    <3> HIDE DEF Good
    <3> QED BY <2>2, <3>6
  <2> QED BY <2>2, <2>3, <2>4
<1>2. Good(Size)
  <2> HIDE DEF Good
  <2> QED BY <1>0, <1>1
<1>3. PICK f : f = [n \in 0 .. Size |-> f[n]] /\ \A n \in 0 .. Size : Follows(f, n)
  <2> HIDE DEF Follows
  <2> QED BY <1>2
<1> DEFINE Solves(h) == h = [n \in 0 .. Size |-> IF n = 0 THEN {w.start} ELSE B87!Near(w, h[n - 1])]
           After == CHOOSE h : Solves(h)
           F == [n \in 0 .. Size |-> IF n = 0 THEN {w.start} ELSE B87!Near(w, f[n - 1])]
<1>5. Solves(After)
  <2>1. \E h : Solves(h)
    <3>1. F = f
      BY <1>3, Zenon
    <3>2. Solves(F)
      BY <3>1, Zenon
    <3> HIDE DEF Solves, F
    <3> QED BY <3>2
  <2> HIDE DEF Solves
  <2> QED BY <2>1
<1>6. B87!Reached(w) = After
  BY DEF B87!Reached, Size
<1> HIDE DEF After
<1>7. \A n \in 0 .. Size : Follows(After, n)
  BY <1>5, Zenon
<1> QED BY <1>0, <1>6, <1>7

\* How many steps away a cell is.
Depth(w, c) ==
  CHOOSE n \in 0 .. Size :
    c \in B87!Reached(w)[n] /\ \A k \in 0 .. Size : c \in B87!Reached(w)[k] => n <= k
Found(w) == UNION {B87!Reached(w)[n] : n \in 0 .. Size}

LEMMA DepthLeast ==
  ASSUME NEW w, NEW c, NEW k \in 0 .. Size, c \in B87!Reached(w)[k]
  PROVE  /\ Depth(w, c) \in 0 .. Size /\ Depth(w, c) <= k
         /\ c \in B87!Reached(w)[Depth(w, c)]
         /\ \A n \in 0 .. Size : c \in B87!Reached(w)[n] => Depth(w, c) <= n
<1> DEFINE T == {n \in 0 .. Size : c \in B87!Reached(w)[n]}
<1>1. T \subseteq Nat /\ T # {}
  OBVIOUS
<1>2. PICK m \in T : \A n \in T : m <= n
  <2> HIDE DEF T
  <2> QED BY <1>1, LeastNumber
<1>3. m \in 0 .. Size /\ c \in B87!Reached(w)[m] /\ \A n \in 0 .. Size : c \in B87!Reached(w)[n] => m <= n
  BY <1>2
<1>4. /\ Depth(w, c) \in 0 .. Size /\ c \in B87!Reached(w)[Depth(w, c)]
      /\ \A n \in 0 .. Size : c \in B87!Reached(w)[n] => Depth(w, c) <= n
  BY <1>3 DEF Depth
<1> QED BY <1>4

\* Cells that are reached are reached in more steps as well.
LEMMA FoundAtDepth ==
  ASSUME NEW w, NEW c \in Found(w)
  PROVE  /\ Depth(w, c) \in 0 .. Size
         /\ \A n \in 0 .. Size : c \in B87!Reached(w)[n] => Depth(w, c) <= n
         /\ \A n \in 0 .. Size : Depth(w, c) <= n => c \in B87!Reached(w)[n]
<1>1. PICK k \in 0 .. Size : c \in B87!Reached(w)[k]
  BY DEF Found
<1>2. /\ Depth(w, c) \in 0 .. Size
      /\ c \in B87!Reached(w)[Depth(w, c)]
      /\ \A n \in 0 .. Size : c \in B87!Reached(w)[n] => Depth(w, c) <= n
  BY <1>1, DepthLeast
<1> DEFINE T == {n \in 0 .. Size : Depth(w, c) <= n /\ c \notin B87!Reached(w)[n]}
<1>3. T = {}
  <2> SUFFICES ASSUME T # {} PROVE FALSE
    OBVIOUS
  <2>1. PICK m \in T : \A n \in T : m <= n
    <3>1. T \subseteq Nat
      OBVIOUS
    <3> HIDE DEF T
    <3> QED BY <3>1, LeastNumber
  <2>2. m \in 0 .. Size /\ Depth(w, c) <= m /\ c \notin B87!Reached(w)[m]
    OBVIOUS
  <2>3. Depth(w, c) <= m - 1 /\ m - 1 \in 0 .. Size /\ m \in 1 .. Size /\ ~ (m <= m - 1)
    <3>1. Depth(w, c) # m
      BY <1>2, <2>2
    <3> HIDE DEF T
    <3> QED BY <1>2, <2>2, <3>1, CellsFinite
  <2>4. c \in B87!Reached(w)[m - 1]
    <3>1. m - 1 \notin T
      <4> HIDE DEF T
      <4> QED BY <2>1, <2>3
    <3> QED BY <2>3, <3>1
  <2>5. c \in B87!Near(w, B87!Reached(w)[m - 1])
    BY <2>4 DEF B87!Near
  <2> QED BY <2>2, <2>3, <2>5, ReachedSteps
<1> QED BY <1>2, <1>3

LEMMA StartAtNought ==
  ASSUME NEW w
  PROVE  w.start \in Found(w) /\ Depth(w, w.start) = 0
         /\ \A c \in Found(w) : Depth(w, c) = 0 => c = w.start
<1>1. B87!Reached(w)[0] = {w.start} /\ 0 \in 0 .. Size
  BY ReachedSteps, CellsFinite
<1>2. w.start \in Found(w)
  BY <1>1 DEF Found
<1> QED BY <1>1, <1>2, FoundAtDepth

Items(s) == {s[i] : i \in 1 .. Len(s)}
Dirs == {"R", "L", "U", "D"}

\* What the search knows, with m what it has in mind in the map w.
Search87(w, m) ==
  /\ w \in [real : SUBSET B87!Cells, walls : SUBSET B87!Cells, start : B87!Cells, end : B87!Cells]
  /\ w.walls = w.real \ {w.end} /\ w.start # w.end
  /\ m.queue \in Seq(B87!Cells) /\ Items(m.queue) \subseteq m.visited
  /\ m.visited \subseteq B87!Cells \cap Found(w) /\ w.start \in m.visited
  /\ m.at = w.end /\ m.path = <<>>
Depths87(w, m) == \A c \in m.visited : Depth(w, c) < Cardinality(m.visited)
Last87(w, m) ==
  /\ m.last \in [B87!Cells -> Dirs \cup {""}]
  /\ \A c \in B87!Cells :
       IF c \in m.visited \ {w.start}
       THEN /\ m.last[c] \in Dirs /\ B87!BackFrom(c, m.last[c]) \in m.visited
            /\ Depth(w, c) = Depth(w, B87!BackFrom(c, m.last[c])) + 1 /\ c \in B87!Open(w)
       ELSE m.last[c] = ""
Closed87(w, m) ==
  \A c \in m.visited \ Items(m.queue), l \in Dirs : B87!From(c, l) \in B87!Open(w) => B87!From(c, l) \in m.visited
Order87(w, m) ==
  \A i, j \in 1 .. Len(m.queue) :
    i <= j => /\ Depth(w, m.queue[i]) <= Depth(w, m.queue[j])
              /\ Depth(w, m.queue[j]) <= Depth(w, m.queue[1]) + 1
Layers87(w, m) ==
  m.queue # <<>> => \A n \in 0 .. Depth(w, m.queue[1]) : B87!Reached(w)[n] \subseteq m.visited
Ahead87(w, m) == w.end \in m.visited => w.end \in Items(m.queue)
Searching87(w, m) ==
  /\ Search87(w, m) /\ Depths87(w, m) /\ Last87(w, m) /\ Closed87(w, m) /\ Order87(w, m)
  /\ Layers87(w, m) /\ Ahead87(w, m)

LEMMA ItemsOfBoth ==
  ASSUME NEW S, NEW s \in Seq(S), NEW t \in Seq(S)
  PROVE  /\ s \o t \in Seq(S) /\ Len(s \o t) = Len(s) + Len(t)
         /\ Items(s \o t) = Items(s) \cup Items(t)
<1>1. Len(s \o t) = Len(s) + Len(t) /\ Len(s) \in Nat /\ Len(t) \in Nat
  OBVIOUS
<1>2. \A i \in 1 .. Len(s) : (s \o t)[i] = s[i] /\ i \in 1 .. Len(s) + Len(t)
  BY <1>1
<1>3. \A i \in 1 .. Len(t) : (s \o t)[Len(s) + i] = t[i] /\ Len(s) + i \in 1 .. Len(s) + Len(t)
  BY <1>1
<1>4. \A i \in 1 .. Len(s) + Len(t) :
        i \in 1 .. Len(s) \/ (i - Len(s) \in 1 .. Len(t) /\ (s \o t)[i] = t[i - Len(s)])
  BY <1>1
<1>5. Items(s) \cup Items(t) \subseteq Items(s \o t)
  BY <1>1, <1>2, <1>3 DEF Items
<1>6. Items(s \o t) \subseteq Items(s) \cup Items(t)
  BY <1>1, <1>2, <1>4 DEF Items
<1> QED BY <1>1, <1>5, <1>6

LEMMA SecondPart ==
  ASSUME NEW S, NEW s \in Seq(S), NEW t \in Seq(S), NEW i \in Len(s) + 1 .. Len(s) + Len(t)
  PROVE  (s \o t)[i] = t[i - Len(s)]
<1>1. Len(s) \in Nat /\ Len(t) \in Nat
  OBVIOUS
<1> QED BY <1>1

LEMMA ItemsOfTail ==
  ASSUME NEW S, NEW s \in Seq(S), s # <<>>
  PROVE  /\ Tail(s) \in Seq(S) /\ Len(Tail(s)) = Len(s) - 1
         /\ \A i \in 1 .. Len(s) - 1 : Tail(s)[i] = s[i + 1]
         /\ Items(Tail(s)) \subseteq Items(s) /\ Items(s) \subseteq {Head(s)} \cup Items(Tail(s))
<1>1. Tail(s) \in Seq(S) /\ Len(s) \in Nat /\ Len(s) # 0 /\ Len(Tail(s)) = Len(s) - 1
      /\ Head(s) = s[1]
  OBVIOUS
<1>2. \A i \in 1 .. Len(s) - 1 : Tail(s)[i] = s[i + 1] /\ i + 1 \in 1 .. Len(s)
  BY <1>1
<1>3. \A i \in 1 .. Len(s) : i = 1 \/ (i - 1 \in 1 .. Len(s) - 1 /\ Tail(s)[i - 1] = s[i])
  BY <1>1
<1>4. Items(Tail(s)) \subseteq Items(s)
  BY <1>1, <1>2 DEF Items
<1>5. Items(s) \subseteq {Head(s)} \cup Items(Tail(s))
  BY <1>1, <1>3 DEF Items
<1> QED BY <1>1, <1>2, <1>4, <1>5

LEMMA ThereAndBack ==
  ASSUME NEW c \in Int \X Int, NEW l \in Dirs
  PROVE  B87!BackFrom(B87!From(c, l), l) = c /\ B87!From(B87!BackFrom(c, l), l) = c
         /\ B87!From(c, l) \in Int \X Int /\ B87!BackFrom(c, l) \in Int \X Int
BY DEF B87!From, B87!BackFrom, B87!Step, Dirs

\* One cell is taken off the queue, and those next to it that are new are put on:
\* what the loop makes of m.
Expands87(w, m, new, cells, n) ==
  /\ m.queue # <<>> /\ Head(m.queue) # w.end
  /\ new \in Seq(Dirs)
  /\ \A l \in Dirs : l \in Items(new) <=>
       B87!From(Head(m.queue), l) \in B87!Cells \ (m.visited \cup w.walls)
  /\ cells = [i \in DOMAIN new |-> B87!From(Head(m.queue), new[i])]
  /\ n.queue = Tail(m.queue) \o cells /\ n.visited = m.visited \cup Items(cells)
  /\ n.last = [d \in B87!Cells |->
                 IF \E i \in DOMAIN new : cells[i] = d
                 THEN new[CHOOSE i \in DOMAIN new : cells[i] = d] ELSE m.last[d]]
  /\ n.at = m.at /\ n.path = m.path

LEMMA SearchKeeps ==
  ASSUME NEW w, NEW m, NEW new, NEW cells, NEW n, Searching87(w, m), Expands87(w, m, new, cells, n)
  PROVE  Searching87(w, n)
<1> DEFINE c == Head(m.queue)
           V == m.visited
           New == Items(cells)
           rest == Tail(m.queue)
           d0 == Depth(w, c)
<1>1. /\ w \in [real : SUBSET B87!Cells, walls : SUBSET B87!Cells, start : B87!Cells, end : B87!Cells]
      /\ w.walls = w.real \ {w.end} /\ w.start # w.end
      /\ m.queue \in Seq(B87!Cells) /\ Items(m.queue) \subseteq V
      /\ V \subseteq B87!Cells /\ V \subseteq Found(w) /\ w.start \in V
      /\ m.at = w.end /\ m.path = <<>>
  BY DEF Searching87, Search87
<1>0. Expands87(w, m, new, cells, n)
  OBVIOUS
<1>2. c \in V /\ c \in B87!Cells /\ c = m.queue[1] /\ 1 \in 1 .. Len(m.queue)
  BY <1>0, <1>1 DEF Items, Expands87
<1>3. B87!Open(w) = B87!Cells \ w.walls
  BY <1>1 DEF B87!Open
<1>4. \A d : d \in New <=> /\ d \in B87!Cells \ (V \cup w.walls) /\ \E l \in Dirs : d = B87!From(c, l)
  <2>1. DOMAIN new = 1 .. Len(new) /\ Len(cells) = Len(new) /\ \A i \in 1 .. Len(new) : new[i] \in Dirs
    BY <1>0 DEF Expands87
  <2>2. \A l \in Dirs : l \in Items(new) <=> B87!From(c, l) \in B87!Cells \ (V \cup w.walls)
    BY <1>0 DEF Expands87
  <2>3. New = {B87!From(c, new[i]) : i \in 1 .. Len(new)}
    <3>1. \A i \in 1 .. Len(new) : cells[i] = B87!From(c, new[i])
      BY <1>0, <2>1 DEF Expands87
    <3>2. New = {cells[i] : i \in 1 .. Len(new)}
      BY <2>1 DEF Items
    <3> HIDE DEF c, New
    <3> QED BY <3>1, <3>2
  <2> HIDE DEF c, V, New
  <2> QED BY <2>1, <2>2, <2>3 DEF Items
<1>5. cells \in Seq(B87!Cells)
  <2>1. \A i \in 1 .. Len(new) : cells[i] \in New /\ DOMAIN new = 1 .. Len(new) /\ Len(cells) = Len(new)
    BY <1>0 DEF Items, Expands87
  <2> HIDE DEF New
  <2>2. \A i \in 1 .. Len(new) : cells[i] \in B87!Cells
    BY <2>1, <1>4
  <2>3. cells = [i \in 1 .. Len(new) |-> cells[i]] /\ Len(new) \in Nat
    BY <1>0 DEF Expands87
  <2> QED BY <2>2, <2>3
<1>6. /\ rest \in Seq(B87!Cells) /\ Len(rest) = Len(m.queue) - 1
      /\ \A i \in 1 .. Len(m.queue) - 1 : rest[i] = m.queue[i + 1]
      /\ Items(rest) \subseteq Items(m.queue) /\ Items(m.queue) \subseteq {c} \cup Items(rest)
  BY <1>0, <1>1, ItemsOfTail DEF Expands87
<1>7. n.queue \in Seq(B87!Cells) /\ Items(n.queue) = Items(rest) \cup New
  <2>1. n.queue = rest \o cells
    BY <1>0 DEF Expands87
  <2> HIDE DEF c, V, rest
  <2> QED BY <2>1, <1>5, <1>6, ItemsOfBoth
<1>8. n.visited = V \cup New /\ New \subseteq B87!Cells \ V /\ New \subseteq B87!Open(w) /\ n.visited \subseteq B87!Cells
  BY <1>0, <1>1, <1>3, <1>4 DEF Expands87
<1>9. Size \in Nat /\ IsFiniteSet(V) /\ IsFiniteSet(n.visited)
      /\ Cardinality(V) \in Nat /\ Cardinality(n.visited) \in Nat
      /\ Cardinality(V) <= Cardinality(n.visited) /\ Cardinality(n.visited) <= Size
  <2>1. IsFiniteSet(B87!Cells) /\ Size \in Nat
    BY CellsFinite
  <2>2. IsFiniteSet(n.visited) /\ Cardinality(n.visited) <= Size
    BY <1>8, <2>1, FS_Subset, SizeIs
  <2>3. IsFiniteSet(V) /\ Cardinality(V) <= Cardinality(n.visited)
    BY <1>8, <2>2, FS_Subset
  <2> QED BY <2>1, <2>2, <2>3, FS_CardinalityType
<1>10. ASSUME NEW d \in New PROVE Cardinality(V) < Cardinality(n.visited)
  <2>1. V # n.visited /\ V \subseteq n.visited
    BY <1>8
  <2> QED BY <1>9, <2>1, FS_Subset
<1>11. d0 \in 0 .. Size /\ d0 < Cardinality(V) /\ \A k \in 0 .. d0 : B87!Reached(w)[k] \subseteq V
  <2>1. d0 \in 0 .. Size
    BY <1>1, <1>2, FoundAtDepth
  <2>2. d0 < Cardinality(V)
    BY <1>2 DEF Searching87, Depths87
  <2> QED BY <2>1, <2>2, <1>2 DEF Searching87, Layers87
<1> HIDE DEF c, V, New, rest, d0
<1>24. d0 \in Nat
  BY <1>11
<1>25. DOMAIN new = 1 .. Len(new) /\ Len(cells) = Len(new)
  BY <1>0 DEF Expands87
<1>12. ASSUME NEW d \in New
       PROVE  /\ d \in Found(w) /\ d0 + 1 \in 0 .. Size /\ Depth(w, d) = d0 + 1
              /\ Depth(w, d) < Cardinality(n.visited)
  <2>1. d0 + 1 \in 1 .. Size /\ d0 + 1 < Cardinality(n.visited)
    BY <1>9, <1>10, <1>11
  <2>2. c \in B87!Reached(w)[d0]
    BY <1>1, <1>2, <1>11, FoundAtDepth DEF d0
  <2>3. d \in B87!Near(w, B87!Reached(w)[d0])
    BY <1>4, <1>8, <2>2 DEF B87!Near, Dirs, B87!Step
  <2>4. d \in B87!Reached(w)[d0 + 1]
    <3>1. (d0 + 1) - 1 = d0
      BY <1>11
    <3> QED BY <2>1, <2>3, <3>1, ReachedSteps
  <2>5. \A k \in 0 .. Size : d \in B87!Reached(w)[k] => d0 + 1 <= k
    BY <1>8, <1>11
  <2>6. d \in Found(w)
    BY <2>1, <2>4 DEF Found
  <2>7. Depth(w, d) \in 0 .. Size /\ Depth(w, d) <= d0 + 1 /\ d \in B87!Reached(w)[Depth(w, d)]
    BY <2>1, <2>4, DepthLeast
  <2> QED BY <2>1, <2>5, <2>6, <2>7, <1>11
<1>13. \A e \in V : e \in Found(w) /\ Depth(w, e) \in 0 .. Size
  BY <1>1, FoundAtDepth
<1>14. Search87(w, n)
  BY <1>0, <1>1, <1>6, <1>7, <1>8, <1>12 DEF Search87, Expands87
<1>15. Depths87(w, n)
  <2> SUFFICES ASSUME NEW e \in n.visited PROVE Depth(w, e) < Cardinality(n.visited)
    BY DEF Depths87
  <2>1. CASE e \in New
    BY <2>1, <1>12
  <2>2. CASE e \in V
    <3>1. Depth(w, e) < Cardinality(V)
      BY <2>2 DEF Searching87, Depths87, V
    <3> QED BY <3>1, <2>2, <1>9, <1>13
  <2> QED BY <2>1, <2>2, <1>8
<1>16. Last87(w, n)
  <2>1. /\ m.last \in [B87!Cells -> Dirs \cup {""}]
        /\ \A e \in B87!Cells :
             IF e \in V \ {w.start}
             THEN /\ m.last[e] \in Dirs /\ B87!BackFrom(e, m.last[e]) \in V
                  /\ Depth(w, e) = Depth(w, B87!BackFrom(e, m.last[e])) + 1 /\ e \in B87!Open(w)
             ELSE m.last[e] = ""
    BY DEF Searching87, Last87, V
  <2>2. ASSUME NEW e \in B87!Cells, e \notin New PROVE n.last[e] = m.last[e]
    <3>1. ~ \E i \in DOMAIN new : cells[i] = e
      BY <2>2, <1>25 DEF New, Items
    <3> QED BY <1>0, <3>1 DEF Expands87
  <2>3. ASSUME NEW e \in New
        PROVE  n.last[e] \in Dirs /\ B87!From(c, n.last[e]) = e
    <3>1. \E i \in DOMAIN new : cells[i] = e
      BY <1>25 DEF New, Items
    <3> DEFINE i == CHOOSE i \in DOMAIN new : cells[i] = e
    <3>2. i \in DOMAIN new /\ cells[i] = e
      BY <3>1
    <3>3. n.last[e] = new[i]
      BY <1>0, <3>1, <1>8 DEF Expands87
    <3>4. cells[i] = B87!From(Head(m.queue), new[i]) /\ new[i] \in Dirs
      BY <1>0, <3>2 DEF Expands87
    <3> HIDE DEF i
    <3> QED BY <3>2, <3>3, <3>4 DEF c
  <2>4. ASSUME NEW e \in New
        PROVE  B87!BackFrom(e, n.last[e]) = c
    <3>1. c \in Int \X Int
      BY <1>2 DEF B87!Cells
    <3> QED BY <2>3, <3>1, ThereAndBack
  <2>5. n.last \in [B87!Cells -> Dirs \cup {""}]
    <3>1. \A e \in B87!Cells : n.last[e] \in Dirs \cup {""}
      BY <2>1, <2>2, <2>3
    <3> QED BY <1>0, <3>1 DEF Expands87
  <2>6. ASSUME NEW e \in B87!Cells
        PROVE  IF e \in n.visited \ {w.start}
               THEN /\ n.last[e] \in Dirs /\ B87!BackFrom(e, n.last[e]) \in n.visited
                    /\ Depth(w, e) = Depth(w, B87!BackFrom(e, n.last[e])) + 1 /\ e \in B87!Open(w)
               ELSE n.last[e] = ""
    <3>1. CASE e \in New
      <4>1. e \in n.visited \ {w.start} /\ e \in B87!Open(w) /\ c \in n.visited
        BY <3>1, <1>1, <1>2, <1>8
      <4>2. Depth(w, e) = Depth(w, c) + 1
        BY <3>1, <1>12 DEF d0
      <4> QED BY <3>1, <2>3, <2>4, <4>1, <4>2
    <3>2. CASE e \notin New
      <4>1. n.last[e] = m.last[e] /\ (e \in n.visited <=> e \in V)
        BY <3>2, <2>2, <1>8
      <4>2. B87!BackFrom(e, m.last[e]) \in V => B87!BackFrom(e, m.last[e]) \in n.visited
        BY <1>8
      <4> QED BY <2>1, <4>1, <4>2
    <3> QED BY <3>1, <3>2
  <2> QED BY <2>5, <2>6 DEF Last87
<1>17. Closed87(w, n)
  <2> SUFFICES ASSUME NEW e \in n.visited \ Items(n.queue), NEW l \in Dirs, B87!From(e, l) \in B87!Open(w)
               PROVE  B87!From(e, l) \in n.visited
    BY DEF Closed87
  <2>1. e \in V /\ e \notin Items(rest)
    BY <1>7, <1>8
  <2>2. CASE e = c
    BY <2>2, <1>3, <1>4, <1>8
  <2>3. CASE e # c
    <3>1. e \in V \ Items(m.queue)
      BY <2>1, <2>3, <1>6
    <3>2. B87!From(e, l) \in V
      BY <3>1 DEF Searching87, Closed87, V
    <3> QED BY <3>2, <1>8
  <2> QED BY <2>2, <2>3
<1>18. \A i \in 1 .. Len(m.queue) :
         /\ m.queue[i] \in V /\ Depth(w, m.queue[i]) \in Nat
         /\ d0 <= Depth(w, m.queue[i]) /\ Depth(w, m.queue[i]) <= d0 + 1
  <2>1. \A i \in 1 .. Len(m.queue) : m.queue[i] \in V
    BY <1>1 DEF Items
  <2>2. \A i \in 1 .. Len(m.queue) : 1 <= i
    OBVIOUS
  <2> QED BY <2>1, <2>2, <1>2, <1>13 DEF Searching87, Order87, d0
<1> DEFINE k == Len(rest)
<1>19. /\ Len(m.queue) \in Nat /\ k \in Nat /\ k = Len(m.queue) - 1
       /\ Len(cells) \in Nat /\ Len(n.queue) = k + Len(cells)
       /\ \A i \in 1 .. k : n.queue[i] = m.queue[i + 1] /\ i + 1 \in 1 .. Len(m.queue)
       /\ \A i \in k + 1 .. k + Len(cells) : n.queue[i] \in New
  <2>1. Len(m.queue) \in Nat /\ k \in Nat /\ k = Len(m.queue) - 1 /\ Len(cells) \in Nat
    BY <1>1, <1>5, <1>6
  <2>2. n.queue = rest \o cells
    BY <1>0 DEF rest, Expands87
  <2>3. Len(n.queue) = k + Len(cells)
    <3>1. Len(rest \o cells) = Len(rest) + Len(cells)
      BY <1>5, <1>6, ItemsOfBoth
    <3> QED BY <2>2, <3>1 DEF k
  <2>4. \A i \in 1 .. k : n.queue[i] = rest[i] /\ rest[i] = m.queue[i + 1] /\ i + 1 \in 1 .. Len(m.queue)
    BY <2>1, <2>2, <1>5, <1>6 DEF k
  <2>5. ASSUME NEW i \in k + 1 .. k + Len(cells) PROVE n.queue[i] \in New
    <3>1. i - k \in 1 .. Len(cells) /\ ~ (i <= k) /\ i \in 1 .. Len(rest) + Len(cells)
      BY <2>1 DEF k
    <3>2. n.queue[i] = cells[i - k]
      <4>1. i \in Len(rest) + 1 .. Len(rest) + Len(cells)
        BY DEF k
      <4> QED BY <2>2, <4>1, <1>5, <1>6, SecondPart DEF k
    <3> QED BY <3>1, <3>2 DEF New, Items
  <2> QED BY <2>1, <2>3, <2>4, <2>5
<1> HIDE DEF k
<1>20. \A i \in 1 .. Len(n.queue) :
         /\ Depth(w, n.queue[i]) \in Nat
         /\ d0 <= Depth(w, n.queue[i]) /\ Depth(w, n.queue[i]) <= d0 + 1
         /\ i > k => Depth(w, n.queue[i]) = d0 + 1
  <2> SUFFICES ASSUME NEW i \in 1 .. Len(n.queue)
               PROVE  /\ Depth(w, n.queue[i]) \in Nat
                      /\ d0 <= Depth(w, n.queue[i]) /\ Depth(w, n.queue[i]) <= d0 + 1
                      /\ i > k => Depth(w, n.queue[i]) = d0 + 1
    OBVIOUS
  <2>1. CASE i \in 1 .. k
    BY <2>1, <1>18, <1>19
  <2>2. CASE i \in k + 1 .. k + Len(cells)
    <3>1. n.queue[i] \in New
      BY <2>2, <1>19
    <3>2. Depth(w, n.queue[i]) = d0 + 1
      BY <3>1, <1>12
    <3> QED BY <3>2, <1>11
  <2> QED BY <2>1, <2>2, <1>19
<1>21. Order87(w, n)
  <2> SUFFICES ASSUME NEW i \in 1 .. Len(n.queue), NEW j \in 1 .. Len(n.queue), i <= j
               PROVE  /\ Depth(w, n.queue[i]) <= Depth(w, n.queue[j])
                      /\ Depth(w, n.queue[j]) <= Depth(w, n.queue[1]) + 1
    BY DEF Order87
  <2>1. 1 \in 1 .. Len(n.queue)
    BY <1>19
  <2>2. Depth(w, n.queue[j]) <= Depth(w, n.queue[1]) + 1
    <3>1. /\ Depth(w, n.queue[j]) \in Nat /\ Depth(w, n.queue[j]) <= d0 + 1
          /\ Depth(w, n.queue[1]) \in Nat /\ d0 <= Depth(w, n.queue[1])
      BY <2>1, <1>20
    <3> QED BY <3>1, <1>24
  <2>3. CASE j > k
    BY <2>3, <2>2, <1>11, <1>20
  <2>4. CASE j <= k
    <3>1. i \in 1 .. k /\ j \in 1 .. k /\ i + 1 <= j + 1
      BY <2>4, <1>19
    <3>2. Depth(w, m.queue[i + 1]) <= Depth(w, m.queue[j + 1])
      BY <3>1, <1>19 DEF Searching87, Order87
    <3> QED BY <3>1, <3>2, <2>2, <1>19
  <2> QED BY <2>3, <2>4, <1>19
<1>22. Layers87(w, n)
  <2> SUFFICES ASSUME n.queue # <<>>, NEW a \in 0 .. Depth(w, n.queue[1])
               PROVE  B87!Reached(w)[a] \subseteq n.visited
    BY DEF Layers87
  <2>1. 1 \in 1 .. Len(n.queue)
    BY <1>7
  <2>2. a \in 0 .. d0 \/ (a = d0 + 1 /\ Depth(w, n.queue[1]) = d0 + 1)
    <3>1. /\ Depth(w, n.queue[1]) \in Nat /\ d0 <= Depth(w, n.queue[1])
          /\ Depth(w, n.queue[1]) <= d0 + 1
      BY <2>1, <1>20
    <3> QED BY <3>1, <1>24
  <2>3. CASE a \in 0 .. d0
    BY <2>3, <1>8, <1>11
  <2>4. CASE a = d0 + 1 /\ Depth(w, n.queue[1]) = d0 + 1
    <3> SUFFICES ASSUME NEW e \in B87!Reached(w)[a], e \notin n.visited PROVE FALSE
      OBVIOUS
    <3>0. d0 + 1 \in 1 .. Size
      <4>1. n.queue[1] \in n.visited
        BY <2>1, <1>14 DEF Search87, Items
      <4>2. n.queue[1] \in Found(w)
        BY <4>1, <1>14 DEF Search87
      <4> QED BY <2>4, <4>2, <1>11, FoundAtDepth
    <3>1. e \in B87!Near(w, B87!Reached(w)[d0])
      <4>1. (d0 + 1) - 1 = d0
        BY <1>11
      <4> QED BY <2>4, <3>0, <4>1, ReachedSteps
    <3>2. B87!Reached(w)[d0] \subseteq V /\ d0 \in 0 .. Size
      BY <1>11
    <3>3. PICK p \in B87!Reached(w)[d0], l \in Dirs : e = B87!From(p, l) /\ e \in B87!Open(w)
      BY <3>1, <3>2, <1>8 DEF B87!Near, Dirs, B87!Step
    <3>4. p \in n.visited
      BY <3>2, <1>8
    <3>5. p \in Items(n.queue)
      BY <3>3, <3>4, <1>17 DEF Closed87
    <3>6. PICK i \in 1 .. Len(n.queue) : n.queue[i] = p
      BY <3>5 DEF Items
    <3>7. Depth(w, n.queue[1]) <= Depth(w, p)
      <4>1. 1 <= i
        OBVIOUS
      <4>2. Depth(w, n.queue[1]) <= Depth(w, n.queue[i])
        BY <2>1, <4>1, <1>21 DEF Order87
      <4> QED BY <3>6, <4>2
    <3>8. Depth(w, p) <= d0
      BY <3>2, DepthLeast
    <3>9. Depth(w, p) \in Nat
      BY <3>6, <1>20
    <3> QED BY <2>4, <3>7, <3>8, <3>9, <1>11
  <2> QED BY <2>2, <2>3, <2>4
<1>23. Ahead87(w, n)
  <2> SUFFICES ASSUME w.end \in n.visited PROVE w.end \in Items(n.queue)
    BY DEF Ahead87
  <2>1. CASE w.end \in New
    BY <2>1, <1>7
  <2>2. CASE w.end \in V
    <3>1. w.end \in Items(m.queue)
      BY <2>2 DEF Searching87, Ahead87, V
    <3> QED BY <3>1, <1>0, <1>6, <1>7 DEF c, Expands87
  <2> QED BY <2>1, <2>2, <1>8
<1> QED BY <1>14, <1>15, <1>16, <1>17, <1>21, <1>22, <1>23 DEF Searching87

\* A way that leads on, cell by cell, to the end.
Leads87(w, at, path, g) ==
  /\ g \in [0 .. Len(path) -> B87!Cells] /\ g[0] = at /\ g[Len(path)] = w.end
  /\ \A n \in 1 .. Len(path) : g[n] = B87!From(g[n - 1], path[n])
  /\ \A n \in 1 .. Len(path) - 1 : g[n] \in B87!Cells \ w.real

\* What the way back knows.
Returning87(w, m) ==
  /\ w \in [real : SUBSET B87!Cells, walls : SUBSET B87!Cells, start : B87!Cells, end : B87!Cells]
  /\ w.walls = w.real \ {w.end} /\ w.start # w.end
  /\ m.visited \subseteq B87!Cells \cap Found(w) /\ w.start \in m.visited /\ Last87(w, m)
  /\ m.path \in Seq(Dirs)
  /\ IF w.end \in m.visited
     THEN /\ m.at \in m.visited \ {w.start}
          /\ Depth(w, m.at) + Len(m.path) = Depth(w, w.end)
          /\ \E g : Leads87(w, m.at, m.path, g)
     ELSE w.end \notin Found(w) /\ m.at = w.end /\ m.path = <<>>

Fields87 == {"queue", "visited", "last", "at", "path"}
Inv87Paths ==
  \/ pc = "search" /\ DOMAIN my = Fields87 /\ Searching87(world, my)
  \/ pc = "back" /\ DOMAIN my = Fields87 /\ Returning87(world, my)
  \/ pc = "done" /\ B87!Shortest(world, my.path)

\* A way that leads from the start to the end is one that arrives.
LEMMA LeadsArrives ==
  ASSUME NEW w, NEW path, Len(path) \in Nat, NEW g, Leads87(w, w.start, path, g)
  PROVE  B87!Arrives(w, path)
<1> DEFINE Solves(h) ==
             h = [n \in 0 .. Len(path) |-> IF n = 0 THEN w.start ELSE B87!From(h[n - 1], path[n])]
           Along == CHOOSE h : Solves(h)
<1>1. Solves(g)
  <2>1. \A n \in 0 .. Len(path) : g[n] = IF n = 0 THEN w.start ELSE B87!From(g[n - 1], path[n])
    BY DEF Leads87
  <2>2. g = [n \in 0 .. Len(path) |-> g[n]]
    BY DEF Leads87
  <2>3. [n \in 0 .. Len(path) |-> g[n]]
          = [n \in 0 .. Len(path) |-> IF n = 0 THEN w.start ELSE B87!From(g[n - 1], path[n])]
    BY <2>1, Zenon
  <2> QED BY <2>2, <2>3, Zenon
<1>2. Solves(Along)
  <2> HIDE DEF Solves
  <2> QED BY <1>1
<1> HIDE DEF Along
<1> DEFINE T == {n \in 0 .. Len(path) : Along[n] # g[n]}
<1>3. \A n \in 0 .. Len(path) : Along[n] = IF n = 0 THEN w.start ELSE B87!From(Along[n - 1], path[n])
  BY <1>2, Zenon
<1>4. T = {}
  <2> SUFFICES ASSUME T # {} PROVE FALSE
    OBVIOUS
  <2>1. PICK m \in T : \A n \in T : m <= n
    <3>1. T \subseteq Nat
      OBVIOUS
    <3> HIDE DEF T
    <3> QED BY <3>1, LeastNumber
  <2>2. m \in 0 .. Len(path) /\ Along[m] # g[m]
    OBVIOUS
  <2>3. m # 0
    BY <1>3, <2>2 DEF Leads87
  <2>4. m \in 1 .. Len(path) /\ m - 1 \in 0 .. Len(path) /\ ~ (m <= m - 1)
    <3> HIDE DEF T
    <3> QED BY <2>2, <2>3
  <2>5. Along[m - 1] = g[m - 1]
    <3>1. m - 1 \notin T
      <4> HIDE DEF T
      <4> QED BY <2>1, <2>4
    <3> QED BY <2>4, <3>1
  <2>6. Along[m] = B87!From(Along[m - 1], path[m])
    BY <1>3, <2>2, <2>3
  <2>7. g[m] = B87!From(g[m - 1], path[m])
    BY <2>4 DEF Leads87
  <2> QED BY <2>2, <2>5, <2>6, <2>7
<1>5. \A n \in 0 .. Len(path) : Along[n] = g[n]
  BY <1>4
<1>6. Along[Len(path)] = w.end /\ \A n \in 1 .. Len(path) - 1 : Along[n] \in B87!Cells \ w.real
  BY <1>5 DEF Leads87
<1> QED BY <1>6 DEF B87!Arrives, Along

\* What is reached does not depend on whether the end is a wall in the map.
LEMMA ReachedSame ==
  ASSUME NEW w, NEW v, v.start = w.start, v.real = w.real, v.end = w.end
  PROVE  \A n \in 0 .. Size : B87!Reached(v)[n] = B87!Reached(w)[n]
<1> DEFINE T == {n \in 0 .. Size : B87!Reached(v)[n] # B87!Reached(w)[n]}
<1>1. \A cells : B87!Near(v, cells) = B87!Near(w, cells)
  BY DEF B87!Near, B87!Open
<1>2. T = {}
  <2> SUFFICES ASSUME T # {} PROVE FALSE
    OBVIOUS
  <2>1. PICK m \in T : \A n \in T : m <= n
    <3>1. T \subseteq Nat
      OBVIOUS
    <3> HIDE DEF T
    <3> QED BY <3>1, LeastNumber
  <2>2. m \in 0 .. Size /\ B87!Reached(v)[m] # B87!Reached(w)[m]
    OBVIOUS
  <2>3. m # 0
    BY <2>2, ReachedSteps
  <2>4. m \in 1 .. Size /\ m - 1 \in 0 .. Size /\ ~ (m <= m - 1)
    <3> HIDE DEF T
    <3> QED BY <2>2, <2>3, CellsFinite
  <2>5. B87!Reached(v)[m - 1] = B87!Reached(w)[m - 1]
    <3>1. m - 1 \notin T
      <4> HIDE DEF T
      <4> QED BY <2>1, <2>4
    <3> QED BY <2>4, <3>1
  <2> QED BY <1>1, <2>2, <2>4, <2>5, ReachedSteps
<1> QED BY <1>2

\* With nothing left in the queue nothing is left to be found.
LEMMA AllVisited ==
  ASSUME NEW w, NEW m, Search87(w, m), Closed87(w, m), m.queue = <<>>
  PROVE  Found(w) \subseteq m.visited
<1> DEFINE T == {n \in 0 .. Size : ~ (B87!Reached(w)[n] \subseteq m.visited)}
<1>1. T = {}
  <2> SUFFICES ASSUME T # {} PROVE FALSE
    OBVIOUS
  <2>1. PICK k \in T : \A n \in T : k <= n
    <3>1. T \subseteq Nat
      OBVIOUS
    <3> HIDE DEF T
    <3> QED BY <3>1, LeastNumber
  <2>2. k \in 0 .. Size /\ ~ (B87!Reached(w)[k] \subseteq m.visited)
    OBVIOUS
  <2>3. k # 0
    BY <2>2, ReachedSteps DEF Search87
  <2>4. k \in 1 .. Size /\ k - 1 \in 0 .. Size /\ ~ (k <= k - 1)
    <3> HIDE DEF T
    <3> QED BY <2>2, <2>3, CellsFinite
  <2>5. B87!Reached(w)[k - 1] \subseteq m.visited
    <3>1. k - 1 \notin T
      <4> HIDE DEF T
      <4> QED BY <2>1, <2>4
    <3> QED BY <2>4, <3>1
  <2>6. B87!Reached(w)[k] = B87!Near(w, B87!Reached(w)[k - 1])
    BY <2>4, ReachedSteps
  <2>7. Items(m.queue) = {}
    BY DEF Items
  <2>8. B87!Near(w, B87!Reached(w)[k - 1]) \subseteq m.visited
    BY <2>5, <2>7 DEF B87!Near, Closed87, Dirs, B87!Step
  <2> QED BY <2>2, <2>6, <2>8
<1> QED BY <1>1 DEF Found

LEMMA SearchEnds ==
  ASSUME NEW w, NEW m, Searching87(w, m), m.queue = <<>> \/ Head(m.queue) = w.end
  PROVE  Returning87(w, m)
<1>1. Search87(w, m) /\ Last87(w, m) /\ Closed87(w, m) /\ Ahead87(w, m)
  BY DEF Searching87
<1>2. /\ w \in [real : SUBSET B87!Cells, walls : SUBSET B87!Cells, start : B87!Cells, end : B87!Cells]
      /\ w.walls = w.real \ {w.end} /\ w.start # w.end
      /\ m.visited \subseteq B87!Cells \cap Found(w) /\ w.start \in m.visited
      /\ m.at = w.end /\ m.path = <<>> /\ m.path \in Seq(Dirs) /\ Len(m.path) = 0
  BY <1>1 DEF Search87
<1>3. CASE w.end \in m.visited
  <2> DEFINE g == [n \in 0 .. 0 |-> w.end]
  <2>1. Leads87(w, m.at, m.path, g)
    BY <1>2 DEF Leads87
  <2>2. Depth(w, w.end) \in Nat
    BY <1>2, <1>3, FoundAtDepth
  <2> HIDE DEF g
  <2>3. \E h : Leads87(w, m.at, m.path, h)
    BY <2>1
  <2>4. Depth(w, m.at) + Len(m.path) = Depth(w, w.end) /\ m.at \in m.visited \ {w.start}
    BY <1>2, <1>3, <2>2
  <2> QED BY <1>1, <1>2, <1>3, <2>3, <2>4 DEF Returning87
<1>4. CASE w.end \notin m.visited
  <2>1. m.queue = <<>>
    <3>1. m.queue # <<>> => Head(m.queue) \in Items(m.queue)
      BY <1>1 DEF Search87, Items
    <3> QED BY <1>1, <1>4, <3>1 DEF Search87
  <2>2. w.end \notin Found(w)
    BY <1>1, <1>4, <2>1, AllVisited
  <2> QED BY <1>1, <1>2, <1>4, <2>2 DEF Returning87
<1> QED BY <1>3, <1>4

\* One letter of the way back.
LEMMA BackOne ==
  ASSUME NEW w, NEW m, Returning87(w, m), w.end \in m.visited
  PROVE  LET l == m.last[m.at]
             p == B87!BackFrom(m.at, l)
             path == <<l>> \o m.path
         IN /\ l \in Dirs /\ p \in m.visited /\ path \in Seq(Dirs) /\ Len(path) \in Nat
            /\ Depth(w, p) + Len(path) = Depth(w, w.end)
            /\ \E g : Leads87(w, p, path, g)
<1> DEFINE l == m.last[m.at]
           p == B87!BackFrom(m.at, l)
           path == <<l>> \o m.path
<1>1. /\ w.real \subseteq B87!Cells /\ w.end \in B87!Cells /\ w.start \in B87!Cells
      /\ m.visited \subseteq B87!Cells \cap Found(w) /\ w.start \in m.visited
      /\ m.path \in Seq(Dirs) /\ m.at \in m.visited \ {w.start} /\ m.at \in B87!Cells
      /\ Depth(w, m.at) + Len(m.path) = Depth(w, w.end)
  BY DEF Returning87
<1>2. /\ l \in Dirs /\ p \in m.visited /\ Depth(w, m.at) = Depth(w, p) + 1 /\ m.at \in B87!Open(w)
  BY <1>1 DEF Returning87, Last87
<1>3. Depth(w, m.at) \in Nat /\ Depth(w, p) \in Nat /\ Depth(w, w.end) \in Nat
  BY <1>1, <1>2, FoundAtDepth
<1>4. PICK g : Leads87(w, m.at, m.path, g)
  BY DEF Returning87
<1>5. m.at = B87!From(p, l)
  <2>1. m.at \in Int \X Int
    BY <1>1 DEF B87!Cells
  <2> QED BY <1>2, <2>1, ThereAndBack
<1> HIDE DEF l, p
<1>6. /\ Len(m.path) \in Nat /\ path \in Seq(Dirs) /\ Len(path) = Len(m.path) + 1 /\ path[1] = l
      /\ \A n \in 1 .. Len(m.path) : path[n + 1] = m.path[n]
  BY <1>1, <1>2
<1> DEFINE k == Len(m.path)
           h == [n \in 0 .. k + 1 |-> IF n = 0 THEN p ELSE g[n - 1]]
<1> HIDE DEF path
<1>7. Len(path) = k + 1 /\ k \in Nat
  BY <1>6
<1>8. h \in [0 .. k + 1 -> B87!Cells] /\ h[0] = p /\ h[k + 1] = w.end
  <2>1. g \in [0 .. k -> B87!Cells] /\ g[k] = w.end
    BY <1>4 DEF Leads87
  <2>2. p \in B87!Cells
    BY <1>1, <1>2
  <2> HIDE DEF k
  <2>3. \A n \in 0 .. k + 1 : n # 0 => n - 1 \in 0 .. k
    BY <1>7
  <2>4. 0 \in 0 .. k + 1 /\ k + 1 \in 0 .. k + 1 /\ k + 1 # 0 /\ (k + 1) - 1 = k
    BY <1>7
  <2> QED BY <2>1, <2>2, <2>3, <2>4
<1>9. ASSUME NEW n \in 1 .. k + 1 PROVE h[n] = B87!From(h[n - 1], path[n])
  <2>1. h[n] = g[n - 1]
    BY <1>7
  <2>2. CASE n = 1
    <3>1. h[n] = m.at /\ h[n - 1] = p
      BY <2>1, <2>2, <1>4, <1>8 DEF Leads87
    <3> QED BY <3>1, <2>2, <1>5, <1>6
  <2>3. CASE n # 1
    <3>1. n - 1 \in 1 .. k /\ h[n - 1] = g[n - 2] /\ (n - 1) - 1 = n - 2 /\ (n - 1) + 1 = n
      BY <2>3, <1>7
    <3>2. g[n - 1] = B87!From(g[n - 2], m.path[n - 1])
      BY <3>1, <1>4 DEF Leads87
    <3>3. path[n] = m.path[n - 1]
      BY <3>1, <1>6
    <3> QED BY <2>1, <3>1, <3>2, <3>3
  <2> QED BY <2>2, <2>3
<1>10. ASSUME NEW n \in 1 .. k PROVE h[n] \in B87!Cells \ w.real
  <2>1. h[n] = g[n - 1]
    BY <1>7
  <2>2. CASE n = 1
    <3>1. h[n] = m.at
      BY <2>1, <2>2, <1>4 DEF Leads87
    <3>2. m.at # w.end
      BY <1>1, <1>3, <1>7, <2>2
    <3> QED BY <3>1, <3>2, <1>2 DEF B87!Open
  <2>3. CASE n # 1
    <3>1. n - 1 \in 1 .. k - 1
      BY <2>3, <1>7
    <3> QED BY <2>1, <3>1, <1>4 DEF Leads87
  <2> QED BY <2>2, <2>3
<1>11. Leads87(w, p, path, h)
  <2>1. (k + 1) - 1 = k
    BY <1>7
  <2> HIDE DEF h, k
  <2> QED BY <1>7, <1>8, <1>9, <1>10, <2>1 DEF Leads87
<1>12. Depth(w, p) + Len(path) = Depth(w, w.end)
  BY <1>1, <1>2, <1>3, <1>7
<1> HIDE DEF h, k
<1> QED BY <1>2, <1>6, <1>11, <1>12 DEF l, p, path

LEMMA BackDone ==
  ASSUME NEW w, NEW m, Returning87(w, m), w.end \in m.visited,
         B87!BackFrom(m.at, m.last[m.at]) = w.start,
         NEW v, v = [w EXCEPT !.walls = w.real]
  PROVE  B87!Shortest(v, <<m.last[m.at]>> \o m.path)
<1> DEFINE path == <<m.last[m.at]>> \o m.path
<1>1. /\ w \in [real : SUBSET B87!Cells, walls : SUBSET B87!Cells, start : B87!Cells, end : B87!Cells]
      /\ w.start # w.end /\ w.end \in Found(w)
  BY DEF Returning87
<1>2. v.start = w.start /\ v.end = w.end /\ v.real = w.real /\ v.walls = w.real
  BY <1>1
<1>3. /\ Len(path) \in Nat /\ Depth(w, w.start) + Len(path) = Depth(w, w.end)
      /\ \E g : Leads87(w, w.start, path, g)
  BY BackOne
<1> HIDE DEF path
<1>4. PICK g : Leads87(v, v.start, path, g)
  <2>1. PICK g : Leads87(w, w.start, path, g)
    BY <1>3
  <2>2. Leads87(v, v.start, path, g)
    BY <1>2, <2>1 DEF Leads87
  <2> QED BY <2>2
<1>5. B87!Arrives(v, path)
  BY <1>3, <1>4, LeadsArrives
<1>6. Depth(w, w.start) = 0 /\ Depth(w, w.end) \in 0 .. Size /\ Depth(w, w.end) # 0
  BY <1>1, StartAtNought, FoundAtDepth
<1>7. Len(path) \in 1 .. Size /\ Len(path) = Depth(w, w.end)
  BY <1>3, <1>6, CellsFinite
<1>8. Size \in 0 .. Size /\ Len(path) - 1 \in 0 .. Size /\ ~ (Len(path) <= Len(path) - 1)
  BY <1>7, CellsFinite
<1>9. w.end \in B87!Reached(w)[Size] /\ w.end \notin B87!Reached(w)[Len(path) - 1]
  BY <1>1, <1>6, <1>7, <1>8, FoundAtDepth
<1>10. v.end \in B87!Reached(v)[Size] /\ v.end \notin B87!Reached(v)[Len(path) - 1]
  <2>1. \A n \in 0 .. Size : B87!Reached(v)[n] = B87!Reached(w)[n]
    BY <1>2, ReachedSame
  <2> QED BY <1>2, <1>8, <1>9, <2>1
<1>11. B87!Shortest(v, path)
  BY <1>1, <1>2, <1>5, <1>10 DEF B87!Shortest, Size
<1> QED BY <1>11 DEF path

LEMMA NoneIsThere ==
  ASSUME NEW w, NEW m, Returning87(w, m), w.end \notin m.visited
  PROVE  m.last[m.at] = "" /\ B87!Shortest(w, <<"U">>)
<1>1. w.end \in B87!Cells /\ w.end \notin Found(w) /\ m.at = w.end /\ w.walls = w.real \ {w.end}
  BY DEF Returning87
<1>2. m.last[m.at] = ""
  BY <1>1 DEF Returning87, Last87
<1>3. w.end \notin B87!Reached(w)[Size]
  <2>1. Size \in 0 .. Size
    BY CellsFinite
  <2> QED BY <1>1, <2>1 DEF Found
<1> QED BY <1>1, <1>2, <1>3 DEF B87!Shortest, Size

\* The letters that a cell offers.
LEMMA Expanded ==
  ASSUME NEW c
  PROVE  /\ B87!Expand(c) \in Seq(Dirs)
         /\ \A l \in Dirs : l \in Items(B87!Expand(c)) <=>
              B87!From(c, l) \in B87!Cells \ (my.visited \cup world.walls)
<1> DEFINE New(l) == B87!From(c, l) \in B87!Cells \ (my.visited \cup world.walls)
<1>1. ASSUME NEW l \in Dirs
      PROVE  B87!Offer(c, l) \in Seq(Dirs) /\ Items(B87!Offer(c, l)) = IF New(l) THEN {l} ELSE {}
  <2>1. CASE New(l)
    <3>1. B87!Offer(c, l) = <<l>>
      BY <2>1 DEF B87!Offer
    <3>2. Items(<<l>>) = {l} /\ <<l>> \in Seq(Dirs)
      BY DEF Items
    <3> QED BY <2>1, <3>1, <3>2
  <2>2. CASE ~ New(l)
    <3>1. B87!Offer(c, l) = <<>>
      BY <2>2 DEF B87!Offer
    <3>2. Items(<<>>) = {} /\ <<>> \in Seq(Dirs)
      BY DEF Items
    <3> QED BY <2>2, <3>1, <3>2
  <2> QED BY <2>1, <2>2
<1> HIDE DEF New
<1>2. "R" \in Dirs /\ "L" \in Dirs /\ "U" \in Dirs /\ "D" \in Dirs
  BY DEF Dirs
<1> DEFINE a == B87!Offer(c, "R")
           b == B87!Offer(c, "L")
           d == B87!Offer(c, "U")
           e == B87!Offer(c, "D")
<1>3. a \in Seq(Dirs) /\ b \in Seq(Dirs) /\ d \in Seq(Dirs) /\ e \in Seq(Dirs)
  BY <1>1, <1>2
<1>4. /\ Items(a) = (IF New("R") THEN {"R"} ELSE {}) /\ Items(b) = (IF New("L") THEN {"L"} ELSE {})
      /\ Items(d) = (IF New("U") THEN {"U"} ELSE {}) /\ Items(e) = (IF New("D") THEN {"D"} ELSE {})
  BY <1>1, <1>2
<1> DEFINE ab == a \o b
           abd == ab \o d
<1>5. B87!Expand(c) = abd \o e
  BY DEF B87!Expand
<1> HIDE DEF a, b, d, e
<1>6. ab \in Seq(Dirs) /\ Items(ab) = Items(a) \cup Items(b)
  BY <1>3, ItemsOfBoth
<1> HIDE DEF ab
<1>7. abd \in Seq(Dirs) /\ Items(abd) = Items(ab) \cup Items(d)
  BY <1>3, <1>6, ItemsOfBoth
<1> HIDE DEF abd
<1>8. B87!Expand(c) \in Seq(Dirs) /\ Items(B87!Expand(c)) = Items(abd) \cup Items(e)
  BY <1>3, <1>5, <1>7, ItemsOfBoth
<1>9. \A l \in Dirs : l \in Items(B87!Expand(c)) <=> New(l)
  BY <1>4, <1>6, <1>7, <1>8 DEF Dirs
<1> QED BY <1>8, <1>9 DEF New

LEMMA Init87Paths == B87!Init => Inv87Paths
<1> SUFFICES ASSUME B87!Init PROVE Inv87Paths
  OBVIOUS
<1>1. PICK real \in SUBSET B87!Cells, start \in B87!Cells, end \in B87!Cells :
    /\ world = [real |-> real, walls |-> real \ {end}, start |-> start, end |-> end]
    /\ my = [queue |-> <<start>>, visited |-> {start}, last |-> [c \in B87!Cells |-> ""],
             at |-> end, path |-> IF start = end THEN <<"U">> ELSE <<>>]
    /\ pc = IF start = end THEN "done" ELSE "search"
  BY DEF B87!Init
<1>2. CASE start = end
  BY <1>1, <1>2 DEF Inv87Paths, B87!Shortest
<1>3. CASE start # end
  <2>1. /\ world \in [real : SUBSET B87!Cells, walls : SUBSET B87!Cells, start : B87!Cells, end : B87!Cells]
        /\ world.walls = world.real \ {world.end} /\ world.start = start /\ world.end = end
        /\ my.queue = <<start>> /\ my.visited = {start} /\ my.last = [c \in B87!Cells |-> ""]
        /\ my.at = end /\ my.path = <<>> /\ DOMAIN my = Fields87
    BY <1>1, <1>3 DEF Fields87
  <2>2. start \in Found(world) /\ Depth(world, start) = 0
    BY <2>1, StartAtNought
  <2>3. Items(my.queue) = {start} /\ my.queue \in Seq(B87!Cells) /\ Len(my.queue) = 1 /\ my.queue[1] = start
    <3>1. <<start>> \in Seq(B87!Cells) /\ Len(<<start>>) = 1 /\ <<start>>[1] = start
      OBVIOUS
    <3>2. Items(<<start>>) = {start}
      BY <3>1 DEF Items
    <3> QED BY <2>1, <3>1, <3>2
  <2>4. Search87(world, my)
    BY <1>3, <2>1, <2>2, <2>3 DEF Search87
  <2>5. Depths87(world, my)
    <3>1. Cardinality({start}) = 1
      BY FS_Singleton
    <3>2. Cardinality(my.visited) = 1
      BY <2>1, <3>1
    <3>3. \A c \in my.visited : Depth(world, c) = 0
      BY <2>1, <2>2
    <3> QED BY <3>2, <3>3 DEF Depths87
  <2>6. Last87(world, my)
    BY <2>1 DEF Last87
  <2>7. Closed87(world, my)
    BY <2>1, <2>3 DEF Closed87
  <2>8. Order87(world, my)
    BY <2>2, <2>3 DEF Order87
  <2>9. Layers87(world, my)
    <3>1. B87!Reached(world)[0] = {start}
      BY <2>1, ReachedSteps, CellsFinite
    <3>2. my.queue # <<>> /\ Depth(world, my.queue[1]) = 0
      BY <2>2, <2>3
    <3>3. B87!Reached(world)[0] \subseteq my.visited
      BY <2>1, <3>1
    <3>4. \A n \in 0 .. 0 : n = 0
      OBVIOUS
    <3>5. \A n \in 0 .. 0 : B87!Reached(world)[n] \subseteq my.visited
      BY <3>3, <3>4, Zenon
    <3> QED BY <3>2, <3>5 DEF Layers87
  <2>10. Ahead87(world, my)
    BY <1>3, <2>1 DEF Ahead87
  <2> QED BY <1>1, <1>3, <2>1, <2>4, <2>5, <2>6, <2>7, <2>8, <2>9, <2>10 DEF Inv87Paths, Searching87
<1> QED BY <1>2, <1>3

LEMMA Next87Paths ==
  ASSUME Inv87Paths, B87!Next
  PROVE  Inv87Paths'
<1>1. CASE B87!Search
  <2>1. pc = "search" /\ DOMAIN my = Fields87 /\ Searching87(world, my) /\ world' = world
    BY <1>1 DEF B87!Search, Inv87Paths
  <2>2. CASE my.queue = <<>> \/ Head(my.queue) = world.end
    <3>1. pc' = "back" /\ my' = my
      BY <1>1, <2>2 DEF B87!Search
    <3>2. Returning87(world, my)
      BY <2>1, <2>2, SearchEnds
    <3> QED BY <2>1, <3>1, <3>2 DEF Inv87Paths
  <2>3. CASE my.queue # <<>> /\ Head(my.queue) # world.end
    <3> DEFINE c == Head(my.queue)
               new == B87!Expand(c)
               cells == [i \in DOMAIN new |-> B87!From(c, new[i])]
               last == [d \in B87!Cells |->
                     IF \E i \in DOMAIN new : cells[i] = d
                     THEN new[CHOOSE i \in DOMAIN new : cells[i] = d] ELSE my.last[d]]
    <3>1. pc' = "search" /\ my' = [my EXCEPT !.queue = Tail(@) \o cells,
              !.visited = @ \cup {cells[i] : i \in DOMAIN cells}, !.last = last]
      BY <1>1, <2>1, <2>3 DEF B87!Search, B87!Enqueue
    <3>2. new \in Seq(Dirs) /\ \A l \in Dirs : l \in Items(new) <=>
              B87!From(c, l) \in B87!Cells \ (my.visited \cup world.walls)
      BY Expanded
    <3>3. {cells[i] : i \in DOMAIN cells} = Items(cells)
      <4>1. cells = [i \in 1 .. Len(new) |-> cells[i]] /\ Len(new) \in Nat
        <5> HIDE DEF new
        <5> QED BY <3>2
      <4> HIDE DEF cells
      <4>2. DOMAIN cells = 1 .. Len(new) /\ Len(cells) = Len(new)
        BY <4>1
      <4> QED BY <4>2 DEF Items
    <3> HIDE DEF last
    <3>4. /\ my'.queue = Tail(my.queue) \o cells /\ my'.visited = my.visited \cup Items(cells)
          /\ my'.last = last /\ my'.at = my.at /\ my'.path = my.path /\ DOMAIN my' = Fields87
      <4> HIDE DEF new, cells, c
      <4> QED BY <2>1, <3>1, <3>3 DEF Fields87
    <3>5. Expands87(world, my, new, cells, my')
      <4> HIDE DEF new
      <4> QED BY <2>3, <3>2, <3>4 DEF Expands87, last
    <3> HIDE DEF new, cells
    <3>6. Searching87(world, my')
      BY <2>1, <3>5, SearchKeeps
    <3> QED BY <2>1, <3>1, <3>4, <3>6 DEF Inv87Paths
  <2> QED BY <2>2, <2>3
<1>2. CASE B87!Back
  <2> DEFINE l == my.last[my.at]
             path == <<l>> \o my.path
             p == B87!BackFrom(my.at, l)
  <2>1. pc = "back" /\ DOMAIN my = Fields87 /\ Returning87(world, my)
    BY <1>2 DEF B87!Back, Inv87Paths
  <2>2. CASE world.end \notin my.visited
    <3>1. l = "" /\ B87!Shortest(world, <<"U">>)
      BY <2>1, <2>2, NoneIsThere
    <3>2. pc' = "done" /\ my' = [my EXCEPT !.path = <<"U">>] /\ world' = world
      BY <1>2, <3>1 DEF B87!Back
    <3>3. my'.path = <<"U">>
      BY <2>1, <3>2 DEF Fields87
    <3> QED BY <3>1, <3>2, <3>3 DEF Inv87Paths
  <2>3. CASE world.end \in my.visited
    <3>1. /\ l \in Dirs /\ p \in my.visited /\ path \in Seq(Dirs)
          /\ Depth(world, p) + Len(path) = Depth(world, world.end)
          /\ \E g : Leads87(world, p, path, g)
      BY <2>1, <2>3, BackOne
    <3>2. l # ""
      BY <3>1 DEF Dirs
    <3>3. my' = [my EXCEPT !.path = path, !.at = p]
      BY <1>2, <3>2 DEF B87!Back
    <3>4. /\ my'.path = path /\ my'.at = p /\ my'.visited = my.visited /\ my'.last = my.last
          /\ DOMAIN my' = Fields87
      <4> HIDE DEF path, p
      <4> QED BY <2>1, <3>3 DEF Fields87
    <3>5. CASE p = world.start
      <4>1. pc' = "done" /\ world' = [world EXCEPT !.walls = world.real]
        BY <1>2, <3>2, <3>4, <3>5 DEF B87!Back
      <4>2. B87!Shortest(world', path)
        BY <2>1, <2>3, <3>5, <4>1, BackDone
      <4> QED BY <3>4, <4>1, <4>2 DEF Inv87Paths
    <3>6. CASE p # world.start
      <4>1. pc' = "back" /\ world' = world
        BY <1>2, <2>1, <3>2, <3>4, <3>6 DEF B87!Back
      <4> HIDE DEF path, p
      <4>2. Returning87(world, my')
        BY <2>1, <2>3, <3>1, <3>4, <3>6 DEF Returning87, Last87
      <4> QED BY <3>4, <4>1, <4>2 DEF Inv87Paths
    <3> QED BY <3>5, <3>6
  <2> QED BY <2>2, <2>3
<1> QED BY <1>1, <1>2 DEF B87!Next

LEMMA Paths87Shortest == Inv87Paths => B87!ShortestPath
BY DEF Inv87Paths, B87!ShortestPath

-----------------------------------------------------------------------------
(* Program 85: it stands where there is room.                               *)

\* A move ends where it began or where there is room.
LEMMA MoveEndsFree ==
  ASSUME NEW p \in Int \X Int, NEW v \in Int \X Int, NEW n \in Nat
  PROVE  \E m \in 0 .. n : /\ W85!MoveTo(p, v, n) = W85!Along(p, v, m)
                           /\ m > 0 => W85!Free(W85!Along(p, v, m))
                           /\ m < n => ~ W85!Free(W85!Along(p, v, m + 1))
<1> DEFINE F(k) == W85!Free(W85!Along(p, v, k))
           S == {k \in 1 .. n : \A i \in 1 .. k : F(i)}
           T == {j \in 0 .. n : j + 1 \notin S}
<1>1. W85!MoveTo(p, v, n) = W85!Along(p, v, Cardinality(S))
  <2>1. W85!MoveTo(p, v, n) = W85!Along(p, v, W85!Cardinality(S))
    BY DEF W85!MoveTo
  <2> HIDE DEF S
  <2> QED BY <2>1, SameCardinality
<1>2. n \in T /\ T \subseteq Nat
  OBVIOUS
<1>3. PICK m \in T : \A k \in T : m <= k
  <2> HIDE DEF T
  <2> QED BY <1>2, LeastNumber
<1>9. m \in 0 .. n
  OBVIOUS
<1>4. \A k \in 1 .. m : k \in S
  <2> SUFFICES ASSUME NEW k \in 1 .. m PROVE k \in S
    OBVIOUS
  <2>1. k - 1 \in 0 .. n /\ k - 1 < m
    BY <1>3
  <2>2. k - 1 \notin T
    <3> HIDE DEF T
    <3> QED BY <1>3, <1>9, <2>1
  <2> HIDE DEF S
  <2> QED BY <2>1, <2>2
<1>5. S = 1 .. m
  <2>1. ASSUME NEW k \in S, k > m PROVE FALSE
    <3>1. m + 1 \in 1 .. n /\ \A i \in 1 .. m + 1 : i \in 1 .. k
      BY <2>1
    <3>2. m + 1 \in S
      <4> HIDE DEF F
      <4> QED BY <2>1, <3>1
    <3> HIDE DEF S
    <3> QED BY <3>2, <1>3
  <2>2. S \subseteq 1 .. n
    OBVIOUS
  <2> HIDE DEF S
  <2>3. ASSUME NEW k \in S PROVE k \in 1 .. m
    <3>1. k \in 1 .. n /\ ~ (k > m)
      BY <2>1, <2>2
    <3> QED BY <1>9, <3>1
  <2> HIDE DEF T
  <2> QED BY <1>4, <2>3
<1>6. Cardinality(S) = m
  <2> HIDE DEF S
  <2> QED BY <1>5, <1>3, FS_Interval
<1>7. m > 0 => F(m)
  <2>1. m > 0 => m \in S
    <3> HIDE DEF S
    <3> QED BY <1>4
  <2>2. m > 0 => m \in 1 .. m
    OBVIOUS
  <2> HIDE DEF F, T
  <2> QED BY <2>1, <2>2
<1>8. m < n => ~ F(m + 1)
  <2> SUFFICES ASSUME m < n, F(m + 1) PROVE m + 1 \in S
    <3> HIDE DEF S, F
    <3> QED BY <1>3
  <2>1. \A i \in 1 .. m : F(i)
    <3> SUFFICES ASSUME NEW i \in 1 .. m PROVE F(i)
      OBVIOUS
    <3>1. i \in S /\ i \in 1 .. i
      <4> HIDE DEF S
      <4> QED BY <1>4
    <3> HIDE DEF F, T
    <3> QED BY <3>1
  <2>2. m + 1 \in 1 .. n /\ \A i \in 1 .. m + 1 : i \in 1 .. m \/ i = m + 1
    OBVIOUS
  <2> HIDE DEF F, T
  <2> QED BY <2>1, <2>2
<1> HIDE DEF S
<1> QED BY <1>1, <1>6, <1>7, <1>8, <1>9

\* The square root by Newton is a number: its recursion descends.
LEMMA RootFrom ==
  ASSUME NEW n \in Nat \ {0}, NEW r \in 1 .. n, ~ (r <= n \div r)
  PROVE  (r + n \div r) \div 2 \in 1 .. r - 1
<1> DEFINE q == n \div r
<1>1. q \in Int /\ q < r
  BY DEF q
<1>2. q >= 1
  BY DEF q
<1> HIDE DEF q
<1>3. (r + q) \div 2 \in 1 .. r - 1
  BY <1>1, <1>2
<1> QED BY <1>3 DEF q

LEMMA RootIsANumber ==
  ASSUME NEW n \in Nat \ {0}
  PROVE  W85!Root(n) \in Nat
<1> DEFINE Follows(f, r) == f[r] = IF r <= n \div r THEN r ELSE f[(r + n \div r) \div 2]
           Good(k) == \E f \in [1 .. k -> Nat] : \A r \in 1 .. k : Follows(f, r)
           T == {k \in 1 .. n : ~ Good(k)}
<1>1. T = {}
  <2> SUFFICES ASSUME T # {} PROVE FALSE
    OBVIOUS
  <2>1. PICK k \in T : \A j \in T : k <= j
    <3>1. T \subseteq Nat
      OBVIOUS
    <3> HIDE DEF T
    <3> QED BY <3>1, LeastNumber
  <2>2. k \in 1 .. n /\ ~ Good(k)
    <3> HIDE DEF Good
    <3> QED OBVIOUS
  <2>3. PICK f \in [1 .. k - 1 -> Nat] : \A r \in 1 .. k - 1 : Follows(f, r)
    <3>1. CASE k = 1
      <4>1. [r \in 1 .. k - 1 |-> 0] \in [1 .. k - 1 -> Nat] /\ 1 .. k - 1 = {}
        BY <3>1
      <4> HIDE DEF Follows
      <4> QED BY <4>1
    <3>2. CASE k > 1
      <4>1. k - 1 \in 1 .. n /\ ~ (k <= k - 1)
        BY <2>2, <3>2
      <4>2. k - 1 \notin T
        <5> HIDE DEF T
        <5> QED BY <2>1, <4>1
      <4>3. Good(k - 1)
        <5> HIDE DEF Good
        <5> QED BY <4>1, <4>2
      <4> HIDE DEF Follows
      <4> QED BY <4>3
    <3> QED BY <2>2, <3>1, <3>2
  <2> DEFINE v == IF k <= n \div k THEN k ELSE f[(k + n \div k) \div 2]
             h == [r \in 1 .. k |-> IF r = k THEN v ELSE f[r]]
  <2>4. v \in Nat
    BY <2>2, RootFrom
  <2>5. h \in [1 .. k -> Nat]
    <3> HIDE DEF v
    <3> QED BY <2>2, <2>4
  <2>6. ASSUME NEW r \in 1 .. k PROVE Follows(h, r)
    <3>1. r \in 1 .. n
      BY <2>2
    <3>2. ~ (r <= n \div r) => /\ (r + n \div r) \div 2 \in 1 .. k - 1
                              /\ h[(r + n \div r) \div 2] = f[(r + n \div r) \div 2]
      <4> SUFFICES ASSUME ~ (r <= n \div r)
                   PROVE  /\ (r + n \div r) \div 2 \in 1 .. k - 1
                          /\ h[(r + n \div r) \div 2] = f[(r + n \div r) \div 2]
        OBVIOUS
      <4> DEFINE e == (r + n \div r) \div 2
      <4>1. e \in 1 .. r - 1
        BY <3>1, RootFrom
      <4> HIDE DEF e, v
      <4>2. e \in 1 .. k - 1 /\ e \in 1 .. k /\ e # k
        BY <4>1, <2>2
      <4>3. h[e] = f[e]
        BY <4>2
      <4> QED BY <4>2, <4>3 DEF e
    <3>3. CASE r = k
      <4>1. h[r] = v
        <5> HIDE DEF v
        <5> QED BY <2>2, <3>3
      <4> HIDE DEF h
      <4> QED BY <3>2, <3>3, <4>1
    <3>4. CASE r # k
      <4>1. r \in 1 .. k - 1 /\ h[r] = f[r]
        <5> HIDE DEF v
        <5> QED BY <2>2, <3>4
      <4>2. Follows(f, r)
        <5> HIDE DEF Follows
        <5> QED BY <2>3, <4>1
      <4> HIDE DEF h
      <4> QED BY <3>2, <4>1, <4>2
    <3> QED BY <3>3, <3>4
  <2>7. Good(k)
    <3> HIDE DEF Follows, h
    <3> QED BY <2>5, <2>6
  <2> HIDE DEF Good
  <2> QED BY <2>2, <2>7
<1>2. Good(n)
  <2> HIDE DEF Good
  <2> QED BY <1>1
<1>3. PICK f \in [1 .. n -> Nat] : \A r \in 1 .. n : Follows(f, r)
  <2> HIDE DEF Follows
  <2> QED BY <1>2
<1>4. f = [r \in 1 .. n |-> IF r <= n \div r THEN r ELSE f[(r + n \div r) \div 2]]
  BY <1>3
<1> DEFINE Solves(h) == h = [r \in 1 .. n |-> IF r <= n \div r THEN r ELSE h[(r + n \div r) \div 2]]
           from == CHOOSE h : Solves(h)
<1>5. Solves(from)
  <2>1. Solves(f)
    BY <1>4
  <2> HIDE DEF Solves
  <2> QED BY <2>1
<1>6. W85!Root(n) = from[n]
  BY DEF W85!Root
<1> DEFINE U == {r \in 1 .. n : from[r] \notin Nat}
<1> HIDE DEF from
<1>7. U = {}
  <2> SUFFICES ASSUME U # {} PROVE FALSE
    OBVIOUS
  <2>1. PICK r \in U : \A j \in U : r <= j
    <3>1. U \subseteq Nat
      OBVIOUS
    <3> HIDE DEF U
    <3> QED BY <3>1, LeastNumber
  <2>2. from[r] = IF r <= n \div r THEN r ELSE from[(r + n \div r) \div 2]
    BY <1>5
  <2>3. ~ (r <= n \div r)
    BY <2>2
  <2> DEFINE e == (r + n \div r) \div 2
  <2>4. e \in 1 .. r - 1
    BY <2>3, RootFrom
  <2>5. from[r] = from[e]
    BY <2>2, <2>3
  <2> HIDE DEF e
  <2>6. e \in U /\ ~ (r <= e)
    BY <2>4, <2>5
  <2> QED BY <2>1, <2>6
<1> QED BY <1>6, <1>7

\* What a call relies on: the player stands where there is room, and the next
\* direction at random is one.
StandsFree ==
  /\ DOMAIN world = {"walls", "person", "to", "cookers", "at"}
  /\ world.at \in Int \X Int /\ W85!Free(world.at)
  /\ world.to \in Int \X Int /\ world.cookers \subseteq Int \X Int
  /\ "next" \in DOMAIN my /\ my.next \in DOMAIN W85!Then

LEMMA CoveredInMiddle ==
  ASSUME NEW a \in Int, NEW b \in Int
  PROVE  W85!Covered(<<2 * a + 1, 2 * b + 1>>) = {<<a, b>>}
BY DEF W85!Covered

LEMMA FreeStays85 ==
  ASSUME NEW at, world' = [world EXCEPT !.at = at],
         DOMAIN world = {"walls", "person", "to", "cookers", "at"}
  PROVE  /\ DOMAIN world' = DOMAIN world /\ world'.at = at
         /\ world'.to = world.to /\ world'.cookers = world.cookers
         /\ \A p : W85!Free(p) => W85!Free(p)'
<1>1. /\ world'.walls = world.walls /\ world'.person = world.person /\ world'.at = at
      /\ world'.to = world.to /\ world'.cookers = world.cookers
  OBVIOUS
<1>2. DOMAIN world' = DOMAIN world
  OBVIOUS
<1>3. ASSUME NEW c PROVE W85!isBlock(c)' <=> W85!isBlock(c)
  BY <1>1 DEF W85!isBlock, W85!Cells
<1>4. ASSUME NEW p PROVE W85!Covered(p)' = W85!Covered(p)
  BY DEF W85!Covered
<1> QED BY <1>1, <1>2, <1>3, <1>4 DEF W85!Free

LEMMA CalledNext ==
  ASSUME "next" \in DOMAIN my, my.next \in DOMAIN W85!Then
  PROVE  /\ "next" \in DOMAIN W85!Called /\ W85!Called.next \in DOMAIN W85!Then
         /\ W85!Then[my.next] \in DOMAIN W85!Then
<1> DEFINE m == [my EXCEPT !.next = W85!Then[@]]
           n == IF m.go_time >= max_go_time THEN [m EXCEPT !.go_time = 0, !.been = {}] ELSE m
<1>1. W85!Then[my.next] \in DOMAIN W85!Then
  BY DEF W85!Then
<1>2. "next" \in DOMAIN m /\ m.next \in DOMAIN W85!Then
  BY <1>1
<1>3. "next" \in DOMAIN n /\ n.next \in DOMAIN W85!Then
  <2> HIDE DEF m
  <2> QED BY <1>2
<1>4. W85!Called = IF n.random_time >= W85!max_random_time
               THEN [n EXCEPT !.random_time = 0, !.been = {}] ELSE n
  BY DEF W85!Called
<1> HIDE DEF n
<1> QED BY <1>1, <1>3, <1>4

LEMMA UnitPairs == \A d \in DOMAIN W85!Unit : W85!Unit[d] \in Int \X Int
BY DEF W85!Unit

LEMMA ThenUnit == DOMAIN W85!Then \subseteq DOMAIN W85!Unit
BY DEF W85!Then, W85!Unit

LEMMA GoesFree ==
  ASSUME StandsFree, NEW mine, NEW d \in DOMAIN W85!Unit, NEW n \in Nat,
         W85!Goes(mine, W85!MoveTo(world.at, W85!Unit[d], n)),
         "next" \in DOMAIN mine, mine.next \in DOMAIN W85!Then
  PROVE  StandsFree'
<1> DEFINE at == W85!MoveTo(world.at, W85!Unit[d], n)
<1>1. world.at \in Int \X Int /\ W85!Free(world.at) /\ W85!Unit[d] \in Int \X Int
  BY UnitPairs DEF StandsFree
<1>2. PICK m \in 0 .. n : /\ at = W85!Along(world.at, W85!Unit[d], m)
                          /\ m > 0 => W85!Free(W85!Along(world.at, W85!Unit[d], m))
  BY <1>1, MoveEndsFree
<1>3. at \in Int \X Int
  BY <1>1, <1>2 DEF W85!Along
<1>4. W85!Free(at)
  <2>1. m = 0 => W85!Along(world.at, W85!Unit[d], m) = world.at
    BY <1>1 DEF W85!Along
  <2> QED BY <1>1, <1>2, <2>1
<1> HIDE DEF at
<1>5. world' = [world EXCEPT !.at = at] /\ my' = mine
  BY DEF W85!Goes, at
<1> QED BY <1>3, <1>4, <1>5, FreeStays85 DEF StandsFree

LEMMA Init85Free == Mazes \subseteq SUBSET (Int \X Int) /\ W85!Init => StandsFree
<1> SUFFICES ASSUME Mazes \subseteq SUBSET (Int \X Int), W85!Init PROVE StandsFree
  OBVIOUS
<1>1. PICK walls \in Mazes, person \in Standing, to \in W85!Cells, at \in W85!Cells :
        /\ at \notin walls \cup {person}
        /\ \E cookers \in SUBSET (walls \ {to}) :
            world = [walls |-> walls, person |-> person, to |-> to, cookers |-> cookers,
                     at |-> <<2 * at[1] + 1, 2 * at[2] + 1>>]
  BY DEF W85!Init
<1>2. at = <<at[1], at[2]>> /\ at[1] \in Int /\ at[2] \in Int
  BY DEF W85!Cells
<1>3. world.at = <<2 * at[1] + 1, 2 * at[2] + 1>> /\ world.walls = walls /\ world.person = person
      /\ DOMAIN world = {"walls", "person", "to", "cookers", "at"}
  BY <1>1
<1>4. W85!Covered(world.at) = {at}
  BY <1>2, <1>3, CoveredInMiddle
<1>5. W85!Free(world.at)
  BY <1>1, <1>3, <1>4 DEF W85!Free, W85!isBlock
<1>6. "next" \in DOMAIN my /\ my.next \in DOMAIN W85!Then
  BY DEF W85!Init, W85!Then
<1>7. world.to \in Int \X Int /\ world.cookers \subseteq Int \X Int
  BY <1>1 DEF W85!Cells
<1> QED BY <1>2, <1>3, <1>5, <1>6, <1>7 DEF StandsFree

\* Every way has its cost, so that there is a first among those that cost least.
LEMMA DistanceIsANumber ==
  ASSUME NEW p \in Int \X Int, NEW c \in Int \X Int
  PROVE  W85!euclideanDistance(p, c) \in Nat
<1> DEFINE x == p[1] - 2 * c[1] - 1
           y == p[2] - 2 * c[2] - 1
           n == 1000000 * (x * x + y * y)
<1>1. x \in Int /\ y \in Int
  OBVIOUS
<1> HIDE DEF x, y
<1>2. x * x \in Nat /\ y * y \in Nat
  BY <1>1
<1>3. n \in Nat
  BY <1>2
<1> HIDE DEF n
<1>4. n # 0 => W85!Root(n) \in Nat
  BY <1>3, RootIsANumber
<1> QED BY <1>4 DEF W85!euclideanDistance, n, x, y

LEMMA NearestIsOne ==
  ASSUME NEW cells \in SUBSET (Int \X Int), cells # {}, world.at \in Int \X Int
  PROVE  W85!findMin(cells) \in cells
<1> DEFINE T == {W85!mahattanDistance(c) : c \in cells}
<1>1. ASSUME NEW c \in Int \X Int PROVE W85!mahattanDistance(c) \in Nat
  <2> DEFINE x == W85!CellOf(world.at)[1] - c[1]
             y == W85!CellOf(world.at)[2] - c[2]
  <2>1. x \in Int /\ y \in Int
    BY DEF W85!CellOf
  <2> HIDE DEF x, y
  <2>2. W85!Magnitude(x) \in Nat /\ W85!Magnitude(y) \in Nat
    BY <2>1 DEF W85!Magnitude
  <2> QED BY <2>2 DEF W85!mahattanDistance, x, y
<1>2. T \subseteq Nat /\ T # {}
  BY <1>1
<1>3. PICK m \in T : \A k \in T : m <= k
  <2> HIDE DEF T
  <2> QED BY <1>2, LeastNumber
<1>4. PICK c \in cells : W85!mahattanDistance(c) = m
  OBVIOUS
<1>5. \A e \in cells : W85!mahattanDistance(c) <= W85!mahattanDistance(e)
  BY <1>3, <1>4
<1> QED BY <1>5 DEF W85!findMin

LEMMA CostIsANumber ==
  ASSUME StandsFree, NEW d \in DOMAIN W85!Unit
  PROVE  W85!Cost(d) \in Nat
<1> DEFINE p == W85!Along(world.at, W85!Unit[d], 2)
<1>1. p \in Int \X Int
  BY UnitPairs DEF StandsFree, W85!Along
<1> HIDE DEF p
<1>2. W85!euclideanDistance(p, world.to) \in Nat
  BY <1>1, DistanceIsANumber DEF StandsFree
<1>3. W85!g(p) \in Nat
  <2>1. world.cookers # {} => W85!findMin(world.cookers) \in Int \X Int
    BY NearestIsOne DEF StandsFree
  <2>2. world.cookers # {} => W85!euclideanDistance(p, W85!findMin(world.cookers)) \in Nat
    BY <1>1, <2>1, DistanceIsANumber
  <2> QED BY <2>2 DEF W85!g
<1> QED BY <1>2, <1>3 DEF W85!Cost, p

LEMMA BestIsOne ==
  ASSUME StandsFree, NEW ways \in SUBSET DOMAIN W85!Unit, ways # {}
  PROVE  W85!Best(ways) \in ways
<1> DEFINE key(d) == 9 * W85!Cost(d) + W85!Order[d]
           T == {key(d) : d \in ways}
<1>1. \A d \in ways : W85!Cost(d) \in Nat /\ W85!Order[d] \in 1 .. 8
  BY CostIsANumber DEF W85!Unit, W85!Order
<1>2. \A d, e \in ways : d # e => W85!Order[d] # W85!Order[e]
  BY DEF W85!Unit, W85!Order
<1>3. T \subseteq Nat /\ T # {}
  BY <1>1
<1>4. PICK m \in T : \A k \in T : m <= k
  <2> HIDE DEF T
  <2> QED BY <1>3, LeastNumber
<1>5. PICK d \in ways : key(d) = m
  OBVIOUS
<1>6. ASSUME NEW e \in ways \ {d}
      PROVE  W85!Cost(d) < W85!Cost(e) \/ (W85!Cost(d) = W85!Cost(e) /\ W85!Order[d] < W85!Order[e])
  <2>1. key(d) <= key(e)
    BY <1>4, <1>5
  <2> QED BY <1>1, <1>2, <2>1
<1> QED BY <1>6 DEF W85!Best

LEMMA GoTo85Free ==
  ASSUME StandsFree, W85!GoTo
  PROVE  StandsFree'
<1> USE ThenUnit, CalledNext
<1>1. "next" \in DOMAIN my /\ my.next \in DOMAIN W85!Then
  BY DEF StandsFree
<1>2. CASE W85!Arrive
  BY <1>2 DEF W85!Arrive, StandsFree, W85!Free, W85!Covered, W85!isBlock, W85!Cells
<1>3. CASE W85!Tripped
  <2>1. W85!Goes([W85!Called EXCEPT !.stop_time = 0, !.random_time = @ + 1],
             W85!MoveTo(world.at, W85!Unit[my.next], 3))
    BY <1>3 DEF W85!Tripped, W85!Random, W85!random_go_time
  <2> DEFINE m == [W85!Called EXCEPT !.stop_time = 0, !.random_time = @ + 1]
  <2>2. "next" \in DOMAIN m /\ m.next \in DOMAIN W85!Then
    BY <1>1
  <2> HIDE DEF m
  <2>3. W85!Goes(m, W85!MoveTo(world.at, W85!Unit[my.next], 3)) /\ 3 \in Nat
    BY <2>1 DEF m
  <2> QED BY <1>1, <2>2, <2>3, GoesFree
<1>4. CASE W85!RandomMove
  <2>1. PICK move_time \in 0 .. 4 :
          W85!Goes([W85!Called EXCEPT !.nudged = TRUE], W85!MoveTo(world.at, W85!Unit[my.next], 2 * move_time))
    BY <1>4 DEF W85!RandomMove, W85!Random
  <2>2. 2 * move_time \in Nat
    OBVIOUS
  <2> QED BY <1>1, <2>1, <2>2, GoesFree
<1>5. CASE W85!Step
  <2> DEFINE m == [W85!Called EXCEPT !.lastlast = IF world.at = my.last THEN world.at ELSE my.last,
                             !.last = world.at,
                             !.stop_time = IF world.at = my.last THEN @ + 1 ELSE 0]
  <2>1. "next" \in DOMAIN m /\ m.next \in DOMAIN W85!Then
    BY <1>1
  <2> HIDE DEF m
  <2>2. CASE W85!Ways(m) = {}
    <3>1. PICK move_time \in 0 .. 4 :
            W85!Goes([m EXCEPT !.been = {}], W85!MoveTo(world.at, W85!Unit[my.next], 2 * move_time))
      BY <1>5, <2>2 DEF W85!Step, W85!Random, m
    <3>2. 2 * move_time \in Nat
      OBVIOUS
    <3> QED BY <1>1, <2>1, <3>1, <3>2, GoesFree
  <2>3. CASE W85!Ways(m) # {}
    <3>1. W85!Goes([m EXCEPT !.been = @ \cup {W85!CellOf(W85!MoveTo(world.at, W85!Unit[W85!Best(W85!Ways(m))], 1))},
                         !.go_time = @ + 1], W85!MoveTo(world.at, W85!Unit[W85!Best(W85!Ways(m))], 1))
      BY <1>5, <2>3 DEF W85!Step, m
    <3>2. W85!Best(W85!Ways(m)) \in DOMAIN W85!Unit
      BY <2>3, BestIsOne DEF W85!Ways
    <3> DEFINE at == W85!MoveTo(world.at, W85!Unit[W85!Best(W85!Ways(m))], 1)
               mine == [m EXCEPT !.been = @ \cup {W85!CellOf(at)}, !.go_time = @ + 1]
    <3>3. "next" \in DOMAIN mine /\ mine.next \in DOMAIN W85!Then
      BY <2>1
    <3>4. W85!Goes(mine, at) /\ 1 \in Nat
      BY <3>1
    <3> HIDE DEF mine
    <3> QED BY <3>2, <3>3, <3>4, GoesFree
  <2> QED BY <2>2, <2>3
<1> QED BY <1>2, <1>3, <1>4, <1>5 DEF W85!GoTo

LEMMA FreeSteps ==
  ASSUME StandsFree
  PROVE  W85!StepsAreFree
<1> SUFFICES ASSUME NEW d \in W85!Ways(my), ~ (d = "Left" /\ world.person \in W85!Ahead(world.at, W85!Unit[d]))
             PROVE  W85!MoveTo(world.at, W85!Unit[d], 1) # world.at
  BY DEF W85!StepsAreFree
<1> DEFINE p == world.at
           q == W85!Along(world.at, W85!Unit[d], 1)
<1>1. d \in DOMAIN W85!Unit /\ W85!Unit[d] \in Int \X Int /\ p \in Int \X Int /\ W85!Free(p)
  BY UnitPairs DEF StandsFree, W85!Ways
<1>2. \A c \in W85!Ahead(p, W85!Unit[d]) : ~ W85!isBlock(c) /\ c # world.person
  BY DEF W85!Ways, W85!Peopled
<1>3. W85!Covered(q) \subseteq W85!Ahead(p, W85!Unit[d]) \cup W85!Covered(p)
  <2>1. PICK x \in Int, y \in Int : p = <<x, y>>
    BY <1>1
  <2>2. PICK u \in {-1, 0, 1}, v \in {-1, 0, 1} : W85!Unit[d] = <<u, v>>
    BY <1>1 DEF W85!Unit
  <2>3. q = <<x + u, y + v>>
    BY <2>1, <2>2 DEF W85!Along
  <2>4. ASSUME NEW z \in Int, NEW w \in {-1, 1}
        PROVE  {(z + w - 1) \div 2, (z + w) \div 2}
                 \subseteq {W85!barrier(z, w)} \cup {(z - 1) \div 2, z \div 2}
    BY DEF W85!barrier
  <2>5. ASSUME NEW z \in Int
        PROVE  {(z - 1) \div 2, z \div 2} \subseteq W85!volumn(z)
    BY DEF W85!volumn
  <2> HIDE DEF q
  <2>6. W85!Covered(q) = {(x + u - 1) \div 2, (x + u) \div 2} \X {(y + v - 1) \div 2, (y + v) \div 2}
    BY <2>3 DEF W85!Covered
  <2>7. W85!Covered(p) = {(x - 1) \div 2, x \div 2} \X {(y - 1) \div 2, y \div 2}
    BY <2>1 DEF W85!Covered
  <2>8. W85!Ahead(p, W85!Unit[d]) =
      (IF u = 0 THEN {} ELSE {W85!barrier(x, u)} \X W85!volumn(y))
      \cup (IF v = 0 THEN {} ELSE W85!volumn(x) \X {W85!barrier(y, v)})
      \cup (IF u = 0 \/ v = 0 THEN {} ELSE {<<W85!barrier(x, u), W85!barrier(y, v)>>})
    BY <2>1, <2>2 DEF W85!Ahead
  <2>9. u # 0 => {(x + u - 1) \div 2, (x + u) \div 2}
                  \subseteq {W85!barrier(x, u)} \cup {(x - 1) \div 2, x \div 2}
    BY <2>4
  <2>10. v # 0 => {(y + v - 1) \div 2, (y + v) \div 2}
                  \subseteq {W85!barrier(y, v)} \cup {(y - 1) \div 2, y \div 2}
    BY <2>4
  <2>11. /\ {(x - 1) \div 2, x \div 2} \subseteq W85!volumn(x)
         /\ {(y - 1) \div 2, y \div 2} \subseteq W85!volumn(y)
    BY <2>5
  <2>12. SUFFICES ASSUME NEW a, NEW b, <<a, b>> \in W85!Covered(q)
                  PROVE  <<a, b>> \in W85!Ahead(p, W85!Unit[d]) \cup W85!Covered(p)
    BY <2>6
  <2>13. a \in {(x + u - 1) \div 2, (x + u) \div 2} /\ b \in {(y + v - 1) \div 2, (y + v) \div 2}
    BY <2>6, <2>12
  <2>14. a \in {(x - 1) \div 2, x \div 2} \/ (u # 0 /\ a = W85!barrier(x, u))
    BY <2>9, <2>13
  <2>15. b \in {(y - 1) \div 2, y \div 2} \/ (v # 0 /\ b = W85!barrier(y, v))
    BY <2>10, <2>13
  <2> QED BY <2>7, <2>8, <2>11, <2>14, <2>15
<1>4. W85!Free(q)
  BY <1>1, <1>2, <1>3 DEF W85!Free
<1>5. q # p
  BY <1>1 DEF W85!Unit, W85!Along
<1>6. PICK m \in 0 .. 1 : /\ W85!MoveTo(p, W85!Unit[d], 1) = W85!Along(p, W85!Unit[d], m)
                          /\ m < 1 => ~ W85!Free(W85!Along(p, W85!Unit[d], m + 1))
  BY <1>1, MoveEndsFree
<1> HIDE DEF p, q
<1>7. m = 1
  <2>1. m # 1 => m < 1 /\ m + 1 = 1
    OBVIOUS
  <2>2. W85!Free(W85!Along(p, W85!Unit[d], 1))
    BY <1>4 DEF p, q
  <2>3. m # 1 => ~ W85!Free(W85!Along(p, W85!Unit[d], 1))
    BY <1>6, <2>1
  <2> QED BY <2>2, <2>3
<1>8. W85!MoveTo(p, W85!Unit[d], 1) = q
  BY <1>6, <1>7 DEF p, q
<1>9. W85!MoveTo(p, W85!Unit[d], 1) # p
  BY <1>5, <1>8
<1> QED BY <1>9 DEF p
=============================================================================
