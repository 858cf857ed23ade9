-------------------------- MODULE TaskSystemProofs --------------------------
(***************************************************************************)
(* Theorems about MultiTaskTimer, for any handlers, delays, pool and time, *)
(* and about TaskSystem, for any task types and limits: the task system    *)
(* uses its timer as MultiTaskTimer allows, so that all that is proved of  *)
(* the timer holds here too.                                               *)
(*                                                                         *)
(* The first part names what MultiTaskTimer declares and nothing else.     *)
(***************************************************************************)
EXTENDS TaskSystem, SequenceTheorems, FiniteSetTheorems, WellFoundedInduction, TLAPS

\* Every non-empty set of entries has one with the earliest deadline: the
\* least-number principle for the deadlines.
LEMMA EarliestExists ==
  ASSUME NEW k \in [Handlers -> Nat],
         NEW S, S \subseteq Handlers, S # {}
  PROVE  /\ Earliest(k, S) \in S
         /\ \A g \in S : k[Earliest(k, S)] <= k[g]
<1> DEFINE K == {k[f] : f \in S}
           Less == {ss \in Nat \X Nat : ss[1] < ss[2]}
<1>1. K \subseteq Nat /\ K # {}
  OBVIOUS
<1>2. IsWellFoundedOn(Less, Nat)
  BY NatLessThanWellFounded, Zenon DEF OpToRel
<1>3. \E x \in K : \A y \in K : x <= y
  <2>1. \E x \in K : \A y \in K : ~ (<<y, x>> \in Less)
    <3> HIDE DEF K, Less
    <3> QED BY <1>1, <1>2, WFMin
  <2>2. ASSUME NEW x \in Nat, NEW y \in Nat, ~ (<<y, x>> \in Less)
        PROVE  x <= y
    BY <2>2
  <2> HIDE DEF K, Less
  <2>3. QED
    BY <2>1, <2>2, <1>1
<1>4. \E f \in S : \A g \in S : k[f] <= k[g]
  BY <1>3
<1>5. QED
  BY <1>4 DEF Earliest

\* The entry with the strictly smallest deadline is the first one.
LEMMA EarliestUnique ==
  ASSUME NEW k \in [Handlers -> Nat],
         NEW S, S \subseteq Handlers,
         NEW f \in S, \A g \in S \ {f} : k[f] < k[g]
  PROVE  Earliest(k, S) = f
<1>1. Earliest(k, S) \in S /\ k[Earliest(k, S)] <= k[f]
  BY EarliestExists
<1>2. QED
  BY <1>1

\* Removing one of two elements leaves the other.
LEMMA RemoveOfPair ==
  ASSUME NEW a, NEW b
  PROVE  RemoveAt(<<a, b>>, 1) = <<b>>
<1> DEFINE s == <<a, b>>
<1>1. s \in Seq({a, b}) /\ Len(s) = 2 /\ s[2] = b
  OBVIOUS
<1>2. SubSeq(s, 1, 0) = <<>>
  BY SubSeqEmpty
<1>3. SubSeq(s, 2, 2) = <<b>>
  <2> HIDE DEF s
  <2>1. \A i \in 2..2 : s[i] \in {a, b}
    BY <1>1
  <2>2. /\ SubSeq(s, 2, 2) \in Seq({a, b})
        /\ Len(SubSeq(s, 2, 2)) = 1
        /\ SubSeq(s, 2, 2)[1] = s[2]
    BY <2>1, SubSeqProperties
  <2>3. <<b>> \in Seq({a, b}) /\ Len(<<b>>) = 1 /\ <<b>>[1] = b
    OBVIOUS
  <2>4. \A i \in 1..1 : SubSeq(s, 2, 2)[i] = <<b>>[i]
    BY <2>2, <2>3, <1>1
  <2>5. QED
    BY <2>2, <2>3, <2>4, SeqEqual
<1>4. <<>> \o <<b>> = <<b>>
  OBVIOUS
<1>5. 1 - 1 = 0 /\ 1 + 1 = 2
  OBVIOUS
<1>6. RemoveAt(s, 1) = <<b>>
  <2> HIDE DEF s
  <2>1. RemoveAt(s, 1) = SubSeq(s, 1, 1 - 1) \o SubSeq(s, 1 + 1, Len(s))
    BY DEF RemoveAt
  <2>2. QED
    BY <2>1, <1>1, <1>2, <1>3, <1>4, <1>5
<1>7. QED
  BY <1>6

\* There is nothing to detach from no subscriber.
LEMMA DetachFromNone == Detach(<<>>, Control) = <<>>
  BY DEF Detach

\* Detaching both subscribers of a pair leaves none.
LEMMA DetachPair ==
  ASSUME NEW f \in Handlers
  PROVE  Detach(Detach(<<f, Control>>, f), Control) = <<>>
<1>1. f # Control
  BY ControlAssumption
<1>2. Detach(<<f, Control>>, f) = <<Control>>
  <2> DEFINE s == <<f, Control>>
             at == {i \in 1..Len(s) : s[i] = f}
  <2>1. at = {1}
    BY <1>1
  <2>2. Max(at) = 1
    BY <2>1 DEF Max
  <2>3. RemoveAt(s, 1) = <<Control>>
    BY RemoveOfPair
  <2>4. QED
    BY <2>1, <2>2, <2>3 DEF Detach
<1>3. Detach(<<Control>>, Control) = <<>>
  <2> DEFINE s == <<Control>>
             at == {i \in 1..Len(s) : s[i] = Control}
  <2>1. at = {1}
    OBVIOUS
  <2>2. Max(at) = 1
    BY <2>1 DEF Max
  <2>3. RemoveAt(s, 1) = <<>>
    BY DEF RemoveAt
  <2>4. QED
    BY <2>1, <2>2, <2>3 DEF Detach
<1>4. QED
  BY <1>2, <1>3

-----------------------------------------------------------------------------
(* What the steps do to the callbacks and calls under way.                  *)

Stages == {"none", "queued", "admitted", "disabled"}

\* While subscribers are exchanged, only threads that are about to read them
\* are affected, and these end up with one of the partial lists.
LEMMA ExchangeTypes ==
  ASSUME NEW st \in [Pool -> Stages], NEW cs \in [Pool -> Seq(Subscribers)],
         NEW partial, partial \subseteq Seq(Subscribers), Exchange(st, cs, partial)
  PROVE  /\ stage' \in [Pool -> Stages] /\ calls' \in [Pool -> Seq(Subscribers)]
         /\ \A q \in Pool : /\ stage'[q] # "none" => stage'[q] = st[q]
                            /\ st[q] # "disabled" => stage'[q] = st[q] /\ calls'[q] = cs[q]
<1>1. PICK Q \in SUBSET {q \in Pool : st[q] = "disabled"} : \E seen \in [Q -> partial] :
        /\ stage' = [q \in Pool |-> IF q \in Q THEN "none" ELSE st[q]]
        /\ calls' = [q \in Pool |-> IF q \in Q THEN seen[q] ELSE cs[q]]
  BY DEF Exchange
<1>2. PICK seen \in [Q -> partial] :
        /\ stage' = [q \in Pool |-> IF q \in Q THEN "none" ELSE st[q]]
        /\ calls' = [q \in Pool |-> IF q \in Q THEN seen[q] ELSE cs[q]]
  BY <1>1
<1>3. \A q \in Q : seen[q] \in Seq(Subscribers)
  BY <1>2
<1>4. QED
  BY <1>2, <1>3 DEF Stages

\* Where no thread is about to read them, nothing is affected.
LEMMA ExchangeUnseen ==
  ASSUME NEW st \in [Pool -> Stages], NEW cs \in [Pool -> Seq(Subscribers)],
         NEW partial, Exchange(st, cs, partial), \A q \in Pool : st[q] # "disabled"
  PROVE  stage' = st /\ calls' = cs
<1>1. {q \in Pool : st[q] = "disabled"} = {}
  OBVIOUS
<1>2. /\ stage' = [q \in Pool |-> IF q \in {} THEN "none" ELSE st[q]]
      /\ \E seen \in [{} -> partial] : calls' = [q \in Pool |-> IF q \in {} THEN seen[q] ELSE cs[q]]
  BY <1>1 DEF Exchange
<1>3. QED
  BY <1>2

LEMMA Pairs ==
  ASSUME NEW f \in Handlers
  PROVE  /\ <<>> \in Seq(Subscribers) /\ <<f>> \in Seq(Subscribers)
         /\ <<Control>> \in Seq(Subscribers) /\ <<f, Control>> \in Seq(Subscribers)
         /\ <<>> \o <<f, Control>> = <<f, Control>> /\ f # Control
  BY ControlAssumption DEF Subscribers

\* One thread that is alone leaves no other with anything to do.
LEMMA OthersIdle ==
  ASSUME TimerInv, NEW p \in alone, NEW q \in Pool, stage[q] # "none" \/ calls[q] # <<>>
  PROVE  p = q
  BY DEF TimerInv, AloneIsAlone, Idle

-----------------------------------------------------------------------------
LEMMA InitEstablishes == Init => TimerInv
<1> SUFFICES ASSUME Init PROVE TimerInv
  OBVIOUS
<1>1. TypeOK
  <2>1. <<>> \in Seq(Subscribers)
    BY EmptySeq
  <2>2. QED
    BY <2>1 DEF Init, TypeOK
<1>2. HeadSubscribed /\ AloneInTime /\ KeysDistinct /\ ArmedInTime /\ AloneIsAlone
  BY DEF Init, HeadSubscribed, AloneInTime, KeysDistinct, ArmedInTime, AloneIsAlone
<1>3. QED
  BY <1>1, <1>2 DEF TimerInv

LEMMA TickPreserves == TimerInv /\ Tick => TimerInv'
<1> SUFFICES ASSUME TimerInv, Tick PROVE TimerInv'
  OBVIOUS
<1> USE DEF Tick, timerVars
<1>1. TypeOK'
  BY DEF TimerInv, TypeOK, Subscribers
<1>2. HeadSubscribed' /\ KeysDistinct' /\ AloneIsAlone'
  BY DEF TimerInv, HeadSubscribed, KeysDistinct, AloneIsAlone, Idle
<1>3. dict # {} => key[Earliest(key, dict)] \in Nat /\ now \in Nat
  BY EarliestExists DEF TimerInv, TypeOK
<1>4. ArmedInTime'
  BY <1>3 DEF TimerInv, ArmedInTime
<1>5. AloneInTime'
  BY <1>3 DEF TimerInv, AloneInTime
<1>6. QED
  BY <1>1, <1>2, <1>4, <1>5 DEF TimerInv

\* The part of the invariant that filing an entry preserves in all three
\* branches of Add.
LEMMA FilePreserves ==
  ASSUME TimerInv, NEW f \in Handlers, NEW ms \in Delays, File(f, ms), now' = now
  PROVE  /\ key' \in [Handlers -> Nat] /\ now' \in Nat /\ added' \subseteq Handlers
         /\ dict' \subseteq added' /\ enabled' \in BOOLEAN /\ armed' = TRUE
         /\ runs' \in [Handlers -> Nat] /\ alone' \subseteq Pool
         /\ key'[f] = now + ms /\ now + ms \in Nat
         /\ f \notin dict /\ \A g \in Handlers \ {f} : key'[g] = key[g]
         /\ KeysDistinct'
<1> USE DEF File
<1>1. now + ms \in Nat
  BY DelaysAssumption DEF TypeOK, TimerInv
<1>2. TypeOK
  BY DEF TimerInv
<1>3. /\ key' \in [Handlers -> Nat] /\ now' \in Nat /\ added' \subseteq Handlers
      /\ dict' \subseteq added' /\ enabled' \in BOOLEAN /\ armed' = TRUE
      /\ runs' \in [Handlers -> Nat] /\ alone' \subseteq Pool
  BY <1>1, <1>2 DEF TypeOK
<1>4. /\ key'[f] = now + ms /\ f \notin dict
      /\ \A g \in Handlers \ {f} : key'[g] = key[g]
  BY <1>2 DEF TypeOK
<1>5. KeysDistinct'
  BY <1>2, <1>4 DEF TimerInv, KeysDistinct, TypeOK
<1>6. QED
  BY <1>1, <1>3, <1>4, <1>5

\* Nothing has begun, and nothing that is alone is disturbed.
LEMMA AllIdleKeep ==
  ASSUME TimerInv, \A q \in Pool : Idle(q), UNCHANGED <<stage, calls, alone>>
  PROVE  AloneInTime' /\ AloneIsAlone'
  BY DEF TimerInv, TypeOK, AloneInTime, AloneIsAlone, Idle

\* Exchanging subscribers keeps a thread alone if it had nothing to do.
LEMMA ExchangeAlone ==
  ASSUME TimerInv, NEW partial, NEW st \in [Pool -> Stages],
         \A q \in Pool : stage[q] = "none" => st[q] = "none",
         Exchange(st, calls, partial), UNCHANGED alone,
         \A p \in alone : Idle(p)
  PROVE  AloneInTime' /\ AloneIsAlone'
<1>1. CASE alone = {}
  BY <1>1 DEF AloneInTime, AloneIsAlone
<1>2. CASE alone # {}
  <2>1. PICK p \in alone : TRUE
    BY <1>2
  <2>2. \A q \in Pool : Idle(q)
    BY <2>1 DEF TimerInv, AloneIsAlone
  <2>3. st = stage
    BY <2>2 DEF Idle, TimerInv, TypeOK, Stages
  <2>4. calls \in [Pool -> Seq(Subscribers)]
    BY DEF TimerInv, TypeOK
  <2>5. stage' = stage /\ calls' = calls
    BY <2>2, <2>3, <2>4, ExchangeUnseen DEF Idle
  <2>6. QED
    BY <2>2, <2>5, AllIdleKeep
<1>3. QED
  BY <1>1, <1>2

LEMMA DisabledTypes ==
  ASSUME TimerInv
  PROVE  /\ Disabled \in [Pool -> Stages]
         /\ \A q \in Pool : Disabled[q] \in {"none", stage[q]}
  BY DEF Disabled, Stages, TimerInv, TypeOK

LEMMA AddToEmptyPreserves ==
  ASSUME TimerInv, NEW f \in Handlers, NEW ms \in Delays, AddToEmpty(f, ms), now' = now
  PROVE  TimerInv'
<1> USE DEF AddToEmpty
<1>1. File(f, ms)
  OBVIOUS
<1>0. /\ key' \in [Handlers -> Nat] /\ added' \subseteq Handlers
      /\ dict' \subseteq added' /\ armed' = TRUE
      /\ key'[f] = now + ms /\ now + ms \in Nat
      /\ f \notin dict /\ \A g \in Handlers \ {f} : key'[g] = key[g]
  BY <1>1, FilePreserves
<1>2. elapsed' = <<f, Control>> /\ dict' = {f} /\ due' = key'[f]
  <2>1. elapsed = <<>>
    BY DEF TimerInv, HeadSubscribed
  <2>2. QED
    BY <2>1, <1>1, FilePreserves, Pairs DEF Subscribe, File
<1>3. Earliest(key', dict') = f
  <2>1. f \in dict' /\ dict' \subseteq Handlers /\ \A g \in dict' \ {f} : key'[f] < key'[g]
    BY <1>2
  <2>2. QED
    BY <1>0, <2>1, EarliestUnique
<1>4. stage \in [Pool -> Stages] /\ calls \in [Pool -> Seq(Subscribers)]
  BY DEF TimerInv, TypeOK, Stages
<1>5. stage' \in [Pool -> Stages] /\ calls' \in [Pool -> Seq(Subscribers)]
  <2>1. {<<f>>} \subseteq Seq(Subscribers)
    BY Pairs
  <2>2. QED
    BY <1>4, <2>1, ExchangeTypes
<1>6. TypeOK'
  BY <1>1, <1>2, <1>5, FilePreserves, Pairs DEF TypeOK, Stages
<1>7. HeadSubscribed' /\ ArmedInTime'
  <2>1. dict' # {} /\ key'[f] = due' /\ armed' /\ due' \in Nat
    BY <1>0, <1>2
  <2>2. QED
    BY <1>2, <1>3, <2>1 DEF HeadSubscribed, ArmedInTime
<1>8. AloneInTime' /\ AloneIsAlone'
  <2>1. \A p \in alone : Idle(p)
    BY DEF TimerInv, AloneInTime, Idle
  <2>2. UNCHANGED alone
    BY DEF File
  <2>3. QED
    BY <1>4, <2>1, <2>2, ExchangeAlone
<1>9. QED
  BY <1>1, <1>6, <1>7, <1>8, FilePreserves DEF TimerInv

LEMMA AddBehindHeadPreserves ==
  ASSUME TimerInv, NEW f \in Handlers, NEW ms \in Delays, AddBehindHead(f, ms), now' = now
  PROVE  TimerInv'
<1> USE DEF AddBehindHead
<1> DEFINE e == Earliest(key, dict)
<1>1. File(f, ms)
  OBVIOUS
<1>0. /\ key' \in [Handlers -> Nat] /\ added' \subseteq Handlers
      /\ dict' \subseteq added' /\ armed' = TRUE
      /\ key'[f] = now + ms /\ now + ms \in Nat
      /\ f \notin dict /\ \A g \in Handlers \ {f} : key'[g] = key[g]
  BY <1>1, FilePreserves
<1>2. TypeOK /\ dict \subseteq Handlers
  BY DEF TimerInv, TypeOK
<1>3. e \in dict /\ \A g \in dict : key[e] <= key[g]
  BY <1>2, EarliestExists DEF TypeOK
<1>4. e \in dict' /\ key'[e] = key[e] /\ \A g \in dict' \ {e} : key'[e] < key'[g]
  <2>1. dict' = dict \cup {f} /\ key[e] # now + ms /\ now + ms >= key[e]
    BY <1>1, <1>3 DEF File
  <2>2. \A g \in dict \ {e} : key[e] < key[g]
    BY <1>2, <1>3 DEF TimerInv, KeysDistinct, TypeOK
  <2>3. key[e] \in Nat
    BY <1>2, <1>3 DEF TypeOK
  <2>4. QED
    <3>1. /\ e # f /\ e \in Handlers /\ e \in dict' /\ key'[e] = key[e]
      BY <1>0, <1>2, <1>3, <2>1
    <3>2. ASSUME NEW g \in dict' \ {e} PROVE key'[e] < key'[g]
      <4>1. CASE g = f
        BY <1>0, <2>1, <2>3, <3>1, <4>1
      <4>2. CASE g # f
        <5>1. g \in dict \ {e} /\ g \in Handlers /\ key'[g] = key[g]
          BY <1>0, <1>2, <2>1, <4>2
        <5>2. QED
          BY <2>2, <3>1, <5>1
      <4>3. QED
        BY <4>1, <4>2
    <3>3. QED
      BY <3>1, <3>2
<1>5. Earliest(key', dict') = e
  <2> HIDE DEF e
  <2>1. dict' \subseteq Handlers
    BY <1>1, FilePreserves
  <2>2. QED
    BY <1>1, <1>4, <2>1, FilePreserves, EarliestUnique
<1>6. due' \in Nat /\ key[e] <= due'
  BY <1>2, <1>3 DEF Later, TypeOK
<1>7. TypeOK'
  BY <1>1, <1>2, <1>6, FilePreserves, DisabledTypes DEF TypeOK, Stages
<1>8. HeadSubscribed'
  BY <1>1, <1>4, <1>5 DEF HeadSubscribed, TimerInv
<1>9. ArmedInTime'
  BY <1>1, <1>4, <1>5, <1>6, FilePreserves DEF ArmedInTime
<1>10. UNCHANGED <<calls, alone, runs, now>> /\ stage' = Disabled
  BY DEF File
<1>11. AloneInTime'
  <2> HIDE DEF e
  <2>1. SUFFICES ASSUME NEW p \in alone, stage'[p] # "none" \/ calls[p] # <<>>
                 PROVE  /\ key[e] <= now
                        /\ calls[p] # <<>> => \/ calls[p] = <<e, Control>>
                                              \/ calls[p] = <<Control>> /\ runs[e] > 0
    BY <1>4, <1>5, <1>10 DEF AloneInTime
  <2>2. p \in Pool
    BY <1>2 DEF TypeOK
  <2>3. stage'[p] # "none" => stage[p] # "none"
    BY <1>10, <2>2, DisabledTypes
  <2>4. QED
    BY <2>1, <2>3 DEF TimerInv, AloneInTime, e
<1>12. AloneIsAlone'
  <2>1. \A q \in Pool : stage'[q] \in {"none", stage[q]}
    BY <1>10, DisabledTypes
  <2>2. alone \subseteq Pool
    BY <1>2 DEF TypeOK
  <2>3. QED
    BY <1>10, <2>1, <2>2 DEF TimerInv, AloneIsAlone, Idle
<1>13. QED
  BY <1>1, <1>7, <1>8, <1>9, <1>11, <1>12, FilePreserves DEF TimerInv

LEMMA AddBeforeHeadPreserves ==
  ASSUME TimerInv, NEW f \in Handlers, NEW ms \in Delays, AddBeforeHead(f, ms), now' = now
  PROVE  TimerInv'
<1> USE DEF AddBeforeHead
<1> DEFINE e == Earliest(key, dict)
<1>1. File(f, ms)
  OBVIOUS
<1>0. /\ key' \in [Handlers -> Nat] /\ added' \subseteq Handlers
      /\ dict' \subseteq added' /\ armed' = TRUE
      /\ key'[f] = now + ms /\ now + ms \in Nat
      /\ f \notin dict /\ \A g \in Handlers \ {f} : key'[g] = key[g]
  BY <1>1, FilePreserves
<1>2. TypeOK /\ dict \subseteq Handlers
  BY DEF TimerInv, TypeOK
<1>3. e \in dict /\ e \in Handlers /\ \A g \in dict : key[e] <= key[g]
  BY <1>2, EarliestExists DEF TypeOK
<1>4. elapsed' = <<f, Control>>
  <2>1. elapsed = <<e, Control>>
    BY DEF TimerInv, HeadSubscribed
  <2>2. Unsubscribe(e) = <<>>
    BY <2>1, <1>3, DetachPair DEF Unsubscribe
  <2>3. QED
    BY <2>2, Pairs DEF Subscribe
<1>5. dict' = dict \cup {f} /\ f \in dict' /\ dict' \subseteq Handlers
  BY <1>1, <1>2 DEF File
<1>6. now + ms < key[e] /\ key[e] \in Nat /\ now + ms \in Nat
  BY <1>1, <1>2, <1>3, FilePreserves DEF TypeOK
<1>7. \A g \in dict' \ {f} : key'[f] < key'[g]
  <2>1. \A g \in dict : key[g] \in Nat
    BY <1>2 DEF TypeOK
  <2>2. QED
    <3>1. ASSUME NEW g \in dict' \ {f} PROVE key'[f] < key'[g]
      <4>1. g \in dict /\ g \in Handlers \ {f}
        BY <1>2, <1>5
      <4>2. key'[f] = now + ms /\ key'[g] = key[g] /\ key[e] <= key[g] /\ key[g] \in Nat
        BY <1>0, <1>3, <2>1, <4>1
      <4>3. QED
        BY <1>6, <4>2
    <3>2. QED
      BY <3>1
<1>8. Earliest(key', dict') = f
  BY <1>1, <1>5, <1>7, FilePreserves, EarliestUnique
<1>9. Disabled \in [Pool -> Stages] /\ calls \in [Pool -> Seq(Subscribers)]
  BY <1>2, DisabledTypes DEF TypeOK
<1>10. stage' \in [Pool -> Stages] /\ calls' \in [Pool -> Seq(Subscribers)]
  <2>1. {<<>>, <<Control>>, <<f>>} \subseteq Seq(Subscribers)
    BY Pairs
  <2>2. QED
    BY <1>9, <2>1, ExchangeTypes
<1>11. TypeOK'
  BY <1>1, <1>2, <1>4, <1>10, FilePreserves, Pairs DEF TypeOK, Stages
<1>12. HeadSubscribed' /\ ArmedInTime'
  <2>1. dict' # {} /\ key'[f] = due' /\ armed' /\ due' \in Nat
    BY <1>0, <1>5
  <2>2. QED
    BY <1>4, <1>8, <2>1 DEF HeadSubscribed, ArmedInTime
\* Nobody is about to run the first entry's handler, whose time is to come.
<1>13. AloneInTime' /\ AloneIsAlone'
  <2>1. ~ (key[e] <= now)
    BY <1>2, <1>6, DelaysAssumption DEF TypeOK
  <2>2. \A p \in alone : Idle(p)
    BY <2>1 DEF TimerInv, AloneInTime, Idle
  <2>3. UNCHANGED alone
    BY DEF File
  <2>4. \A q \in Pool : stage[q] = "none" => Disabled[q] = "none"
    BY DisabledTypes
  <2>5. QED
    BY <1>9, <2>2, <2>3, <2>4, ExchangeAlone
<1>14. QED
  BY <1>1, <1>11, <1>12, <1>13, FilePreserves DEF TimerInv

-----------------------------------------------------------------------------
LEMMA CallbackPreserves ==
  ASSUME TimerInv, NEW p \in Pool, Callback(p), now' = now
  PROVE  TimerInv'
<1> USE DEF Callback, Elapse, Admit, Disable, Snapshot
<1>1. TypeOK'
  <2>1. TypeOK
    BY DEF TimerInv
  <2>2. CASE Elapse(p)
    BY <2>1, <2>2 DEF TypeOK
  <2>3. CASE Admit(p) \/ Disable(p) \/ Snapshot(p)
    BY <2>1, <2>3 DEF TypeOK
  <2>4. QED
    BY <2>2, <2>3
<1>2. HeadSubscribed' /\ KeysDistinct'
  BY DEF TimerInv, HeadSubscribed, KeysDistinct
<1>3. dict # {} => key[Earliest(key, dict)] \in Nat /\ now \in Nat /\ due \in Nat
  BY EarliestExists DEF TimerInv, TypeOK
<1>4. ArmedInTime'
  BY <1>3 DEF TimerInv, ArmedInTime
<1>5. CASE Elapse(p)
  <2>1. /\ \A q \in Pool \ {p} : stage'[q] = stage[q]
        /\ stage'[p] = "queued" /\ calls' = calls /\ calls[p] = <<>>
    BY <1>5 DEF TimerInv, TypeOK, Idle
  <2>2. dict # {} => key[Earliest(key, dict)] <= now
    BY <1>3, <1>5 DEF TimerInv, ArmedInTime
  <2>3. UNCHANGED <<dict, key, now, runs>>
    BY <1>5
  <2>4. CASE dict # {} /\ \A q \in Pool : Idle(q)
    <3>1. alone' = {p}
      BY <1>5, <2>4
    <3>2. AloneInTime'
      BY <2>1, <2>2, <2>3, <2>4, <3>1 DEF AloneInTime
    <3>3. AloneIsAlone'
      BY <2>1, <2>4, <3>1 DEF AloneIsAlone, Idle
    <3>4. QED
      BY <3>2, <3>3, <1>1, <1>2, <1>4 DEF TimerInv
  <2>5. CASE ~ (dict # {} /\ \A q \in Pool : Idle(q))
    <3>1. alone' = {}
      BY <1>5, <2>5
    <3>2. QED
      BY <3>1, <1>1, <1>2, <1>4 DEF TimerInv, AloneInTime, AloneIsAlone
  <2>6. QED
    BY <2>4, <2>5
<1>6. CASE Admit(p) \/ Disable(p)
  <2>1. /\ \A q \in Pool \ {p} : stage'[q] = stage[q]
        /\ stage'[p] # "none" /\ stage[p] # "none"
        /\ UNCHANGED <<dict, key, now, runs, alone, calls>>
    BY <1>6 DEF TimerInv, TypeOK
  <2>2. alone \subseteq Pool
    BY DEF TimerInv, TypeOK
  <2>3. AloneInTime'
    BY <2>1, <2>2 DEF TimerInv, AloneInTime
  <2>4. AloneIsAlone'
    BY <2>1, <2>2 DEF TimerInv, AloneIsAlone, Idle
  <2>5. QED
    BY <2>3, <2>4, <1>1, <1>2, <1>4 DEF TimerInv
<1>7. CASE Snapshot(p)
  <2>1. /\ \A q \in Pool \ {p} : stage'[q] = stage[q] /\ calls'[q] = calls[q]
        /\ stage[p] # "none" /\ stage'[p] = "none" /\ calls'[p] = elapsed
        /\ UNCHANGED <<dict, key, now, runs, alone>>
    BY <1>7 DEF TimerInv, TypeOK
  <2>2. alone \subseteq {p}
    BY <2>1, OthersIdle
  <2>3. p \in alone => /\ dict # {} /\ key[Earliest(key, dict)] <= now
                       /\ elapsed = <<Earliest(key, dict), Control>>
    BY <2>1 DEF TimerInv, AloneInTime, HeadSubscribed
  <2>4. AloneInTime'
    BY <2>1, <2>2, <2>3 DEF AloneInTime
  <2>5. AloneIsAlone'
    BY <2>1, <2>2 DEF TimerInv, AloneIsAlone, Idle
  <2>6. QED
    BY <2>4, <2>5, <1>1, <1>2, <1>4 DEF TimerInv
<1>8. QED
  BY <1>5, <1>6, <1>7

\* A call that goes on keeps its type.
LEMMA AdvanceTypes ==
  ASSUME TypeOK, NEW p \in Pool, calls[p] # <<>>
  PROVE  [calls EXCEPT ![p] = Tail(@)] \in [Pool -> Seq(Subscribers)]
<1>1. calls[p] \in Seq(Subscribers)
  BY DEF TypeOK
<1>2. Tail(calls[p]) \in Seq(Subscribers)
  BY <1>1, HeadTailProperties
<1>3. QED
  BY <1>2 DEF TypeOK

\* A subscriber returns or throws: its call goes on or ends.
LEMMA CallPreserves ==
  ASSUME TimerInv, NEW p \in Pool, NEW f \in Handlers, now' = now,
         RunHandler(p, f) \/ HandlerThrows(p, f)
  PROVE  TimerInv'
<1> USE DEF RunHandler, HandlerThrows
<1>1. /\ UNCHANGED <<added, dict, key, elapsed, enabled, armed, due, stage, alone, now>>
      /\ calls[p] # <<>> /\ Head(calls[p]) = f /\ f # Control
  BY ControlAssumption DEF Calling
<1>2. TypeOK'
  <2>1. TypeOK /\ <<>> \in Seq(Subscribers)
    BY EmptySeq DEF TimerInv
  <2>2. QED
    <3>1. calls' \in [Pool -> Seq(Subscribers)]
      <4>1. CASE RunHandler(p, f)
        BY <1>1, <2>1, <4>1, AdvanceTypes
      <4>2. CASE HandlerThrows(p, f)
        BY <2>1, <4>2 DEF TypeOK
      <4>3. QED
        BY <4>1, <4>2
    <3>2. runs' \in [Handlers -> Nat]
      BY <2>1 DEF TypeOK
    <3>3. QED
      BY <1>1, <2>1, <3>1, <3>2 DEF TypeOK
<1>3. HeadSubscribed' /\ KeysDistinct' /\ ArmedInTime'
  BY <1>1 DEF TimerInv, HeadSubscribed, KeysDistinct, ArmedInTime
<1>4. alone \subseteq {p}
  BY <1>1, OthersIdle
<1>5. \A q \in Pool \ {p} : calls'[q] = calls[q]
  BY DEF TimerInv, TypeOK
<1>6. AloneIsAlone'
  BY <1>1, <1>4, <1>5 DEF TimerInv, AloneIsAlone, Idle
<1>7. AloneInTime'
  <2>1. SUFFICES ASSUME p \in alone
                 PROVE  /\ stage[p] = "none"
                        /\ calls'[p] # <<>> =>
                             /\ dict # {} /\ key[Earliest(key, dict)] <= now
                             /\ calls'[p] = <<Control>> /\ runs'[Earliest(key, dict)] > 0
    BY <1>1, <1>4 DEF AloneInTime
  <2>2. /\ stage[p] = "none" /\ dict # {} /\ key[Earliest(key, dict)] <= now
        /\ calls[p] = <<f, Control>> /\ f = Earliest(key, dict)
    BY <1>1, <2>1 DEF TimerInv, AloneInTime, AloneIsAlone
  <2>3. CASE RunHandler(p, f)
    BY <2>2, <2>3 DEF TimerInv, TypeOK
  <2>4. CASE HandlerThrows(p, f)
    BY <2>2, <2>4 DEF TimerInv, TypeOK
  <2>5. QED
    BY <2>3, <2>4
<1>8. QED
  BY <1>2, <1>3, <1>6, <1>7 DEF TimerInv

LEMMA RunControlPreserves ==
  ASSUME TimerInv, NEW p \in Pool, RunControl(p), now' = now
  PROVE  TimerInv'
<1> DEFINE e == Earliest(key, dict)
           rest == dict \ Dropped
           r == Earliest(key, rest)
           called == [calls EXCEPT ![p] = Tail(@)]
<1>1. called \in [Pool -> Seq(Subscribers)] /\ stage \in [Pool -> Stages]
  BY AdvanceTypes DEF TimerInv, TypeOK, RunControl, Calling, Stages
<1>2. TypeOK /\ rest \subseteq Handlers /\ rest \subseteq dict /\ dict \subseteq Handlers
  BY DEF TimerInv, TypeOK
<1>3. Remaining = <<>>
  <2>1. CASE dict = {}
    BY <2>1, DetachFromNone DEF Remaining, TimerInv, HeadSubscribed
  <2>2. CASE dict # {}
    <3>1. e \in Handlers
      BY <1>2, <2>2, EarliestExists DEF TypeOK
    <3>2. elapsed = <<e, Control>>
      BY <2>2 DEF TimerInv, HeadSubscribed
    <3>3. QED
      BY <2>2, <3>1, <3>2, DetachPair DEF Remaining, Unsubscribe
  <2>3. QED
    BY <2>1, <2>2
<1>4. dict' = rest /\ UNCHANGED <<added, key, runs, alone>>
  BY DEF RunControl
<1>5. KeysDistinct'
  BY <1>2, <1>4 DEF TimerInv, KeysDistinct
\* What the callbacks and calls are afterwards, and the subscribers.
<1>6. PICK partial \in SUBSET Seq(Subscribers) : Exchange(stage, called, partial)
  <2>1. CASE rest = {}
    <3>1. Exchange(stage, called, {<<Control>>})
      BY <2>1 DEF RunControl, Succeed
    <3>2. {<<Control>>} \in SUBSET Seq(Subscribers)
      BY DEF Subscribers
    <3>3. QED
      BY <3>1, <3>2
  <2>2. CASE rest # {}
    <3>1. Exchange(stage, called, {<<>>, <<Control>>, <<r>>})
      BY <2>2 DEF RunControl, Succeed
    <3>2. r \in Handlers
      BY <1>2, <2>2, EarliestExists DEF TypeOK
    <3>3. {<<>>, <<Control>>, <<r>>} \in SUBSET Seq(Subscribers)
      BY <3>2, Pairs
    <3>4. QED
      BY <3>1, <3>3
  <2>3. QED
    BY <2>1, <2>2
<1>7. stage' \in [Pool -> Stages] /\ calls' \in [Pool -> Seq(Subscribers)]
  <2> HIDE DEF called
  <2>1. QED
    BY <1>1, <1>6, ExchangeTypes
<1>8. AloneInTime' /\ AloneIsAlone'
  <2>1. calls[p] # <<>> /\ Head(calls[p]) = Control
    BY DEF RunControl, Calling
  <2>2. alone \subseteq {p}
    BY <2>1, OthersIdle
  <2>3. SUFFICES ASSUME p \in alone PROVE AloneInTime' /\ AloneIsAlone'
    BY <1>4, <2>2 DEF AloneInTime, AloneIsAlone
  <2>4. stage[p] = "none" /\ \A q \in Pool \ {p} : Idle(q)
    BY <2>1, <2>3 DEF TimerInv, AloneIsAlone
  <2>5. calls[p] = <<Control>>
    <3>1. dict # {} /\ e \in Handlers
      BY <1>2, <2>1, <2>3, EarliestExists DEF TimerInv, AloneInTime, TypeOK
    <3>2. e # Control
      BY <3>1, ControlAssumption
    <3>3. QED
      BY <2>1, <2>3, <3>2 DEF TimerInv, AloneInTime
  <2>6. stage' = stage /\ calls' = called
    <3> HIDE DEF called
    <3>1. \A q \in Pool : stage[q] # "disabled"
      BY <2>4 DEF Idle
    <3>2. QED
      BY <1>1, <1>6, <3>1, ExchangeUnseen
  <2>7. \A q \in Pool : Idle(q)'
    BY <1>2, <2>4, <2>5, <2>6 DEF Idle, TypeOK
  <2>8. QED
    BY <1>2, <1>4, <2>7 DEF AloneInTime, AloneIsAlone, Idle, TypeOK
<1>9. CASE rest = {}
  <2>1. elapsed' = <<>> /\ UNCHANGED <<enabled, armed, due>>
    BY <1>3, <1>9 DEF RunControl, Succeed
  <2>2. TypeOK'
    BY <1>2, <1>4, <1>7, <2>1, EmptySeq DEF TypeOK, Stages
  <2>3. HeadSubscribed' /\ ArmedInTime'
    BY <1>4, <1>9, <2>1 DEF HeadSubscribed, ArmedInTime
  <2>4. QED
    BY <1>5, <1>8, <2>2, <2>3 DEF TimerInv
<1>10. CASE rest # {}
  <2>1. r \in rest /\ r \in Handlers
    BY <1>2, <1>10, EarliestExists DEF TypeOK
  <2>2. /\ elapsed' = <<r, Control>> /\ due' = Later(now, key[r])
        /\ enabled' = TRUE /\ armed' = TRUE
    BY <1>3, <1>10, <2>1, Pairs DEF RunControl, Succeed, Subscribe
  <2>3. due' \in Nat /\ key[r] <= due'
    BY <2>1, <2>2, <1>2 DEF Later, TypeOK
  <2>4. TypeOK'
    BY <1>2, <1>4, <1>7, <2>1, <2>2, <2>3, Pairs DEF TypeOK, Stages
  <2>5. HeadSubscribed' /\ ArmedInTime'
    BY <1>4, <1>10, <2>2, <2>3 DEF HeadSubscribed, ArmedInTime
  <2>6. QED
    BY <1>5, <1>8, <2>4, <2>5 DEF TimerInv
<1>11. QED
  BY <1>9, <1>10

-----------------------------------------------------------------------------
LEMMA NextPreserves == TimerInv /\ [Next]_vars => TimerInv'
<1> SUFFICES ASSUME TimerInv, [Next]_vars PROVE TimerInv'
  OBVIOUS
<1>1. CASE Tick
  BY <1>1, TickPreserves
<1>2. ASSUME NEW f \in Handlers, NEW ms \in Delays, Add(f, ms), UNCHANGED now
      PROVE  TimerInv'
  BY <1>2, AddToEmptyPreserves, AddBehindHeadPreserves, AddBeforeHeadPreserves DEF Add
<1>3. ASSUME NEW p \in Pool, Raise(p), UNCHANGED now
      PROVE  TimerInv'
  <2>1. MayThrow \subseteq Handlers
    BY ControlAssumption
  <2>2. QED
    BY <1>3, <2>1, CallbackPreserves, CallPreserves, RunControlPreserves DEF Raise
<1>4. CASE UNCHANGED vars
  <2>1. TypeOK' /\ HeadSubscribed' /\ AloneInTime'
    BY <1>4 DEF vars, timerVars, TimerInv, TypeOK, HeadSubscribed, AloneInTime
  <2>2. KeysDistinct' /\ ArmedInTime' /\ AloneIsAlone'
    BY <1>4 DEF vars, timerVars, TimerInv, KeysDistinct, ArmedInTime, AloneIsAlone, Idle
  <2>3. QED
    BY <2>1, <2>2 DEF TimerInv
<1>5. QED
  BY <1>1, <1>2, <1>3, <1>4 DEF Next

\* The strengthened invariant holds in every reachable state, whatever the
\* order of Add, of overlapping callbacks and calls, and of exceptions.
THEOREM TimerInvariant == Spec => []TimerInv
  BY InitEstablishes, NextPreserves, PTL DEF Spec

\* The timer's variables keep their types.
THEOREM TypeCorrect == Spec => []TypeOK
<1>1. TimerInv => TypeOK
  BY DEF TimerInv
<1>2. QED
  BY <1>1, TimerInvariant, PTL

\* The subscribers of the timer are always the earliest entry and Control.
THEOREM HeadAlwaysSubscribed == Spec => []HeadSubscribed
<1>1. TimerInv => HeadSubscribed
  BY DEF TimerInv
<1>2. QED
  BY <1>1, TimerInvariant, PTL

\* A callback that no other meets runs the first entry's handler, not before
\* its delay has passed, and Control drops that entry.
THEOREM AloneRunsInTime == Spec => []AloneInTime
<1>1. TimerInv => AloneInTime
  BY DEF TimerInv
<1>2. QED
  BY <1>1, TimerInvariant, PTL

-----------------------------------------------------------------------------
\* Only the first entry's own exception can leave entries behind: otherwise
\* the timer is armed, or the call that will re-arm it is under way.
LEMMA NeverStrandedStep ==
  ASSUME TimerInv, NeverStranded, [Next]_vars
  PROVE  NeverStranded'
<1> DEFINE e == Earliest(key, dict)
           Awaited(q) == stage[q] # "none" \/ calls[q] \in {<<e, Control>>, <<Control>>}
<1>1. ASSUME NEW f \in Handlers, NEW ms \in Delays, Add(f, ms) PROVE NeverStranded'
  BY <1>1 DEF Add, AddToEmpty, AddBehindHead, AddBeforeHead, File, NeverStranded
<1>2. ASSUME NEW p \in Pool, Callback(p), UNCHANGED now PROVE NeverStranded'
  <2>1. UNCHANGED <<dict, key>>
    BY <1>2 DEF Callback, Elapse, Admit, Disable, Snapshot
  <2>2. SUFFICES ASSUME dict # {}
                 PROVE  \/ armed' \/ HeadMayThrow
                        \/ \E q \in Pool : \/ stage'[q] # "none"
                                           \/ calls'[q] \in {<<e, Control>>, <<Control>>}
    BY <1>2, <2>1 DEF NeverStranded, HeadMayThrow
  <2>3. CASE Snapshot(p)
    <3>1. calls'[p] = <<e, Control>>
      BY <2>2, <2>3 DEF Snapshot, TimerInv, HeadSubscribed, TypeOK
    <3>2. QED
      BY <3>1
  <2>4. CASE Elapse(p) \/ Admit(p) \/ Disable(p)
    <3>1. stage'[p] # "none"
      BY <2>4 DEF Elapse, Admit, Disable, TimerInv, TypeOK
    <3>2. QED
      BY <3>1
  <2>5. QED
    BY <1>2, <2>3, <2>4 DEF Callback
<1>3. ASSUME NEW p \in Pool, NEW f \in Handlers, UNCHANGED now,
             RunHandler(p, f) \/ (f \in MayThrow /\ HandlerThrows(p, f))
      PROVE  NeverStranded'
  <2>1. /\ UNCHANGED <<dict, key, armed, now, stage>>
        /\ calls[p] # <<>> /\ Head(calls[p]) = f /\ f # Control
    BY <1>3, ControlAssumption DEF RunHandler, HandlerThrows, Calling
  <2>2. SUFFICES ASSUME dict # {}, ~ armed, NEW q \in Pool, Awaited(q)
                 PROVE  HeadMayThrow \/ \E r \in Pool :
                          stage[r] # "none" \/ calls'[r] \in {<<e, Control>>, <<Control>>}
    BY <2>1 DEF NeverStranded, HeadMayThrow
  <2>3. CASE q # p \/ stage[q] # "none"
    BY <1>3, <2>2, <2>3 DEF RunHandler, HandlerThrows, TimerInv, TypeOK
  <2>4. CASE q = p /\ stage[q] = "none"
    <3>1. calls[p] = <<e, Control>> /\ e = f
      BY <2>1, <2>2, <2>4
    <3>2. CASE RunHandler(p, f)
      <4>1. calls'[p] = <<Control>>
        BY <3>1, <3>2 DEF RunHandler, TimerInv, TypeOK
      <4>2. QED
        BY <4>1
    <3>3. CASE f \in MayThrow
      BY <2>2, <3>1, <3>3 DEF HeadMayThrow, TimerInv, ArmedInTime
    <3>4. QED
      BY <1>3, <3>2, <3>3
  <2>5. QED
    BY <2>3, <2>4
<1>4. ASSUME NEW p \in Pool, RunControl(p) PROVE NeverStranded'
  BY <1>4 DEF RunControl, NeverStranded
<1>5. CASE Tick
  <2>1. UNCHANGED <<dict, key, armed, calls, stage>> /\ now' = now + 1
    BY <1>5 DEF Tick, timerVars
  <2>2. SUFFICES ASSUME dict # {}, HeadMayThrow PROVE HeadMayThrow'
    BY <2>1 DEF NeverStranded
  <2>3. e \in Handlers /\ key[e] \in Nat /\ now \in Nat
    BY <2>2, EarliestExists DEF TimerInv, TypeOK
  <2>4. QED
    BY <2>1, <2>2, <2>3 DEF HeadMayThrow
<1>6. CASE UNCHANGED vars
  BY <1>6 DEF vars, timerVars, NeverStranded, HeadMayThrow
<1>7. MayThrow \subseteq Handlers
  BY ControlAssumption
<1>8. QED
  BY <1>1, <1>2, <1>3, <1>4, <1>5, <1>6, <1>7 DEF Next, Raise

\* Entries are left behind only by an exception of the first one's handler.
THEOREM TimerNeverStranded == Spec => []NeverStranded
<1>1. Init => NeverStranded
  BY DEF Init, NeverStranded
<1>2. TimerInv /\ NeverStranded /\ [Next]_vars => NeverStranded'
  BY NeverStrandedStep
<1>3. QED
  BY <1>1, <1>2, TimerInvariant, PTL DEF Spec

-----------------------------------------------------------------------------
(* The task system.                                                         *)

\* Threads and closures have types of dishes.
TypesOfDishes == task \in [Workers -> DishTypes] /\ kind \in [Handlers -> DishTypes]

LEMMA TypesKept ==
  ASSUME TaskAssumption, TypesOfDishes, [TaskNext]_taskVars
  PROVE  TypesOfDishes'
<1> USE DEF TypesOfDishes
<1>1. Producer \in Workers /\ Pool \subseteq Workers /\ Teams \subseteq Workers /\ HandedIn \subseteq DishTypes
  BY DEF Workers, TaskAssumption
<1>2. CASE UNCHANGED <<task, kind>>
  BY <1>2
<1>3. ASSUME NEW t \in DishTypes, TaskProduce(t) PROVE TypesOfDishes'
  BY <1>1, <1>3 DEF TaskProduce, BeginAdd
<1>4. ASSUME NEW i \in Handlers, AddExpiry(i) PROVE TypesOfDishes'
  BY <1>1, <1>4 DEF AddExpiry
<1>5. ASSUME NEW p \in Pool, NEW i \in Handlers, Expire(p, i) PROVE TypesOfDishes'
  <2>1. CASE ExpiryStart(p, i)
    BY <1>1, <2>1 DEF ExpiryStart
  <2>2. CASE ExpiryStep(p, i) \/ ExpiryEnd(p, i) \/ ExpiryThrows(p, i)
    BY <2>2, <1>2 DEF ExpiryStep, ExpiryEnd, ExpiryThrows, RemoveTask, RemoveTaskThrows,
                      Load, Store, Test, TryRemove, Unpublish
  <2>3. QED
    BY <1>5, <2>1, <2>2 DEF Expire
<1>6. ASSUME NEW th \in Teams, NEW t \in HandedIn, HandInStart(th, t) PROVE TypesOfDishes'
  BY <1>1, <1>6 DEF HandInStart
<1>7. ASSUME NEW th \in Teams, HandInStep(th) PROVE UNCHANGED <<task, kind>>
  BY <1>7 DEF HandInStep, LookUp, RemoveTask, RemoveTaskThrows, Load, Store, Test, TryRemove, Unpublish
<1>8. CASE PutUp
  BY <1>8, <1>2 DEF PutUp, AddTask, TryAdd, Read, Write, Publish
<1>9. ASSUME NEW p \in Pool, TimerStep(p) PROVE UNCHANGED <<task, kind>>
  BY <1>9 DEF TimerStep, boardVars
<1>10. CASE (Tick /\ UNCHANGED <<boardVars, spicedPotNum, kind, open, raced>>) \/ UNCHANGED taskVars
  BY <1>10, <1>2 DEF boardVars, taskVars
<1>11. QED
  BY <1>2, <1>3, <1>4, <1>5, <1>6, <1>7, <1>8, <1>9, <1>10 DEF TaskNext

\* Every step of the task system is a step of the timer, or leaves it alone.
LEMMA TaskStepIsTimerStep ==
  ASSUME TaskAssumption, TypesOfDishes, [TaskNext]_taskVars
  PROVE  [Next]_vars
<1>1. CASE Tick
  BY <1>1 DEF Next
<1>2. ASSUME NEW i \in Handlers, AddExpiry(i) PROVE Next
  <2>1. TaskTime[task[Producer]] \in Delays
    BY DEF TaskAssumption, TypesOfDishes, Workers
  <2>2. QED
    BY <1>2, <2>1 DEF AddExpiry, Next
<1>3. ASSUME NEW p \in Pool, NEW i \in Handlers, Expire(p, i) PROVE [Next]_vars
  <2>1. CASE ExpiryStart(p, i) \/ ExpiryStep(p, i)
    BY <2>1 DEF ExpiryStart, ExpiryStep
  <2>2. CASE ExpiryEnd(p, i)
    BY <2>2 DEF ExpiryEnd, Next, Raise
  <2>3. CASE ExpiryThrows(p, i)
    BY <2>3 DEF ExpiryThrows, Next, Raise, TaskAssumption
  <2>4. QED
    BY <1>3, <2>1, <2>2, <2>3 DEF Expire
<1>4. ASSUME NEW p \in Pool, TimerStep(p) PROVE Next
  BY <1>4 DEF TimerStep, Next, Raise
<1>5. CASE \/ PutUp \/ UNCHANGED taskVars
           \/ \E t \in DishTypes : TaskProduce(t)
           \/ \E th \in Teams : HandInStep(th) \/ \E t \in HandedIn : HandInStart(th, t)
  BY <1>5 DEF PutUp, TaskProduce, HandInStep, HandInStart, taskVars
<1>6. QED
  BY <1>1, <1>2, <1>3, <1>4, <1>5 DEF TaskNext

\* The task system (TaskSystem.cs:52-72, 31-42), whatever its threads do to the
\* board, drives its MultiTaskTimer only through behaviours of the timer's
\* specification.
THEOREM TaskSystemUsesTimer ==
  ASSUME TaskAssumption
  PROVE  TaskSpec => Spec
<1>1. TaskInit => Init /\ TypesOfDishes
  <2>1. (CHOOSE t \in DishTypes : TRUE) \in DishTypes
    BY BoardAssumption
  <2>2. QED
    BY <2>1 DEF TaskInit, BoardInit, TypesOfDishes
<1>2. TypesOfDishes /\ [TaskNext]_taskVars => TypesOfDishes' /\ [Next]_vars
  BY TypesKept, TaskStepIsTimerStep
<1>3. QED
  BY <1>1, <1>2, PTL DEF TaskSpec, Spec

\* The expiry of a task whose callback no other meets is run when the limit of
\* the task has passed, and its entry is the one that goes (TaskSystem.cs:69).
THEOREM ExpiriesRunInTime ==
  ASSUME TaskAssumption
  PROVE  TaskSpec => []AloneInTime
  BY TaskSystemUsesTimer, AloneRunsInTime, PTL

\* Tasks are left in the timer only where the expiry of the first throws.
THEOREM ExpiriesNeverStranded ==
  ASSUME TaskAssumption
  PROVE  TaskSpec => []NeverStranded
  BY TaskSystemUsesTimer, TimerNeverStranded, PTL
=============================================================================
