--------------------------- MODULE MultiTaskTimer ---------------------------
(***************************************************************************)
(* logic/Logic.Server/Timer.cs, class MultiTaskTimer: any number of        *)
(* one-shot handlers share one System.Timers.Timer.  A sorted dictionary   *)
(* orders the handlers by deadline; the handler with the earliest deadline *)
(* is subscribed to the timer's Elapsed event, followed by Control, which  *)
(* drops that handler and subscribes the next one.                         *)
(*                                                                         *)
(* Add and Control run under privateLock and are one step each.  The event *)
(* itself takes no lock.  When the interval is over a callback is queued   *)
(* on the pool, which looks whether the timer was disabled since, sets     *)
(* Enabled to false, takes a snapshot of the subscribers and calls them    *)
(* one after the other.  Add and Control may fall between any two of these *)
(* steps, so that a callback may meet other subscribers than those for     *)
(* which the timer was armed, and may meet them while they are exchanged.  *)
(* An exception of a handler ends the call, and System.Timers.Timer        *)
(* swallows it: Control is then not called.                                *)
(***************************************************************************)
EXTENDS Integers, Sequences, SequencesExt

CONSTANTS
  Handlers,   \* the functions handed to Add; every call passes a new one
  Delays,     \* the values of Add's parameter milliseconds
  MayThrow,   \* the handlers that may end with an exception
  Control,    \* the bookkeeping subscriber of the class
  Pool,       \* the pool threads on which Elapsed is raised
  MaxTime     \* bound: no deadline lies later

ASSUME DelaysAssumption == Delays \subseteq Nat \ {0}
ASSUME MaxTimeAssumption == MaxTime \in Nat
ASSUME ControlAssumption == Control \notin Handlers /\ MayThrow \subseteq Handlers

VARIABLES
  now,        \* DateTime.Now
  added,      \* the handlers Add has been called with
  dict,       \* the handlers in the dictionary ...
  key,        \* ... and the deadline under which each was filed
  elapsed,    \* the subscribers of timer.Elapsed, in call order
  enabled,    \* timer.Enabled
  armed, due, \* whether the interval is running, and when it is over
  stage,      \* per pool thread: how far it is with a callback of the timer ...
  calls,      \* ... and the subscribers of its snapshot not yet called
  runs,       \* how often each handler has run to its end
  alone       \* history: the thread, if any, whose callback was queued for an
              \* entry when no other was under way, and none was queued since

timerVars == <<added, dict, key, elapsed, enabled, armed, due, stage, calls, runs, alone>>
vars == <<now, timerVars>>

Subscribers == Handlers \cup {Control}

-----------------------------------------------------------------------------
Later(s, t) == IF s < t THEN t ELSE s

\* The first of some entries of the SortedDictionary, filed under deadlines k.
Earliest(k, entries) ==
  CHOOSE f \in entries : \A g \in entries : k[f] <= k[g]

\* `event -= handler' removes the last occurrence of the handler.
Detach(subscribers, handler) ==
  LET at == {i \in 1..Len(subscribers) : subscribers[i] = handler}
  IN  IF at = {} THEN subscribers ELSE RemoveAt(subscribers, Max(at))

\* Mutant of Unsubscribe: Control stays subscribed.
UnsubscribeHandlerOnly(f) == Detach(elapsed, f)

Unsubscribe(f) == Detach(Detach(elapsed, f), Control)

Subscribe(subscribers, f) == subscribers \o <<f, Control>>

Init ==
  /\ now = 0
  /\ added = {} /\ dict = {}
  /\ key = [f \in Handlers |-> 0]
  /\ elapsed = <<>>
  /\ enabled = FALSE
  /\ armed = FALSE /\ due = 0
  /\ stage = [p \in Pool |-> "none"]
  /\ calls = [p \in Pool |-> <<>>]
  /\ runs = [f \in Handlers |-> 0]
  /\ alone = {}

Tick ==
  /\ now < MaxTime
  /\ now' = now + 1
  /\ UNCHANGED timerVars

-----------------------------------------------------------------------------
\* `+=' and `-=' exchange the subscribers one by one, which a thread that takes
\* its snapshot without the lock may see: calls' and stage' are what cs and st
\* are but for such threads, of which each has got one of the lists `partial'.
Exchange(st, cs, partial) ==
  \E Q \in SUBSET {q \in Pool : st[q] = "disabled"} : \E seen \in [Q -> partial] :
    /\ stage' = [q \in Pool |-> IF q \in Q THEN "none" ELSE st[q]]
    /\ calls' = [q \in Pool |-> IF q \in Q THEN seen[q] ELSE cs[q]]

\* `timer.Enabled = false' takes a callback back that has not yet looked, but
\* does nothing where it is false already.
Disabled ==
  [p \in Pool |-> IF enabled /\ stage[p] = "queued" THEN "none" ELSE stage[p]]

\* Add: deadlines are DateTime ticks of 100 ns; two entries never share one.
File(f, ms) ==
  /\ f \notin added
  /\ now + ms <= MaxTime
  /\ \A g \in dict : key[g] # now + ms
  /\ added' = added \cup {f}
  /\ dict' = dict \cup {f}
  /\ key' = [key EXCEPT ![f] = now + ms]
  /\ enabled' = TRUE /\ armed' = TRUE
  /\ UNCHANGED <<runs, alone>>

AddToEmpty(f, ms) ==
  /\ dict = {}
  /\ File(f, ms)
  /\ elapsed' = Subscribe(elapsed, f)
  /\ Exchange(stage, calls, {<<f>>})
  /\ due' = now + ms

\* Mutant of AddBehindHead: the timer is re-armed for at once.
AddBehindHeadAtOnce(f, ms) ==
  /\ dict # {}
  /\ now + ms >= key[Earliest(key, dict)]
  /\ File(f, ms)
  /\ due' = now
  /\ stage' = Disabled
  /\ UNCHANGED <<elapsed, calls>>

\* The head stays; the timer is re-armed for it, at once if it is overdue.
AddBehindHead(f, ms) ==
  /\ dict # {}
  /\ now + ms >= key[Earliest(key, dict)]
  /\ File(f, ms)
  /\ due' = Later(now, key[Earliest(key, dict)])
  /\ stage' = Disabled
  /\ UNCHANGED <<elapsed, calls>>

AddBeforeHead(f, ms) ==
  /\ dict # {}
  /\ now + ms < key[Earliest(key, dict)]
  /\ File(f, ms)
  /\ elapsed' = Subscribe(Unsubscribe(Earliest(key, dict)), f)
  /\ Exchange(Disabled, calls, {<<>>, <<Control>>, <<f>>})
  /\ due' = now + ms

Add(f, ms) == AddToEmpty(f, ms) \/ AddBehindHead(f, ms) \/ AddBeforeHead(f, ms)

-----------------------------------------------------------------------------
Idle(p) == stage[p] = "none" /\ calls[p] = <<>>

\* AutoReset is false: the interval runs once.  Nothing stops it but its end,
\* so that it may end after the last entry has gone, too.
Elapse(p) ==
  /\ armed /\ due <= now
  /\ Idle(p)
  /\ stage' = [stage EXCEPT ![p] = "queued"]
  /\ armed' = FALSE
  /\ alone' = IF dict # {} /\ \A q \in Pool : Idle(q) THEN {p} ELSE {}
  /\ UNCHANGED <<added, dict, key, elapsed, enabled, due, calls, runs>>

\* The callback goes on if the timer was not disabled since it was queued ...
Admit(p) ==
  /\ stage[p] = "queued"
  /\ stage' = [stage EXCEPT ![p] = "admitted"]
  /\ UNCHANGED <<added, dict, key, elapsed, enabled, armed, due, calls, runs, alone>>

\* ... sets Enabled to false, whatever the timer was armed for since ...
Disable(p) ==
  /\ stage[p] = "admitted"
  /\ stage' = [stage EXCEPT ![p] = "disabled"]
  /\ enabled' = FALSE
  /\ UNCHANGED <<added, dict, key, elapsed, armed, due, calls, runs, alone>>

\* ... and reads the subscribers.
Snapshot(p) ==
  /\ stage[p] = "disabled"
  /\ stage' = [stage EXCEPT ![p] = "none"]
  /\ calls' = [calls EXCEPT ![p] = elapsed]
  /\ UNCHANGED <<added, dict, key, elapsed, enabled, armed, due, runs, alone>>

Calling(p, s) == calls[p] # <<>> /\ Head(calls[p]) = s

RunHandler(p, f) ==
  /\ Calling(p, f)
  /\ calls' = [calls EXCEPT ![p] = Tail(@)]
  /\ runs' = [runs EXCEPT ![f] = @ + 1]
  /\ UNCHANGED <<added, dict, key, elapsed, enabled, armed, due, stage, alone>>

HandlerThrows(p, f) ==
  /\ Calling(p, f)
  /\ calls' = [calls EXCEPT ![p] = <<>>]
  /\ UNCHANGED <<added, dict, key, elapsed, enabled, armed, due, stage, runs, alone>>

\* The entry the body drops; `dict.Remove(default)' of an empty dictionary
\* removes nothing.
Dropped == IF dict = {} THEN {} ELSE {Earliest(key, dict)}

\* ... and what stays subscribed when that entry and Control are detached.
Remaining == IF dict = {} THEN Detach(elapsed, Control) ELSE Unsubscribe(Earliest(key, dict))

\* What becomes of the subscribers.
Succeed(p, rest) ==
  LET called == [calls EXCEPT ![p] = Tail(@)]
  IN  IF rest = {}
        THEN elapsed' = Remaining /\ Exchange(stage, called, {<<Control>>})
        ELSE /\ elapsed' = Subscribe(Remaining, Earliest(key, rest))
             /\ Exchange(stage, called, {<<>>, <<Control>>, <<Earliest(key, rest)>>})

\* Mutant of RunControl: the interval is left at what it was.
RunControlOldInterval(p) ==
  LET rest == dict \ Dropped
  IN  /\ Calling(p, Control)
      /\ dict' = rest
      /\ Succeed(p, rest)
      /\ IF rest = {}
           THEN UNCHANGED <<enabled, armed>>
           ELSE enabled' = TRUE /\ armed' = TRUE
      /\ UNCHANGED <<added, key, due, runs, alone>>

\* Mutant of RunControl: the timer is not enabled again.
RunControlDisabled(p) ==
  LET rest == dict \ Dropped
  IN  /\ Calling(p, Control)
      /\ dict' = rest
      /\ Succeed(p, rest)
      /\ UNCHANGED <<added, key, enabled, armed, due, runs, alone>>

RunControl(p) ==
  LET rest == dict \ Dropped
  IN  /\ Calling(p, Control)
      /\ dict' = rest
      /\ Succeed(p, rest)
      /\ IF rest = {}
           THEN UNCHANGED <<enabled, armed, due>>
           ELSE /\ due' = Later(now, key[Earliest(key, rest)])
                /\ enabled' = TRUE /\ armed' = TRUE
      /\ UNCHANGED <<added, key, runs, alone>>

Callback(p) == Elapse(p) \/ Admit(p) \/ Disable(p) \/ Snapshot(p)

Raise(p) ==
  \/ Callback(p)
  \/ \E f \in Handlers : RunHandler(p, f)
  \/ \E f \in MayThrow : HandlerThrows(p, f)
  \/ RunControl(p)

Next ==
  \/ Tick
  \/ (\E f \in Handlers, ms \in Delays : Add(f, ms)) /\ UNCHANGED now
  \/ (\E p \in Pool : Raise(p)) /\ UNCHANGED now

\* Time passes and the pool runs what is due.
Fairness ==
  /\ WF_vars(Tick)
  /\ \A p \in Pool : WF_vars(Raise(p) /\ UNCHANGED now)

Spec == Init /\ [][Next]_vars
FairSpec == Spec /\ Fairness

-----------------------------------------------------------------------------
TypeOK ==
  /\ now \in Nat /\ due \in Nat
  /\ added \subseteq Handlers /\ dict \subseteq added
  /\ key \in [Handlers -> Nat]
  /\ elapsed \in Seq(Subscribers)
  /\ enabled \in BOOLEAN /\ armed \in BOOLEAN
  /\ stage \in [Pool -> {"none", "queued", "admitted", "disabled"}]
  /\ calls \in [Pool -> Seq(Subscribers)]
  /\ runs \in [Handlers -> Nat]
  /\ alone \subseteq Pool

\* Whenever privateLock is free, the subscribers are the entry with the
\* earliest deadline and Control, once each, in this order (Timer.cs:39-49,
\* 76-77, 103-107): whatever the order of Add and overlapping Elapsed calls,
\* no handler and no Control stays attached when its entry is gone.
HeadSubscribed ==
  elapsed = IF dict = {} THEN <<>> ELSE <<Earliest(key, dict), Control>>

\* A callback that was queued for an entry and that no other met calls the
\* handler of the first entry, when its delay has passed, and Control then
\* drops that very entry, which has run (Timer.cs:31-58, 67-112), whatever is
\* added before, between and after.  Of callbacks that meet nothing of the
\* kind is so: the second may call a handler early, or call one again, and its
\* Control may drop an entry that nobody has run.
AloneInTime ==
  \A p \in alone :
    /\ stage[p] # "none" => dict # {} /\ key[Earliest(key, dict)] <= now
    /\ calls[p] # <<>> =>
         /\ dict # {} /\ key[Earliest(key, dict)] <= now
         /\ \/ calls[p] = <<Earliest(key, dict), Control>>
            \/ calls[p] = <<Control>> /\ runs[Earliest(key, dict)] > 0

\* The inductive strengthening of HeadSubscribed and AloneInTime: deadlines are
\* distinct, the timer is never armed for a moment before the first deadline
\* and stops running only when that has passed, and who is alone is so.
KeysDistinct == \A f, g \in dict : key[f] = key[g] => f = g

ArmedInTime ==
  dict # {} => key[Earliest(key, dict)] <= IF armed THEN due ELSE now

AloneIsAlone ==
  \A p \in alone, q \in Pool :
    /\ q # p => Idle(q)
    /\ stage[p] = "none" \/ calls[p] = <<>>

TimerInv ==
  /\ TypeOK /\ HeadSubscribed /\ AloneInTime
  /\ KeysDistinct /\ ArmedInTime /\ AloneIsAlone

\* The first entry is one whose handler may throw, and its time has come.
HeadMayThrow ==
  /\ Earliest(key, dict) \in MayThrow
  /\ key[Earliest(key, dict)] <= now

\* Only a handler that throws, and so keeps Control from being called, can
\* leave entries behind (Timer.cs:67-112): in every other case the timer is
\* armed, a callback is about to read the subscribers, or a call is under way
\* that runs at most the first entry's handler and then Control, whatever
\* callbacks and calls of old snapshots overlap it.
NeverStranded ==
  dict # {} =>
    \/ armed
    \/ HeadMayThrow
    \/ \E p \in Pool : \/ stage[p] # "none"
                       \/ calls[p] \in {<<Earliest(key, dict), Control>>, <<Control>>}

\* Every entry leaves the dictionary, unless a handler that may throw is first
\* (Timer.cs:31-112).
EntriesDrain == \A f \in Handlers : f \in dict ~> f \notin dict \/ HeadMayThrow
=============================================================================
